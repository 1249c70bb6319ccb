--------------------------- MODULE PublicActions ---------------------------
(***************************************************************************)
(* Public (read-only) actions of one session on their way to the page and  *)
(* back:                                                                   *)
(*   crates/live-bridge/src/lib.rs and cancellable_lib.rs (queue, claims,  *)
(*     ActionCancellationAuthority),                                       *)
(*   crates/control/src/runtime.rs, action_cancellation.rs and             *)
(*     fresh_snapshot.rs (handlers and the waiting caller),                *)
(*   apps/desktop/src-tauri/src/lib.rs (the worker inside the page).       *)
(* The consequential actions of ManagedConsequential use the same queue;   *)
(* here the subject is the queue, its limits and its cancellations.        *)
(***************************************************************************)
EXTENDS BoundedQueues

CONSTANTS
  PublicIds,         \* actions, each enqueued once
  PublicCapacity,    \* action_capacity and result_capacity
  PublicBatch,       \* the limit of a take
  PublicTombstones   \* MAX_CANCELLED_TOMBSTONES

ASSUME PublicConstants ==
  PublicCapacity \in Nat \ {0} /\ PublicBatch \in Nat \ {0} /\ PublicTombstones \in Nat

VARIABLES
  aQueue, aInflight, aClaimed,   \* SessionBridgeState.actions, inflight, claimed
  aResults,                      \* SessionBridgeState.results: id and ok
  aStarted,                      \* action_started_at
  aLife, aQueued, aCancelled,    \* ActionCancellationAuthority
  aPage,      \* pendingActions of the page, in the order of insertion
  aStep,      \* how far the first of them is; the others wait for it
  aHandler,   \* results whose handler has claimed the origin and awaits
  aWaiter,    \* the caller that enqueued an action and waits for its result
  aAsked,     \* what the last cancellation was answered
  aRan        \* actions the page executed (a history)

aStore == <<aQueue, aInflight, aClaimed, aResults, aStarted>>
aAuthority == <<aLife, aQueued, aCancelled>>
aClients == <<aPage, aStep, aHandler, aWaiter, aAsked, aRan>>
publicVars == <<aStore, aAuthority, aClients>>

\* The action the worker is at, and the worker once it is done with it.
PublicHead == Head(aPage)
page_done == aPage' = Tail(aPage) /\ aStep' = "taken"

PublicAuthority(life, queued, order) ==
  LET gone == Pruned(order, queued, PublicTombstones)
  IN  /\ aQueued' = queued
      /\ aCancelled' = Without(order, gone)
      /\ aLife' = LifeWithout(life, gone)

-----------------------------------------------------------------------------
\* enqueue_action: the oldest queued action gives way.
enqueue_action(r) ==
  LET kept == Bounded(Append(aQueued, r), PublicCapacity)
  IN  /\ aWaiter[r] = "none"
      /\ aQueue' = Bounded(Append(aQueue, r), PublicCapacity)
      /\ PublicAuthority(Evicted([aLife EXCEPT ![r] = "pending"], kept), kept, aCancelled)
      /\ aWaiter' = [aWaiter EXCEPT ![r] = "waiting"]
      /\ UNCHANGED <<aInflight, aClaimed, aResults, aStarted, aPage, aStep, aHandler, aAsked, aRan>>

\* enqueue_prebound_public_action: an id the bridge remembers, and a full
\* queue, are refused.
enqueue_prebound_public_action(r) ==
  /\ aWaiter[r] = "none"
  /\ Len(aQueue) < PublicCapacity
  /\ r \notin ToSet(aQueue) \cup ToSet(aInflight) \cup ToSet(aClaimed) \cup aStarted
  /\ \A k \in DOMAIN aResults : aResults[k].id # r
  /\ aQueue' = Append(aQueue, r)
  /\ PublicAuthority([aLife EXCEPT ![r] = "pending"], Append(aQueued, r), aCancelled)
  /\ aWaiter' = [aWaiter EXCEPT ![r] = "waiting"]
  /\ UNCHANGED <<aInflight, aClaimed, aResults, aStarted, aPage, aStep, aHandler, aAsked, aRan>>

\* take_public_actions with rememberTakenActions: a drained action that is
\* cancelled or unknown is consumed; a lost answer loses the batch.  The page
\* takes only when it holds nothing.
take_public_actions ==
  LET taken  == SubSeq(aQueue, 1, Least(PublicBatch, Len(aQueue)))
      ready  == {r \in PublicIds : aLife[r] = "pending"}
      handed == Without(taken, PublicIds \ ready)
      lost   == ToSet(taken) \ ready
      flight == Bounded(aInflight \o taken, PublicCapacity)
  IN  /\ aPage = <<>>
      /\ taken # <<>>
      /\ aQueue' = SubSeq(aQueue, Len(taken) + 1, Len(aQueue))
      /\ aInflight' = Without(flight, lost)
      /\ aStarted' = (aStarted \cup ToSet(taken)) \ (lost \cap ToSet(flight))
      /\ PublicAuthority([r \in PublicIds |-> IF Contains(handed, r) THEN "inflight" ELSE aLife[r]],
                         Without(aQueued, ToSet(taken)), aCancelled)
      /\ \/ aPage' = handed
         \/ UNCHANGED aPage
      /\ UNCHANGED <<aStep, aClaimed, aResults, aHandler, aWaiter, aAsked, aRan>>

-----------------------------------------------------------------------------
(***************************************************************************)
(* processPendingAction.  Any of its calls may fail: the entry stays where *)
(* it is, the tick ends and the next one tries again (a stuttering step).  *)
(***************************************************************************)
cancellation_check ==
  /\ aPage # <<>> /\ aStep \in {"taken", "executed", "reporting"}
  /\ aStep' = IF aLife[PublicHead] = "cancellation_requested" THEN "cancellationSeen"
              ELSE IF aStep = "taken" THEN "running" ELSE "reporting"
  /\ UNCHANGED <<aPage, aStore, aAuthority, aHandler, aWaiter, aAsked, aRan>>

execute_action ==
  /\ aStep = "running"
  /\ aStep' = "executed"
  /\ aRan' = aRan \cup {PublicHead}
  /\ UNCHANGED <<aPage, aStore, aAuthority, aHandler, aWaiter, aAsked>>

\* acknowledge_action_cancellation.  CONFLICT leaves the entry in the page.
acknowledge_action_cancellation ==
  LET r == PublicHead IN
  /\ aStep = "cancellationSeen"
  /\ \/ /\ aLife[r] = "cancellation_requested"
        /\ aInflight' = Without(aInflight, {r})
        /\ aStarted' = IF Contains(aInflight, r) THEN aStarted \ {r} ELSE aStarted
        /\ PublicAuthority([aLife EXCEPT ![r] = "cancelled"], aQueued, Append(aCancelled, r))
        /\ \/ page_done
           \/ UNCHANGED <<aPage, aStep>>
     \/ /\ aLife[r] = "cancelled"
        /\ page_done
        /\ UNCHANGED <<aInflight, aStarted, aAuthority>>
  /\ UNCHANGED <<aQueue, aClaimed, aResults, aHandler, aWaiter, aAsked, aRan>>

\* Mutant: a result claims its origin whatever became of the action.
claim_ignoring_cancellation ==
  LET r == PublicHead IN
  /\ aStep = "reporting"
  /\ Contains(aInflight, r)
  /\ aInflight' = Without(aInflight, {r})
  /\ aClaimed' = Bounded(Append(aClaimed, r), PublicCapacity)
  /\ aLife' = [aLife EXCEPT ![r] = "none"]
  /\ aHandler' = aHandler \cup {r}
  /\ page_done
  /\ UNCHANGED <<aQueue, aResults, aStarted, aQueued, aCancelled, aWaiter, aAsked, aRan>>

\* claim_action: from here on the action cannot be cancelled.  A result
\* without an origin is CONFLICT, which ends the report as an answer does; a
\* lost answer leaves the page reporting.
claim_action ==
  LET r == PublicHead IN
  /\ aStep = "reporting"
  /\ IF aLife[r] \in {"inflight", "none"} /\ Contains(aInflight, r)
       THEN /\ aInflight' = Without(aInflight, {r})
            /\ aClaimed' = Bounded(Append(aClaimed, r), PublicCapacity)
            /\ aLife' = [aLife EXCEPT ![r] = "none"]
            /\ aQueued' = Without(aQueued, {r})
            /\ aHandler' = aHandler \cup {r}
            /\ \/ page_done
               \/ UNCHANGED <<aPage, aStep>>
       ELSE /\ page_done
            /\ UNCHANGED <<aInflight, aClaimed, aLife, aQueued, aHandler>>
  /\ UNCHANGED <<aQueue, aResults, aStarted, aCancelled, aWaiter, aAsked, aRan>>

\* sanitize_result_for_storage and the projections of the caller: a payload
\* that breaks their bounds is stored as a failure.
sanitize_result_for_storage == BOOLEAN

\* complete_action, after git and the evidence store were awaited: a result
\* whose claim is gone by then is stored all the same.
complete_action(r) ==
  /\ r \in aHandler
  /\ aClaimed' = Without(aClaimed, {r})
  /\ aStarted' = IF Contains(aClaimed, r) THEN aStarted \ {r} ELSE aStarted
  /\ \E ok \in sanitize_result_for_storage : aResults' = Bounded(Append(aResults, [id |-> r, ok |-> ok]), PublicCapacity)
  /\ aHandler' = aHandler \ {r}
  /\ UNCHANGED <<aQueue, aInflight, aAuthority, aPage, aStep, aWaiter, aAsked, aRan>>

-----------------------------------------------------------------------------
\* request_action_cancellation, the handler cancel_action.
cancel_action(r) ==
  /\ aLife[r] \in {"pending", "inflight"}
  /\ IF aLife[r] = "pending"
       THEN /\ PublicAuthority([aLife EXCEPT ![r] = "cancelled"], aQueued, Append(aCancelled, r))
            /\ aAsked' = [aAsked EXCEPT ![r] = "cancelled"]
       ELSE /\ aLife' = [aLife EXCEPT ![r] = "cancellation_requested"]
            /\ aAsked' = [aAsked EXCEPT ![r] = "requested"]
            /\ UNCHANGED <<aQueued, aCancelled>>
  /\ UNCHANGED <<aStore, aPage, aStep, aHandler, aWaiter, aRan>>

\* wait_for_matching_result: 650 ms, and nothing is cancelled at the end.
wait_for_matching_result(r) ==
  /\ aWaiter[r] = "waiting"
  /\ aWaiter' = [aWaiter EXCEPT ![r] = "done"]
  /\ UNCHANGED <<aStore, aAuthority, aPage, aStep, aHandler, aAsked, aRan>>

\* discard_public_actions_for_session, when the executor of a session changes
\* (clear_ and ensure_managed_surface_action_authority).
discard_public_actions_for_session ==
  /\ aQueue' = <<>> /\ aInflight' = <<>> /\ aClaimed' = <<>> /\ aStarted' = {}
  /\ aLife' = [r \in PublicIds |-> "none"] /\ aQueued' = <<>> /\ aCancelled' = <<>>
  /\ UNCHANGED <<aResults, aClients>>

\* The page is reloaded: its worker starts with nothing.
page_reload ==
  /\ aPage' = <<>> /\ aStep' = "taken"
  /\ UNCHANGED <<aStore, aAuthority, aHandler, aWaiter, aAsked, aRan>>

-----------------------------------------------------------------------------
PublicInit ==
  /\ aQueue = <<>> /\ aInflight = <<>> /\ aClaimed = <<>> /\ aResults = <<>> /\ aStarted = {}
  /\ aLife = [r \in PublicIds |-> "none"] /\ aQueued = <<>> /\ aCancelled = <<>>
  /\ aPage = <<>> /\ aStep = "taken" /\ aHandler = {}
  /\ aWaiter = [r \in PublicIds |-> "none"]
  /\ aAsked = [r \in PublicIds |-> "none"] /\ aRan = {}

\* The page goes through the actions it holds, every 140 ms.
PublicPageStep ==
  \/ take_public_actions \/ cancellation_check \/ execute_action
  \/ acknowledge_action_cancellation \/ claim_action

PublicNext ==
  \/ PublicPageStep \/ discard_public_actions_for_session \/ page_reload
  \/ \E r \in PublicIds :
       \/ enqueue_action(r) \/ enqueue_prebound_public_action(r) \/ complete_action(r)
       \/ cancel_action(r) \/ wait_for_matching_result(r)

\* The page goes on ticking and its calls do not fail for ever.
PublicFairness ==
  /\ WF_publicVars(cancellation_check /\ aStep # "reporting") /\ WF_publicVars(execute_action)
  /\ SF_publicVars(acknowledge_action_cancellation /\ page_done)
  /\ SF_publicVars(claim_action /\ page_done)

PublicSpec == PublicInit /\ [][PublicNext]_publicVars /\ PublicFairness

-----------------------------------------------------------------------------
\* What the queues, the authority, the page and the callers range over, and the
\* bounds the bridge keeps on them.
PublicTypeOK ==
  LET Lists == Seq(PublicIds)
      Outcomes == [id : PublicIds, ok : BOOLEAN]
  IN  /\ {aQueue, aInflight, aClaimed, aQueued, aCancelled, aPage} \subseteq Lists
      /\ \A s \in {aQueue, aInflight, aClaimed} : Len(s) <= PublicCapacity
      /\ aResults \in Seq(Outcomes) /\ Len(aResults) <= PublicCapacity
      /\ aStarted \cup aHandler \cup aRan \subseteq PublicIds
      /\ aLife \in [PublicIds ->
                    {"none", "pending", "inflight", "cancellation_requested", "cancelled"}]
      /\ aStep \in {"taken", "running", "executed", "cancellationSeen", "reporting"}
      /\ aStep # "taken" => aPage # <<>>
      /\ aWaiter \in [PublicIds -> {"none", "waiting", "done"}]
      /\ aAsked \in [PublicIds -> {"none", "cancelled", "requested"}]

\* The queue and the cancellation authority hold the same actions, and an
\* action that is in flight can still be cancelled or is being cancelled.
PublicRecordsAgree ==
  /\ aQueue = aQueued
  /\ \A r \in ToSet(aInflight) : aLife[r] \in {"inflight", "cancellation_requested"}
  /\ ToSet(aInflight) \cap ToSet(aClaimed) = {}

\* An action whose caller was told "cancelled" is never executed by the page,
\* and one told "requested" leaves no result: the claim that beats the
\* cancellation makes the caller hear "not found" instead.
CancelledLeavesNoResult ==
  \A r \in PublicIds :
    /\ aAsked[r] = "cancelled" => r \notin aRan
    /\ aAsked[r] # "none" => r \notin aHandler /\ \A k \in DOMAIN aResults : aResults[k].id # r

\* The worker of the page does not keep an action for good: it takes new ones
\* only when it holds none.
\* The code does not keep this (README.md, Where code and text disagree).
PageLetsGo == aPage # <<>> ~> aPage = <<>>

=============================================================================
