--------------------------- MODULE NativeExecutor ---------------------------
(***************************************************************************)
(* Requests for native visual work of one session:                         *)
(*   crates/live-bridge/src/lib.rs (the queues),                           *)
(*   crates/live-bridge/src/cancellable_lib.rs (CancellationAuthority),    *)
(*   crates/control/src/native_executor.rs and native_cancellation.rs (the *)
(*     handlers and the waiting caller),                                   *)
(*   apps/desktop/src-tauri/src/native_executor_worker.rs (the worker).    *)
(*                                                                         *)
(* The cancellation authority and the queues are two records of the same   *)
(* requests, updated together under the authority's lock.  An operation of *)
(* the bridge is one step; a handler that calls several is several steps.  *)
(***************************************************************************)
EXTENDS BoundedQueues

CONSTANTS
  NativeRequests,      \* requests that may be enqueued, each once
  NativeCapacity,      \* action_capacity, also the capacity for results
  NativeBatch,         \* MAX_NATIVE_EXECUTOR_POLL_BATCH
  NativeTombstones,    \* MAX_CANCELLED_TOMBSTONES
  NativeAttempts       \* RESULT_POST_ATTEMPTS

ASSUME NativeConstants ==
  /\ NativeCapacity \in Nat \ {0} /\ NativeBatch \in Nat \ {0}
  /\ NativeTombstones \in Nat /\ NativeAttempts \in Nat \ {0}

VARIABLES
  nQueue,      \* native_executor_requests
  nInflight,   \* native_executor_inflight
  nClaimed,    \* native_executor_claimed
  nResults,    \* native_executor_results
  nLife,       \* CancellationAuthority.requests, "none" without an entry
  nQueued,     \* CancellationAuthority.queued
  nCancelled,  \* CancellationAuthority.cancelled_order
  nOld,        \* requests created before the cutoff of the next poll
  nWaiter,     \* the caller of a request
  nWorker,     \* the desktop worker
  nAsked       \* what the last request for a cancellation was answered

nStore == <<nQueue, nInflight, nClaimed, nResults>>
nAuthority == <<nLife, nQueued, nCancelled>>
nativeVars == <<nStore, nAuthority, nOld, nWaiter, nWorker, nAsked>>

NativeActive == nInflight \cup nClaimed

\* prune_cancelled_tombstones, after life, queued and order are updated.
NativeAuthority(life, queued, order) ==
  LET gone == Pruned(order, queued, NativeTombstones)
  IN  /\ nQueued' = queued
      /\ nCancelled' = Without(order, gone)
      /\ nLife' = LifeWithout(life, gone)

-----------------------------------------------------------------------------
\* Mutant: the authority does not follow the eviction.
enqueue_unbounded_authority(r) ==
  /\ nWaiter[r] = "none"
  /\ nQueue' = Bounded(Append(nQueue, r), NativeCapacity)
  /\ NativeAuthority([nLife EXCEPT ![r] = "pending"], Append(nQueued, r), nCancelled)
  /\ nWaiter' = [nWaiter EXCEPT ![r] = "waiting"]
  /\ UNCHANGED <<nInflight, nClaimed, nResults, nOld, nWorker, nAsked>>

\* enqueue_native_executor: the oldest request of a full queue gives way, in
\* both records, and its caller is not told.
enqueue_native_executor(r) ==
  LET kept  == Bounded(Append(nQueued, r), NativeCapacity)
  IN  /\ nWaiter[r] = "none"
      /\ nQueue' = Bounded(Append(nQueue, r), NativeCapacity)
      /\ NativeAuthority(Evicted([nLife EXCEPT ![r] = "pending"], kept), kept, nCancelled)
      /\ nWaiter' = [nWaiter EXCEPT ![r] = "waiting"]
      /\ UNCHANGED <<nInflight, nClaimed, nResults, nOld, nWorker, nAsked>>

\* Mutant: only what no handler has claimed is expired.
expire_unclaimed ==
  /\ nWorker.step = "poll"
  /\ nInflight' = nInflight \ nOld
  /\ nLife' = [r \in NativeRequests |->
                 IF r \in nOld \ nClaimed /\ nLife[r] \in {"inflight", "cancellation_requested"}
                   THEN "none" ELSE nLife[r]]
  /\ nWorker' = [nWorker EXCEPT !.step = "take"]
  /\ UNCHANGED <<nQueue, nClaimed, nResults, nQueued, nCancelled, nOld, nWaiter, nAsked>>

\* expire_native_executor_active_before, the first half of a poll: active
\* requests older than NATIVE_EXECUTOR_ACTIVE_LEASE_SECS are forgotten.
expire_native_executor_active_before ==
  /\ nWorker.step = "poll"
  /\ nInflight' = nInflight \ nOld
  /\ nClaimed' = nClaimed \ nOld
  /\ nLife' = IF NativeActive \cap nOld = {} THEN nLife
              ELSE [r \in NativeRequests |->
                      IF r \in nOld /\ nLife[r] \in {"inflight", "cancellation_requested"}
                        THEN "none" ELSE nLife[r]]
  /\ nWorker' = [nWorker EXCEPT !.step = "take"]
  /\ UNCHANGED <<nQueue, nResults, nQueued, nCancelled, nOld, nWaiter, nAsked>>

\* take_native_executor_requests, the second half.  A request cancelled while
\* queued is settled as failed here and not handed out.
take_native_executor_requests ==
  LET room   == NativeCapacity - Cardinality(NativeActive)
      count  == Least(Least(NativeBatch, room), Len(nQueue))
      taken  == SubSeq(nQueue, 1, count)
      gone   == {r \in NativeRequests : nLife[r] = "cancelled"}
      settle == Without(taken, NativeRequests \ gone)
      handed == Without(taken, gone)
  IN  /\ nWorker.step = "take"
      /\ nQueue' = SubSeq(nQueue, count + 1, Len(nQueue))
      /\ nInflight' = nInflight \cup ToSet(handed)
      /\ nResults' = Bounded(nResults \o [k \in DOMAIN settle |->
                                            [request |-> settle[k], ok |-> FALSE]], NativeCapacity)
      /\ NativeAuthority([r \in NativeRequests |->
                      IF Contains(handed, r) THEN "inflight" ELSE nLife[r]],
                   Without(nQueued, ToSet(taken)), nCancelled)
      /\ nWorker' = [nWorker EXCEPT !.step = IF handed = <<>> THEN "poll" ELSE "check",
                                    !.batch = handed]
      /\ UNCHANGED <<nClaimed, nOld, nWaiter, nAsked>>

-----------------------------------------------------------------------------
(***************************************************************************)
(* poll_session: the worker goes through its batch.                        *)
(***************************************************************************)
NativeHandled == Head(nWorker.batch)

NativeIdle == [step |-> "poll", batch |-> <<>>, attempt |-> 1]

NativeNextOfBatch ==
  IF Len(nWorker.batch) = 1 THEN NativeIdle
  ELSE [NativeIdle EXCEPT !.step = "check", !.batch = Tail(nWorker.batch)]

\* cancellation_requested, asked before and after the work.  An error ends the
\* batch before the work, and only this request after it.
cancellation_requested ==
  /\ nWorker.step \in {"check", "recheck"}
  /\ \/ nWorker' = [nWorker EXCEPT !.step =
                      IF nLife[NativeHandled] = "cancellation_requested" THEN "acknowledge"
                      ELSE IF @ = "check" THEN "work" ELSE "post"]
     \/ nWorker' = IF nWorker.step = "check" THEN NativeIdle ELSE NativeNextOfBatch
  /\ UNCHANGED <<nStore, nAuthority, nOld, nWaiter, nAsked>>

execute_native_visual_packet ==
  /\ nWorker.step = "work"
  /\ nWorker' = [nWorker EXCEPT !.step = "recheck"]
  /\ UNCHANGED <<nStore, nAuthority, nOld, nWaiter, nAsked>>

NativeSettled(r, ok) == Bounded(Append(nResults, [request |-> r, ok |-> ok]), NativeCapacity)

\* acknowledge_native_executor_cancellation: settles the origin as failed, if
\* it is still active; a refused or lost acknowledgement ends the batch.
acknowledge_native_executor_cancellation ==
  LET r == NativeHandled
  IN  /\ nWorker.step = "acknowledge"
      /\ \/ /\ nLife[r] = "cancellation_requested" /\ r \in NativeActive
            /\ nInflight' = nInflight \ {r} /\ nClaimed' = nClaimed \ {r}
            /\ nResults' = NativeSettled(r, FALSE)
            /\ NativeAuthority([nLife EXCEPT ![r] = "cancelled"], nQueued, Append(nCancelled, r))
            /\ nWorker' = NativeNextOfBatch
         \/ /\ UNCHANGED <<nInflight, nClaimed, nResults, nAuthority>>
            /\ nWorker' = IF nLife[r] = "cancelled" THEN NativeNextOfBatch ELSE NativeIdle
      /\ UNCHANGED <<nQueue, nOld, nWaiter, nAsked>>

\* complete_native_executor_result, first step: the result claims its origin.
\* Without one the answer is CONFLICT and the worker gives up.
claim_native_executor ==
  LET r == NativeHandled
  IN  /\ nWorker.step = "post"
      /\ IF nLife[r] \in {"pending", "inflight"} /\ r \in nInflight
           THEN /\ nInflight' = nInflight \ {r} /\ nClaimed' = nClaimed \cup {r}
                /\ nWorker' = [nWorker EXCEPT !.step = "complete"]
           ELSE /\ nWorker' = NativeNextOfBatch
                /\ UNCHANGED <<nInflight, nClaimed>>
      /\ UNCHANGED <<nQueue, nResults, nAuthority, nOld, nWaiter, nAsked>>

\* Mutant: the cancellation is not looked at again after the claim.
complete_unchecked ==
  LET r == NativeHandled
  IN  /\ nWorker.step = "complete"
      /\ r \in nClaimed
      /\ nClaimed' = nClaimed \ {r}
      /\ \E ok \in BOOLEAN : nResults' = NativeSettled(r, ok)
      /\ nLife' = [nLife EXCEPT ![r] = "none"]
      /\ nQueued' = Without(nQueued, {r})
      /\ nWorker' = NativeNextOfBatch
      /\ UNCHANGED <<nQueue, nInflight, nCancelled, nOld, nWaiter, nAsked>>

\* native_result_evidence_correlated: what the evidence store says of the ids a
\* result cites; it may differ between two posts of the same result.
native_result_evidence_correlated == BOOLEAN

\* Second step, after the evidence of the result was looked up; a result whose
\* evidence does not correlate is stored as failed.  CONFLICT ends the posts.
complete_native_executor ==
  LET r == NativeHandled
  IN  /\ nWorker.step = "complete"
      /\ IF nLife[r] \in {"pending", "inflight"} /\ r \in nClaimed
           THEN /\ nClaimed' = nClaimed \ {r}
                /\ \E ok \in native_result_evidence_correlated : nResults' = NativeSettled(r, ok)
                /\ nLife' = [nLife EXCEPT ![r] = "none"]
                /\ nQueued' = Without(nQueued, {r})
           ELSE UNCHANGED <<nClaimed, nResults, nLife, nQueued>>
      /\ nWorker' = NativeNextOfBatch
      /\ UNCHANGED <<nQueue, nInflight, nCancelled, nOld, nWaiter, nAsked>>

\* post_result: the connection breaks, before the handler or inside it, and
\* the worker tries again.
post_result ==
  /\ nWorker.step \in {"post", "complete"}
  /\ nWorker' = IF nWorker.attempt < NativeAttempts
                  THEN [nWorker EXCEPT !.step = "post", !.attempt = @ + 1]
                  ELSE NativeNextOfBatch
  /\ UNCHANGED <<nStore, nAuthority, nOld, nWaiter, nAsked>>

-----------------------------------------------------------------------------
\* request_native_executor_cancellation, by the cancel handler or by a caller
\* that waited long enough.
request_native_executor_cancellation(r) ==
  /\ nAsked' = CASE nLife[r] = "none" -> nAsked
                 [] nLife[r] \in {"pending", "cancelled"} -> [nAsked EXCEPT ![r] = "cancelled"]
                 [] OTHER -> [nAsked EXCEPT ![r] = "requested"]
  /\ CASE nLife[r] = "pending" ->
            NativeAuthority([nLife EXCEPT ![r] = "cancelled"], nQueued, Append(nCancelled, r))
       [] nLife[r] = "inflight" ->
            /\ nLife' = [nLife EXCEPT ![r] = "cancellation_requested"]
            /\ UNCHANGED <<nQueued, nCancelled>>
       [] OTHER -> UNCHANGED nAuthority
  /\ UNCHANGED <<nStore, nOld, nWorker>>

cancel_native_executor(r) ==
  /\ nLife[r] \in {"pending", "inflight"}
  /\ request_native_executor_cancellation(r)
  /\ UNCHANGED nWaiter

wait_for_native_executor_result_with_timeout(r) ==
  /\ nWaiter[r] = "waiting"
  /\ \/ /\ \E k \in DOMAIN nResults : nResults[k].request = r
        /\ nWaiter' = [nWaiter EXCEPT ![r] = "done"]
        /\ UNCHANGED <<nStore, nAuthority, nOld, nWorker, nAsked>>
     \/ /\ nWaiter' = [nWaiter EXCEPT ![r] = "done"]
        /\ request_native_executor_cancellation(r)

\* LiveBridge::release_session.
native_release_session ==
  /\ nQueue' = <<>> /\ nInflight' = {} /\ nClaimed' = {} /\ nResults' = <<>>
  /\ nLife' = [r \in NativeRequests |-> "none"]
  /\ nQueued' = <<>> /\ nCancelled' = <<>>
  /\ UNCHANGED <<nOld, nWaiter, nWorker, nAsked>>

native_lease_passes(r) ==
  /\ nWaiter[r] # "none" /\ r \notin nOld
  /\ nOld' = nOld \cup {r}
  /\ UNCHANGED <<nStore, nAuthority, nWaiter, nWorker, nAsked>>

-----------------------------------------------------------------------------
NativeInit ==
  /\ nQueue = <<>> /\ nInflight = {} /\ nClaimed = {} /\ nResults = <<>>
  /\ nLife = [r \in NativeRequests |-> "none"]
  /\ nQueued = <<>> /\ nCancelled = <<>> /\ nOld = {}
  /\ nWaiter = [r \in NativeRequests |-> "none"]
  /\ nWorker = NativeIdle
  /\ nAsked = [r \in NativeRequests |-> "none"]

NativeWorkerStep ==
  \/ expire_native_executor_active_before \/ take_native_executor_requests
  \/ cancellation_requested \/ execute_native_visual_packet
  \/ acknowledge_native_executor_cancellation
  \/ claim_native_executor \/ complete_native_executor \/ post_result

NativeNext ==
  \/ NativeWorkerStep \/ native_release_session
  \/ \E r \in NativeRequests :
       \/ enqueue_native_executor(r) \/ cancel_native_executor(r)
       \/ wait_for_native_executor_result_with_timeout(r) \/ native_lease_passes(r)

\* The worker polls every 120 ms for as long as the desktop runs, and time
\* passes.
NativeFairness ==
  /\ WF_nativeVars(NativeWorkerStep)
  /\ \A r \in NativeRequests : WF_nativeVars(native_lease_passes(r))

NativeSpec == NativeInit /\ [][NativeNext]_nativeVars /\ NativeFairness

-----------------------------------------------------------------------------
\* What the queues, the authority, the callers and the worker range over, and
\* the bounds the bridge keeps on them.
NativeTypeOK ==
  LET Lists == Seq(NativeRequests)
      Outcomes == [request : NativeRequests, ok : BOOLEAN]
  IN  /\ nQueue \in Lists /\ nQueued \in Lists /\ nCancelled \in Lists
      /\ Len(nQueue) <= NativeCapacity
      /\ nInflight \cup nClaimed \cup nOld \subseteq NativeRequests
      /\ nResults \in Seq(Outcomes) /\ Len(nResults) <= NativeCapacity
      /\ nLife \in [NativeRequests ->
                    {"none", "pending", "inflight", "cancellation_requested", "cancelled"}]
      /\ nWaiter \in [NativeRequests -> {"none", "waiting", "done"}]
      /\ nAsked \in [NativeRequests -> {"none", "cancelled", "requested"}]
      /\ nWorker.step \in {"poll", "take", "check", "recheck", "work", "acknowledge", "post", "complete"}
      /\ nWorker.batch \in Lists /\ nWorker.attempt \in 1..NativeAttempts
      /\ nWorker.step \notin {"poll", "take"} => nWorker.batch # <<>>

\* The queues and the cancellation authority agree: what one holds as queued
\* the other does, and a request is active in the bridge exactly while the
\* authority would signal or refuse its cancellation.
NativeRecordsAgree ==
  /\ nQueue = nQueued
  /\ \A r \in NativeRequests :
       r \in NativeActive <=> nLife[r] \in {"inflight", "cancellation_requested"}
  /\ nInflight \cap nClaimed = {}
  /\ Cardinality(NativeActive) <= NativeCapacity

\* A caller that was told of a cancellation never finds a successful result,
\* although the worker may already have posted one that is being checked.
CancelledNeverSucceeds ==
  \A k \in DOMAIN nResults : nAsked[nResults[k].request] # "none" => ~nResults[k].ok

\* A request answered as cancelled is not handed to the worker afterwards,
\* however many tombstones have been pruned by then.
CancelledNeverHandedOut ==
  \A r \in NativeRequests : nAsked[r] = "cancelled" => r \notin NativeActive

\* What a cancellation is worth to its caller, of both kinds.
CancelledStaysCancelled == CancelledNeverSucceeds /\ CancelledNeverHandedOut

\* A request does not occupy a slot of the executor for good, whichever of its
\* acknowledgements, posts and checks are lost.
ActiveSlotsAreFreed ==
  \A r \in NativeRequests : r \in NativeActive ~> r \notin NativeActive

=============================================================================
