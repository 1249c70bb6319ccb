------------------------------ MODULE Capture ------------------------------
(***************************************************************************)
(* Visual capture of one session: the desktop's transactions               *)
(* (apps/desktop/src-tauri/src/visual_capture.rs), the daemon's internal   *)
(* capture actions and their bounded waits (control/src/capture_settle.rs),*)
(* the page executor and the freeze lease of the instrumentation.          *)
(*                                                                         *)
(* The page runs the queue at its own pace, so an action whose waiter gave *)
(* up may still run, and the lease timer may thaw the page under a         *)
(* transaction.  The freeze token is the transaction: each takes one.      *)
(***************************************************************************)
EXTENDS BoundedQueues

CONSTANTS CaptureTxns, CaptureTiles, CaptureQueueCapacity, MaxPageVersions, ProbeCap

ASSUME CaptureAssumption ==
  /\ "nobody" \notin CaptureTxns
  /\ {CaptureTiles, CaptureQueueCapacity, MaxPageVersions, ProbeCap} \subseteq Nat \ {0}

VARIABLES cap,          \* the transactions
          capGate,      \* who holds the session's capture gate
          capQueue,     \* internal capture actions the page has not run
          capPage,      \* the page and its window
          capBase,      \* version in the changed-region baseline, 0 if none
          capSeen       \* versions whose evidence the daemon has

capVars == <<cap, capGate, capQueue, capPage, capBase, capSeen>>

\* A capture for a verification takes the steps of a plain viewport capture.
CaptureKinds == {"viewport", "changed", "full_page", "responsive"}
Waits == {"freezing", "scrolling", "tile_probe", "scroll_home", "restoring"}
Phases == Waits \cup {"idle", "gate", "settle", "native", "tile_settle", "adaptive",
                      "size_back", "persist", "diff", "commit", "done"}

NoCapture == [kind |-> "none", phase |-> "idle", n |-> 0, ack |-> "none", tiles |-> 0, tile |-> 0,
              pixels |-> 0, frozen |-> FALSE, work |-> "ok", drift |-> FALSE, probes |-> 0, out |-> "none"]

CaptureInit ==
  /\ cap = [t \in CaptureTxns |-> NoCapture]
  /\ capGate = "nobody"
  /\ capQueue = <<>>
  /\ capPage = [lease |-> "nobody", scroll |-> 0, user |-> 0, version |-> 1, size |-> "original"]
  /\ capBase = 0
  /\ capSeen = {}

At(t, phases) == cap[t].phase \in phases
Put(t, r) == cap' = [cap EXCEPT ![t] = r]
OnlyCap == UNCHANGED <<capGate, capQueue, capPage, capBase, capSeen>>

\* What is remembered of a transaction that is over: the frame it registered or
\* reported as unchanged; of one that failed, that it did.
Ended(t, out) ==
  IF out \in {"registered", "unchanged"}
    THEN [NoCapture EXCEPT !.phase = "done", !.out = out, !.pixels = cap[t].pixels, !.frozen = cap[t].frozen]
    ELSE [NoCapture EXCEPT !.phase = "done", !.out = "failed"]

\* The Arc of the gate is dropped with the transaction's future.
finish(t, out) ==
  /\ Put(t, Ended(t, out))
  /\ capGate' = "nobody"
  /\ UNCHANGED <<capQueue, capPage, capBase, capSeen>>

----------------------------------------------------------------------------
(* The daemon's side: an action is queued and its answer polled for.       *)

\* enqueue_action and enqueue_capture_freeze_with_lease: the internal queue
\* is bounded like the others and drops its oldest action.
enqueue_capture(r, t, op) ==
  capQueue' = Bounded(Append(capQueue, [txn |-> t, op |-> op, n |-> r.n + 1, y |-> r.tile]),
                      CaptureQueueCapacity)

Ask(t, r, op, phase) ==
  /\ enqueue_capture(r, t, op)
  /\ Put(t, [r EXCEPT !.phase = phase, !.n = r.n + 1, !.ack = "none"])
  /\ UNCHANGED <<capGate, capPage, capBase, capSeen>>

\* The wait ends without the answer; nothing recalls the queued action.
wait_for_action_result(t) ==
  /\ At(t, Waits) /\ cap[t].ack = "none"
  /\ Put(t, [cap[t] EXCEPT !.ack = "timeout"])
  /\ OnlyCap

Answered(t, phase, oks) == At(t, {phase}) /\ cap[t].ack \in oks
Failed == {"error", "timeout"}

----------------------------------------------------------------------------
(* The page.                                                               *)

\* A lease is never shared: a second token is refused while one is active.
freezeVisuals(t) ==
  IF capPage.lease \in {"nobody", t}
    THEN [ok |-> TRUE, page |-> [capPage EXCEPT !.lease = t]]
    ELSE [ok |-> FALSE, page |-> capPage]

\* The user's scroll position comes back with the animations.
restoreVisuals(t) ==
  IF capPage.lease = t
    THEN [ok |-> TRUE, page |-> [capPage EXCEPT !.lease = "nobody", !.scroll = capPage.user]]
    ELSE [ok |-> FALSE, page |-> capPage]

captureScrollTo(t, y) ==
  IF capPage.lease = t
    THEN [ok |-> TRUE, page |-> [capPage EXCEPT !.scroll = y]]
    ELSE [ok |-> FALSE, page |-> capPage]

captureTileProbe(t) == [ok |-> capPage.lease = t, page |-> capPage]

\* privateMaskGeometry overflows its budgets: a freeze is then undone.
mask_geometry_failed(t, done) ==
  [ok |-> FALSE, page |-> IF done.ok THEN [capPage EXCEPT !.lease = "nobody"] ELSE done.page]

\* What running one queued action does to the page.
execute_capture(a, masks) ==
  CASE a.op = "freeze" -> IF masks THEN freezeVisuals(a.txn) ELSE mask_geometry_failed(a.txn, freezeVisuals(a.txn))
    [] a.op = "tile" -> captureScrollTo(a.txn, a.y)
    [] a.op = "home" -> captureScrollTo(a.txn, capPage.user)
    [] a.op = "probe" -> IF masks THEN captureTileProbe(a.txn) ELSE [ok |-> FALSE, page |-> capPage]
    [] a.op = "restore" -> restoreVisuals(a.txn)

\* take_internal_capture_actions and the page's tick: the oldest action runs
\* and its result is correlated with the waiter by the action's id.
page_runs_capture_action ==
  /\ capQueue # <<>>
  /\ \E masks \in BOOLEAN :
       LET a == Head(capQueue)
           r == execute_capture(a, masks)
           waited == cap[a.txn].n = a.n /\ cap[a.txn].ack = "none" /\ At(a.txn, Waits)
       IN /\ capPage' = r.page
          /\ cap' = IF waited THEN [cap EXCEPT ![a.txn].ack = IF r.ok THEN "ok" ELSE "error"] ELSE cap
  /\ capQueue' = Tail(capQueue)
  /\ UNCHANGED <<capGate, capBase, capSeen>>

\* The lease timer of freezeVisuals.
lease_expires ==
  /\ capPage.lease # "nobody"
  /\ capPage' = restoreVisuals(capPage.lease).page
  /\ UNCHANGED <<cap, capGate, capQueue, capBase, capSeen>>

\* The application renders, the user scrolls, or the document is replaced.
page_lives ==
  /\ \/ /\ capPage.version < MaxPageVersions
        /\ capPage' = [capPage EXCEPT !.version = @ + 1]
     \/ /\ capPage.lease = "nobody"
        /\ \E y \in 0..CaptureTiles - 1 : capPage' = [capPage EXCEPT !.scroll = y, !.user = y]
     \/ /\ capPage.lease # "nobody"
        /\ capPage' = [capPage EXCEPT !.lease = "nobody", !.scroll = 0, !.user = 0]
  /\ capPage' # capPage
  /\ UNCHANGED <<cap, capGate, capQueue, capBase, capSeen>>

----------------------------------------------------------------------------
(* Entering a transaction.                                                 *)

\* The commands validate the request and preflight the managed surface.
capture_target(t) ==
  /\ At(t, {"idle"})
  /\ \E k \in CaptureKinds : Put(t, [NoCapture EXCEPT !.kind = k, !.phase = "gate"])
  /\ OnlyCap

\* session_capture_gate: one transaction per session; a responsive sweep
\* resizes its preview window before it settles.
session_capture_gate(t) ==
  /\ At(t, {"gate"}) /\ capGate = "nobody"
  /\ capGate' = t
  /\ Put(t, [cap[t] EXCEPT !.phase = "settle"])
  /\ capPage' = IF cap[t].kind = "responsive" THEN [capPage EXCEPT !.size = "preset"] ELSE capPage
  /\ UNCHANGED <<capQueue, capBase, capSeen>>

\* The preview left its owner, route or size before anything was changed.
preflight_failed(t) == At(t, {"gate"}) /\ capGate = "nobody" /\ finish(t, "refused")

\* wait_for_capture_settle polls until the page is stable or its time is up.
wait_for_capture_settle(t) ==
  /\ At(t, {"settle"})
  /\ \/ Ask(t, cap[t], "freeze", "freezing")
     \/ /\ cap[t].kind # "responsive"
        /\ finish(t, "settle_failed")

----------------------------------------------------------------------------
(* One frozen viewport: plain, changed-region, verification and preset.    *)

\* A freeze that was not acknowledged ends the transaction: its token is
\* unknown, so only the lease can thaw the page if the freeze still runs.
freeze_refused(t) ==
  /\ Answered(t, "freezing", Failed)
  /\ cap[t].kind # "responsive"
  /\ finish(t, "freeze_failed")

\* The daemon passes on a freeze whose document geometry it validated.
full_page_frozen(t) == Answered(t, "freezing", {"ok"}) /\ cap[t].kind = "full_page"

\* validate_full_page_freeze_context and plan_full_page: the offsets of the
\* tiles, or a document that cannot be stitched.
plan_tiles(t) ==
  /\ full_page_frozen(t)
  /\ \/ \E n \in 1..CaptureTiles : Ask(t, [cap[t] EXCEPT !.tiles = n], "tile", "scrolling")
     \/ Ask(t, [cap[t] EXCEPT !.work = "plan_failed"], "home", "scroll_home")

frozen_viewport(t) ==
  /\ Answered(t, "freezing", {"ok"}) /\ cap[t].kind # "full_page"
  /\ Put(t, [cap[t] EXCEPT !.phase = "native"])
  /\ OnlyCap

\* capture_managed_surface: the native snapshot, or its error or timeout.
Snapshot(t) ==
  {[cap[t] EXCEPT !.pixels = capPage.version, !.frozen = capPage.lease = t],
   [cap[t] EXCEPT !.work = "native_failed"]}

\* The restore is requested whatever the snapshot came to.
capture_managed_surface(t) ==
  /\ At(t, {"native"}) /\ cap[t].kind # "full_page"
  /\ \E r \in Snapshot(t) : Ask(t, r, "restore", "restoring")

\* Pixels are kept only when the page acknowledged the restore of the very
\* lease they were taken under.
capture_redacted_viewport_after_gate(t) ==
  IF cap[t].ack # "ok" THEN "restore_failed" ELSE IF cap[t].work = "ok" THEN "persist" ELSE cap[t].work

\* redact_private_pixels and the viewport checks follow the restore.
viewport_restored(t) ==
  /\ Answered(t, "restoring", {"ok"} \cup Failed)
  /\ cap[t].kind \in {"viewport", "changed"}
  /\ LET next == capture_redacted_viewport_after_gate(t)
     IN \/ IF next = "persist"
             THEN /\ Put(t, [cap[t] EXCEPT !.phase = "persist"])
                  /\ OnlyCap
             ELSE finish(t, next)
        \/ next = "persist" /\ finish(t, "redaction_failed")

----------------------------------------------------------------------------
(* Full page: scroll, settle, probe, snapshot, for every tile.             *)

\* Every failure of the work goes through cleanup_full_page_state.
cleanup(t, why) == Ask(t, [cap[t] EXCEPT !.work = why], "home", "scroll_home")

\* validate_capture_scroll_receipt, then the page settles again.
tile_scrolled(t) ==
  /\ Answered(t, "scrolling", {"ok"} \cup Failed)
  /\ \/ /\ cap[t].ack = "ok" /\ capPage.scroll = cap[t].tile
        /\ Ask(t, cap[t], "probe", "tile_probe")
     \/ cleanup(t, "scroll_failed")

\* A visible fixed or sticky element, or drifted geometry, refuses the page.
tile_probed(t) ==
  /\ Answered(t, "tile_probe", {"ok"} \cup Failed)
  /\ \/ /\ cap[t].ack = "ok"
        /\ Put(t, [cap[t] EXCEPT !.phase = "native"])
        /\ OnlyCap
     \/ cleanup(t, "probe_failed")

\* The match on (pixel_width, pixel_height): the first tile sets the size; a
\* later one is refused when it differs, and by the catch-all arm when not.
SizeAccepted(t, drift) == cap[t].tile = 0

\* capture_full_page_tiles: one tile is redacted and stitched.
capture_full_page_tile(t) ==
  /\ At(t, {"native"}) /\ cap[t].kind = "full_page"
  /\ \E r \in Snapshot(t), drift \in BOOLEAN :
       LET d == [r EXCEPT !.drift = drift /\ cap[t].tile > 0]
       IN IF r.work # "ok" THEN cleanup(t, r.work)
          ELSE IF ~SizeAccepted(t, drift)
            THEN Ask(t, [d EXCEPT !.work = "native_geometry_drift"], "home", "scroll_home")
          ELSE IF cap[t].tile + 1 < cap[t].tiles
            THEN Ask(t, [d EXCEPT !.tile = @ + 1], "tile", "scrolling")
            ELSE Ask(t, d, "home", "scroll_home")

\* work_deadline drops the work at any of its awaits.
full_page_deadline(t) ==
  /\ cap[t].kind = "full_page"
  /\ \/ At(t, {"scrolling", "tile_probe", "native"}) /\ cleanup(t, "transaction_timeout")
     \/ At(t, {"freezing"}) /\ finish(t, "transaction_timeout")

\* cleanup_full_page_state: the scroll is put back, then the visual state,
\* each tried whatever the other came to.
scroll_restored(t) ==
  /\ Answered(t, "scroll_home", {"ok"} \cup Failed)
  /\ Ask(t, [cap[t] EXCEPT !.work = IF cap[t].ack = "ok" THEN @ ELSE "scroll_restore_failed"],
         "restore", "restoring")

full_page_restored(t) ==
  /\ Answered(t, "restoring", {"ok"} \cup Failed) /\ cap[t].kind = "full_page"
  /\ \/ /\ capture_redacted_viewport_after_gate(t) = "persist"
        /\ Put(t, [cap[t] EXCEPT !.phase = "persist"])
        /\ OnlyCap
     \/ finish(t, IF capture_redacted_viewport_after_gate(t) = "persist"
                    THEN "transaction_timeout" ELSE capture_redacted_viewport_after_gate(t))

----------------------------------------------------------------------------
(* Responsive sweep: a preset, then adaptive probes, then the size back.   *)

\* restore_responsive_preview starts whenever the work ends.
give_size_back(t, why) ==
  /\ Put(t, [cap[t] EXCEPT !.phase = "size_back", !.work = why])
  /\ OnlyCap

\* The preset's frame: its restore must be acknowledged as well.
preset_captured(t) ==
  /\ cap[t].kind = "responsive"
  /\ \/ /\ Answered(t, "restoring", {"ok"} \cup Failed)
        /\ IF capture_redacted_viewport_after_gate(t) = "persist"
             THEN /\ Put(t, [cap[t] EXCEPT !.phase = "adaptive"])
                  /\ OnlyCap
             ELSE give_size_back(t, capture_redacted_viewport_after_gate(t))
     \/ Answered(t, "freezing", Failed) /\ give_size_back(t, "freeze_failed")

\* probe_width: another width is laid out and observed; the first failure
\* sticks, and so does the cap.
probe_width(t) ==
  /\ At(t, {"adaptive"})
  /\ \/ /\ cap[t].probes < ProbeCap
        /\ Put(t, [cap[t] EXCEPT !.probes = @ + 1])
        /\ OnlyCap
     \/ give_size_back(t, "probe_failed")

\* run_live_adaptive_responsive ends with the transition it resolved.
run_live_adaptive_responsive(t) ==
  /\ At(t, {"adaptive"}) /\ cap[t].probes > 0
  /\ give_size_back(t, "ok")

\* work_deadline: whatever the sweep awaits is dropped, a freeze included.
responsive_deadline(t) ==
  /\ cap[t].kind = "responsive"
  /\ At(t, {"settle", "freezing", "native", "restoring", "adaptive"})
  /\ give_size_back(t, "transaction_timeout")

\* The size is put back and must converge; only then is work persisted.
restore_responsive_preview(t) ==
  /\ At(t, {"size_back"})
  /\ \/ /\ capPage' = [capPage EXCEPT !.size = "original"]
        /\ IF cap[t].work = "ok"
             THEN Put(t, [cap[t] EXCEPT !.phase = "persist"]) /\ UNCHANGED capGate
             ELSE Put(t, Ended(t, cap[t].work)) /\ capGate' = "nobody"
        /\ UNCHANGED <<capQueue, capBase, capSeen>>
     \/ finish(t, "size_restore_failed")

----------------------------------------------------------------------------
(* Persisting and registering.                                             *)

\* plan_changed_css_regions against a compatible baseline.
Unchanged(t) == cap[t].kind = "changed" /\ capBase = cap[t].pixels

\* The artifact is admitted by the retained-storage budget and stored, then
\* the daemon takes its evidence; either may fail.
Register(t, kind) ==
  /\ At(t, {"persist"}) /\ cap[t].kind = kind
  /\ \/ finish(t, "persist_failed")
     \/ /\ capSeen' = capSeen \cup {cap[t].pixels}
        /\ Put(t, Ended(t, "registered"))
        /\ capGate' = "nobody"
        /\ UNCHANGED <<capQueue, capPage, capBase>>

persist_and_register(t) == Register(t, "viewport")
\* The daemon recomputes the offsets of the plan and wants every tile.
ingest_full_page_visual_evidence(t) == cap[t].tile + 1 = cap[t].tiles

persist_full_page_and_register(t) == ingest_full_page_visual_evidence(t) /\ Register(t, "full_page")
persist_responsive_contact_sheet_and_register(t) == Register(t, "responsive")

\* emit_changed_capture_plan: the changed regions, or the whole viewport,
\* become evidence one after the other.
emit_changed_capture_plan(t) ==
  /\ At(t, {"persist"}) /\ cap[t].kind = "changed" /\ ~Unchanged(t)
  /\ \/ finish(t, "persist_failed")
     \/ /\ capSeen' = capSeen \cup {cap[t].pixels}
        /\ Put(t, [cap[t] EXCEPT !.phase = "diff"])
        /\ UNCHANGED <<capGate, capQueue, capPage, capBase>>

\* Nothing changed: only the diff evidence is registered.
report_unchanged(t) ==
  /\ At(t, {"persist"}) /\ Unchanged(t)
  /\ \E out \in {"unchanged", "persist_failed"} : finish(t, out)

\* The daemon takes a diff only with the visual evidence it names.
ingest_visual_diff_evidence(t) == cap[t].pixels \in capSeen

register_visual_diff_evidence(t) ==
  /\ At(t, {"diff"})
  /\ \/ ingest_visual_diff_evidence(t) /\ Put(t, [cap[t] EXCEPT !.phase = "commit"]) /\ OnlyCap
     \/ finish(t, "diff_failed")

\* commit_changed_baseline: the baseline moves when the evidence and the diff
\* are registered, and not before; the cache may refuse the
\* frame or evict it at once.
commit_changed_baseline(t) ==
  /\ At(t, {"commit"})
  /\ capBase' \in {0, capBase, cap[t].pixels}
  /\ Put(t, Ended(t, "registered"))
  /\ capGate' = "nobody"
  /\ UNCHANGED <<capQueue, capPage, capSeen>>

\* Mutant: the baseline is replaced when the frame is compared.
baseline_at_planning(t) ==
  /\ At(t, {"persist"}) /\ cap[t].kind = "changed" /\ capBase = 0
  /\ capBase' = cap[t].pixels
  /\ UNCHANGED <<cap, capGate, capQueue, capPage, capSeen>>

\* compatible_changed_baseline: a baseline of another route, viewport
\* or pixel size is no baseline, and is dropped.
compatible_changed_baseline(t) ==
  /\ At(t, {"persist"}) /\ cap[t].kind = "changed" /\ capBase # 0
  /\ capBase' = 0
  /\ UNCHANGED <<cap, capGate, capQueue, capPage, capSeen>>

CaptureStep(t) ==
  \/ capture_target(t) \/ session_capture_gate(t) \/ preflight_failed(t)
  \/ wait_for_capture_settle(t) \/ wait_for_action_result(t)
  \/ freeze_refused(t) \/ plan_tiles(t) \/ frozen_viewport(t)
  \/ capture_managed_surface(t) \/ viewport_restored(t)
  \/ tile_scrolled(t) \/ tile_probed(t) \/ capture_full_page_tile(t)
  \/ full_page_deadline(t) \/ scroll_restored(t) \/ full_page_restored(t)
  \/ preset_captured(t) \/ probe_width(t) \/ run_live_adaptive_responsive(t)
  \/ responsive_deadline(t) \/ restore_responsive_preview(t)
  \/ persist_and_register(t) \/ persist_full_page_and_register(t)
  \/ persist_responsive_contact_sheet_and_register(t)
  \/ emit_changed_capture_plan(t) \/ report_unchanged(t)
  \/ register_visual_diff_evidence(t) \/ commit_changed_baseline(t)
  \/ compatible_changed_baseline(t)

CaptureNext ==
  \/ \E t \in CaptureTxns : CaptureStep(t)
  \/ page_runs_capture_action \/ lease_expires \/ page_lives

\* The desktop polls its futures and every await has a deadline; the page
\* owes nothing.
CaptureOwes(t) == CaptureStep(t) /\ cap[t].phase # "idle" /\ cap'[t] # cap[t]
CaptureFairness == \A t \in CaptureTxns : WF_capVars(CaptureOwes(t))

CaptureSpec == CaptureInit /\ [][CaptureNext]_capVars
CaptureLiveSpec == CaptureSpec /\ CaptureFairness

----------------------------------------------------------------------------
(* Properties.                                                             *)

\* Types of the variables.
CaptureTypeOK ==
  /\ \A t \in CaptureTxns : cap[t].phase \in Phases /\ cap[t].ack \in {"none", "ok"} \cup Failed
  /\ capGate \in CaptureTxns \cup {"nobody"}
  /\ Len(capQueue) <= CaptureQueueCapacity
  /\ capPage.lease \in CaptureTxns \cup {"nobody"}
  /\ capBase \in 0..MaxPageVersions

\* Every frame that became evidence was shot under the transaction's own
\* freeze, and that freeze was over when it was registered: a lease that ran
\* out, a reload or a late freeze of another capture discards the pixels.
FramesAreFrozen ==
  \A t \in CaptureTxns :
    cap[t].out = "registered" => cap[t].frozen /\ capPage.lease # t

\* Once thawed, by whatever path, the page is where its user left it, even
\* when a scroll of an abandoned transaction runs late.
PageGivenBack == capPage.lease = "nobody" => capPage.scroll = capPage.user

\* "Unchanged" is said only of a page whose picture the daemon already has:
\* a capture that failed halfway never swallows a change.
ChangesAreReported ==
  \A t \in CaptureTxns : cap[t].out = "unchanged" => cap[t].pixels \in capSeen

\* A capture takes frozen pixels, says truly whether they changed and gives the
\* page back.
CapturesAreSound == FramesAreFrozen /\ ChangesAreReported /\ PageGivenBack

\* A full-page capture is refused for drifted pixel geometry only when the
\* geometry of a tile differed. "Every native tile must retain the frozen
\* document/viewport geometry plus [...] native pixel dimensions"
\* (docs/IMPLEMENTATION_STATUS.md:101): a drift is a tile that does not.
\* The code does not keep this (README.md, Where code and text disagree).
DriftIsReal ==
  \A t \in CaptureTxns : cap[t].work = "native_geometry_drift" => cap[t].drift

\* Every transaction lets go of the gate, whether or not the page answers.
CapturesEnd ==
  \A t \in CaptureTxns : (cap[t].phase # "idle") ~> (cap[t].phase = "done")

=============================================================================
