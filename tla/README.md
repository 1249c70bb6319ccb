# LocalView: a formal model of its runtime

LocalView observes a local application (a web page in a managed surface, or a
native window), plans actions on it, lets an agent execute them, and judges what
it sees. Two things must not go wrong. An action with consequences has to be
planned, confirmed once, dispatched at most once, and reported as done only after
a fresh observation says so. And evidence that is incomplete, stale or of
something else must never become a pass. Both have to survive crashes, restarts,
dropped requests, changing surfaces, lost answers and executors that never
answer. This directory models the code that is responsible for it.

## The system

    agent -> plan -> one-shot confirm -> journal PREPARED -> queue -> surface
                                            |                           |
                       commit <- receipt <- fresh observation <- report

| Part | Code | State | Module |
|---|---|---|---|
| Consequential journal | `crates/live-bridge/src/consequential_journal/base.rs` | append-only file, replayed entries, live grants | `ConsequentialJournal`, `DispatchPromise` |
| Managed consequential control | `crates/control/src/managed_consequential.rs`, `resource_runtime.rs` (take, complete) | plans, capabilities, permits, reconciliation records, `plan_gate` | `ManagedConsequential` |
| Postconditions | `postcondition_reconciliation.rs`, `crates/postcondition-contracts`, `crates/native-provider` | a walk in progress, a cut, a verdict | `Postconditions` |
| Windows control and provider | `control/src/windows_consequential*`, `crates/windows-observe-runtime`, `crates/windows-uia-provider` | worker, retained elements, event buffer, attachment, stages of a request | `WindowsUia` |
| Boot recovery | `apps/daemon/src/consequential_recovery.rs`, `attached_recovery.rs`, `recovery_inventory.rs` | boot scope, finished lineages | `WindowsUia` |
| Public actions | `live-bridge/src/lib.rs`, `cancellable_lib.rs`, `control/src/action_cancellation.rs` | queue, claims, results, tombstones; the page's pending actions | `PublicActions` |
| Native executor | `control/src/native_executor.rs`, desktop `native_executor_worker.rs` | the same for leased requests, one worker | `NativeExecutor` |
| Network faults | `control/src/network_fault.rs` | control queue, one lease, the plan in force in the page | `NetworkFault` |
| Surfaces | `control/src/resource_runtime.rs`, `surface_{owner,recovery,liveness}.rs`, desktop `surface_{registry,resource}.rs` | registries of desktop and daemon, owner leases, the recovery file | `SurfaceResources` |
| Resource governor | `crates/resource-governor/src/lib.rs` | reservations and leases, load | `Governor` |
| Sessions | `crates/sessions`, `crates/discovery`, `crates/core` | live sessions, the durable registry | `Sessions` |
| Capture | desktop `visual_capture.rs`, `control/src/capture_settle.rs` | transactions, gate, the freeze in the page, baseline | `Capture` |
| Visual evidence | `crates/visual`, `crates/capture`, desktop `visual_packet_impl.rs` | baseline cache; otherwise functions | `VisualEvidence` |
| Responsive search | `crates/responsive`, `visual_capture.rs` | probes, bracket, receipt, contact sheet | `Responsive` |
| Content stress | desktop `content_stress.rs`, `crates/instrumentation` | command, entry, the page's texts | `ContentStress` |
| Point selection | desktop `point_select.rs`, `LocalViewShell.tsx`, `crates/instrumentation` | panel, entry, listeners, reports | `PointSelect` |
| Trusted repair | desktop `trusted_fix.rs`, `trusted_verify*.rs`, `verification/src/autonomous.rs` | source file and backup, proposals, verification records | `Repair`, `FixEdits`, `RepairVerdicts` |
| Perception | `control/src/perception*.rs`, `crates/planner`, `engine`, `token-budget` | one cycle, its budget, retained evidence | `Perception` |
| Headless run | `apps/cli/src/headless.rs`, `crates/evidence`, `artifacts`, `verification` | runs, evidence store, artifact store, baseline index | `Headless` |

How the parts meet. The HTTP handlers of the control plane run as tasks of one
Tokio runtime. `plan`, `confirm` and the release of a session exclude each other
by one mutex, `plan_gate`; the requests of a surface, the spawned reconciliation
tasks, the owner reaper and the session-wide drain do not take it. All of them
share the live bridge, whose operations are atomic each by themselves, and the
journal, whose operations run under one mutex held across the blocking append.
A surface is a web view in the desktop process; its worker polls every 140 ms for
actions, executes them and reports; the instrumentation in the page answers
freezes, selections, stress profiles and faults at the page's own pace. The
desktop's native worker polls another queue of the same bridge. The Windows
provider is one COM thread that executes commands one at a time and a callback
buffer beside it. A request whose client goes away is dropped at the await it
has reached. The discovery loop scans ports, assigns sessions and releases the
removed ones in every part.

What is hard: state read before an await and used after it; handlers cut off half
way; appends and renames that stop half way; restarts between a durable record
and the effect it announces; answers that are lost, or come after their wait has
timed out; leases and expiries that race a slow executor; queues, tombstones and
budgets at their bound; a page or a window that changes under an observation.
`hazards` in `PROJECT.json` lists the ones this code has at their lines, with the
properties that would catch them.

What makes a part correct, in a sentence each:

- journal: an action is dispatched at most once, and what may have been
  dispatched is never taken for not dispatched, by this process or a later one;
- managed control: one confirmation leads to at most one delivery, through a
  permit; "known not dispatched" is true; every record settles;
- postconditions: what is verified is so in the tree that was observed, and a cut
  tree never verifies anything;
- Windows: an effect follows a durable preparation and hits the element of the
  cut it was confirmed on, and nothing is observed before it;
- queues: what was cancelled is never reported as done, and every slot is freed;
- surfaces and governor: what is held is on the books of somebody who is alive,
  and what is counted is what is held;
- sessions: an id names one server, on disk before it is used;
- captures: a frame is taken of a page that is frozen, a change is reported
  against the baseline that is replaced, and the page is given back;
- stress, faults, selection: the page gets back what was taken from it, and what
  is selected is what the person pointed at;
- repair: the developer's bytes are never lost, and a verdict is of the change;
- perception and headless: a receipt says what was observed, and a baseline is
  never made of a page that drifted.

## Modules

All modules are translated from the sources named in their headers; `map` in
`PROJECT.json` gives the lines of every definition. A definition whose comment
begins with "Mutant" is no part of a specification: it is a variant that some
property must reject, and stands where its original can be replaced by it. The
modules whose names end in `Proofs` extend those they are about and add nothing
to what is modelled.

### ConsequentialJournal

One step is one operation under the journal's mutex. `file` holds the complete
lines, `tail` says whether bytes without a newline follow them. `entries` and
`next_sequence` are the replayed `JournalState`; `live` is its three grant maps
in one set of tagged grants; `held` and `observed` are the capabilities, permits
and receipts that callers own. `effects` is a history variable: the permits
whose executor changed the world.

An append validates a transition against memory, writes and syncs a line, and
then updates memory (`append_validated`). It can fail (`append_fails`) with
nothing, part or all of its line in the file, memory unchanged in each case. A
record appended behind a partial line shares a line with it; sequence 0 stands
for the unreadable result. `close` and `open` model a restart of the process,
which loses every value held, and a reopen within one process, after which
callers still hold values of the earlier instance. `drop_token` is a task that
is cancelled while it owns a capability.

Data are reduced to what the validation compares: an envelope is a lineage, a
revision and a set of contracts; the six dispatch results are two, by whether
the world may have changed. The hash chain is left out: nothing in the model
alters a complete line. `LegacyFiles` are the files of releases before the
PREPARED boundary, which replay accepts by rules that appending does not have.

`DispatchPromise` is what any such journal promises for one action: prepared
once, arming at most one executor, ruled out only if nobody acted, uncertain
until observed. `ConsequentialJournal` implements it under the mapping `Promise`
(`KeepsDispatchPromise`): the phase is read off memory while the journal is open
and off the file otherwise, so a restart is a step that must not surprise.

### ManagedConsequential

One session and its surfaces. A step is what a handler does between two awaits
at which another task can change what it has read or will write; the steps of a
handler carry its name (`confirm`, `confirm_authorize`, `confirm_prepare`,
`confirm_hold`, `confirm_enqueue`). `gate` is `plan_gate` with the locals of its
holder, `request` the take or complete request of each surface with its locals,
`task` the reconciliation task of each action. The journal appears by the stage
of an action and the kind of its live grant, the two facts the handlers depend
on. `delivered`, `acted` and `captured` record what happened outside.

Surfaces are numbered by preference, so `primary_live_surface` is the greatest
live one. What may change around the handlers is the constant `Events`: a run
names what it lets happen, and the sections below say where a property needs an
event to be absent.

Abstractions. Releasing a stale lineage and binding the new one is one step, so
the refusal of a binding that lost that race does not occur. At most one primary
surface is being retired at a time. A request for a snapshot is answered in one
step by an idle worker of the surface that has the authority (or, with the
session-wide drain, by its client); it may also time out. One desktop process
owns all surfaces, so the reaper takes them together.

### Postconditions

A tree is given by the parents of its elements. A native snapshot walks it
breadth first, one element a step (`observe_bounded_tree`): `queued_children`
stops the enumeration one element past the budget, and `admit_node` records
which limit was exhausted. A page is walked in one step (`semanticTree`). The
publication says whether the cut is complete; `reconcile_consequential_postconditions`
decodes each contract against the registry, evaluates it and combines the
verdict. An element matches or does not; in a page the matcher is a reference
that twins share. A tree may surface one element twice, as UI Automation does.

### WindowsUia

The stages of a request (`winStage`) follow the pipeline of
`verified_action_coordinator.rs`: refresh, plan, confirm, preflight, seal,
prepare, arm, execute, linearize, observe. The worker keeps the elements of its
latest cut only; `winHit` records the cut whose element each effect acted on.
Callbacks enter a bounded buffer with sequence numbers; a drain ingests them and
the bridge decides whether a reconciliation is due. A command may time out and
act later (`late_effect`). `restart_daemon` starts a process with another
provider incarnation and the journal as its boot scope;
`recover_newly_attached_boot_debt` drains what `recovery_bindings_for_attachment`
admits. How a walk ends is a choice here (`WalkOutcomes`) and computed in
`Postconditions`.

### The queues: BoundedQueues, PublicActions, NativeExecutor, NetworkFault

`BoundedQueues` has what the queues share: bounded appends that evict the oldest,
and tombstones pruned at a bound but never while still queued. `Without`, what the
code's `retain` leaves, is a function by position: the prover takes one apart, but
not the library's `SelectSeq`. `PublicActions`
and `NativeExecutor` keep two records of the same requests as the code does, the
queues and the cancellation authority; a bridge operation is a step, a handler
that calls several is several steps, so a cancellation may come between a claim
and its result. The page works on its pending actions in order; the native
worker takes a batch and may die with it. `NetworkFault` follows a lease from
`install_network_faults` through the page's report to its expiry or clearing;
takes and reports may be lost, windows destroyed, requests dropped.

### SurfaceResources and Governor

`SurfaceResources` has the same surfaces in three places: the desktop's registry,
the daemon's registry with owner leases and reservations, and the recovery file.
A request and its handler are separate steps, answers may be lost, handlers stop
at their await when the client hangs up, the daemon and the desktop restart.
`Governor` is the admission with every kind of reservation and the handles whose
drop gives them back.

### Sessions

Servers start and stop; a scan sees any subset of them in any order (a late probe
is missing); `resolve_assignment` gives each server of the batch a session, by
lineage, by project key, by endpoint, or anew, with a registry write that may
fail; `apply_reconciliation` publishes the batch; grace passes; the daemon
restarts with what is on disk.

### Capture, VisualEvidence, Responsive

`Capture` runs the transactions of a session step by step against a page that
executes the queued actions when it gets to them: settle, freeze under a lease,
mask, snapshot, tiles, restore, persist, register, commit of the baseline; any
wait may time out, the work may hit its deadline, the page may scroll, reload and
thaw. `VisualEvidence` computes, for a frame given as a set of changed pixels, the
tiles, merged regions, packet and stitched page, and runs the baseline cache as a
machine. `Responsive` runs the search with the program's own widths, caps and
tolerance on pages that break at some width, and that may drift between probes.
What a probe keeps of the page's state is its fingerprint, a hash of the references,
tags, roles, interactive flags and child counts of the first 1024 nodes of the
semantic tree: a change of text, class or style leaves it, so which states share one
is a parameter (`Fingerprints`), and so is which trees it covers whole. The state
itself is kept beside it for the properties, which no step of the search reads. An
element that is in the tree without a visible box (`display: none`) makes a probe
fail, one of the failures a probe may have; an element that a script removes changes
the tree and so, as a rule, the fingerprint.

### ContentStress, PointSelect

Both send scripts to a page that runs them when it can and reports through a
bounded queue. The page renders, removes nodes, changes route and reloads.
`ContentStress` follows the texts of the page with their versions, so that a text
put back can be told from the application's own; `PointSelect` follows pointer,
press and click, and the calls of the panel, which may overtake each other. What is
under the pointer, and what is still in the document, is chosen anew at every event.
A selection is reported by the element's reference (`refFor`), a hash of its role,
name, tag and ancestry that twins share, given per document by `PageReferences`.

### Repair, FixEdits, RepairVerdicts

`Repair` has the source file, its backup and its editor; proposals, apply calls
with both renames and the rollback, the verification records in memory and on
disk, and restarts. `FixEdits` is the arithmetic from the provider's answer to
the bytes and to the diff; `RepairVerdicts` are the functions from before and
after to receipts, each examined on all combinations of a small case.

### Perception, Headless

`Perception` is one cycle at a time over what the daemon retains: diagnose, plan,
execute, charge, until nothing is left, the budget or the step limit ends it.
`Headless` has several runs over one evidence store, one artifact store and one
index; any of them may be killed, the page and the tree may change.


## Runs

Seven runs pass, five find violations (Where code and text disagree). Most
components share no variable, so several stand in one run: a constant of the
behaviour, `focus`, chosen by `MCInit`, names the one that moves, and the others
keep their initial state. The state space of such a run is the sum, not the
product, of those of its parts, and an invariant that joins properties of several
parts says of each behaviour what the part in focus promises. Every action of
every module is taken in a run that passes (those of `ManagedConsequential` in
`managed_dispatch` and `managed_surfaces` together). Two actions, elements, fixes or
headless runs that no definition tells apart are a symmetry of their run. The parts of a
joined property are definitions of their own beside it in their module.

| Run | Components | Asks |
|---|---|---|
| `journal_authority` | journal | does PREPARED rest on the latest revalidated authority, a live grant on a readable PREPARED, a commit on a passed receipt of a cut after the dispatch; do dispatch and observation exclude each other? |
| `journal_faults` | journal | at most one dispatch, never forgotten, and the refinement of `DispatchPromise`, under every append fault |
| `managed_dispatch` | managed control, point selection | does an action reach an executor only through a permit, and is "not dispatched" true; is what is selected what a person pressed and released, and does the page get its clicks back? |
| `settles` | managed control, native executor, capture, stress | does every wait end? |
| `managed_surfaces` | managed control on changing surfaces, edits, verdicts | is an action confirmed once, verified where it was planned, and observed only after its effect; does an edit stay inside its excerpt, and is a fix called verified on receipts that say so? |
| `runtime` | native executor, public actions, surfaces, governor, capture, visual evidence, sessions, faults, stress, responsive search | is cancelled cancelled, held accounted for, counted live; is a frame one of a frozen page, a packet one of the change, an identity one server; is what is done to a page undone? |
| `repair_evidence` | repair, perception, headless, Windows, postconditions | does evidence that is incomplete, stale or of something else ever become a pass? |

The joined properties and what they join:

| Property | Parts |
|---|---|
| `CancelledStaysCancelled` | `CancelledNeverSucceeds`, `CancelledNeverHandedOut` |
| `SurfacesAreAccountedFor` | `ReservationsHaveOwners`, `OneSurfacePerLabel`, `ReapedOwnersAreGone` |
| `WorkIsCountedAndBounded` | `LiveWorkIsCounted`, `BudgetsHold` |
| `CapturesAreSound` | `FramesAreFrozen`, `ChangesAreReported`, `PageGivenBack` |
| `VisualEvidenceIsSound` | `ChangesAreShownOrCounted`, `PacketIsWellChosen`, `TargetsHoldTheElement`, `PageIsStitched`, `CacheBooksAgree` |
| `SessionIdsAreSound` | `ServersAreNotAliased`, `DurableIdsAreOnDisk` |
| `StressIsUndone` | `AppTextsSurvive`, `PageTextsGivenBack` |
| `ResponsiveReportIsSound` | `TransitionIsReal`, `SearchFitsTheCap`, `IssuesAreOfOnePrint`, `SheetKeepsEveryFrame` |
| `SelectionIsThePersons` | `SelectedWasPointedAt`, `ClicksAreGivenBack` |
| `RepairIsSafe` | `FixedSourceIsVerifiable`, `SourceIsKept`, `VerifiedOnce` |
| `VerdictsAreSound` | `VerifiedFixIsSound`, `ReceiptsExplainThemselves`, `ContractVerdictsAreSound` |
| `CyclesAreHonest` | `OneBrowserPerCycle`, `VisualAnswerIsEvidence`, `CompletedCyclesAreCharged` |
| `RunsAreSound` | `PassedRunsAreSound`, `DriftNeverBecomesBaseline`, `FixtureIsUndone` |
| `PageWorkEnds` | `CapturesEnd`, `StressEnds` |
| `RuntimeTypesOK`, `EvidenceTypesOK` | the type invariants; where a component keeps two records of one thing, that they agree (`NativeRecordsAgree`, `PublicRecordsAgree`, `WinBindingsAgree`) |

Bounds and why they are enough. Every bound is a constant of its module, and the
`.cfg` files give them.

- Journal: a life of an action is five records up to its first receipt and six
  with the commit, so 6 records hold one complete life, or two interleaved up to
  their PREPARED. Two instances are one restart between any two steps; the third
  shows values of an instance before the last one. Both runs start from an empty
  file and from files of old releases.
- Managed control: two actions fill every capacity of one and let one
  reconciliation overwrite the snapshot of another; two surfaces are one change
  of the primary surface.
- Queues: three requests against capacities of one or two and one tombstone make
  every queue overflow, evict and prune.
- Surfaces: one label, two owners, two incarnations and two boots are the least
  with a stale owner, a reattachment and a reap beside a restart. The governor
  has four holders for budgets of two captures, one browser and two hidden surfaces.
- Capture: two transactions of a session, two tiles, two versions of the page: a
  second version is what tells a frozen page from a live one.
- Visual evidence: frames of 6 by 6 pixels in tiles of 2 by 2; every change of
  at most two tile corners, and a border, a diagonal, a band and three far corners,
  so that regions touch, overlap, merge and exceed their limit of two; three
  sessions for a cache of two entries.
- Responsive search: the program's own widths, tolerance and caps, on pages whose
  break lies at, next to and between the widths probed; with fingerprints that
  tell the two states apart or not, the trees of one state or not, or cover one
  state only. Two states of a page and one change between them.
- Sessions: three servers of which two can share a project key, two ids and two
  boots: the third server finds every id taken.
- Faults, stress: three leases, two pages or documents and two texts, so that a
  lost answer, a reload and a replacement meet.
- Selection: two elements, so that a render puts one under the pointer that was
  pressed over the other, or removes it; twins in the first document and told apart in
  the second; two requests, so that the cancel of one meets the begin of the next;
  queues of two scripts and of two reports (the code keeps four), so that begin,
  probe and cancel queue up behind a busy page and a third report drops the first.
- Repair: two fixes of one source with two boots, files of up to five lines of
  which one exceeds the bound of an excerpt.
- Perception: a budget that every cycle fits and one that a browser cycle
  exceeds. Headless: two overlapping runs, an artifact store of one.
- Windows: one action, a buffer and a drain of one event, three events, five
  cuts and two boots: the buffer overflows, a cut supersedes one that is being
  used, and the journal outlives its provider.
- Postconditions: every tree of at most five elements under a budget of three nodes
  and a depth of two, so cut, deep and exactly fitting ones are among them, with up
  to two matches, one debt, or an element that is surfaced twice.

Deadlock is checked in `managed_dispatch`, where the worker of a surface polls
for ever and a page can always move to another route. Everywhere else the system does stop: the journal at its bounds, a
session once it is gone, a function after its case, and the component in focus
when its requests are used up.

## Fairness

`settles` assumes of each component what the code owes, and nothing of the page,
of a person or of an agent.

- Managed control (`FairSpec`): a handler that has started runs to its end; the
  worker of a surface polls every 140 ms (`apps/desktop/src-tauri/src/lib.rs`)
  and retries a report that failed; a spawned task is driven by the runtime.
  `ConfirmedSettles` is checked for a surface that stays: a record whose surface
  goes, or whose action is cancelled or evicted, stays pending until its expiry
  after five minutes.
- Native executor (`NativeFairness`): the worker polls every 120 ms, and the time
  of a lease passes. The worker may die at any point.
- Capture (`CaptureFairness`): the desktop polls its futures and every await has
  a deadline, so a transaction moves on whether or not the page answers.
- Stress (`StressFairness`): the steps of the command, its deadlines among them.

In `MCSettles` the fairness of a component is conditioned on the focus, since a
component out of focus could not take the steps it is owed.

## Where code and text disagree

Five runs show a property that the repository states and the code breaks; the
quotes are in `findings`.

- `journal_torn_append`: a write that fails half way leaves a partial line; a
  process that goes on appends behind it, and the next `open` refuses the file.
- `managed_release_race`: a release between the check of a take and its arming
  reports the action as not dispatched; the take hands it out.
- `windows_boot_debt`: the debt of a daemon that died names the provider of its
  process, and recovery admits debts of the new provider only, so nothing is
  recovered.
- `full_page_drift`: the comparison of a tile's size with the first tile's falls
  into its refusing arm when the two are equal, so no page of more than one tile
  can be captured whole (`visual_capture.rs:1592-1603`).
- `bounded_page_verified`: a page larger than its snapshot's bound is published
  as established, and a contract of absence passes on what was cut off.

Other disagreements met while modelling, each of which a variant of these runs
shows, with a constant or an initial state changed as said:

- `FailedLinearizationStaysPrepared`, `journal_faults` (`written`): a report whose
  `sync_all` fails is in the file (`base.rs:1354`), while memory and the comment
  at line 768 say PREPARED.
- `DispatchNeedsPermit` with `record_expires`: a record that expires before the
  surface polls (`managed_consequential.rs:991`) makes its action an untracked
  one, handed out without a permit.
- `DeliveredToPlannedSurface` with two surfaces: the authority of a take that was
  overtaken is ensured without a second look at the registry
  (`resource_runtime.rs:876`, comment at 874), so an action planned for the new
  surface goes to the old one.
- Windows trees with an alias (`windows-uia-provider/src/lib.rs:1989-2011`): the
  bound on queued children counts an element that the walk then drops as already
  seen (1771-1797), so children past it are neither visited nor recorded as
  exhausted, and the cut is established against the comment at 1989.
  `PostconditionsFailClosed` excepts these trees.
- `DurableIdKeepsItsServer` on `Rootless` servers of `MCSessions`, of which a scan
  sees the port and nothing else: when the probe of one is late in the scan that
  first sees another, `find_legacy_project_match` (`crates/sessions/src/lib.rs:322`)
  hands its durable id to the other by their common empty project key, while both
  run (`docs/IMPLEMENTATION_STATUS.md:50`).
- `PageLetsGo` under `PublicSpec`: a page whose acknowledgement of a cancellation
  was accepted, but not answered, sends it again; once the tombstone is pruned it is
  refused, and the page keeps the action and acknowledges it for ever
  (`apps/desktop/src-tauri/src/lib.rs:2607-2634`, 3253-3297). For results the
  comment at `surface_resource.rs:341-343` avoids just this loop.
- `SurvivorsReattach`: of the windows that outlive the daemon, only the one whose
  call renewed the registration is reattached; the call of another that finds the
  registration renewed is repeated without reattaching
  (`surface_resource.rs:366-392`; compare
  `crates/control/tests/surface_owner_restart.rs:302`).
- `PreflightOnCurrentSnapshot`: a callback that is ordering-opaque takes the
  snapshot out of the current state (`v43_lib.rs:310-322`), but the preflight asks
  for an established snapshot only in the other degraded states
  (`action_preflight.rs:270-282`), so an action passes on the snapshot that is no
  longer current.
- `ReviewedDiffIsTheChange`: the reviewed diff is built from the provider's edit
  and not from the postimage (`trusted_fix.rs:664-706`): a replacement that ends in
  a newline shows one more, empty, line than is written. The design
  (`docs/superpowers/specs/2026-09-19-human-first-trusted-fix-v25.md:889`) says it is
  generated from preimage and postimage.
- `UnchangedPageMatches`: a run compares every fresh evidence of its session, that of
  an earlier or overlapping run too (`headless.rs:942`, 972;
  `crates/verification/src/lib.rs:550`), so a page that did not change may be
  reported as changed, against
  `docs/superpowers/specs/2026-09-21-wave8-headless-ci-reporting-design.md:63`.
- `CancelledClicksAreGivenBack`: a cancel that overtakes its begin leaves the page
  selecting (`point_select.rs:359-379`, 403-415; `LocalViewShell.tsx:859-911`),
  against `docs/superpowers/specs/2026-09-20-wave5-human-point-select-source-design.md:36`.

Limits of what passes belong here. `ResponsiveReportIsSound` is relative to the
fingerprint of a state: when a change between two probes is one it does not read, a
resolved transition may stand between two states of the page. Each of its ends is
then true of the state it was probed in, but no single state need break between
them (`TransitionHolds`); the model has such behaviours. The documents promise no
more than one bounded fingerprint. `SelectedWasPointedAt` is about references: a
twin of the element pressed has its reference too. `VerdictsAreSound` covers a
handoff with a complete dependency graph and a known denominator, which the program
never claims today; that two apply calls run at once is covered by
`RepairStaysSafe` and not by the run, which has one; and in `CyclesAreHonest` that
evidence is of the request, session and page version asked about is one fact, fresh,
and not the comparison of each field. `VerifiedOnPlannedSurface` holds for
surfaces that follow one another. With `second_surface` among the events it
fails: a preview that opens, answers and closes between the two checks around
the snapshot supplies evidence for the workspace child, since the answer does
not say where it came from; a client of the session-wide drain can answer the
same way. And `DispatchNeedsPermit` is about the requests of surfaces: the
session-wide drain hands out whatever is queued.

A failing sibling or child call of UI Automation is taken for the end of the
children (`windows-uia-provider/src/lib.rs:1993`); the trees of the model answer
every call. Other hazards seen but too small, or too far from a stated promise, for a property: the
early returns of `set_value` drop a permit without reporting it abandoned; a
Windows worker that panicked is not spawned again; `preview_take_actions`
(`apps/desktop/src-tauri/src/lib.rs:2484`) loses a capture action when its window
goes; a claim of an activation that is cut off stays; the masks of a frame are
those measured at its freeze; a network-fault take that is lost leaves its
control in flight until the lease ends; one bad entry stops the recovery of the
others; two headless runs may lose one update of the baseline index.

## Proofs

Eight modules hold theorems, all for every value of the constants that the named
assumptions of the modules allow: any sets of actions, requests, surfaces,
servers or pages, any capacity, any number of restarts. `theorems` in
`PROJECT.json` lists the results.

### The journal

`ConsequentialJournalProofs` proves `TypeCorrect` (`[]TypeOK`), `NoSecondDispatch`
(`[]AtMostOneDispatch`), `EffectsRemembered` (`[]EffectNeverForgotten`) and
`ObservationExcluded` (`[]DispatchExcludesObservation`) from one inductive
invariant, `IInv`. At most one dispatch is not inductive: nothing in it keeps a
second PREPARED from being recorded after a restart, when memory is rebuilt from
the file. `MintedAfterDispatch` closes the gap. While anybody holds dispatch
authority for an action, or has used it, *both* histories have the action past
PREPARED: memory while the journal is open, and the file whenever a replay would
accept it. The file matters even while the journal is open, because a failed
append may leave in it a line that memory does not have. `LiveAfterPrepared` says
the same of the grants.

The second part of `ConsequentialJournalProofs` shows first that the history in memory
is always one that replay accepts (`MemoryReplays`, from `IInv /\ Replayable(entries)`). `Replayable` is a
statement about every prefix, so what an accepted record requires of the records
before it can be read off at any position. `PreparationIsCurrent`
(`[]PreparedUnderLatestAuthority`) and `CommitsAreVerified`
(`[]CommittedIsVerified`) are facts about replayable histories, not about steps.

Then it is about the distance between memory and file.
`JournalKeepsPromise` proves the refinement `KeepsDispatchPromise` under every
append fault: initial states map to initial states, each step maps to a step of
`DispatchPromise` or leaves its variables alone. The mapping reads memory while
the journal is open and the file otherwise, so the two hard steps are the restarts.
They need `FileIsOneAhead` (of each action, the file is at most one valid record
ahead of memory) and `RuledOutForAll` (the file does not rule out an action that
somebody can act for). `GrantsAreDurable` (`[]GrantBackedByDurablePrepared`) assumes
`"torn" \notin Faults`: a PREPARED line appended behind a torn one is unreadable,
as the run `journal_torn_append` shows. Its invariant adds that what
is past PREPARED in memory is so in the file (`MemoryIsInFile`).

### Managed control

`ManagedConsequentialProofs` proves `TypeCorrect`. The bounds on plans and
reconciliation records are not inductive, since the check and the insertion are
separated by awaits: what carries them is that the holder of `plan_gate` has left
room for what it is about to insert, and that nobody else inserts.

`ManagedDispatchProofs` goes along the path of an action. Each theorem has its
invariant; those of the last three extend that of `OneConfirmationOneDelivery`:

- `ObservationAfterEffects` (`EffectsPrecedeObservation`, an action property):
  until the executor has reported, no task runs, no observation grant is live and
  there is no verdict (`ObservedIsReported`).
- `OneConfirmationOneDelivery` (`[]ConfirmationIsOneShot`): an action is in one
  place at a time, of plan, gate, envelope, queue, batch of a request and executor
  (`SentOnce`, `HeldOnce`), and what was never planned is nowhere.
- `DispatchIsPermitted` (`[]DispatchNeedsPermit`), if no record expires on its way
  (`"record_expires" \notin Events`): what waits with a prepared grant has a record
  and a capability that can be exchanged (`WaitingIsTracked`), and what is exposed
  to a surface has been exchanged. The code takes an action without a record for
  one that needs no permit, so the property fails with that event (see above).
- `RuledOutWasNotDelivered` (`[]KnownNotDispatchedIsTrue`), if the session is not
  released (`"session_removed" \notin Events`): an action that was ruled out is
  nowhere. `managed_release_race` shows the failure with that event.
- `VerdictOnPlannedSurface` (`[]VerifiedOnPlannedSurface`), if surfaces follow one
  another and only their workers answer (`"second_surface"` and `"public_drain"`
  not in `Events`): a snapshot of another surface than the planned one means that
  the planned one is gone for good, so the second look cannot find it
  (`CapturedOnPlanned`).

Such a hypothesis excludes one or two of the events of the environment and leaves
all others. They are those under which the code does break the property.

### Queues and cancellation

`QueueProofs` begins with lemmas about the operations of `BoundedQueues`, all
by position in a sequence: what `Without`, `Bounded`, a prefix taken and a suffix
left contain, that a queue without repetitions loses exactly what was taken from
its head (`WithoutTaken`), and that pruning leaves what is still queued
(`PrunedIsNotQueued`). `Without` is a recursive function; that the function exists
and what its last value contains is shown by the least position at which it would
fail (`LeastOfNaturals`).

- `NativeCancellationHolds` (`[]CancelledStaysCancelled`) and
  `NativeRecordsStayInStep` (`NativeTypeOK`, `NativeRecordsAgree`, with the bound
  on active requests) follow from `NativeInv`. A cancellation that was answered
  must survive eviction, expiry, late results and the pruning of its tombstone.
  `NativeAskedStays` says which entries are left to it, `NativeSuccessIsFinal` that a
  stored success belongs to a request with no entry at all, and `NativeCallersWait`
  that an id without a caller is new everywhere, so an enqueue cannot revive one.
- `PublicCancellationHolds` (`[]CancelledLeavesNoResult`) and
  `PublicRecordsStayInStep` (`PublicTypeOK`, `PublicRecordsAgree`) follow from
  `PublicInv`. A tombstone that is pruned looks like an action the bridge never
  knew. What protects the page is that a queued action has left no trace yet
  (`PublicQueuedFirst`) and that a pending one is still queued; what protects the
  result is that an action that can still be cancelled has no handler
  (`PublicClaimsAreHandled`).

### What is held, and what belongs to a session

In `RuntimeProofs`, `WorkStaysCounted` (`[]WorkIsCountedAndBounded`) is inductive once
the table is known to be finite and each kind to be in states of its own.
`SurfacesStayAccountedFor` (`[]SurfacesAreAccountedFor`) needs `AccountInv`: a
handler has claimed its surface and is alone with it, the running desktop mints
identities that the daemon has not heard of, what is pending at the governor is
not live, and a window whose surface is pending is the one being opened.

In the same module, `SessionIdsStaySound` (`[]SessionIdsAreSound`) needs that a port has
one listener at a time and occurs once in a batch, and that every id on disk or
given is one that exists, so a new one is new. `FaultsStayAccountedFor`
(`[]FaultsAreAccountedFor`) needs the order of things: controls are executed in
the order they were queued, an answer comes before what still waits, a plan is
taken back after it was queued, and nothing is queued behind the control that a
handler waits for. Only so is the answer a handler gets still true of the page.

### What a page is put through

`PageProofs` has a theorem for each of four components that borrow the page.

- `CapturesStaySound` (`[]CapturesAreSound`, with `CaptureTypeOK`) from
  `CaptureInv`. A frame that was shot belongs to a page that its own freeze holds
  (`FrameIsSound`), which is only so because the queue is ordered (`QueueIsSound`):
  the freeze of a transaction is its first action, an action that is still queued
  was asked for by its transaction, and a queued freeze holds nothing yet. The
  lease timer may thaw the page at any moment; the frame then lacks what its
  evidence must have, and `PageIsSound` says that the page is at its user's place.
- `StressStaysUndone` (`[]StressIsUndone`, with `StressTypeOK`) from `StressInv`. Every
  stress in force or still queued is followed by its restore, queued behind it or
  still to be sent by the command (`RestoreIsOwed`), and what is stressed now is
  remembered with the text it was (`StressIsRemembered`). `ScriptsAreFew` is the
  bound on the queue that the type invariant claims.
- `SelectionStaysThePersons` (`[]SelectionIsThePersons`, with `PointTypeOK`) from
  `PointInv`. That a selection is the person's needs only `PointedIsKept`. That the
  clicks come back needs the order of begins, supersessions, ends and reports
  (`BeginsAreInOrder`, `EarlierIsSuperseded`, `BeginsAreEnded`, `OverIsOver`), which
  holds as long as no command overtakes another one and the route stays; with
  such a disturbance the code loses clicks (see above).
- `ResponsiveReportStaysSound` (`[]ResponsiveReportIsSound`, with `ResponsiveTypeOK`) from
  `ResponsiveInv`, for every set of page styles, start widths, frame heights and
  fingerprints, whatever trees share one. That
  a resolved transition is the page's is a fact about layouts: the verdict of a
  probe is that of the page's style at its width, in the state it was in
  (`VerdictOfLayout`), so of two neighbouring verdicts that differ one is of a page
  that fails and one of a page that does not, and when the state is one, it has the
  width where it breaks between them. That nothing the fingerprint reads has changed
  between probes is what the comparison of whole fingerprints comes to (`AlikeIs`). That the cap never ends a search is arithmetic: the
  planner starts with at most six widths and keeps the presets among them
  (`FirstWidths`), the presets leave no gap above 672 (`PresetsBoundGaps`), and a
  bracket of 672 that is halved reaches the tolerance with the six probes left
  (`Fits`, `FitsHalves`); from seven first widths it would need a thirteenth.
  The widths in order are shown to be each width once, at its rank (`SortedIs`), and
  the rounds that fill up the sweep and the tops of the frames, recursive functions
  both, are shown to exist (`RoundsExist`, `TopsExist`).

### What an agent is shown

`VisualProofs` has one theorem, `VisualEvidenceStaysSound` (`VisualTypeOK` and
`VisualEvidenceIsSound`), for frames, tiles, paths, policies, budgets and caches of
every size. It needs of its constants what `VisualAssumption` names: sizes are
positive, changes are pixels of the frame, an element has a path from the root.

- That a changed pixel is shown goes from its tile (`Covers`) through every turn of
  the coalescing, where a pixel covered by the region in hand, by a finished one or
  by a pending one stays covered (`StillCovered`), to the crop of the planned region
  (`PlanShows`): one pixel survives the scaling to CSS units and back.
- The packet: the candidates are ranked by keys, whose lexicographic order is total
  (`KeysAreOrdered`); two different candidates have different keys; and the greedy
  selection keeps, at every turn, that what it passed over repeats an image it took
  or met a budget already spent (`TakenWell`).
- A page: the rounded places of tiles leave no gap (`PlannedIsStitched`), which is
  arithmetic on quotients.
- The cache: no two entries were touched at one tick (`Shelved`), so the oldest is
  one entry, and the eviction runs through the same sets of younger entries as the
  projection (`OneGoes`, `LeftGoesOn`) and stops at the same one (`EvictionIs`).

The loops are recursive functions of the module. That each exists, and what it
returns, is shown by the least turn at which it would fail. TLC checked the
cache's invariant and the soundness of every case on a small instance before.

### What evidence and effects are worth

`EvidenceProofs`:

- `CyclesStayHonest` (`[]CyclesAreHonest`, with `PerceptionTypeOK`) from `CycleInv`: a
  browser is charged exactly when it was started, no forecast that becomes a charge
  counts one, and a cycle that waits for a browser has not been charged one
  (`BrowsersAreCharged`).
- `EffectsStayConfirmedAndFirst` (`EffectsAreConfirmedAndFirst`, an action property)
  from `WinInv`: a call that the worker holds, or that an earlier process left in
  the target, is the first of its action and nothing was observed of it
  (`CallsAreFirst`); what the journal held at start is not planned again
  (`LineagesAreOld`).
- `RepairStaysSafe` (`[]RepairIsSafe`, with `RepairTypeOK`) from `RepairInv`: a call
  that was let through is alone with its proposal and holds the gate past its
  checks (`CallsAreExclusive`); while the source is moved aside, what is at its
  place and in the backup is known (`TransactionIsKnown`); a postimage in the
  source or in a backup has its baseline on disk until it is retired
  (`BaselinesAreStored`); no fix is minted a second record
  (`RecordsAreMintedOnce`).
- `RunsStaySound` (`[]RunsAreSound`) from `HeadlessInv`, which is about each run by
  itself: at each point of its way, what it found out is so (`FindingsAreTrue`), and
  a fixture that was set up is still to be cleaned up (`FixtureIsOwed`). Nothing is
  assumed of the stores the runs share, nor of what the world does to them.

- `VerdictsStaySound` (`[]VerdictsAreSound`): the verdicts are functions of a case, so
  the theorem is about each of them, for evidence of any length. The two hard
  parts are that the reasons and the verdict of a receipt, computed apart, agree,
  and that a contract judged on facts compiled from partial evidence is judged as
  on the whole page or left unknown.
- `EditsStayInside` (`[]EditStaysInsideTheExcerpt`) for files, excerpts and edits of every
  size. The loop that narrows an excerpt is a recursive function over windows. The
  proof shows that it exists (`Windows` of a given size at a time) and that it
  leaves only windows around the selected line within the bound, both by the
  least size at which this would fail (`LeastNatural`); the rest is arithmetic on
  positions before and after the replacement.
- `PostconditionsStayClosed` (`[]PostconditionsFailClosed`) for interfaces, budgets and
  contracts of every size, from `PostInv`. That a native cut is complete when no
  bound was exhausted is a fact about the end of a walk; what carries it is
  `WalkOK`: while nothing is exhausted, the nodes are the elements seen, and every
  child of one is a node or is queued, *or* there are more nodes and queued
  elements than the budget allows, *or* a queued one is too deep. Either of the
  latter is found out before the queue is empty, which is the off-by-one that
  `queued_children` has to get right. What is shown of a page, and how deep an
  element lies, are recursive functions; that they exist is shown once for
  elements chosen in document order (`Chosen`, `ChosenExists`).

TLC checked `CaptureInv`, `StressInv`, `PointInv`, `ResponsiveInv`, `HeadlessInv` and `PostInv`
as invariants of small instances before they were proved.

What these proofs assume of constants is named in the modules: budgets and
capacities are natural numbers (`PerceptionAssumption`, `HeadlessAssumption`), a
radius and a bound are (`EditConstants`), as are the widths and heights of previews
and the places where a page style breaks (`ResponsiveConstants`), names that mean
different things differ (`RepairConstants`, `WinConstants`), and of
`PostconditionAssumption` that trees are numbered in document order (`TreeOK`) and
that a contract asks for what its provider's schema can say (`RefOK`).

### Only model-checked

- Liveness: `ConfirmedSettles`, `ActiveSlotsAreFreed` and `PageWorkEnds` rest on
  fairness, and so on `ENABLED`, which the prover does not reason about.
- `RuntimeTypesOK` and `EvidenceTypesOK` as wholes, since they join the type invariants
  of every part of a run. Proved of them, as conjuncts of the invariants above, are
  `NativeTypeOK` and `PublicTypeOK` with the agreement of their records,
  `SurfaceTypeOK`, `SessionsTypeOK`, `FaultTypeOK`, `CaptureTypeOK`, `StressTypeOK`,
  `PointTypeOK`, `ResponsiveTypeOK`, `VisualTypeOK`, `RepairTypeOK` and `PerceptionTypeOK`. `HeadlessTypeOK` selects
  subsequences and `WinBindingsAgree` folds over one, so they stay with TLC.
- The five properties that the code breaks are shown by their counterexamples.

## Not modelled

- The macOS and Linux providers (`macos-ax-provider`, `linux-atspi-provider`) are
  libraries that nothing outside tests and the validation lab calls; native
  capture is platform I/O.
- `flow` and the interaction graphs (wave 6) have no caller outside tests.
- `trusted_ai` projects evidence into a prompt and sends one request; its answer
  is the nondeterministic provider of `FixEdits`.
- CSS tracing, source maps and the evidence analyses are pure functions without
  shared state that unit tests reach.
- Policy, protocol and the Chromium process: data types, static checks, a process.
- The MCP server, the command line (apart from the headless run) and the
  validation lab: clients of the control plane, and offline campaigns.
- Of modelled parts: retained artifacts and the candidate schedule of the
  governor (no caller outside tests); `set_preview_visible` and the pause switch
  of sessions; the writing of the journal's payload files, which appear as a check
  that fails; the ring buffers of observer events, which only feed reports;
  authentication and routing of the control plane; the hash chain and timestamps
  of journal records; what UI Automation, a page or a provider answers, which is a
  choice.

## Plan

What a later version should add, in this order:

1. the type invariants left (`GovTypeOK`, `WinTypeOK`, `PostTypeOK`), as conjuncts of
   the invariants that are there;
2. the interaction graphs of `flow`, once something outside of tests calls them.
