------------------------------ MODULE Headless ------------------------------
(***************************************************************************)
(* `localview headless`: the CI gate (apps/cli/src/headless.rs) over the   *)
(* daemon's evidence store, live verification and proofs, and the baseline *)
(* index and artifact store it keeps in the project's directory.  Several  *)
(* runs may share the project; any of them may be killed.                  *)
(***************************************************************************)
EXTENDS Integers, Sequences, FiniteSets, SequencesExt

CONSTANTS CiRuns,             \* invocations of the command
          HeadlessPolicies,   \* the argument records an invocation may have
          EvidenceCapacity,   \* objects the evidence store keeps
          ArtifactCapacity,   \* envelopes the artifact budget holds
          MaxCiChanges        \* changes of page, source and findings

ASSUME HeadlessAssumption == {EvidenceCapacity, ArtifactCapacity, MaxCiChanges} \subseteq Nat

VARIABLES ciRun,     \* the runs
          ciWorld,   \* page, working tree, live findings, desktop baseline
          ciStore,   \* the daemon's EvidenceStore, oldest first
          ciDisk     \* baseline-index.json and the artifact directory

ciVars == <<ciRun, ciWorld, ciStore, ciDisk>>

Pages == {"home", "home2", "away"}
Route(page) == IF page = "away" THEN "/away" ELSE "/"
FixtureRoute == "/"

IdleRun ==
  [phase |-> "idle", args |-> "none", first |-> "none", last |-> "none", found |-> {}, rev |-> 0,
   drift |-> {}, seen |-> "none", vis |-> "none", visId |-> 0, engine |-> "none", engId |-> 0,
   verdict |-> "none", fresh |-> {}, hashes |-> {}, loaded |-> <<>>, opened |-> <<>>,
   base |-> "none", wrote |-> FALSE, code |-> "none", setups |-> 0, cleanups |-> 0]

HeadlessInit ==
  /\ ciRun = [r \in CiRuns |-> IdleRun]
  /\ ciWorld = [page |-> "home", rev |-> 1, found |-> {}, visBase |-> "none", n |-> 0, changes |-> 0]
  /\ ciStore = <<>>
  /\ ciDisk = [index |-> <<>>, files |-> <<>>]

Set(r, rec) == ciRun' = [ciRun EXCEPT ![r] = rec]
At(r, phase) == ciRun[r].phase = phase

\* A bound: a run starts when the others are idle or at their baselines.
Overlap == {"open", "compare", "index", "report", "cleanup"}

\* What a run that ends without a verdict leaves behind.
Remains(rec) == [IdleRun EXCEPT !.args = rec.args, !.setups = rec.setups, !.wrote = rec.wrote,
                                !.first = rec.first, !.last = rec.last]

\* Every exit of run_inner passes through the cleanup command.
Leave(rec, code) == [(IF code = "error" THEN Remains(rec) ELSE rec) EXCEPT
                       !.phase = IF rec.args.commands THEN "cleanup" ELSE "done", !.code = code]

----------------------------------------------------------------------------
(* The evidence store.                                                     *)

\* insert_with_retention: content-addressed with its capture time, so two
\* objects are equal only when they are the same; the oldest goes first.
insert_with_retention(store, items) ==
  LET all == store \o items
  IN SubSeq(all, 1 + (IF Len(all) > EvidenceCapacity THEN Len(all) - EvidenceCapacity ELSE 0), Len(all))

Evidence(kind, n, body, rev) == [kind |-> kind, n |-> n, body |-> body, rev |-> rev]

\* complete_action of a snapshot: the interaction carries the action's id and
\* time; the snapshot becomes semantic and layout evidence, bound to the
\* revision read now and not to the one the page was built from.
SnapshotEvidence(n, page, rev) ==
  <<Evidence("interaction", n, n, rev), Evidence("semantic", n, page, rev), Evidence("layout", n, page, rev)>>

\* release_session keeps what has the project's retention tier: proofs.
release_session ==
  /\ ciWorld.changes < MaxCiChanges /\ ciStore # <<>>
  /\ ciStore' = SelectSeq(ciStore, LAMBDA e : e.kind = "proof")
  /\ ciWorld' = [ciWorld EXCEPT !.changes = @ + 1]
  /\ UNCHANGED <<ciRun, ciDisk>>

Hard(found) == "deterministic" \in found

\* verify_current with build_verification's required classes; a project
\* without a revision binds nothing.
verify_current ==
  LET rev     == ciWorld.rev
      fresh   == IF rev = 0 THEN {} ELSE {e \in ToSet(ciStore) : e.rev = rev}
      stale   == {e \in ToSet(ciStore) : rev # 0 /\ e.rev \notin {0, rev}}
      missing == {"semantic", "layout"} \ {e.kind : e \in fresh}
  IN [fresh |-> fresh,
      verdict |-> IF Hard(ciWorld.found) THEN "fail"
                  ELSE IF rev = 0 THEN "inconclusive"
                  ELSE IF missing = {} THEN "pass"
                  ELSE IF missing \cap {e.kind : e \in stale} # {} THEN "stale"
                  ELSE "inconclusive"]

----------------------------------------------------------------------------
(* A run.                                                                  *)

\* resolve_session .. validate_fixture_command: what may be wrong with the
\* session and the fixture is left open; commands need their own flag.
validate(args) == IF args.commands /\ ~args.allowed THEN {"error"} ELSE {"error", "none"}

\* run: policy, session and fixture are validated before anything is touched.
run(r) ==
  /\ At(r, "idle") /\ \A q \in CiRuns : ciRun[q].phase \in {"idle", "done", "killed"} \cup Overlap
  /\ \E args \in HeadlessPolicies : \E code \in validate(args) :
       Set(r, [IdleRun EXCEPT !.args = args, !.code = code,
                              !.phase = IF code = "error" THEN "done" ELSE IF args.commands THEN "setup" ELSE "snapshot"])
  /\ UNCHANGED <<ciWorld, ciStore, ciDisk>>

\* run_fixture_command("setup"): a failure still runs the cleanup.
setup(r) ==
  /\ At(r, "setup")
  /\ LET rec == [ciRun[r] EXCEPT !.setups = @ + 1]
     IN Set(r, [rec EXCEPT !.phase = "snapshot"]) \/ Set(r, Leave(rec, "error"))
  /\ UNCHANGED <<ciWorld, ciStore, ciDisk>>

\* The page answers a snapshot request ...
snapshot_taken(r) ==
  /\ ciRun[r].phase \in {"snapshot", "final"} /\ ciRun[r].seen = "none"
  /\ Set(r, [ciRun[r] EXCEPT !.seen = ciWorld.page])
  /\ UNCHANGED <<ciWorld, ciStore, ciDisk>>

\* ... and the daemon files its answer, or the run gives up on it.
snapshot_filed(r) ==
  /\ ciRun[r].phase \in {"snapshot", "final"} /\ ciRun[r].seen # "none"
  /\ LET rec == ciRun[r]  page == rec.seen
     IN Set(r, IF rec.phase = "snapshot"
                 THEN [rec EXCEPT !.seen = "none", !.first = page, !.phase = "diagnose",
                                  !.drift = IF rec.args.fixture /\ Route(page) # FixtureRoute THEN {"fixture"} ELSE {}]
                 ELSE [rec EXCEPT !.seen = "none", !.last = page, !.phase = "verify",
                                  !.drift = @ \cup (IF page = rec.first THEN {} ELSE {"state"})])
  /\ ciStore' = insert_with_retention(ciStore, SnapshotEvidence(ciWorld.n + 1, ciRun[r].seen, ciWorld.rev))
  /\ ciWorld' = [ciWorld EXCEPT !.n = @ + 1]
  /\ UNCHANGED ciDisk

request_failed(r) ==
  /\ ciRun[r].phase \in {"snapshot", "diagnose", "final", "verify", "proof", "evidence"}
  /\ Set(r, Leave(ciRun[r], "error"))
  /\ UNCHANGED <<ciWorld, ciStore, ciDisk>>

\* The working tree the run binds its own requests to, 0 when git cannot say.
read_git_annotation == ciWorld.rev

\* session_diagnose and project-state.
diagnose(r) ==
  /\ At(r, "diagnose")
  /\ Set(r, [ciRun[r] EXCEPT !.found = ciWorld.found, !.rev = read_git_annotation, !.phase = "visual"])
  /\ UNCHANGED <<ciWorld, ciStore, ciDisk>>

\* classify_control_status: a refusal of the governor and the failures the
\* gate knows are reasons to be inconclusive, any other ends the run.
classify_control_status(permitted) == {"unavailable", "fatal"} \cup (IF permitted THEN {"success"} ELSE {})

Ended(r, rec, disposition) ==
  /\ Set(r, IF disposition = "fatal" THEN Leave(rec, "error") ELSE rec)
  /\ UNCHANGED <<ciWorld, ciStore, ciDisk>>

Obtained(r, rec, kind, body) ==
  /\ Set(r, rec)
  /\ ciStore' = insert_with_retention(ciStore, <<Evidence(kind, ciWorld.n + 1, body, rec.rev)>>)
  /\ UNCHANGED ciDisk

\* verify_visual_change of an expected-unchanged capture against the
\* desktop's own baseline.
verify_visual_change == IF ciWorld.visBase = "none" THEN "inconclusive"
                        ELSE IF ciWorld.visBase = ciWorld.page THEN "pass" ELSE "fail"

\* capture_and_verify_visual_diff: the capture is filed as contract evidence
\* and becomes the desktop's baseline.
capture_and_verify_visual_diff(r, rec) ==
  /\ Obtained(r, [rec EXCEPT !.vis = verify_visual_change, !.visId = ciWorld.n + 1], "contract", verify_visual_change)
  /\ ciWorld' = [ciWorld EXCEPT !.n = @ + 1, !.visBase = ciWorld.page]

\* visual_result_needs_baseline_retry: once, after the capture that made one.
visual_result_needs_baseline_retry(rec) == ciWorld.visBase = "none" /\ rec.vis = "none"

\* visual_capture_verify; the last answer is the result.
visual(r) ==
  /\ At(r, "visual")
  /\ LET rec == [ciRun[r] EXCEPT !.phase = "chromium"]
     IN \/ ~rec.args.visual /\ Ended(r, rec, "none")
        \/ /\ rec.args.visual
           /\ \E d \in classify_control_status(rec.args.pixels) :
                IF d = "success"
                  THEN capture_and_verify_visual_diff(r, [rec EXCEPT !.phase =
                         IF visual_result_needs_baseline_retry(rec) THEN "visual" ELSE "chromium"])
                  ELSE Ended(r, [rec EXCEPT !.vis = "unavailable"], d)

\* request_bounded_chromium_cycle and chromium_cycle_executed.
chromium(r) ==
  /\ At(r, "chromium")
  /\ LET rec == [ciRun[r] EXCEPT !.phase = "final"]
     IN \/ ~rec.args.chromium /\ Ended(r, rec, "none")
        \/ /\ rec.args.chromium
           /\ \E d \in classify_control_status(rec.args.browser) :
                IF d = "success"
                  THEN /\ Obtained(r, [rec EXCEPT !.engine = "executed", !.engId = ciWorld.n + 1], "engine", ciWorld.page)
                       /\ ciWorld' = [ciWorld EXCEPT !.n = @ + 1]
                  ELSE Ended(r, [rec EXCEPT !.engine = "unavailable"], d)

session_verify(r) ==
  /\ At(r, "verify")
  /\ Set(r, [ciRun[r] EXCEPT !.verdict = verify_current.verdict, !.fresh = verify_current.fresh, !.phase = "proof"])
  /\ UNCHANGED <<ciWorld, ciStore, ciDisk>>

\* create_session_proof verifies again and keeps what it finds.
create_session_proof(r) ==
  /\ At(r, "proof")
  /\ ciStore' = insert_with_retention(ciStore,
                  <<Evidence("proof", ciWorld.n + 1, verify_current.verdict, ciWorld.rev)>>)
  /\ ciWorld' = [ciWorld EXCEPT !.n = @ + 1]
  /\ Set(r, [ciRun[r] EXCEPT !.phase = "evidence"])
  /\ UNCHANGED ciDisk

\* baseline_evidence_ids and summarize_evidence: the summaries of the fresh,
\* visual and browser evidence that the store still holds.
summarize_evidence(r) ==
  /\ At(r, "evidence")
  /\ LET rec  == ciRun[r]
         mine == {e \in ToSet(ciStore) : e \in rec.fresh \/ e.n \in {rec.visId, rec.engId} \ {0}}
     IN Set(r, [rec EXCEPT !.hashes = {<<e.kind, e.rev, e.body>> : e \in mine}, !.phase = "open"])
  /\ UNCHANGED <<ciWorld, ciStore, ciDisk>>

----------------------------------------------------------------------------
(* Baselines.                                                              *)

\* ArtifactStore::gc drops the oldest files over the budget.
gc(files) == IF Len(files) > ArtifactCapacity
               THEN SubSeq(files, Len(files) - ArtifactCapacity + 1, Len(files)) ELSE files

\* ArtifactStore::open, then load_baseline_index.
open_store(r) ==
  /\ At(r, "open")
  /\ ciDisk' = [ciDisk EXCEPT !.files = gc(@)]
  /\ Set(r, [ciRun[r] EXCEPT !.opened = gc(ciDisk.files), !.loaded = ciDisk.index, !.phase = "compare"])
  /\ UNCHANGED <<ciWorld, ciStore>>

state_identity(rec) == <<Route(rec.first), rec.args.fixture>>
Envelope(rec) == [state |-> state_identity(rec), page |-> rec.last, hashes |-> rec.hashes]

\* Mutant: the run's own drift does not withhold the baseline.
compare_despite_drift(rec, files) ==
  LET state == state_identity(rec)
  IN IF "fixture" \in rec.drift THEN [status |-> "incompatible", store |-> FALSE]
     ELSE IF state \notin DOMAIN rec.loaded THEN [status |-> "created", store |-> TRUE]
     ELSE IF rec.loaded[state] = Envelope(rec) THEN [status |-> "match", store |-> FALSE]
     ELSE [status |-> "changed", store |-> rec.args.update]

\* load_retained_baseline: a locator names its envelope by hash, and the
\* artifact may be gone.
load_retained_baseline(files, locator) == locator \in ToSet(files)

compare_and_retain_baseline(rec, files) ==
  LET state == state_identity(rec)
  IN IF rec.drift # {} THEN [status |-> "incompatible", store |-> FALSE]
     ELSE IF state \notin DOMAIN rec.loaded THEN [status |-> "created", store |-> TRUE]
     ELSE IF ~load_retained_baseline(files, rec.loaded[state]) THEN [status |-> "incompatible", store |-> rec.args.update]
     ELSE IF rec.loaded[state] = Envelope(rec) THEN [status |-> "match", store |-> FALSE]
     ELSE [status |-> "changed", store |-> rec.args.update]

\* ArtifactStore::put refuses a file another run wrote since the store was
\* opened, and trusts a file of its own index that is still there.
put_artifact(r) ==
  /\ At(r, "compare")
  /\ LET rec   == ciRun[r]
         c     == compare_and_retain_baseline(rec, ciDisk.files)
         env   == Envelope(rec)
         known == env \in ToSet(rec.opened)
         there == env \in ToSet(ciDisk.files)
     IN \/ ~c.store /\ Set(r, [rec EXCEPT !.base = c.status, !.phase = "report"]) /\ UNCHANGED ciDisk
        \/ c.store /\ known # there /\ Set(r, Leave(rec, "error")) /\ UNCHANGED ciDisk
        \/ c.store /\ known = there /\ Set(r, [rec EXCEPT !.base = c.status, !.phase = "index"])
           /\ ciDisk' = [ciDisk EXCEPT !.files = IF there THEN @ ELSE gc(Append(@, env))]
  /\ UNCHANGED <<ciWorld, ciStore>>

\* write_baseline_index replaces the whole file by the index loaded before.
write_baseline_index(r) ==
  /\ At(r, "index")
  /\ LET rec == ciRun[r]  state == state_identity(rec)
     IN /\ ciDisk' = [ciDisk EXCEPT !.index =
                        [s \in DOMAIN rec.loaded \cup {state} |-> IF s = state THEN Envelope(rec) ELSE rec.loaded[s]]]
        /\ Set(r, [rec EXCEPT !.wrote = TRUE, !.phase = "report"])
  /\ UNCHANGED <<ciWorld, ciStore>>

----------------------------------------------------------------------------
(* The verdict.                                                            *)

has_inconclusive_reason(rec) ==
  \/ rec.drift # {} \/ rec.base = "incompatible"
  \/ rec.args.visual /\ rec.vis \in {"unavailable", "inconclusive"}
  \/ rec.args.chromium /\ rec.engine = "unavailable"

evaluate_exit_policy(rec) ==
  IF \/ Hard(rec.found)
     \/ rec.args.strict /\ "heuristic" \in rec.found
     \/ rec.verdict = "fail" \/ rec.vis = "fail"
     \/ rec.args.match /\ rec.base = "changed" /\ ~rec.args.update
    THEN "failed"
  ELSE IF (rec.args.verified /\ rec.verdict # "pass") \/ has_inconclusive_reason(rec) THEN "inconclusive"
  ELSE "passed"

\* The report and its attestation are written under the verdict.
write_bundle(r) ==
  /\ At(r, "report")
  /\ \E code \in {evaluate_exit_policy(ciRun[r]), "error"} : Set(r, Leave(ciRun[r], code))
  /\ UNCHANGED <<ciWorld, ciStore, ciDisk>>

\* A failed cleanup turns any outcome into an error.
fixture_cleanup(r) ==
  /\ At(r, "cleanup")
  /\ \E code \in {ciRun[r].code, "error"} :
       Set(r, [ciRun[r] EXCEPT !.cleanups = @ + 1, !.phase = "done", !.code = code])
  /\ UNCHANGED <<ciWorld, ciStore, ciDisk>>

\* The process is killed: nothing of it runs any more, the disk stays.
ci_killed(r) ==
  /\ ciRun[r].phase \in {"compare", "index", "report", "cleanup"}
  /\ Set(r, [Remains(ciRun[r]) EXCEPT !.phase = "killed"])
  /\ UNCHANGED <<ciWorld, ciStore, ciDisk>>

----------------------------------------------------------------------------
(* Meanwhile the developer works and the page moves.                       *)

world_changes ==
  /\ ciWorld.changes < MaxCiChanges
  /\ \/ \E page \in Pages \ {ciWorld.page} :
          ciWorld' = [ciWorld EXCEPT !.page = page, !.changes = @ + 1]
     \/ \E rev \in {0, ciWorld.rev + 1} :   \* 0: git cannot be read
          ciWorld' = [ciWorld EXCEPT !.rev = rev, !.changes = @ + 1]
     \/ \E class \in {"deterministic", "heuristic"} \ ciWorld.found :
          ciWorld' = [ciWorld EXCEPT !.found = @ \cup {class}, !.changes = @ + 1]
  /\ UNCHANGED <<ciRun, ciStore, ciDisk>>

HeadlessNext ==
  \/ \E r \in CiRuns :
       \/ run(r) \/ setup(r) \/ snapshot_taken(r) \/ snapshot_filed(r) \/ request_failed(r)
       \/ diagnose(r) \/ visual(r) \/ chromium(r) \/ session_verify(r)
       \/ create_session_proof(r) \/ summarize_evidence(r) \/ open_store(r) \/ put_artifact(r)
       \/ write_baseline_index(r) \/ write_bundle(r) \/ fixture_cleanup(r) \/ ci_killed(r)
  \/ world_changes \/ release_session

HeadlessSpec == HeadlessInit /\ [][HeadlessNext]_ciVars

----------------------------------------------------------------------------
(* What the gate promises.                                                 *)

\* Every run, the world and the disk keep their shapes.
HeadlessTypeOK ==
  /\ \A r \in CiRuns : ciRun[r].phase \in {"idle", "setup", "snapshot", "diagnose", "visual", "chromium",
                         "final", "verify", "proof", "evidence", "open", "compare", "index", "report",
                         "cleanup", "done", "killed"}
  /\ ciWorld.page \in Pages /\ ciWorld.rev \in Nat
  /\ Len(ciStore) <= EvidenceCapacity /\ Len(ciDisk.files) <= ArtifactCapacity

\* A run that exits 0 saw one page from its first to its last snapshot, on
\* the fixture's route, got every optional check it asked for, and found the
\* verification and the baseline its policy demands, whatever the developer,
\* the page and other runs did meanwhile (headless.rs evaluate_exit_policy).
PassedRunsAreSound ==
  \A r \in CiRuns :
    LET rec == ciRun[r]
    IN rec.phase = "done" /\ rec.code = "passed" =>
         /\ rec.first = rec.last /\ ~Hard(rec.found)
         /\ rec.args.fixture => Route(rec.last) = FixtureRoute
         /\ rec.args.visual => rec.vis = "pass"
         /\ rec.args.chromium => rec.engine = "executed"
         /\ rec.args.verified => {"semantic", "layout"} \subseteq {e.kind : e \in rec.fresh}
         /\ rec.args.match /\ ~rec.args.update => rec.base \in {"match", "created"}

\* "A run with state drift cannot create/update baseline authority": a run
\* that replaced the index saw one page state, the fixture's.
DriftNeverBecomesBaseline ==
  \A r \in CiRuns :
    ciRun[r].wrote => /\ ciRun[r].first = ciRun[r].last
                      /\ ciRun[r].args.fixture => Route(ciRun[r].first) = FixtureRoute

\* A run that ended after it started its fixture's setup ran the cleanup
\* once, on every path out of run.
FixtureIsUndone ==
  \A r \in CiRuns : ciRun[r].phase = "done" /\ ciRun[r].setups = 1 => ciRun[r].cleanups = 1

\* A run says and keeps only what it saw, and undoes what it set up.
RunsAreSound == PassedRunsAreSound /\ DriftNeverBecomesBaseline /\ FixtureIsUndone

\* "Baseline comparison uses safe evidence semantics rather than volatile
\* evidence IDs": a change is reported only when the page, the source or the
\* outcome of a check differs from the retained baseline.
\* The code does not keep this (README.md, Where code and text disagree).
UnchangedPageMatches ==
  \A r \in CiRuns :
    ciRun[r].base = "changed" =>
      LET old == ciRun[r].loaded[state_identity(ciRun[r])]
          Semantics(hashes) == {h \in hashes : h[1] \notin {"interaction", "proof"}}
      IN old.page # ciRun[r].last \/ Semantics(old.hashes) # Semantics(ciRun[r].hashes)
=============================================================================
