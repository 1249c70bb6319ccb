------------------------------- MODULE Repair -------------------------------
(***************************************************************************)
(* The trusted repair of one source file: apps/desktop/src-tauri/src/      *)
(* lib.rs (prepare_fix_proposal, apply_fix_proposal, verify_fix_change),   *)
(* trusted_fix.rs (proposals and the write transaction), trusted_verify.rs *)
(* and trusted_verify_recovery.rs (the verification records and their      *)
(* files) and crates/counterfactual/src/shadow.rs (the shadow preflight).  *)
(*                                                                         *)
(* The content of the file is a name: "v0", an edit saved by an editor, or *)
(* a fix, whose postimage bears the name of the fix.                       *)
(***************************************************************************)
EXTENDS Integers, FiniteSets

CONSTANTS
  Fixes,           \* fix proposals; the name is also their postimage
  ApplyCalls,      \* concurrent calls of apply_fix_proposal
  Edits,           \* contents an editor may save, each once
  MaxRepairBoots,  \* starts of the desktop application
  RepairRevisions  \* exact Git revisions of the project, 1 .. RepairRevisions

ASSUME RepairConstants ==
  /\ MaxRepairBoots \in Nat \ {0} /\ RepairRevisions \in Nat \ {0}
  \* The names of contents are told apart, and so are the holders of the gate.
  /\ Fixes \cap Edits = {} /\ "v0" \notin Fixes \cup Edits
  /\ {"none", "missing"} \cap (Fixes \cup Edits) = {} /\ "free" \notin ApplyCalls

VARIABLES
  rFile,      \* content of the source file, "missing" when there is none
  rBackup,    \* .localview-fix-*.bak of each fix, or "none"
  rPage,      \* "home", "away" (another route) or "moved" (another source mapping)
  rRevision,  \* HEAD of the project
  rProposal,  \* FixProposalStore: none, asked, pending, applying, gone
  rPreimage,  \* preimage of each proposal
  rCall,      \* apply calls: [step, fix, seen, revision]
  rGate,      \* holder of the apply gate of the file
  rRecord,    \* VerificationStore: none, pending, verifying, compared
  rDisk,      \* fixes whose verification metadata is on disk
  rStore,     \* persistence of the verification store is available
  rBoots,     \* starts so far
  rSaved, rRaced, rLost, \* edits saved, saved while the file was moved aside, destroyed
  rRetired, rVerified    \* fixes whose record has been retired, and with a receipt

repairVars == <<rFile, rBackup, rPage, rRevision, rProposal, rPreimage, rCall, rGate, rRecord,
                rDisk, rStore, rBoots, rSaved, rRaced, rLost, rRetired, rVerified>>

\* The transaction and the records live apart from the proposals and the page.
fileVars   == <<rFile, rBackup, rSaved, rRaced, rLost>>
recordVars == <<rRecord, rDisk, rStore, rRetired, rVerified>>
placeVars  == <<rPage, rRevision, rBoots>>

IdleCall == [step |-> "idle", fix |-> "none", seen |-> "none", revision |-> 0]
ProposalStates == {"none", "asked", "pending", "applying", "gone"}
RecordStates == {"none", "pending", "verifying", "compared"}

\* A call between the rename of the source to its backup and the last check.
MovedAside == \E c \in ApplyCalls : rCall[c].step \in {"moved", "replaced"}

-----------------------------------------------------------------------------
(***************************************************************************)
(* Proposals.                                                              *)
(***************************************************************************)
\* resolve_snapshot_source and resolve_trusted_source_target: one node with the
\* reference, whose source is the same line of the same file of the project.
resolve_trusted_source_target == rPage # "moved"

\* validate_fix_source_policy: the bytes of an editable regular file.
validate_fix_source_policy == rFile # "missing"

\* insert: a session keeps at most two proposals.
SessionHasRoom == Cardinality({g \in Fixes : rProposal[g] \in {"pending", "applying"}}) < 2

\* prepare_fix_proposal up to the question to the provider.
prepare_fix_proposal(f) ==
  /\ rProposal[f] = "none" /\ rPage = "home"
  /\ resolve_trusted_source_target /\ validate_fix_source_policy
  /\ rProposal' = [rProposal EXCEPT ![f] = "asked"]
  /\ rPreimage' = [rPreimage EXCEPT ![f] = rFile]
  /\ UNCHANGED <<rCall, rGate, fileVars, recordVars, placeVars>>

\* The answer: an edit that is accepted (FixEdits), on a route and a source that
\* have not changed meanwhile.
insert_proposal(f) ==
  /\ rProposal[f] = "asked"
  /\ \E accepted \in BOOLEAN :
       LET kept == accepted /\ rPage # "away" /\ rFile = rPreimage[f] /\ SessionHasRoom
       IN  rProposal' = [rProposal EXCEPT ![f] = IF kept THEN "pending" ELSE "gone"]
  /\ UNCHANGED <<rPreimage, rCall, rGate, fileVars, recordVars, placeVars>>

\* discard: never a proposal that is being applied.
discard_proposal(f) ==
  /\ rProposal[f] = "pending"
  /\ rProposal' = [rProposal EXCEPT ![f] = "gone"]
  /\ UNCHANGED <<rPreimage, rCall, rGate, fileVars, recordVars, placeVars>>

\* reap_expired_locked: neither does one of those expire.
reap_expired_proposal(f) ==
  /\ rProposal[f] = "pending"
  /\ rProposal' = [rProposal EXCEPT ![f] = "gone"]
  /\ UNCHANGED <<rPreimage, rCall, rGate, fileVars, recordVars, placeVars>>

-----------------------------------------------------------------------------
(***************************************************************************)
(* Apply.  begin_apply reads the proposal, leaves the lock for the shadow   *)
(* preflight and takes the lock again.                                     *)
(***************************************************************************)
CallAt(c, step) == rCall' = [rCall EXCEPT ![c].step = step]
Returned(c) == rCall' = [rCall EXCEPT ![c] = IdleCall]
Freed(c) == rGate' = IF rGate = c THEN "free" ELSE rGate

\* snapshot_visible_worktree: the bytes of the worktree, here of the source.
snapshot_visible_worktree == rFile

\* ShadowWorkspace::prepare snapshots the worktree of the current revision.
shadow_prepare(c, f) ==
  /\ rCall[c] = IdleCall /\ rProposal[f] = "pending"
  /\ rCall' = [rCall EXCEPT ![c] = [step |-> "preflight", fix |-> f, seen |-> snapshot_visible_worktree,
                                    revision |-> rRevision]]
  /\ UNCHANGED <<rProposal, rPreimage, rGate, fileVars, recordVars, placeVars>>

\* ShadowWorkspace::proof and cleanup: rejected unless the worktree is unchanged
\* and the shadow is gone.  A preflight that is unavailable (no Git revision, a
\* preparation that failed) is inconclusive and carries no revision.
run_production_candidate_preflight(c) ==
  /\ rCall[c].step = "preflight"
  /\ \E cleaned, available \in BOOLEAN :
       LET inconclusive == ~available \/ (cleaned /\ snapshot_visible_worktree = rCall[c].seen)
       IN  rCall' = [rCall EXCEPT ![c] =
             IF inconclusive
               THEN [rCall[c] EXCEPT !.step = "approved", !.seen = "none",
                                     !.revision = IF available THEN rCall[c].revision ELSE 0]
               ELSE IdleCall]
  /\ UNCHANGED <<rProposal, rPreimage, rGate, fileVars, recordVars, placeVars>>

\* The end of begin_apply: the revision is still the one of the preflight, and the
\* proposal is still pending.
begin_apply(c) ==
  LET f == rCall[c].fix
      ok == rCall[c].revision \in {0, rRevision} /\ rProposal[f] = "pending"
  IN  /\ rCall[c].step = "approved"
      /\ rProposal' = IF ok THEN [rProposal EXCEPT ![f] = "applying"] ELSE rProposal
      /\ rCall' = IF ok THEN [rCall EXCEPT ![c].step = "waiting", ![c].revision = 0]
                        ELSE [rCall EXCEPT ![c] = IdleCall]
      /\ UNCHANGED <<rPreimage, rGate, fileVars, recordVars, placeVars>>

\* apply_gate_for and the checks of apply_fix_proposal: route, mapping, bytes.
apply_fix_proposal(c) ==
  /\ rCall[c].step = "waiting" /\ rGate = "free"
  /\ rPage = "home" /\ resolve_trusted_source_target /\ validate_fix_source_policy
  /\ rFile = rPreimage[rCall[c].fix]
  /\ rGate' = c
  /\ CallAt(c, "held")
  /\ UNCHANGED <<rProposal, rPreimage, fileVars, recordVars, placeVars>>

\* persist_record, refused when the store could not be opened, and consume_record.
persist_record(f) == rStore /\ rDisk' = rDisk \cup {f}
consume_record(f) == rDisk' = rDisk \ {f}

\* VerificationStore::insert: on disk first, then in memory.
insert_record(f) == persist_record(f) /\ rRecord' = [rRecord EXCEPT ![f] = "pending"]

\* Mutant: an Apply goes on when its baseline cannot be stored.
mint_best_effort(c) ==
  LET f == rCall[c].fix
  IN  /\ rCall[c].step = "held" /\ rPage # "away"
      /\ rRecord' = IF rStore THEN [rRecord EXCEPT ![f] = "pending"] ELSE rRecord
      /\ rDisk' = IF rStore THEN rDisk \cup {f} ELSE rDisk
      /\ CallAt(c, "minted")
      /\ UNCHANGED <<rProposal, rPreimage, rGate, rStore, rRetired, rVerified, fileVars, placeVars>>

\* mint_verification_baseline: the record is stored before the source is written.
mint_verification_baseline(c) ==
  /\ rCall[c].step = "held" /\ rPage # "away"
  /\ insert_record(rCall[c].fix)
  /\ CallAt(c, "minted")
  /\ UNCHANGED <<rProposal, rPreimage, rGate, rStore, rRetired, rVerified, fileVars, placeVars>>

\* apply_fix_transaction: the temporary file is written and the source read again.
write_temporary(c) ==
  /\ rCall[c].step = "minted" /\ rFile = rPreimage[rCall[c].fix]
  /\ CallAt(c, "written")
  /\ UNCHANGED <<rProposal, rPreimage, rGate, fileVars, recordVars, placeVars>>

\* The source, whatever it is by now, becomes the backup.
rename_to_backup(c) ==
  /\ rCall[c].step = "written" /\ rFile # "missing"
  /\ rBackup' = [rBackup EXCEPT ![rCall[c].fix] = rFile]
  /\ rFile' = "missing"
  /\ CallAt(c, "moved")
  /\ UNCHANGED <<rProposal, rPreimage, rGate, rSaved, rRaced, rLost, recordVars, placeVars>>

\* The backup is the preimage: the temporary file replaces the source.
rename_to_target(c) ==
  /\ rCall[c].step = "moved" /\ rBackup[rCall[c].fix] = rPreimage[rCall[c].fix]
  /\ rLost' = rLost \cup ({rFile} \ {"missing"})
  /\ rFile' = rCall[c].fix
  /\ CallAt(c, "replaced")
  /\ UNCHANGED <<rProposal, rPreimage, rGate, rBackup, rSaved, rRaced, recordVars, placeVars>>

\* The written file is the postimage: the backup goes, then complete_apply.
complete_apply(c) ==
  LET f == rCall[c].fix
  IN  /\ rCall[c].step = "replaced" /\ rFile = f
      /\ rLost' = rLost \cup ({rBackup[f]} \ {rPreimage[f]})
      /\ rBackup' = [rBackup EXCEPT ![f] = "none"]
      /\ rProposal' = [rProposal EXCEPT ![f] = "gone"]
      /\ Returned(c) /\ Freed(c)
      /\ UNCHANGED <<rPreimage, rFile, rSaved, rRaced, recordVars, placeVars>>

\* rollback: the temporary file and what is at the source go, the backup comes
\* back; the last rename may fail.
rollback(c) ==
  LET f == rCall[c].fix
  IN  /\ rLost' = rLost \cup ({rFile} \ {"missing", f})
      /\ \/ rFile' = rBackup[f] /\ rBackup' = [rBackup EXCEPT ![f] = "none"]
         \/ rFile' = "missing" /\ UNCHANGED rBackup
      /\ UNCHANGED <<rSaved, rRaced>>

\* discard_verification: the record is retired on disk first; when that fails it stays.
discard_verification(f) ==
  \/ /\ rRecord' = [rRecord EXCEPT ![f] = "none"]
     /\ consume_record(f)
     /\ rRetired' = rRetired \cup {f}
     /\ UNCHANGED <<rStore, rVerified>>
  \/ UNCHANGED recordVars

\* Every other end of an apply: a check fails, a file operation fails, the record
\* cannot be stored.  The proposal is invalidated and the transaction undone.
apply_failed(c) ==
  LET f == rCall[c].fix
  IN  /\ rCall[c].step \in {"waiting", "held", "minted", "written", "moved", "replaced"}
      /\ (rCall[c].step = "waiting" => rGate = "free")
      /\ IF rCall[c].step \in {"moved", "replaced"} THEN rollback(c) ELSE UNCHANGED fileVars
      /\ IF rCall[c].step \in {"waiting", "held"} THEN UNCHANGED recordVars
                                                  ELSE discard_verification(f)
      /\ rProposal' = [rProposal EXCEPT ![f] = "gone"]
      /\ Returned(c) /\ Freed(c)
      /\ UNCHANGED <<rPreimage, placeVars>>

-----------------------------------------------------------------------------
(***************************************************************************)
(* Verify.                                                                 *)
(***************************************************************************)
RecordAt(f, status) == rRecord' = [rRecord EXCEPT ![f] = status]

begin_verify(f) ==
  /\ rRecord[f] = "pending"
  /\ RecordAt(f, "verifying")
  /\ UNCHANGED <<rProposal, rPreimage, rCall, rGate, rDisk, rStore, rRetired, rVerified,
                 fileVars, placeVars>>

\* verify_fix_change, up to the comparisons: same route, same mapping, and the
\* bytes that were applied.
verify_fix_change(f) ==
  /\ rRecord[f] = "verifying"
  /\ rPage = "home" /\ resolve_trusted_source_target /\ validate_fix_source_policy /\ rFile = f
  /\ RecordAt(f, "compared")
  /\ UNCHANGED <<rProposal, rPreimage, rCall, rGate, rDisk, rStore, rRetired, rVerified,
                 fileVars, placeVars>>

\* complete: retire the record on disk, then answer; a failure keeps it pending.
complete_verification(f) ==
  /\ rRecord[f] = "compared" /\ rPage # "away"
  /\ \/ /\ RecordAt(f, "none")
        /\ consume_record(f)
        /\ rVerified' = rVerified \cup {f}
        /\ rRetired' = rRetired \cup {f}
     \/ RecordAt(f, "pending") /\ UNCHANGED <<rDisk, rVerified, rRetired>>
  /\ UNCHANGED <<rProposal, rPreimage, rCall, rGate, rStore, fileVars, placeVars>>

\* The error paths: a changed route, source or mapping retires the record, every
\* other error and the deadline of 15 s release it.
verify_failed(f) ==
  /\ rRecord[f] \in {"verifying", "compared"}
  /\ \/ /\ rPage # "home" \/ rFile # f
        /\ discard_verification(f)
     \/ /\ RecordAt(f, "pending")
        /\ UNCHANGED <<rDisk, rStore, rRetired, rVerified>>
  /\ UNCHANGED <<rProposal, rPreimage, rCall, rGate, fileVars, placeVars>>

\* reap_expired_locked: only pending records expire, and only in memory.
reap_expired_record(f) ==
  /\ rRecord[f] = "pending"
  /\ RecordAt(f, "none")
  /\ rRetired' = rRetired \cup {f}
  /\ UNCHANGED <<rProposal, rPreimage, rCall, rGate, rDisk, rStore, rVerified, fileVars, placeVars>>

-----------------------------------------------------------------------------
(***************************************************************************)
(* The environment: an editor, Git, the page, and a crash with a restart.   *)
(***************************************************************************)
editor_save(e) ==
  /\ e \notin rSaved /\ (rFile # "missing" \/ MovedAside)
  /\ rFile' = e
  /\ rSaved' = rSaved \cup {e}
  /\ rRaced' = IF MovedAside THEN rRaced \cup {e} ELSE rRaced
  /\ UNCHANGED <<rProposal, rPreimage, rCall, rGate, rBackup, rLost, recordVars, placeVars>>

git_commit ==
  /\ rRevision < RepairRevisions
  /\ rRevision' = rRevision + 1
  /\ UNCHANGED <<rProposal, rPreimage, rCall, rGate, rPage, rBoots, fileVars, recordVars>>

navigate ==
  /\ rPage' \in {"home", "away", "moved"} \ {rPage}
  /\ UNCHANGED <<rProposal, rPreimage, rCall, rGate, rRevision, rBoots, fileVars, recordVars>>

\* Proposals and calls die with the application; load_records reads the metadata
\* files, drops the expired ones, and refuses the whole store over one bad entry.
load_records ==
  /\ rBoots < MaxRepairBoots
  /\ rBoots' = rBoots + 1
  /\ rProposal' = [f \in Fixes |-> IF rProposal[f] = "none" THEN "none" ELSE "gone"]
  /\ rCall' = [c \in ApplyCalls |-> IdleCall]
  /\ rGate' = "free"
  /\ rStore' \in BOOLEAN
  /\ LET expired == rRetired \ rVerified
     IN  /\ rDisk' = IF rStore' THEN rDisk \ expired ELSE rDisk
         /\ rRecord' = [f \in Fixes |-> IF rStore' /\ f \in rDisk' THEN "pending" ELSE "none"]
  /\ UNCHANGED <<rPreimage, rPage, rRevision, rRetired, rVerified, fileVars>>

-----------------------------------------------------------------------------
RepairInit ==
  /\ rFile = "v0" /\ rBackup = [f \in Fixes |-> "none"]
  /\ rPage = "home" /\ rRevision = 1
  /\ rProposal = [f \in Fixes |-> "none"] /\ rPreimage = [f \in Fixes |-> "none"]
  /\ rCall = [c \in ApplyCalls |-> IdleCall] /\ rGate = "free"
  /\ rRecord = [f \in Fixes |-> "none"] /\ rDisk = {} /\ rStore = TRUE
  /\ rBoots = 1
  /\ rSaved = {} /\ rRaced = {} /\ rLost = {} /\ rRetired = {} /\ rVerified = {}

RepairNext ==
  \/ \E f \in Fixes :
       \/ prepare_fix_proposal(f) \/ insert_proposal(f) \/ discard_proposal(f)
       \/ reap_expired_proposal(f)
       \/ begin_verify(f) \/ verify_fix_change(f) \/ complete_verification(f)
       \/ verify_failed(f) \/ reap_expired_record(f)
  \/ \E c \in ApplyCalls :
       \/ \E f \in Fixes : shadow_prepare(c, f)
       \/ run_production_candidate_preflight(c) \/ begin_apply(c) \/ apply_fix_proposal(c)
       \/ mint_verification_baseline(c) \/ write_temporary(c) \/ rename_to_backup(c)
       \/ rename_to_target(c) \/ complete_apply(c) \/ apply_failed(c)
  \/ \E e \in Edits : editor_save(e)
  \/ git_commit \/ navigate \/ load_records

RepairSpec == RepairInit /\ [][RepairNext]_repairVars

-----------------------------------------------------------------------------
Contents == {"v0"} \cup Fixes \cup Edits

\* Type invariant of the repair state.
RepairTypeOK ==
  /\ rFile \in Contents \cup {"missing"}
  /\ rBackup \in [Fixes -> Contents \cup {"none"}]
  /\ rPage \in {"home", "away", "moved"} /\ rRevision \in 1..RepairRevisions
  /\ rProposal \in [Fixes -> ProposalStates]
  /\ rPreimage \in [Fixes -> Contents \cup {"none"}]
  /\ \A c \in ApplyCalls : rCall[c].fix \in Fixes \cup {"none"}
  /\ rGate \in ApplyCalls \cup {"free"}
  /\ rRecord \in [Fixes -> RecordStates] /\ rDisk \subseteq Fixes
  /\ rStore \in BOOLEAN /\ rBoots \in 1..MaxRepairBoots
  /\ rRaced \subseteq rSaved /\ rSaved \subseteq Edits

\* apply_fix_transaction keeps the user's bytes: a save is destroyed only when it
\* was made while a transaction had the source moved aside, and a source that is
\* missing (a crash or a failed rollback between the renames) is still in a backup.
SourceIsKept ==
  /\ rLost \subseteq rRaced
  /\ rFile = "missing" => \E f \in Fixes : rBackup[f] # "none"

\* A fix in the source can be verified: its baseline reached the disk before the
\* write, so that a crash right after the write loses nothing, and it stays there
\* until it is verified, refuted or expired.
FixedSourceIsVerifiable ==
  \A f \in Fixes : rFile = f => f \in rDisk \cup rRetired

\* A verification that was answered is over: no restart brings its record back and
\* no second receipt is issued for it.
VerifiedOnce == \A f \in rVerified : rRecord[f] = "none" /\ f \notin rDisk

\* A repair loses neither the user's source nor the way to verify it, and is
\* verified once.
RepairIsSafe == SourceIsKept /\ FixedSourceIsVerifiable /\ VerifiedOnce
=============================================================================
