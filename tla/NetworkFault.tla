---------------------------- MODULE NetworkFault ----------------------------
(***************************************************************************)
(* Leased network faults of one session: crates/control/src/               *)
(* network_fault.rs (handlers), crates/live-bridge/src/lib.rs (control     *)
(* queue and lease), apps/desktop/src-tauri/src/lib.rs (the worker of the  *)
(* page) and crates/instrumentation/src/lib.rs (the fault plan in force).  *)
(*                                                                         *)
(* mutation_gate lets one install or clear wait for the page at a time; a  *)
(* dropped request frees it at once.  The queues are far from their        *)
(* capacity (a lease lasts at most 30 s), so nothing is evicted here.      *)
(***************************************************************************)
EXTENDS Integers, Sequences, FiniteSets, SequencesExt

CONSTANTS
  FaultTokens,        \* lease tokens, each minted once
  MaxFaultPages,      \* incarnations of the preview window
  MaxFaultControls    \* controls that are ever queued

ASSUME FaultConstants ==
  /\ MaxFaultPages \in Nat \ {0} /\ MaxFaultControls \in Nat \ {0}
  /\ "none" \notin FaultTokens

VARIABLES
  fQueue,     \* network_fault_requests: [id, command, token]
  fInflight,  \* network_fault_inflight and network_fault_claimed
  fResults,   \* network_fault_results: [id, ok, active, page]
  fLease,     \* network_fault_lease
  fGate,      \* the handler that holds mutation_gate
  fPage,      \* networkFaultLease of the page: the token in force
  fNumber,    \* incarnation of the page
  fPending,   \* pendingNetworkFaultControls: [control, result]
  fGone,      \* destroyed windows whose invalidation is under way
  fIds,       \* controls queued so far
  fMinted, fCleared, fDropped   \* tokens minted, cleared with 204, abandoned

faultVars == <<fQueue, fInflight, fResults, fLease, fGate, fPage, fNumber, fPending,
               fGone, fIds, fMinted, fCleared, fDropped>>

FaultIdle == [step |-> "idle", id |-> 0, token |-> "none", previous |-> "none"]
NoFaultLease == [token |-> "none", page |-> 0]
FaultControl(command, token, id) == [id |-> id, command |-> command, token |-> token]

\* Result of the control the gate waits for, a set of at most one element.
FaultAnswer == {k \in ToSet(fResults) : k.id = fGate.id}

-----------------------------------------------------------------------------
\* install_network_faults, up to the wait: the plan is canonical by now.
install_network_faults(t) ==
  /\ fGate = FaultIdle /\ t \notin fMinted /\ fIds < MaxFaultControls
  /\ fIds' = fIds + 1
  /\ fQueue' = Append(fQueue, FaultControl("install", t, fIds'))
  /\ fGate' = [step |-> "install", id |-> fIds', token |-> t, previous |-> fLease.token]
  /\ fMinted' = fMinted \cup {t}
  /\ UNCHANGED <<fInflight, fResults, fLease, fPage, fNumber, fPending, fGone, fCleared, fDropped>>

\* Mutant: only the previous plan is taken back.
cleanup_previous_only(withPrevious) ==
  /\ fQueue' = IF withPrevious /\ fGate.previous # "none"
                 THEN Append(fQueue, FaultControl("clear", fGate.previous, fIds + 1)) ELSE fQueue
  /\ fIds' = fIds + 1
  /\ fLease' = NoFaultLease

\* queue_failed_install_cleanup: take back the new plan, and the previous one
\* unless the page is known to have replaced it.
queue_failed_install_cleanup(withPrevious) ==
  /\ fQueue' = Append(fQueue, FaultControl("clear", fGate.token, fIds + 1))
               \o IF withPrevious /\ fGate.previous # "none"
                    THEN <<FaultControl("clear", fGate.previous, fIds + 2)>> ELSE <<>>
  /\ fIds' = fIds + 2
  /\ fLease' = IF fGate.previous = fLease.token THEN NoFaultLease ELSE fLease

\* The end of an installation: no answer in CONTROL_ACK_TIMEOUT or a refusal, an
\* answer that does not match the plan, or the lease.
install_failed ==
  /\ fGate.step = "install"
  /\ \/ FaultAnswer = {} /\ queue_failed_install_cleanup(TRUE)
     \/ \E k \in FaultAnswer : ~k.ok /\ queue_failed_install_cleanup(TRUE)
     \/ \E k \in FaultAnswer : k.ok /\ queue_failed_install_cleanup(FALSE)
  /\ fGate' = FaultIdle
  /\ UNCHANGED <<fInflight, fResults, fPage, fNumber, fPending, fGone, fMinted, fCleared, fDropped>>

set_network_fault_lease ==
  /\ fGate.step = "install"
  /\ \E k \in FaultAnswer : k.ok /\ k.active
                             /\ fLease' = [token |-> fGate.token, page |-> k.page]
  /\ fGate' = FaultIdle
  /\ UNCHANGED <<fQueue, fInflight, fResults, fPage, fNumber, fPending, fGone, fIds,
                 fMinted, fCleared, fDropped>>

\* clear_network_faults, up to the wait.
clear_network_faults ==
  /\ fGate = FaultIdle /\ fLease # NoFaultLease /\ fIds < MaxFaultControls
  /\ fIds' = fIds + 1
  /\ fQueue' = Append(fQueue, FaultControl("clear", fLease.token, fIds'))
  /\ fGate' = [step |-> "clear", id |-> fIds', token |-> fLease.token, previous |-> "none"]
  /\ UNCHANGED <<fInflight, fResults, fLease, fPage, fNumber, fPending, fGone,
                 fMinted, fCleared, fDropped>>

\* Its end: 204 only for an inactive plan on the page of the lease, which must
\* still be the same lease; the other answers leave the lease.
clear_answered ==
  LET lease == fLease
      done  == /\ \E k \in FaultAnswer : k.ok /\ ~k.active /\ k.page = lease.page
               /\ lease.token = fGate.token
  IN  /\ fGate.step = "clear"
      /\ fLease' = IF done THEN NoFaultLease ELSE fLease
      /\ fCleared' = IF done THEN fCleared \cup {fGate.token} ELSE fCleared
      /\ fGate' = FaultIdle
      /\ UNCHANGED <<fQueue, fInflight, fResults, fPage, fNumber, fPending, fGone, fIds,
                     fMinted, fDropped>>

\* The connection of an install or clear breaks: nobody waits any more.
fault_request_dropped ==
  /\ fGate # FaultIdle
  /\ fDropped' = IF fGate.step = "install" THEN fDropped \cup {fGate.token} ELSE fDropped
  /\ fGate' = FaultIdle
  /\ UNCHANGED <<fQueue, fInflight, fResults, fLease, fPage, fNumber, fPending, fGone, fIds,
                 fMinted, fCleared>>

\* current_live_lease: a lease past its expiry is dropped by whoever looks.  It
\* was set after the page had started its own clock.
current_live_lease ==
  /\ fLease # NoFaultLease /\ fPage # fLease.token
  /\ fLease' = NoFaultLease
  /\ UNCHANGED <<fQueue, fInflight, fResults, fGate, fPage, fNumber, fPending, fGone, fIds,
                 fMinted, fCleared, fDropped>>

\* invalidate_preview_fault_lease, for a window that was destroyed.
invalidate_preview_fault_lease(n) ==
  /\ n \in fGone
  /\ fGone' = fGone \ {n}
  /\ fLease' = IF fLease.page = n THEN NoFaultLease ELSE fLease
  /\ UNCHANGED <<fQueue, fInflight, fResults, fGate, fPage, fNumber, fPending, fIds,
                 fMinted, fCleared, fDropped>>

-----------------------------------------------------------------------------
(***************************************************************************)
(* The page.                                                               *)
(***************************************************************************)
FaultUnexecuted == [ok |-> FALSE, active |-> FALSE, page |-> 0, id |-> 0]

\* take_network_fault_controls and rememberTakenNetworkFaultControls: only when
\* nothing is pending.  A lost answer loses the controls.
take_network_fault_controls ==
  /\ fPending = <<>> /\ fQueue # <<>>
  /\ fQueue' = <<>>
  /\ fInflight' = fInflight \cup ToSet(fQueue)
  /\ \/ fPending' = [k \in DOMAIN fQueue |-> [control |-> fQueue[k], result |-> FaultUnexecuted]]
     \/ UNCHANGED fPending
  /\ UNCHANGED <<fResults, fLease, fGate, fPage, fNumber, fGone, fIds, fMinted, fCleared, fDropped>>

\* installNetworkFaultPlan replaces the plan in force, or throws; a clear of
\* another token throws.  Executed once, whatever happens to the report.
executeNetworkFaultControl ==
  LET c == Head(fPending).control
      Executed(page, ok) ==
        /\ fPage' = page
        /\ fPending' = [fPending EXCEPT ![1].result =
                          [id |-> c.id, ok |-> ok, active |-> ok /\ page # "none", page |-> fNumber]]
  IN  /\ fPending # <<>> /\ Head(fPending).result = FaultUnexecuted
      /\ \/ c.command = "install" /\ (Executed(c.token, TRUE) \/ Executed(fPage, FALSE))
         \/ c.command = "clear" /\ IF fPage \in {c.token, "none"} THEN Executed("none", TRUE)
                                   ELSE Executed(fPage, FALSE)
      /\ UNCHANGED <<fQueue, fInflight, fResults, fLease, fGate, fNumber, fGone, fIds,
                     fMinted, fCleared, fDropped>>

\* complete_network_fault_control: claimed and stored in one go.  A lost answer,
\* and the CONFLICT a second report gets, leave the entry pending.
complete_network_fault_control ==
  LET r == Head(fPending).result
  IN  /\ fPending # <<>> /\ r # FaultUnexecuted
      /\ Head(fPending).control \in fInflight
      /\ fInflight' = fInflight \ {Head(fPending).control}
      /\ fResults' = Append(fResults, r)
      /\ \/ fPending' = Tail(fPending)
         \/ UNCHANGED fPending
      /\ UNCHANGED <<fQueue, fLease, fGate, fPage, fNumber, fGone, fIds, fMinted, fCleared, fDropped>>

activeNetworkFaultLease ==
  /\ fPage # "none" /\ fPage' = "none"
  /\ UNCHANGED <<fQueue, fInflight, fResults, fLease, fGate, fNumber, fPending, fGone, fIds,
                 fMinted, fCleared, fDropped>>

\* The window is destroyed and opened again; install_preview_surface_destroyed_
\* reconciler reports it.
preview_destroyed ==
  /\ fNumber < MaxFaultPages
  /\ fNumber' = fNumber + 1 /\ fGone' = fGone \cup {fNumber}
  /\ fPage' = "none" /\ fPending' = <<>>
  /\ UNCHANGED <<fQueue, fInflight, fResults, fLease, fGate, fIds, fMinted, fCleared, fDropped>>

-----------------------------------------------------------------------------
FaultInit ==
  /\ fQueue = <<>> /\ fInflight = {} /\ fResults = <<>> /\ fLease = NoFaultLease
  /\ fGate = FaultIdle /\ fPage = "none" /\ fNumber = 1 /\ fPending = <<>> /\ fGone = {}
  /\ fIds = 0 /\ fMinted = {} /\ fCleared = {} /\ fDropped = {}

FaultNext ==
  \/ \E t \in FaultTokens : install_network_faults(t)
  \/ install_failed \/ set_network_fault_lease
  \/ clear_network_faults \/ clear_answered \/ fault_request_dropped \/ current_live_lease
  \/ \E n \in 1..MaxFaultPages : invalidate_preview_fault_lease(n)
  \/ take_network_fault_controls \/ executeNetworkFaultControl \/ complete_network_fault_control
  \/ activeNetworkFaultLease \/ preview_destroyed

FaultSpec == FaultInit /\ [][FaultNext]_faultVars

-----------------------------------------------------------------------------
\* What the daemon and the page hold; controls have ids of their own.
FaultTypeOK ==
  LET Tokens   == FaultTokens \cup {"none"}
      Ids      == 1..fIds
      Controls == [id : Ids, command : {"install", "clear"}, token : FaultTokens]
      Results  == [id : Ids, ok : BOOLEAN, active : BOOLEAN, page : 1..MaxFaultPages]
  IN  /\ fIds \in Nat /\ fNumber \in 1..MaxFaultPages
      /\ fQueue \in Seq(Controls) /\ fInflight \subseteq Controls /\ fResults \in Seq(Results)
      /\ \A i, j \in DOMAIN fQueue : fQueue[i].id = fQueue[j].id => i = j
      /\ fLease \in [token : Tokens, page : 0..MaxFaultPages] /\ fPage \in Tokens
      /\ fGate \in [step : {"idle", "install", "clear"}, id : 0..fIds, token : Tokens, previous : Tokens]
      /\ fPending \in Seq([control : Controls, result : Results \cup {FaultUnexecuted}])
      /\ fGone \subseteq 1..MaxFaultPages
      /\ fMinted \cup fCleared \cup fDropped \subseteq FaultTokens

\* No fault stays in force behind the daemon's back: the plan of the page is the
\* leased one, or is being installed or taken back, unless the client of its
\* installation hung up or the window of the lease is gone.  And a plan whose
\* removal was confirmed does not come back, whichever installation is still
\* queued or pending.
FaultsAreAccountedFor ==
  /\ fPage # "none" =>
       \/ fPage = fLease.token
       \/ fGate.token = fPage
       \/ fPage \in fDropped
       \/ \E c \in ToSet(fQueue) \cup fInflight : c.command = "clear" /\ c.token = fPage
  /\ fPage \notin fCleared

=============================================================================
