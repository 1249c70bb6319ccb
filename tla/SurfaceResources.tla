-------------------------- MODULE SurfaceResources --------------------------
(***************************************************************************)
(* The managed surfaces of one session, in three records of the same       *)
(* truth:                                                                  *)
(*   the desktop's registry (surface_registry.rs, workspace_surface.rs,    *)
(*     surface_resource.rs and open_preview in lib.rs),                    *)
(*   the daemon's registry, owner leases and reservations                  *)
(*     (crates/control/src/resource_runtime.rs, surface_owner.rs,          *)
(*     surface_liveness.rs, crates/resource-governor/src/lib.rs),          *)
(*   the recovery journal, which survives the daemon (surface_recovery.rs).*)
(* A request and its handler are separate steps: the answer of a handler   *)
(* may be lost, and a handler whose client hung up stops at its await.     *)
(***************************************************************************)
EXTENDS Integers, FiniteSets

CONSTANTS
  SurfaceLabels,      \* a preview window, a workspace child
  SurfaceOwners,      \* desktop processes, one after the other
  HiddenBudget,       \* ResourceBudget.hidden_surfaces
  MaxIncarnations,    \* windows opened per label and desktop
  MaxBoots, MaxLeases, \* daemon processes, owner registrations
  PressureSamples     \* what the memory samples may say: {FALSE} or BOOLEAN

ASSUME SurfaceConstants ==
  /\ HiddenBudget \in Nat \ {0} /\ MaxIncarnations \in Nat \ {0}
  /\ MaxBoots \in Nat \ {0} /\ MaxLeases \in Nat \ {0}
  /\ PressureSamples \subseteq BOOLEAN
  /\ SurfaceLabels # {} /\ SurfaceOwners # {}

VARIABLES
  sBoot,        \* boot_epoch
  sLeases,      \* SurfaceOwnerEntry.leases: owner -> [id, fresh], id 0 without
  sPending,     \* SurfaceResourceEntry.pending: identities reserved for
  sActivating,  \* SurfaceResourceEntry.activating
  sLive,        \* SurfaceResourceEntry.live
  sReserved,    \* RuntimeGovernorState.reservations: identity -> state
  sPressure,    \* the sample alone denies surfaces (PressureLevel::High)
  sDebt,        \* SurfaceRecoveryState.outstanding, as the file has it
  sHandlers,    \* activate and reattach handlers: [kind, id, step]
  wOwner,       \* the running desktop
  wProof,       \* its registration: [boot, lease], lease 0 without
  wLive,        \* DesktopSurfaceRegistry.live
  wNext,        \* DesktopSurfaceRegistry.incarnations, of the running desktop
  wOpening      \* the surface being opened: [id, step], step "none" without

sDaemon == <<sBoot, sLeases, sPending, sActivating, sLive, sReserved>>
wDesktop == <<wOwner, wProof, wLive, wNext, wOpening>>
surfaceVars == <<sDaemon, sPressure, sDebt, sHandlers, wDesktop>>

SurfaceIds == [owner : SurfaceOwners, label : SurfaceLabels, inc : 1..MaxIncarnations]

\* The in_flight pins of an owner: a handler that runs, runs under one.
Pinned(o) == \E h \in sHandlers : h.id.owner = o

\* pin_surface_owner_for_sessions.
PinGranted(o) ==
  /\ o = wOwner /\ wProof.boot = sBoot
  /\ sLeases[o].id # 0 /\ sLeases[o].id = wProof.lease /\ sLeases[o].fresh

\* surface_logically_claimed: whoever owns it, whatever its incarnation.
Claimed(label) == \E c \in sLive \cup sActivating : c.label = label

\* decision_for_state: a pending reservation counts as hidden.
HiddenSurfaces == {i \in SurfaceIds : sReserved[i] \in {"pending", "hidden"}}
evaluate == sPressure \/ Cardinality(HiddenSurfaces) >= HiddenBudget

\* denied_by_decision: high pressure, or a full hidden budget, which is one.
surface_denied == evaluate

\* DesktopSurfaceRegistry::next_identity: an incarnation is never used twice by
\* one desktop.
next_identity(label) == [owner |-> wOwner, label |-> label, inc |-> wNext[label] + 1]

\* A new owner lease, of the daemon that runs.
Registered ==
  /\ sLeases' = [sLeases EXCEPT ![wOwner] = [id |-> @.id + 1, fresh |-> TRUE]]
  /\ wProof' = [boot |-> sBoot, lease |-> sLeases[wOwner].id + 1]

-----------------------------------------------------------------------------
(***************************************************************************)
(* Opening: open_preview, open_native.                                     *)
(***************************************************************************)
\* register_surface_owner, on the first request of a desktop.  Registration
\* reaps, and keeps the pins of the owner.
register_surface_owner ==
  /\ wProof.lease = 0 /\ sLeases[wOwner].id < MaxLeases
  /\ Registered
  /\ UNCHANGED <<sBoot, sPending, sActivating, sLive, sReserved, sPressure, sDebt, sHandlers,
                 wOwner, wLive, wNext, wOpening>>

\* reserve_surface_resource: the desktop mints the identity first.  A lost
\* answer leaves the reservation.
reserve_surface_resource(label) ==
  LET id == next_identity(label)
  IN  /\ wOpening.step = "none" /\ wNext[label] < MaxIncarnations
      /\ \A c \in wLive : c.label # label
      /\ PinGranted(wOwner) /\ ~surface_denied
      /\ wNext' = [wNext EXCEPT ![label] = @ + 1]
      /\ sPending' = sPending \cup {id}
      /\ sReserved' = [sReserved EXCEPT ![id] = "pending"]
      /\ \/ wOpening' = [id |-> id, step |-> "reserved"]
         \/ UNCHANGED wOpening
      /\ UNCHANGED <<sBoot, sLeases, sActivating, sLive, sPressure, sDebt, sHandlers,
                     wOwner, wProof, wLive>>

\* The window is built and recorded; a failure gives the reservation back.
create_window ==
  /\ wOpening.step = "reserved"
  /\ \/ wLive' = wLive \cup {wOpening.id} /\ wOpening' = [wOpening EXCEPT !.step = "created"]
     \/ wOpening' = [wOpening EXCEPT !.step = "cancel"] /\ UNCHANGED wLive
  /\ UNCHANGED <<sDaemon, sPressure, sDebt, sHandlers, wOwner, wProof, wNext>>

\* activate_surface_resource up to the journal: the claim is taken under the
\* lock of the registry, the reservation becomes live.
activate_surface_resource ==
  LET id == wOpening.id
  IN  /\ wOpening.step = "created" /\ PinGranted(id.owner)
      /\ ~Claimed(id.label) /\ id \in sPending
      /\ sPending' = sPending \ {id}
      /\ IF sReserved[id] = "pending"
           THEN /\ sActivating' = sActivating \cup {id}
                /\ sReserved' = [sReserved EXCEPT ![id] = "visible"]
                /\ sHandlers' = sHandlers \cup {[kind |-> "activate", id |-> id, step |-> "record"]}
                /\ wOpening' = [wOpening EXCEPT !.step = "activating"]
           ELSE /\ wOpening' = [wOpening EXCEPT !.step = "cancel"]
                /\ UNCHANGED <<sActivating, sReserved, sHandlers>>
      /\ UNCHANGED <<sBoot, sLeases, sLive, sPressure, sDebt, wOwner, wProof, wLive, wNext>>

\* SurfaceRecoveryJournal::record: durable, or an error that ends the request
\* without a trace.
record_surface_event(h) ==
  /\ h \in sHandlers /\ h.step = "record"
  /\ \/ /\ sDebt' = IF h.kind = "activate" THEN sDebt \cup {h.id} ELSE sDebt \ {h.id}
        /\ sHandlers' = (sHandlers \ {h}) \cup {[h EXCEPT !.step = "publish"]}
        /\ UNCHANGED <<sActivating, sReserved, wOpening>>
     \/ /\ sHandlers' = sHandlers \ {h}
        /\ sActivating' = sActivating \ {h.id}
        /\ sReserved' = [sReserved EXCEPT ![h.id] = "none"]
        /\ wOpening' = IF wOpening.step = "activating" /\ wOpening.id = h.id
                         THEN [wOpening EXCEPT !.step = "cancel"] ELSE wOpening
        /\ UNCHANGED sDebt
  /\ UNCHANGED <<sBoot, sLeases, sPending, sLive, sPressure, wOwner, wProof, wLive, wNext>>

\* The claim becomes live.
publish_surface(h) ==
  /\ h \in sHandlers /\ h.step = "publish"
  /\ sHandlers' = sHandlers \ {h}
  /\ sActivating' = sActivating \ {h.id}
  /\ sLive' = sLive \cup {h.id}
  /\ wOpening' = IF wOpening.step = "activating" /\ wOpening.id = h.id
                   THEN [wOpening EXCEPT !.step = "none"] ELSE wOpening
  /\ UNCHANGED <<sBoot, sLeases, sPending, sReserved, sPressure, sDebt, wOwner, wProof, wLive, wNext>>

\* The desktop hears nothing, or a refusal, and cleans up; the handler stops at
\* its await once the connection is gone.
activation_unanswered ==
  /\ wOpening.step \in {"created", "activating"}
  /\ wOpening' = [wOpening EXCEPT !.step = "cancel"]
  /\ UNCHANGED <<sDaemon, sPressure, sDebt, sHandlers, wOwner, wProof, wLive, wNext>>

\* Mutant: the lease of a dropped handler stays reserved.
dropped_keeping_lease(h) ==
  /\ h \in sHandlers
  /\ ~(wOpening.step = "activating" /\ wOpening.id = h.id)
  /\ sHandlers' = sHandlers \ {h}
  /\ UNCHANGED <<sDaemon, sPressure, sDebt, wDesktop>>

\* The future of a handler is dropped: its lease goes with it, the claim in
\* activating does not.
surface_handler_dropped(h) ==
  /\ h \in sHandlers
  /\ ~(wOpening.step = "activating" /\ wOpening.id = h.id)
  /\ sHandlers' = sHandlers \ {h}
  /\ sReserved' = [sReserved EXCEPT ![h.id] = "none"]
  /\ UNCHANGED <<sBoot, sLeases, sPending, sActivating, sLive, sPressure, sDebt, wDesktop>>

\* cancel_surface_reservation, then release_surface_resource; both are tried
\* once.  The window is closed before.
open_cleanup ==
  LET id == wOpening.id
      ok == PinGranted(id.owner)
  IN  /\ wOpening.step = "cancel"
      /\ wLive' = wLive \ {id}
      /\ wOpening' = [wOpening EXCEPT !.step = "none"]
      /\ \/ /\ ok
            /\ sPending' = sPending \ {id} /\ sLive' = sLive \ {id}
            /\ sReserved' = IF id \in sPending \cup sLive THEN [sReserved EXCEPT ![id] = "none"]
                            ELSE sReserved
            /\ sDebt' = IF id \in sLive THEN sDebt \ {id} ELSE sDebt
         \/ UNCHANGED <<sPending, sLive, sReserved, sDebt>>
      /\ UNCHANGED <<sBoot, sLeases, sActivating, sPressure, sHandlers, wOwner, wProof, wNext>>

-----------------------------------------------------------------------------
(***************************************************************************)
(* A live surface.                                                         *)
(***************************************************************************)
\* update_surface_visibility: without admission.
update_surface_visibility(id, shown) ==
  /\ id \in wLive /\ wOpening.step = "none"
  /\ PinGranted(id.owner) /\ id \in sLive
  /\ sReserved' = [sReserved EXCEPT ![id] = shown]
  /\ UNCHANGED <<sBoot, sLeases, sPending, sActivating, sLive, sPressure, sDebt, sHandlers, wDesktop>>

\* retry_visibility_once: an owner error makes the desktop register again, and
\* the surface at hand is reattached: reattach_surface_resource up to the
\* journal needs its debt, and is admitted like a new surface.
reattach_surface_resource(id) ==
  /\ id \in wLive /\ wOpening.step = "none" /\ ~PinGranted(id.owner)
  /\ id.owner = wOwner /\ sLeases[wOwner].id < MaxLeases
  /\ Registered
  /\ IF id \in sDebt /\ ~Claimed(id.label) /\ ~surface_denied
       THEN /\ sActivating' = sActivating \cup {id}
            /\ sReserved' = [sReserved EXCEPT ![id] = "visible"]
            /\ sHandlers' = sHandlers \cup {[kind |-> "reattach", id |-> id, step |-> "record"]}
       ELSE UNCHANGED <<sActivating, sReserved, sHandlers>>
  /\ UNCHANGED <<sBoot, sPending, sLive, sPressure, sDebt, wOwner, wLive, wNext, wOpening>>

\* The window is closed: close_native, or the destroyed reconciler of a preview.
\* release_surface_resource removes the surface, then records it; either may
\* fail, and is not tried again.
release_surface_resource(id) ==
  /\ id \in wLive /\ wOpening.step = "none"
  /\ wLive' = wLive \ {id}
  /\ \/ /\ PinGranted(id.owner) /\ id \in sLive
        /\ sLive' = sLive \ {id}
        /\ sReserved' = [sReserved EXCEPT ![id] = "none"]
        /\ sDebt' \in {sDebt, sDebt \ {id}}
     \/ UNCHANGED <<sLive, sReserved, sDebt>>
  /\ UNCHANGED <<sBoot, sLeases, sPending, sActivating, sPressure, sHandlers,
                 wOwner, wProof, wNext, wOpening>>

-----------------------------------------------------------------------------
\* SURFACE_OWNER_TTL passes without a heartbeat that reaches the daemon.
surface_owner_expires(o) ==
  /\ sLeases[o].id # 0 /\ sLeases[o].fresh
  /\ sLeases' = [sLeases EXCEPT ![o].fresh = FALSE]
  /\ UNCHANGED <<sBoot, sPending, sActivating, sLive, sReserved, sPressure, sDebt, sHandlers, wDesktop>>

\* reap_expired_surface_owner_resources_for_sessions: the owner and everything
\* of it; its debt stays.
reap_expired_surface_owner(o) ==
  LET Gone(S) == {c \in S : c.owner # o}
  IN  /\ sLeases[o].id # 0 /\ ~sLeases[o].fresh /\ ~Pinned(o)
      /\ sLeases' = [sLeases EXCEPT ![o].id = 0]
      /\ sPending' = Gone(sPending) /\ sActivating' = Gone(sActivating) /\ sLive' = Gone(sLive)
      /\ sReserved' = [i \in SurfaceIds |-> IF i \in (sPending \cup sLive) /\ i.owner = o
                                              THEN "none" ELSE sReserved[i]]
      /\ UNCHANGED <<sBoot, sPressure, sDebt, sHandlers, wDesktop>>

\* The session goes: reservations are given up, live surfaces are not.
release_surface_resource_session ==
  /\ sPending # {}
  /\ sPending' = {}
  /\ sReserved' = [i \in SurfaceIds |-> IF sReserved[i] = "pending" THEN "none" ELSE sReserved[i]]
  /\ UNCHANGED <<sBoot, sLeases, sActivating, sLive, sPressure, sDebt, sHandlers, wDesktop>>

update_sample ==
  /\ sPressure' \in PressureSamples \ {sPressure}
  /\ UNCHANGED <<sDaemon, sDebt, sHandlers, wDesktop>>

\* The daemon stops and starts again; only the journal is read back.
daemon_restarts ==
  /\ sBoot < MaxBoots
  /\ sBoot' = sBoot + 1
  /\ sLeases' = [o \in SurfaceOwners |-> [id |-> 0, fresh |-> FALSE]]
  /\ sPending' = {} /\ sActivating' = {} /\ sLive' = {} /\ sHandlers' = {}
  /\ sReserved' = [i \in SurfaceIds |-> "none"]
  /\ wOpening' = IF wOpening.step \in {"activating", "created"}
                   THEN [wOpening EXCEPT !.step = "cancel"] ELSE wOpening
  /\ UNCHANGED <<sPressure, sDebt, wOwner, wProof, wLive, wNext>>

\* Another desktop process takes over, with an instance id of its own.
desktop_restarts(o) ==
  /\ o # wOwner /\ sLeases[o].id = 0 /\ wNext = [l \in SurfaceLabels |-> MaxIncarnations]
  /\ wOwner' = o /\ wProof' = [boot |-> 0, lease |-> 0]
  /\ wLive' = {} /\ wNext' = [l \in SurfaceLabels |-> 0]
  /\ wOpening' = [wOpening EXCEPT !.step = "none"]
  /\ UNCHANGED <<sDaemon, sPressure, sDebt, sHandlers>>

-----------------------------------------------------------------------------
SurfaceInit ==
  /\ sBoot = 1 /\ sLeases = [o \in SurfaceOwners |-> [id |-> 0, fresh |-> FALSE]]
  /\ sPending = {} /\ sActivating = {} /\ sLive = {} /\ sHandlers = {} /\ sDebt = {}
  /\ sReserved = [i \in SurfaceIds |-> "none"] /\ sPressure = FALSE
  /\ wOwner = CHOOSE o \in SurfaceOwners : TRUE
  /\ wProof = [boot |-> 0, lease |-> 0] /\ wLive = {} /\ wNext = [l \in SurfaceLabels |-> 0]
  /\ wOpening = [id |-> CHOOSE i \in SurfaceIds : TRUE, step |-> "none"]

SurfaceNext ==
  \/ register_surface_owner
  \/ \E l \in SurfaceLabels : reserve_surface_resource(l)
  \/ create_window \/ activate_surface_resource \/ activation_unanswered \/ open_cleanup
  \/ \E h \in sHandlers : record_surface_event(h) \/ publish_surface(h) \/ surface_handler_dropped(h)
  \/ \E id \in wLive : \/ \E v \in {"visible", "hidden"} : update_surface_visibility(id, v)
                       \/ reattach_surface_resource(id) \/ release_surface_resource(id)
  \/ \E o \in SurfaceOwners : \/ surface_owner_expires(o) \/ reap_expired_surface_owner(o)
                              \/ desktop_restarts(o)
  \/ release_surface_resource_session \/ update_sample \/ daemon_restarts

SurfaceSpec == SurfaceInit /\ [][SurfaceNext]_surfaceVars

-----------------------------------------------------------------------------
\* What the daemon, its journal and the desktop hold.
SurfaceTypeOK ==
  /\ sBoot \in 1..MaxBoots /\ sPressure \in BOOLEAN
  /\ sLeases \in [SurfaceOwners -> [id : 0..MaxLeases, fresh : BOOLEAN]]
  /\ sPending \cup sActivating \cup sLive \cup sDebt \cup wLive \subseteq SurfaceIds
  /\ sReserved \in [SurfaceIds -> {"none", "pending", "visible", "hidden"}]
  /\ sHandlers \subseteq [kind : {"activate", "reattach"}, id : SurfaceIds, step : {"record", "publish"}]
  /\ wOwner \in SurfaceOwners /\ wProof \in [boot : 0..MaxBoots, lease : 0..MaxLeases]
  /\ wNext \in [SurfaceLabels -> 0..MaxIncarnations]
  /\ wOpening \in [id : SurfaceIds, step : {"none", "reserved", "created", "activating", "cancel"}]
  /\ \A c \in wLive : c.owner = wOwner /\ c.inc <= wNext[c.label]

\* Nothing is accounted for twice or for good: a reservation of the governor
\* belongs to a pending request, to a running activation or to a live surface,
\* and each of those has its reservation.
ReservationsHaveOwners ==
  \A i \in SurfaceIds :
    sReserved[i] # "none" <=> \/ i \in sLive
                              \/ i \in sPending /\ sReserved[i] = "pending"
                              \/ \E h \in sHandlers : h.id = i

\* A label has one surface, whoever activates or reattaches it at the same time.
OneSurfacePerLabel ==
  \A c, d \in sLive \cup {h.id : h \in sHandlers} : c.label = d.label => c = d

\* An owner that was reaped has left nothing: no request of it publishes later.
ReapedOwnersAreGone ==
  \A c \in sLive \cup sPending \cup sActivating : sLeases[c.owner].id # 0

\* The governor, the activations and the owners agree on what exists, whatever
\* request, publication, reap, release and reattachment overlap.
SurfacesAreAccountedFor == ReservationsHaveOwners /\ OneSurfacePerLabel /\ ReapedOwnersAreGone

\* Surfaces that outlive the daemon come back together: once one window of the
\* desktop has been reattached, so that its debt is settled, every other window
\* with a debt is live again or about to be.
\* The code does not keep this (README.md, Where code and text disagree).
SurvivorsReattach ==
  \A c, d \in wLive : d \in sLive \ sDebt /\ c \in sDebt
                        => c \in sLive \cup {h.id : h \in sHandlers}

=============================================================================
