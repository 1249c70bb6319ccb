-------------------------- MODULE DispatchPromise ---------------------------
(***************************************************************************)
(* What a durable dispatch journal promises about consequential actions,   *)
(* whoever calls it and however often its process restarts.                *)
(*                                                                         *)
(* An action is prepared at most once.  Preparing may arm one executor; an *)
(* armed executor may act once.  An action that nobody acted for, and that *)
(* is no longer armed, may be ruled out for good; otherwise its fate stays *)
(* uncertain until an observation settles it.                              *)
(***************************************************************************)
CONSTANT Actions

VARIABLES
  phase,   \* for each action "idle", "prepared", "ruled_out", "uncertain"
           \* or "settled"
  armed,   \* actions for which somebody holds authority to reach the world
  acted    \* actions for which the world has been acted upon

vars == <<phase, armed, acted>>

Phases == {"idle", "prepared", "ruled_out", "uncertain", "settled"}

\* A process may find an action of an older release in any phase.
Init ==
  /\ phase \in [Actions -> Phases]
  /\ armed = {}
  /\ acted = {}

\* A preparation whose caller never hears of it arms nobody.
Prepare(a) ==
  /\ phase[a] = "idle"
  /\ phase'[a] = "prepared"
  /\ a \in acted' <=> a \in acted

Act(a) ==
  /\ a \in armed
  /\ a \notin acted
  /\ a \in acted'
  /\ a \in armed'
  /\ phase'[a] = phase[a]

RuleOut(a) ==
  /\ phase[a] = "prepared"
  /\ phase'[a] = "ruled_out"
  /\ a \notin acted'
  /\ a \notin armed'

\* The executor's report, or an observation, moves the action on.
Learn(a) ==
  /\ phase[a] \in {"prepared", "uncertain", "settled"}
  /\ phase'[a] \in IF phase[a] = "settled" THEN {"settled"}
                                           ELSE {"uncertain", "settled"}
  /\ a \in armed' => a \in armed
  /\ a \in acted' <=> a \in acted

\* Nothing new of a, except that its authority may be gone.
Idle(a) ==
  /\ phase'[a] = phase[a]
  /\ a \in armed' => a \in armed
  /\ a \in acted' <=> a \in acted

\* A restart may reveal news of several actions at once.
Next ==
  \A a \in Actions : Prepare(a) \/ Act(a) \/ RuleOut(a) \/ Learn(a) \/ Idle(a)

Spec == Init /\ [][Next]_vars

=============================================================================
