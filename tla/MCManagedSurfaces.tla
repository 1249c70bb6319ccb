-------------------------- MODULE MCManagedSurfaces --------------------------
(***************************************************************************)
(* Small instances of the managed control of one action, whose surface     *)
(* changes, and of what is accepted and said of a fix: the edit of a       *)
(* source excerpt and the verdicts.  They share no variable: a behaviour   *)
(* exercises one of them, the one in focus.                                *)
(***************************************************************************)
EXTENDS ManagedConsequential, FixEdits, RepairVerdicts

VARIABLE focus   \* the component that runs in this behaviour

MCInit ==
  /\ focus \in {"managed", "edits", "verdicts"}
  /\ Init
  /\ EditInit
  /\ VerdictInit

MCvars == <<focus, vars, editVars, verdictVars>>

MCNext ==
  \/ focus = "managed" /\ Next /\ UNCHANGED <<focus, editVars, verdictVars>>
  \/ focus = "edits" /\ EditNext /\ UNCHANGED <<focus, vars, verdictVars>>
  \/ focus = "verdicts" /\ VerdictNext /\ UNCHANGED <<focus, vars, editVars>>

MCSpec == MCInit /\ [][MCNext]_MCvars
=============================================================================
