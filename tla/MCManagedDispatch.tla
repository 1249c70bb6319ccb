-------------------------- MODULE MCManagedDispatch --------------------------
(***************************************************************************)
(* Small instances of the managed control of two actions on one surface,   *)
(* and of point selection on a page, in one run.  They share no variable:  *)
(* a behaviour exercises one of them, the one in focus.                    *)
(***************************************************************************)
EXTENDS ManagedConsequential, PointSelect, TLC

VARIABLE focus   \* the component that runs in this behaviour

\* In the first document the elements are twins, which share one reference; in
\* the second the hash tells them apart.
References == <<[e \in PointElements |-> "@twins"], [e \in PointElements |-> e]>>

\* No definition tells one action or element from another.
Symmetry == Permutations(Actions) \cup Permutations(PointElements)

MCInit ==
  /\ focus \in {"managed", "point"}
  /\ Init
  /\ PointInit

MCvars == <<focus, vars, pointVars>>

MCNext ==
  \/ focus = "managed" /\ Next /\ UNCHANGED <<focus, pointVars>>
  \/ focus = "point" /\ PointNext /\ UNCHANGED <<focus, vars>>

MCSpec == MCInit /\ [][MCNext]_MCvars
=============================================================================
