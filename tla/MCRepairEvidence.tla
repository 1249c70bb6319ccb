-------------------------- MODULE MCRepairEvidence --------------------------
(***************************************************************************)
(* Small instances of the trusted repair, perception, the headless runs,   *)
(* the Windows provider and postconditions, in one run.                    *)
(* The components do not share a variable: a behaviour exercises one of    *)
(* them, the one in focus.                                                 *)
(***************************************************************************)
EXTENDS Repair, Perception, Headless, WindowsUia, MCPostconditions, TLC

VARIABLE focus   \* the component that runs in this behaviour

\* No definition tells one fix or run from another.
Symmetry == Permutations(Fixes) \cup Permutations(CiRuns)

\* A budget that every cycle fits, and one that a browser cycle exceeds.
Budgets == {Usage(2000, 2000, 1, 1), Usage(2000, 150, 1, 0)}

Policy(fixture, native, browser, update) ==
  [fixture |-> fixture, commands |-> fixture, allowed |-> TRUE, visual |-> native,
   chromium |-> browser, pixels |-> TRUE, browser |-> TRUE, update |-> update,
   match |-> fixture, verified |-> TRUE, strict |-> ~fixture]

\* A run with a fixture that only compares, in two engines, one that may not
\* run commands, and a strict visual one that may replace the baseline.
Policies ==
  {Policy(TRUE, FALSE, TRUE, FALSE), Policy(FALSE, TRUE, FALSE, TRUE),
   [Policy(TRUE, FALSE, FALSE, FALSE) EXCEPT !.allowed = FALSE]}

MCInit ==
  /\ focus \in {"repair", "perception", "headless", "windows", "postconditions"}
  /\ RepairInit
  /\ PerceptionInit
  /\ HeadlessInit
  /\ WinInit
  /\ PostInit
  /\ focus # "postconditions" => pcTree = OneElement /\ pcProvider = "web"

MCvars == <<focus, repairVars, percVars, ciVars, winVars, pcVars>>

MCNext ==
  \/ /\ focus = "repair" /\ RepairNext
     /\ UNCHANGED <<focus, percVars, ciVars, winVars, pcVars>>
  \/ /\ focus = "perception" /\ PerceptionNext
     /\ UNCHANGED <<focus, repairVars, ciVars, winVars, pcVars>>
  \/ /\ focus = "headless" /\ HeadlessNext
     /\ UNCHANGED <<focus, repairVars, percVars, winVars, pcVars>>
  \/ /\ focus = "windows" /\ WinNext
     /\ UNCHANGED <<focus, repairVars, percVars, ciVars, pcVars>>
  \/ /\ focus = "postconditions" /\ PostNext
     /\ UNCHANGED <<focus, repairVars, percVars, ciVars, winVars>>

MCSpec == MCInit /\ [][MCNext]_MCvars

\* The type invariant of the component in focus; the others keep their initial
\* state.
EvidenceTypesOK ==
  /\ focus = "repair" => RepairTypeOK
  /\ focus = "perception" => PerceptionTypeOK
  /\ focus = "headless" => HeadlessTypeOK
  /\ focus = "windows" => WinTypeOK /\ WinBindingsAgree
  /\ focus = "postconditions" => PostTypeOK
=============================================================================
