----------------------- MODULE MCConsequentialJournal -----------------------
(***************************************************************************)
(* Small instances of ConsequentialJournal.                                *)
(***************************************************************************)
EXTENDS ConsequentialJournal, TLC

CONSTANTS a1, a2, l1, l2, r1, r2, c1, c2

OneAction   == {a1}
TwoActions  == {a1, a2}
OneLineage  == {l1}
BothSides   == {l1, l2}
OneRevision == {r1}
BothRevs    == {r1, r2}
OneContract == {c1}
TwoContracts == {c1, c2}

\* Every action of the instance is planned against lineage l1 and r1.
PlannedEnvelopes == {[lineage |-> l1, revision |-> r1, contracts |-> Contracts]}

Line(n, k, p) == [seq |-> n, action |-> a1, transition |-> k, payload |-> p]

Admission     == Line(1, "intent_admitted", CHOOSE env \in PlannedEnvelopes : TRUE)
Authorization == Line(2, "authorization_recorded",
                      [revision |-> r1, revalidated |-> TRUE])

EmptyFile == {<<>>}

\* Files of releases before the PREPARED boundary: dispatch linearized
\* straight from authorization, and an untyped reconciliation outcome.
OldFiles ==
  {<<>>,
   <<Admission, Authorization,
     Line(3, "dispatch_linearized", "dispatched")>>,
   <<Admission, Authorization,
     Line(3, "dispatch_linearized", "not_dispatched"),
     Line(4, "reconciliation_outcome", FALSE)>>,
   <<Admission, Authorization,
     Line(3, "dispatch_linearized", "dispatched"),
     Line(4, "reconciliation_outcome", TRUE)>>}

Symmetry == Permutations(TwoActions)
=============================================================================
