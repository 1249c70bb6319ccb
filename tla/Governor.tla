------------------------------- MODULE Governor --------------------------------
(***************************************************************************)
(* The runtime resource governor (crates/resource-governor): what admits   *)
(* captures, browsers, surfaces and native observation, with reservations  *)
(* that their holders activate, hide, drop or lose with their session.     *)
(***************************************************************************)
EXTENDS Integers, FiniteSets

CONSTANTS GovHolders,     \* operations that may hold a reservation (unique keys)
          GovSessions,
          GovBudget       \* [captures, browsers, hidden]

ASSUME GovAssumption == GovBudget \in [captures : Nat, browsers : Nat, hidden : Nat]

VARIABLES govTable,    \* RuntimeGovernorState.reservations: holder -> entry, a partial function
          govHandle,   \* what the holder has: a ResourceReservation, a LiveResourceLease or nothing
          govLoad      \* the processes' memory and CPU: "low", "high" or "critical"

govVars == <<govTable, govHandle, govLoad>>

GovKinds == {"capture", "browser", "surface", "observation"}
Loads == {"low", "memory", "high", "critical"}
Live(entry) == entry.state \in {"live", "visible", "hidden"}

GovInit ==
  /\ govTable = <<>> /\ govHandle = [h \in GovHolders |-> "nothing"] /\ govLoad = "low"

----------------------------------------------------------------------------
(* The decision.                                                           *)

\* decision_for_state: a reservation counts before it is live, and a pending
\* surface counts as a hidden one.
Count(kind, states) ==
  Cardinality({h \in DOMAIN govTable : govTable[h].kind = kind /\ govTable[h].state \in states})
Captures == Count("capture", {"pending"})
Browsers == Count("browser", {"pending", "live"})
Hidden == Count("surface", {"pending", "hidden"})

Budget(r) == IF GovBudget[r] = 0 THEN 1 ELSE GovBudget[r]

reached(used, r) == used >= Budget(r)

\* evaluate: High from the budget on, Critical from one and a half budgets on;
\* the counts press as the load does.
Ratios == {<<Captures, Budget("captures")>>, <<Browsers, Budget("browsers")>>, <<Hidden, Budget("hidden")>>}
Critical == govLoad = "critical" \/ \E q \in Ratios : 2 * q[1] >= 3 * q[2]
High == Critical \/ govLoad \in {"high", "memory"} \/ \E q \in Ratios : q[1] >= q[2]

denied_by_decision(kind) ==
  CASE kind = "capture"     -> Critical \/ govLoad = "memory" \/ reached(Captures, "captures")
    [] kind = "browser"     -> High \/ reached(Browsers, "browsers")
    [] kind = "surface"     -> High \/ reached(Hidden, "hidden")
    [] kind = "observation" -> Critical

----------------------------------------------------------------------------
(* The handles.                                                            *)

Excluding(h) == [k \in DOMAIN govTable \ {h} |-> govTable[k]]
Entered(h, entry) == [k \in DOMAIN govTable \cup {h} |-> IF k = h THEN entry ELSE govTable[k]]

update_process_metrics ==
  \E load \in Loads \ {govLoad} : govLoad' = load /\ UNCHANGED <<govTable, govHandle>>

reserve ==
  \E h \in GovHolders, s \in GovSessions, kind \in GovKinds :
    /\ govHandle[h] = "nothing" /\ ~denied_by_decision(kind)
    /\ govTable' = Entered(h, [session |-> s, kind |-> kind, state |-> "pending"])
    /\ govHandle' = [govHandle EXCEPT ![h] = "reservation"]
    /\ UNCHANGED govLoad

\* activate_live and activate_surface: the reservation becomes a lease; one
\* that its session's release took away is refused, and dropped.
activate ==
  \E h \in GovHolders :
    /\ govHandle[h] = "reservation"
    /\ \/ /\ h \in DOMAIN govTable /\ govTable[h].kind \in {"browser", "surface"}
          /\ \E state \in IF govTable[h].kind = "browser" THEN {"live"} ELSE {"visible", "hidden"} :
               govTable' = [govTable EXCEPT ![h].state = state]
          /\ govHandle' = [govHandle EXCEPT ![h] = "lease"]
       \/ /\ h \notin DOMAIN govTable
          /\ govHandle' = [govHandle EXCEPT ![h] = "nothing"] /\ UNCHANGED govTable
    /\ UNCHANGED govLoad

\* A surface may become hidden whatever the budget: nothing is admitted anew.
set_surface_visibility ==
  \E h \in DOMAIN govTable :
    /\ govHandle[h] = "lease" /\ govTable[h].kind = "surface"
    /\ govTable' = [govTable EXCEPT ![h].state = IF @ = "hidden" THEN "visible" ELSE "hidden"]
    /\ UNCHANGED <<govHandle, govLoad>>

reservation_dropped ==
  \E h \in GovHolders :
    /\ govHandle[h] = "reservation"
    /\ govTable' = Excluding(h) /\ govHandle' = [govHandle EXCEPT ![h] = "nothing"]
    /\ UNCHANGED govLoad

\* Mutant: a hidden surface is not what the lease was taken for.
release_visible(h) == IF govTable[h].state = "hidden" THEN govTable ELSE Excluding(h)
release_live_key(h) == IF h \in DOMAIN govTable /\ Live(govTable[h]) THEN Excluding(h) ELSE govTable

lease_dropped ==
  \E h \in GovHolders :
    /\ govHandle[h] = "lease"
    /\ govTable' = release_live_key(h) /\ govHandle' = [govHandle EXCEPT ![h] = "nothing"]
    /\ UNCHANGED govLoad

\* What release_session takes away: the pending reservations of a session.
Released(s) == {h \in DOMAIN govTable : govTable[h].session = s /\ ~Live(govTable[h])}

release_session ==
  \E s \in GovSessions :
    /\ Released(s) # {}
    /\ govTable' = [h \in DOMAIN govTable \ Released(s) |-> govTable[h]]
    /\ UNCHANGED <<govHandle, govLoad>>

GovNext ==
  \/ update_process_metrics \/ reserve \/ activate \/ set_surface_visibility
  \/ reservation_dropped \/ lease_dropped \/ release_session

GovSpec == GovInit /\ [][GovNext]_govVars

----------------------------------------------------------------------------
(* What the limits are worth.                                              *)

GovTypeOK ==
  /\ DOMAIN govTable \subseteq GovHolders /\ govLoad \in Loads
  /\ \A h \in DOMAIN govTable : govTable[h].kind \in GovKinds /\ govTable[h].session \in GovSessions

\* However handles are activated, hidden, dropped and lost, what is in use
\* without having been hidden later stays within the budget.
BudgetsHold ==
  /\ Captures <= Budget("captures") /\ Browsers <= Budget("browsers")
  /\ Count("surface", {"pending"}) <= Budget("hidden")

\* Live work is counted for as long as it lives, also when its session is gone,
\* and nothing is counted that nobody can give back.
LiveWorkIsCounted ==
  \A h \in GovHolders :
    /\ govHandle[h] = "lease" => h \in DOMAIN govTable /\ Live(govTable[h])
    /\ h \in DOMAIN govTable => govHandle[h] = IF Live(govTable[h]) THEN "lease" ELSE "reservation"

\* The account of the governor is that of the work there is, and within its limits.
WorkIsCountedAndBounded == LiveWorkIsCounted /\ BudgetsHold
=============================================================================
