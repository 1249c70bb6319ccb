---------------------------- MODULE RuntimeProofs -----------------------------
(***************************************************************************)
(* Proofs about what is held and what belongs to a session: the reservations*)
(* of the resource governor (Governor), the managed surfaces of a session  *)
(* (SurfaceResources), the identity of a session (Sessions) and the network*)
(* faults in force on its page (NetworkFault).                             *)
(***************************************************************************)
EXTENDS Governor, SurfaceResources, Sessions, NetworkFault, FiniteSetTheorems, TLAPS

-----------------------------------------------------------------------------
(* The governor: for every set of holders and every budget.                *)

GovStates == {"pending", "live", "visible", "hidden"}

\* A capture or an observation is never more than reserved, a browser never
\* hidden.
StatesOf(kind) ==
  CASE kind = "browser" -> {"pending", "live"}
    [] kind = "surface" -> {"pending", "visible", "hidden"}
    [] OTHER            -> {"pending"}

GovEntries == [session : GovSessions, kind : GovKinds, state : GovStates]

\* Finitely many holders have an entry at a time.
GovShape ==
  /\ govHandle \in [GovHolders -> {"nothing", "reservation", "lease"}]
  /\ govTable \in [DOMAIN govTable -> GovEntries]
  /\ DOMAIN govTable \subseteq GovHolders /\ IsFiniteSet(DOMAIN govTable)
  /\ \A h \in DOMAIN govTable : govTable[h].state \in StatesOf(govTable[h].kind)

GovInv == GovShape /\ WorkIsCountedAndBounded

\* The entries that a count counts.
HeldIn(table, kind, states) == {h \in DOMAIN table : table[h].kind = kind /\ table[h].state \in states}

\* Each budget of the governor lets something in.
LEMMA BudgetIsPositive ==
  ASSUME NEW r \in {"captures", "browsers", "hidden"}
  PROVE  Budget(r) \in Nat \ {0}
BY GovAssumption DEF Budget

\* Counts of a part are smaller.
LEMMA SmallerCount ==
  ASSUME NEW S, NEW T, IsFiniteSet(T), S \subseteq T
  PROVE  Cardinality(S) \in Nat /\ Cardinality(T) \in Nat /\ Cardinality(S) <= Cardinality(T)
BY FS_Subset, FS_CardinalityType

\* The entries that a count counts are finitely many.
LEMMA CountsAreNatural ==
  ASSUME GovShape
  PROVE  \A kind, states : /\ IsFiniteSet(HeldIn(govTable, kind, states))
                           /\ Count(kind, states) = Cardinality(HeldIn(govTable, kind, states))
                           /\ Count(kind, states) \in Nat
<1> SUFFICES ASSUME NEW kind, NEW states
             PROVE  /\ IsFiniteSet(HeldIn(govTable, kind, states))
                    /\ Count(kind, states) = Cardinality(HeldIn(govTable, kind, states))
                    /\ Count(kind, states) \in Nat
  OBVIOUS
<1>1. HeldIn(govTable, kind, states) \subseteq DOMAIN govTable
  BY DEF HeldIn
<1>2. IsFiniteSet(HeldIn(govTable, kind, states))
  BY <1>1, FS_Subset DEF GovShape
<1>3. Count(kind, states) = Cardinality(HeldIn(govTable, kind, states))
  BY DEF Count, HeldIn
<1> QED
  BY <1>2, <1>3, FS_CardinalityType

\* What is counted against the budgets afterwards was counted before: nothing
\* was admitted.
NothingAdmitted ==
  /\ HeldIn(govTable', "capture", {"pending"}) \subseteq HeldIn(govTable, "capture", {"pending"})
  /\ HeldIn(govTable', "browser", {"pending", "live"}) \subseteq HeldIn(govTable, "browser", {"pending", "live"})
  /\ HeldIn(govTable', "surface", {"pending"}) \subseteq HeldIn(govTable, "surface", {"pending"})

\* A count after a step is of the table after it.
LEMMA CountPrimed ==
  \A kind, states : Count(kind, states)' = Cardinality(HeldIn(govTable', kind, states))
BY DEF Count, HeldIn

\* The budgets hold as long as nothing is admitted, whatever becomes hidden.
LEMMA BudgetsKept ==
  ASSUME GovInv, NothingAdmitted
  PROVE  BudgetsHold'
<1> USE DEF GovInv, WorkIsCountedAndBounded
<1>1. ASSUME NEW kind, NEW states, HeldIn(govTable', kind, states) \subseteq HeldIn(govTable, kind, states)
      PROVE  Count(kind, states)' \in Nat /\ Count(kind, states)' <= Count(kind, states)
  <2>1. IsFiniteSet(HeldIn(govTable, kind, states)) /\ Count(kind, states) = Cardinality(HeldIn(govTable, kind, states))
    BY CountsAreNatural
  <2>2. Cardinality(HeldIn(govTable', kind, states)) \in Nat
        /\ Cardinality(HeldIn(govTable', kind, states)) <= Cardinality(HeldIn(govTable, kind, states))
    BY <1>1, <2>1, SmallerCount
  <2>3. Count(kind, states)' = Cardinality(HeldIn(govTable', kind, states))
    BY CountPrimed
  <2> QED
    BY <2>1, <2>2, <2>3
<1>2. /\ Captures' <= Captures /\ Captures' \in Nat /\ Captures \in Nat
      /\ Browsers' <= Browsers /\ Browsers' \in Nat /\ Browsers \in Nat
      /\ Count("surface", {"pending"})' <= Count("surface", {"pending"})
      /\ Count("surface", {"pending"})' \in Nat /\ Count("surface", {"pending"}) \in Nat
  <2>1. Captures' <= Captures /\ Captures' \in Nat /\ Captures \in Nat
    BY <1>1, CountsAreNatural DEF Captures, NothingAdmitted
  <2>2. Browsers' <= Browsers /\ Browsers' \in Nat /\ Browsers \in Nat
    BY <1>1, CountsAreNatural DEF Browsers, NothingAdmitted
  <2>3. /\ Count("surface", {"pending"})' <= Count("surface", {"pending"})
        /\ Count("surface", {"pending"})' \in Nat /\ Count("surface", {"pending"}) \in Nat
    BY <1>1, CountsAreNatural DEF NothingAdmitted
  <2> QED
    BY <2>1, <2>2, <2>3
<1>3. Budget("captures") \in Nat /\ Budget("browsers") \in Nat /\ Budget("hidden") \in Nat
  BY BudgetIsPositive
<1>4. Budget("captures")' = Budget("captures") /\ Budget("browsers")' = Budget("browsers")
      /\ Budget("hidden")' = Budget("hidden")
  BY DEF Budget
<1> QED
  BY <1>2, <1>3, <1>4 DEF BudgetsHold

\* A reservation is admitted below the budgets only.
LEMMA ReserveKeeps ==
  ASSUME GovInv, reserve
  PROVE  GovInv'
<1> USE DEF GovInv, WorkIsCountedAndBounded
<1>1. PICK h \in GovHolders, s \in GovSessions, kind \in GovKinds :
        /\ govHandle[h] = "nothing" /\ ~denied_by_decision(kind)
        /\ govTable' = Entered(h, [session |-> s, kind |-> kind, state |-> "pending"])
        /\ govHandle' = [govHandle EXCEPT ![h] = "reservation"]
        /\ UNCHANGED govLoad
  BY DEF reserve
<1> DEFINE entry == [session |-> s, kind |-> kind, state |-> "pending"]
<1>2. h \notin DOMAIN govTable
  BY <1>1 DEF LiveWorkIsCounted
<1>3. entry \in GovEntries /\ ~Live(entry) /\ entry.kind = kind /\ entry.state = "pending"
  BY DEF GovEntries, GovStates, Live
<1> HIDE DEF entry
<1>4. /\ DOMAIN govTable' = DOMAIN govTable \cup {h}
      /\ govTable'[h] = entry
      /\ \A k \in DOMAIN govTable : govTable'[k] = govTable[k]
      /\ govTable' = [k \in DOMAIN govTable' |-> govTable'[k]]
  BY <1>1, <1>2 DEF Entered, entry
<1>5. /\ govHandle' \in [GovHolders -> {"nothing", "reservation", "lease"}]
      /\ govHandle'[h] = "reservation"
      /\ \A k \in GovHolders \ {h} : govHandle'[k] = govHandle[k]
  BY <1>1 DEF GovShape
<1>6. GovShape'
  <2>1. \A k \in DOMAIN govTable : govTable[k] \in GovEntries
    BY DEF GovShape
  <2>2. \A k \in DOMAIN govTable' : govTable'[k] \in GovEntries
    BY <1>3, <1>4, <2>1
  <2>3. govTable' \in [DOMAIN govTable' -> GovEntries]
    BY <1>4, <2>2
  <2>4. DOMAIN govTable' \subseteq GovHolders /\ IsFiniteSet(DOMAIN govTable')
    BY <1>4, FS_AddElement DEF GovShape
  <2>5. \A k \in DOMAIN govTable' : govTable'[k].state \in StatesOf(govTable'[k].kind)
    BY <1>3, <1>4 DEF GovShape, StatesOf
  <2> QED
    BY <1>5, <2>3, <2>4, <2>5 DEF GovShape
<1>7. LiveWorkIsCounted'
  BY <1>2, <1>3, <1>4, <1>5 DEF LiveWorkIsCounted, Live, GovShape
<1>8. ASSUME NEW k, NEW states
      PROVE  HeldIn(govTable', k, states) \subseteq
               HeldIn(govTable, k, states) \cup (IF k = kind /\ "pending" \in states THEN {h} ELSE {})
  BY <1>3, <1>4 DEF HeldIn
<1>9. ASSUME NEW k, NEW states
      PROVE  /\ Count(k, states) \in Nat /\ Count(k, states)' \in Nat
             /\ Count(k, states)' <= Count(k, states) + (IF k = kind THEN 1 ELSE 0)
  <2>1. IsFiniteSet(HeldIn(govTable, k, states)) /\ Count(k, states) = Cardinality(HeldIn(govTable, k, states))
        /\ Count(k, states) \in Nat
    BY CountsAreNatural
  <2>2. Count(k, states)' = Cardinality(HeldIn(govTable', k, states))
    BY CountPrimed
  <2>3. CASE k # kind
    <3>1. HeldIn(govTable', k, states) \subseteq HeldIn(govTable, k, states)
      BY <1>8, <2>3
    <3> QED
      BY <2>1, <2>2, <2>3, <3>1, SmallerCount
  <2>4. CASE k = kind
    <3>1. HeldIn(govTable', k, states) \subseteq HeldIn(govTable, k, states) \cup {h}
      BY <1>8, <2>4
    <3>2. IsFiniteSet(HeldIn(govTable, k, states) \cup {h})
          /\ Cardinality(HeldIn(govTable, k, states) \cup {h}) <= Count(k, states) + 1
      <4>1. Cardinality(HeldIn(govTable, k, states) \cup {h}) =
              IF h \in HeldIn(govTable, k, states) THEN Cardinality(HeldIn(govTable, k, states))
              ELSE Cardinality(HeldIn(govTable, k, states)) + 1
        BY <2>1, FS_AddElement, Zenon
      <4>2. IsFiniteSet(HeldIn(govTable, k, states) \cup {h})
        BY <2>1, FS_AddElement, Zenon
      <4> QED
        BY <2>1, <4>1, <4>2
    <3>3. Cardinality(HeldIn(govTable', k, states)) \in Nat
          /\ Cardinality(HeldIn(govTable, k, states) \cup {h}) \in Nat
          /\ Cardinality(HeldIn(govTable', k, states)) <= Cardinality(HeldIn(govTable, k, states) \cup {h})
      BY <3>1, <3>2, SmallerCount
    <3> QED
      BY <2>1, <2>2, <2>4, <3>2, <3>3
  <2> QED
    BY <2>3, <2>4
<1>10. Budget("captures") \in Nat /\ Budget("browsers") \in Nat /\ Budget("hidden") \in Nat
  BY BudgetIsPositive
<1>11. /\ Captures \in Nat /\ Captures' \in Nat /\ Captures' <= Captures + (IF kind = "capture" THEN 1 ELSE 0)
       /\ kind = "capture" => Captures < Budget("captures")
  <2>1. kind = "capture" => ~(Captures >= Budget("captures"))
    BY <1>1 DEF denied_by_decision, reached
  <2>2. Captures \in Nat /\ Captures' \in Nat /\ Captures' <= Captures + (IF kind = "capture" THEN 1 ELSE 0)
    BY <1>9 DEF Captures
  <2> QED
    BY <1>10, <2>1, <2>2
<1>12. /\ Browsers \in Nat /\ Browsers' \in Nat /\ Browsers' <= Browsers + (IF kind = "browser" THEN 1 ELSE 0)
       /\ kind = "browser" => Browsers < Budget("browsers")
  <2>1. kind = "browser" => ~(Browsers >= Budget("browsers"))
    BY <1>1 DEF denied_by_decision, reached
  <2>2. Browsers \in Nat /\ Browsers' \in Nat /\ Browsers' <= Browsers + (IF kind = "browser" THEN 1 ELSE 0)
    BY <1>9 DEF Browsers
  <2> QED
    BY <1>10, <2>1, <2>2
<1>13. /\ Count("surface", {"pending"}) \in Nat /\ Count("surface", {"pending"})' \in Nat
       /\ Count("surface", {"pending"})' <= Count("surface", {"pending"}) + (IF kind = "surface" THEN 1 ELSE 0)
       /\ kind = "surface" => Count("surface", {"pending"}) < Budget("hidden")
  <2>1. kind = "surface" => ~(Hidden >= Budget("hidden"))
    BY <1>1 DEF denied_by_decision, reached
  <2>2. Hidden \in Nat /\ Count("surface", {"pending"}) <= Hidden
    <3>1. HeldIn(govTable, "surface", {"pending"}) \subseteq HeldIn(govTable, "surface", {"pending", "hidden"})
      BY DEF HeldIn
    <3> QED
      BY <3>1, CountsAreNatural, SmallerCount DEF Hidden
  <2>3. /\ Count("surface", {"pending"}) \in Nat /\ Count("surface", {"pending"})' \in Nat
        /\ Count("surface", {"pending"})' <= Count("surface", {"pending"}) + (IF kind = "surface" THEN 1 ELSE 0)
    BY <1>9
  <2> QED
    BY <1>10, <2>1, <2>2, <2>3
<1>14. BudgetsHold'
  <2>1. Budget("captures")' = Budget("captures") /\ Budget("browsers")' = Budget("browsers")
        /\ Budget("hidden")' = Budget("hidden")
    BY DEF Budget
  <2>2. Captures <= Budget("captures") /\ Browsers <= Budget("browsers")
        /\ Count("surface", {"pending"}) <= Budget("hidden")
    BY DEF BudgetsHold
  <2>3. Captures' <= Budget("captures")
    BY <1>10, <1>11, <2>2
  <2>4. Browsers' <= Budget("browsers")
    BY <1>10, <1>12, <2>2
  <2>5. Count("surface", {"pending"})' <= Budget("hidden")
    BY <1>10, <1>13, <2>2
  <2> QED
    BY <2>1, <2>3, <2>4, <2>5 DEF BudgetsHold
<1> QED
  BY <1>6, <1>7, <1>14

\* An entry that changes its state keeps its kind and is not pending again.
LEMMA StateChangeKeeps ==
  ASSUME GovInv,
         NEW h \in DOMAIN govTable, NEW state \in {"live", "visible", "hidden"},
         \/ govTable[h].kind = "browser" /\ state = "live"
         \/ govTable[h].kind = "surface" /\ state \in {"visible", "hidden"},
         govTable' = [govTable EXCEPT ![h].state = state],
         govHandle' = [govHandle EXCEPT ![h] = "lease"]
  PROVE  GovInv'
<1> USE DEF GovInv, WorkIsCountedAndBounded
<1>1. h \in GovHolders /\ govTable[h] \in GovEntries
  BY DEF GovShape
<1>2. /\ DOMAIN govTable' = DOMAIN govTable
      /\ govTable' = [k \in DOMAIN govTable' |-> govTable'[k]]
      /\ \A k \in DOMAIN govTable \ {h} : govTable'[k] = govTable[k]
      /\ govTable'[h] = [govTable[h] EXCEPT !.state = state]
  BY DEF GovShape
<1>3. /\ govTable'[h] \in GovEntries /\ govTable'[h].kind = govTable[h].kind
      /\ govTable'[h].state = state /\ Live(govTable'[h])
  BY <1>1, <1>2 DEF GovEntries, GovStates, Live
<1>4. /\ govHandle' \in [GovHolders -> {"nothing", "reservation", "lease"}]
      /\ govHandle'[h] = "lease"
      /\ \A k \in GovHolders \ {h} : govHandle'[k] = govHandle[k]
  BY <1>1 DEF GovShape
<1>5. GovShape'
  <2>1. \A k \in DOMAIN govTable' : govTable'[k] \in GovEntries
    BY <1>2, <1>3 DEF GovShape
  <2>2. govTable' \in [DOMAIN govTable' -> GovEntries]
    BY <1>2, <2>1
  <2>3. DOMAIN govTable' \subseteq GovHolders /\ IsFiniteSet(DOMAIN govTable')
    BY <1>2 DEF GovShape
  <2>4. \A k \in DOMAIN govTable' : govTable'[k].state \in StatesOf(govTable'[k].kind)
    BY <1>2, <1>3 DEF GovShape, StatesOf
  <2> QED
    BY <1>4, <2>2, <2>3, <2>4 DEF GovShape
<1>6. LiveWorkIsCounted'
  <2>1. ASSUME NEW k \in GovHolders
        PROVE  /\ govHandle'[k] = "lease" => k \in DOMAIN govTable' /\ Live(govTable'[k])
               /\ k \in DOMAIN govTable' => govHandle'[k] = IF Live(govTable'[k]) THEN "lease" ELSE "reservation"
    BY <1>2, <1>3, <1>4 DEF LiveWorkIsCounted
  <2> QED
    BY <2>1 DEF LiveWorkIsCounted
<1>7. NothingAdmitted
  <2>1. govTable[h].kind = "browser" => govTable[h].state \in {"pending", "live"}
    BY DEF GovShape, StatesOf
  <2> QED
    BY <1>2, <1>3, <2>1 DEF NothingAdmitted, HeldIn
<1> QED
  BY <1>5, <1>6, <1>7, BudgetsKept

\* Entries that go take nothing with them but the handles that held them.
LEMMA RemovalKeeps ==
  ASSUME GovInv,
         NEW gone \in SUBSET GovHolders,
         govTable' = [k \in DOMAIN govTable \ gone |-> govTable[k]],
         \/ /\ UNCHANGED govHandle
            /\ \A k \in gone \cap DOMAIN govTable : ~Live(govTable[k])
         \/ \E h \in GovHolders : gone = {h} /\ govHandle' = [govHandle EXCEPT ![h] = "nothing"]
  PROVE  GovInv'
<1> USE DEF GovInv, WorkIsCountedAndBounded
<1>1. /\ DOMAIN govTable' = DOMAIN govTable \ gone
      /\ \A k \in DOMAIN govTable' : govTable'[k] = govTable[k]
      /\ govTable' = [k \in DOMAIN govTable' |-> govTable'[k]]
  OBVIOUS
<1>2. GovShape'
  <2>1. govTable' \in [DOMAIN govTable' -> GovEntries]
    BY <1>1 DEF GovShape
  <2>2. IsFiniteSet(DOMAIN govTable')
    BY <1>1, FS_Subset DEF GovShape
  <2>3. govHandle' \in [GovHolders -> {"nothing", "reservation", "lease"}]
    BY DEF GovShape
  <2>4. \A k \in DOMAIN govTable' : govTable'[k].state \in StatesOf(govTable'[k].kind)
    BY <1>1 DEF GovShape
  <2> QED
    BY <1>1, <2>1, <2>2, <2>3, <2>4 DEF GovShape
<1>3. LiveWorkIsCounted'
  <2> SUFFICES ASSUME NEW k \in GovHolders
               PROVE  /\ govHandle'[k] = "lease" => k \in DOMAIN govTable' /\ Live(govTable'[k])
                      /\ k \in DOMAIN govTable' => govHandle'[k] = IF Live(govTable'[k]) THEN "lease" ELSE "reservation"
    BY DEF LiveWorkIsCounted
  <2>1. /\ govHandle[k] = "lease" => k \in DOMAIN govTable /\ Live(govTable[k])
        /\ k \in DOMAIN govTable => govHandle[k] = IF Live(govTable[k]) THEN "lease" ELSE "reservation"
    BY DEF LiveWorkIsCounted
  <2>2. CASE UNCHANGED govHandle /\ \A j \in gone \cap DOMAIN govTable : ~Live(govTable[j])
    BY <1>1, <2>1, <2>2
  <2>3. ASSUME NEW h \in GovHolders, gone = {h}, govHandle' = [govHandle EXCEPT ![h] = "nothing"]
        PROVE  /\ govHandle'[k] = "lease" => k \in DOMAIN govTable' /\ Live(govTable'[k])
               /\ k \in DOMAIN govTable' => govHandle'[k] = IF Live(govTable'[k]) THEN "lease" ELSE "reservation"
    <3>1. govHandle'[k] = IF k = h THEN "nothing" ELSE govHandle[k]
      BY <2>3 DEF GovShape
    <3> QED
      BY <1>1, <2>1, <2>3, <3>1
  <2> QED
    BY <2>2, <2>3
<1>4. NothingAdmitted
  BY <1>1 DEF NothingAdmitted, HeldIn
<1> QED
  BY <1>2, <1>3, <1>4, BudgetsKept

\* Every operation of the governor keeps its invariant.
LEMMA GovNextKeeps ==
  ASSUME GovInv, [GovNext]_govVars
  PROVE  GovInv'
<1>1. ASSUME update_process_metrics
      PROVE  GovInv'
  <2>1. UNCHANGED <<govTable, govHandle>>
    BY <1>1 DEF update_process_metrics
  <2>2. NothingAdmitted
    BY <2>1 DEF NothingAdmitted
  <2>3. GovShape' /\ LiveWorkIsCounted'
    BY <2>1 DEF GovInv, GovShape, WorkIsCountedAndBounded, LiveWorkIsCounted
  <2> QED
    BY <2>2, <2>3, BudgetsKept DEF GovInv, WorkIsCountedAndBounded
<1>2. ASSUME activate
      PROVE  GovInv'
  <2>1. PICK h \in GovHolders :
          /\ govHandle[h] = "reservation"
          /\ \/ /\ h \in DOMAIN govTable /\ govTable[h].kind \in {"browser", "surface"}
                /\ \E state \in IF govTable[h].kind = "browser" THEN {"live"} ELSE {"visible", "hidden"} :
                     govTable' = [govTable EXCEPT ![h].state = state]
                /\ govHandle' = [govHandle EXCEPT ![h] = "lease"]
             \/ /\ h \notin DOMAIN govTable
                /\ govHandle' = [govHandle EXCEPT ![h] = "nothing"]
                /\ UNCHANGED govTable
          /\ UNCHANGED govLoad
    BY <1>2 DEF activate
  <2>2. ASSUME h \in DOMAIN govTable, govTable[h].kind \in {"browser", "surface"},
               NEW state \in IF govTable[h].kind = "browser" THEN {"live"} ELSE {"visible", "hidden"},
               govTable' = [govTable EXCEPT ![h].state = state],
               govHandle' = [govHandle EXCEPT ![h] = "lease"]
        PROVE  GovInv'
    <3>1. /\ state \in {"live", "visible", "hidden"}
          /\ \/ govTable[h].kind = "browser" /\ state = "live"
             \/ govTable[h].kind = "surface" /\ state \in {"visible", "hidden"}
      BY <2>2
    <3> QED
      BY <1>2, <2>2, <3>1, StateChangeKeeps
  <2>3. ASSUME h \notin DOMAIN govTable, govHandle' = [govHandle EXCEPT ![h] = "nothing"], UNCHANGED govTable
        PROVE  GovInv'
    <3>1. govTable' = [k \in DOMAIN govTable \ {h} |-> govTable[k]]
      BY <2>3 DEF GovInv, GovShape
    <3> QED
      BY <2>3, <3>1, RemovalKeeps
  <2> QED
    BY <2>1, <2>2, <2>3
<1>3. ASSUME set_surface_visibility
      PROVE  GovInv'
  <2>1. PICK h \in DOMAIN govTable :
          /\ govHandle[h] = "lease" /\ govTable[h].kind = "surface"
          /\ govTable' = [govTable EXCEPT ![h].state = IF @ = "hidden" THEN "visible" ELSE "hidden"]
          /\ UNCHANGED <<govHandle, govLoad>>
    BY <1>3 DEF set_surface_visibility
  <2> DEFINE state == IF govTable[h].state = "hidden" THEN "visible" ELSE "hidden"
  <2>2. govTable' = [govTable EXCEPT ![h].state = state] /\ state \in {"visible", "hidden"}
    BY <2>1
  <2> HIDE DEF state
  <2>3. govHandle' = [govHandle EXCEPT ![h] = "lease"]
    BY <2>1 DEF GovInv, GovShape
  <2> QED
    BY <2>1, <2>2, <2>3, StateChangeKeeps
<1>4. ASSUME reservation_dropped
      PROVE  GovInv'
  <2>1. PICK h \in GovHolders :
          govTable' = Excluding(h) /\ govHandle' = [govHandle EXCEPT ![h] = "nothing"]
    BY <1>4 DEF reservation_dropped
  <2> QED
    BY <2>1, RemovalKeeps DEF Excluding
<1>5. ASSUME lease_dropped
      PROVE  GovInv'
  <2>1. PICK h \in GovHolders :
          /\ govHandle[h] = "lease"
          /\ govTable' = release_live_key(h) /\ govHandle' = [govHandle EXCEPT ![h] = "nothing"]
    BY <1>5 DEF lease_dropped
  <2>2. govTable' = Excluding(h)
    BY <2>1 DEF GovInv, WorkIsCountedAndBounded, LiveWorkIsCounted, release_live_key
  <2> QED
    BY <2>1, <2>2, RemovalKeeps DEF Excluding
<1>6. ASSUME release_session
      PROVE  GovInv'
  <2>1. PICK s \in GovSessions :
          /\ govTable' = [h \in DOMAIN govTable \ Released(s) |-> govTable[h]]
          /\ UNCHANGED <<govHandle, govLoad>>
    BY <1>6 DEF release_session
  <2>2. Released(s) \in SUBSET GovHolders /\ \A k \in Released(s) : ~Live(govTable[k])
    BY DEF Released, GovInv, GovShape
  <2> QED
    BY <2>1, <2>2, RemovalKeeps
<1>7. ASSUME UNCHANGED govVars
      PROVE  GovInv'
  <2>1. UNCHANGED <<govTable, govHandle, govLoad>>
    BY <1>7 DEF govVars
  <2>2. NothingAdmitted
    BY <2>1 DEF NothingAdmitted
  <2>3. GovShape' /\ LiveWorkIsCounted'
    BY <2>1 DEF GovInv, GovShape, WorkIsCountedAndBounded, LiveWorkIsCounted
  <2> QED
    BY <2>2, <2>3, BudgetsKept DEF GovInv, WorkIsCountedAndBounded
<1> QED
  BY <1>1, <1>2, <1>3, <1>4, <1>5, <1>6, <1>7, ReserveKeeps DEF GovNext

\* A governor that holds nothing is within its budgets.
LEMMA GovInitKeeps == GovInit => GovInv
<1> SUFFICES ASSUME GovInit
             PROVE  GovInv
  OBVIOUS
<1>1. DOMAIN govTable = {} /\ govHandle = [h \in GovHolders |-> "nothing"]
  BY DEF GovInit
<1>2. GovShape
  <2>1. govTable \in [DOMAIN govTable -> GovEntries]
    BY <1>1 DEF GovInit
  <2>2. IsFiniteSet(DOMAIN govTable)
    BY <1>1, FS_EmptySet
  <2> QED
    BY <1>1, <2>1, <2>2 DEF GovShape
<1>3. LiveWorkIsCounted
  BY <1>1 DEF LiveWorkIsCounted
<1>4. BudgetsHold
  <2>1. \A kind, states : Count(kind, states) = 0
    <3> SUFFICES ASSUME NEW kind, NEW states
                 PROVE  Count(kind, states) = 0
      OBVIOUS
    <3>1. HeldIn(govTable, kind, states) = {}
      BY <1>1 DEF HeldIn
    <3> QED
      BY <1>2, <3>1, CountsAreNatural, FS_EmptySet
  <2>2. Budget("captures") \in Nat \ {0} /\ Budget("browsers") \in Nat \ {0} /\ Budget("hidden") \in Nat \ {0}
    BY BudgetIsPositive
  <2>3. Captures = 0 /\ Browsers = 0 /\ Count("surface", {"pending"}) = 0
    BY <2>1 DEF Captures, Browsers
  <2> QED
    BY <2>2, <2>3 DEF BudgetsHold
<1> QED
  BY <1>2, <1>3, <1>4 DEF GovInv, WorkIsCountedAndBounded

\* The account of the resource governor is that of the work there is, and what
\* was admitted stays within the budgets: reserve, activate, hide and drop in
\* whatever order, and release_session in between
\* (crates/resource-governor/src/lib.rs).
THEOREM WorkStaysCounted == GovSpec => []WorkIsCountedAndBounded
<1>1. GovInit => GovInv
  BY GovInitKeeps
<1>2. GovInv /\ [GovNext]_govVars => GovInv'
  BY GovNextKeeps
<1>3. GovInv => WorkIsCountedAndBounded
  BY DEF GovInv
<1> QED
  BY <1>1, <1>2, <1>3, PTL DEF GovSpec

-----------------------------------------------------------------------------
(* The managed surfaces: for every set of labels and of desktops and for   *)
(* every bound.                                                            *)

\* The surface being opened is one the running desktop has minted.
OpeningIsOwn ==
  wOpening.step # "none" => wOpening.id.owner = wOwner /\ wOpening.id.inc <= wNext[wOpening.id.label]

\* A handler has claimed its surface, which is then neither pending nor live.
HandlersClaim ==
  \A h \in sHandlers : h.id \in sActivating /\ h.id \notin sLive /\ h.id \notin sPending

\* One handler runs for one surface.
OneHandlerEach == \A g, h \in sHandlers : g.id = h.id => g = h

\* The running desktop mints identities the daemon has not heard of.
IncarnationsAreSpent ==
  \A c \in sPending \cup sActivating \cup sLive : c.owner = wOwner => c.inc <= wNext[c.label]

\* What the governor takes for pending is not live, and nobody makes it live.
PendingIsNotLive ==
  \A i \in SurfaceIds : sReserved[i] = "pending" => i \notin sLive /\ \A h \in sHandlers : h.id # i

\* A window whose surface is still pending is the one being opened.
OpenWindowsAreActivated ==
  \A c \in wLive : c \in sPending => wOpening.id = c /\ wOpening.step \in {"created", "cancel"}

AccountInv ==
  /\ SurfaceTypeOK /\ OpeningIsOwn /\ HandlersClaim /\ OneHandlerEach
  /\ IncarnationsAreSpent /\ PendingIsNotLive /\ OpenWindowsAreActivated
  /\ SurfacesAreAccountedFor

\* Every step leaves the records well-formed, and the surface being opened the
\* running desktop's own.
LEMMA SurfaceTypesKept ==
  ASSUME SurfaceTypeOK, OpeningIsOwn, [SurfaceNext]_surfaceVars
  PROVE  SurfaceTypeOK' /\ OpeningIsOwn'
<1> USE SurfaceConstants
<1>1. ASSUME register_surface_owner
      PROVE  SurfaceTypeOK' /\ OpeningIsOwn'
  BY <1>1 DEF register_surface_owner, SurfaceTypeOK, OpeningIsOwn, Registered
<1>2. ASSUME NEW l \in SurfaceLabels, reserve_surface_resource(l)
      PROVE  SurfaceTypeOK' /\ OpeningIsOwn'
  BY <1>2 DEF reserve_surface_resource, SurfaceTypeOK, OpeningIsOwn, next_identity, SurfaceIds
<1>3. ASSUME create_window
      PROVE  SurfaceTypeOK' /\ OpeningIsOwn'
  BY <1>3 DEF create_window, SurfaceTypeOK, OpeningIsOwn, sDaemon
<1>4. ASSUME activate_surface_resource
      PROVE  SurfaceTypeOK' /\ OpeningIsOwn'
  BY <1>4 DEF activate_surface_resource, SurfaceTypeOK, OpeningIsOwn
<1>5. ASSUME activation_unanswered
      PROVE  SurfaceTypeOK' /\ OpeningIsOwn'
  BY <1>5 DEF activation_unanswered, SurfaceTypeOK, OpeningIsOwn, sDaemon
<1>6. ASSUME open_cleanup
      PROVE  SurfaceTypeOK' /\ OpeningIsOwn'
  BY <1>6 DEF open_cleanup, SurfaceTypeOK, OpeningIsOwn
<1>7. ASSUME NEW h \in sHandlers, record_surface_event(h)
      PROVE  SurfaceTypeOK' /\ OpeningIsOwn'
  BY <1>7 DEF record_surface_event, SurfaceTypeOK, OpeningIsOwn
<1>8. ASSUME NEW h \in sHandlers, publish_surface(h)
      PROVE  SurfaceTypeOK' /\ OpeningIsOwn'
  BY <1>8 DEF publish_surface, SurfaceTypeOK, OpeningIsOwn
<1>9. ASSUME NEW h \in sHandlers, surface_handler_dropped(h)
      PROVE  SurfaceTypeOK' /\ OpeningIsOwn'
  BY <1>9 DEF surface_handler_dropped, SurfaceTypeOK, OpeningIsOwn, wDesktop
<1>10. ASSUME NEW id \in wLive, NEW v \in {"visible", "hidden"}, update_surface_visibility(id, v)
      PROVE  SurfaceTypeOK' /\ OpeningIsOwn'
  BY <1>10 DEF update_surface_visibility, SurfaceTypeOK, OpeningIsOwn, wDesktop
<1>11. ASSUME NEW id \in wLive, reattach_surface_resource(id)
      PROVE  SurfaceTypeOK' /\ OpeningIsOwn'
  BY <1>11 DEF reattach_surface_resource, SurfaceTypeOK, OpeningIsOwn, Registered
<1>12. ASSUME NEW id \in wLive, release_surface_resource(id)
      PROVE  SurfaceTypeOK' /\ OpeningIsOwn'
  BY <1>12 DEF release_surface_resource, SurfaceTypeOK, OpeningIsOwn
<1>13. ASSUME NEW o \in SurfaceOwners, surface_owner_expires(o)
      PROVE  SurfaceTypeOK' /\ OpeningIsOwn'
  <2>1. sLeases[o] \in [id : 0..MaxLeases, fresh : BOOLEAN]
    BY DEF SurfaceTypeOK
  <2>2. [sLeases[o] EXCEPT !.fresh = FALSE] \in [id : 0..MaxLeases, fresh : BOOLEAN]
    BY <2>1
  <2>3. sLeases' \in [SurfaceOwners -> [id : 0..MaxLeases, fresh : BOOLEAN]]
    BY <1>13, <2>2 DEF surface_owner_expires, SurfaceTypeOK
  <2> QED
    BY <1>13, <2>3 DEF surface_owner_expires, SurfaceTypeOK, OpeningIsOwn, wDesktop
<1>14. ASSUME NEW o \in SurfaceOwners, reap_expired_surface_owner(o)
      PROVE  SurfaceTypeOK' /\ OpeningIsOwn'
  BY <1>14 DEF reap_expired_surface_owner, SurfaceTypeOK, OpeningIsOwn, wDesktop
<1>15. ASSUME NEW o \in SurfaceOwners, desktop_restarts(o)
      PROVE  SurfaceTypeOK' /\ OpeningIsOwn'
  BY <1>15 DEF desktop_restarts, SurfaceTypeOK, OpeningIsOwn, sDaemon
<1>16. ASSUME release_surface_resource_session
      PROVE  SurfaceTypeOK' /\ OpeningIsOwn'
  BY <1>16 DEF release_surface_resource_session, SurfaceTypeOK, OpeningIsOwn, wDesktop
<1>17. ASSUME update_sample
      PROVE  SurfaceTypeOK' /\ OpeningIsOwn'
  BY <1>17 DEF update_sample, SurfaceTypeOK, OpeningIsOwn, sDaemon, wDesktop
<1>18. ASSUME daemon_restarts
      PROVE  SurfaceTypeOK' /\ OpeningIsOwn'
  BY <1>18 DEF daemon_restarts, SurfaceTypeOK, OpeningIsOwn
<1>19. ASSUME UNCHANGED surfaceVars
      PROVE  SurfaceTypeOK' /\ OpeningIsOwn'
  BY <1>19 DEF SurfaceTypeOK, OpeningIsOwn, surfaceVars, sDaemon, wDesktop
<1> QED
  BY <1>1, <1>2, <1>3, <1>4, <1>5, <1>6, <1>7, <1>8, <1>9, <1>10, <1>11, <1>12, <1>13, <1>14,
     <1>15, <1>16, <1>17, <1>18, <1>19 DEF SurfaceNext

\* The account of the surfaces is kept by every step.
LEMMA AccountKept ==
  ASSUME AccountInv, [SurfaceNext]_surfaceVars
  PROVE  AccountInv'
<1> USE SurfaceConstants DEF AccountInv, SurfacesAreAccountedFor, SurfaceTypeOK
<1>0. SurfaceTypeOK' /\ OpeningIsOwn'
  BY SurfaceTypesKept
<1> DEFINE Account == /\ HandlersClaim /\ OneHandlerEach /\ IncarnationsAreSpent /\ PendingIsNotLive
                      /\ OpenWindowsAreActivated /\ SurfacesAreAccountedFor
<1>1. ASSUME register_surface_owner
      PROVE  Account'
  BY <1>1 DEF register_surface_owner, Registered, HandlersClaim, OneHandlerEach,
     IncarnationsAreSpent, PendingIsNotLive, OpenWindowsAreActivated,
     ReservationsHaveOwners, OneSurfacePerLabel, ReapedOwnersAreGone
<1>2. ASSUME NEW l \in SurfaceLabels, reserve_surface_resource(l)
      PROVE  Account'
  <2>1. HandlersClaim' /\ OneHandlerEach'
    BY <1>2 DEF reserve_surface_resource, next_identity, PinGranted, HandlersClaim,
       OneHandlerEach, IncarnationsAreSpent
  <2>2. IncarnationsAreSpent'
    <3> DEFINE id == next_identity(l)
    <3>1. id.owner = wOwner /\ id.label = l /\ id.inc = wNext[l] + 1
      BY DEF next_identity
    <3>2. wNext' = [wNext EXCEPT ![l] = @ + 1] /\ sPending' = sPending \cup {id}
          /\ UNCHANGED <<sActivating, sLive, wOwner>>
      BY <1>2 DEF reserve_surface_resource
    <3> HIDE DEF id
    <3>3. \A k \in SurfaceLabels : wNext[k] \in Nat /\ wNext'[k] \in Nat /\ wNext[k] <= wNext'[k]
      BY <3>2 DEF SurfaceTypeOK
    <3>4. wNext'[l] = id.inc
      BY <3>1, <3>2 DEF SurfaceTypeOK
    <3>5. sPending \cup sActivating \cup sLive \subseteq SurfaceIds
      BY DEF SurfaceTypeOK
    <3> QED
      BY <3>1, <3>2, <3>3, <3>4, <3>5 DEF IncarnationsAreSpent, SurfaceIds
  <2>3. OpenWindowsAreActivated'
    BY <1>2 DEF reserve_surface_resource, next_identity, PinGranted, OpenWindowsAreActivated,
       IncarnationsAreSpent
  <2>4. PendingIsNotLive'
    BY <1>2 DEF reserve_surface_resource, next_identity, PinGranted, PendingIsNotLive,
       IncarnationsAreSpent, HandlersClaim, OneHandlerEach
  <2>5. ReservationsHaveOwners'
    BY <1>2 DEF reserve_surface_resource, next_identity, PinGranted, ReservationsHaveOwners,
       HandlersClaim, OneHandlerEach, PendingIsNotLive, IncarnationsAreSpent
  <2>6. OneSurfacePerLabel' /\ ReapedOwnersAreGone'
    BY <1>2 DEF reserve_surface_resource, next_identity, PinGranted, OneSurfacePerLabel,
       HandlersClaim, ReapedOwnersAreGone, IncarnationsAreSpent
  <2> QED
    BY <2>1, <2>2, <2>3, <2>4, <2>5, <2>6
<1>3. ASSUME create_window
      PROVE  Account'
  BY <1>3 DEF create_window, sDaemon, HandlersClaim, OneHandlerEach, IncarnationsAreSpent,
     PendingIsNotLive, OpenWindowsAreActivated,
     ReservationsHaveOwners, OneSurfacePerLabel, ReapedOwnersAreGone
<1>4. ASSUME activate_surface_resource
      PROVE  Account'
  <2>1. HandlersClaim' /\ OneHandlerEach'
    BY <1>4 DEF activate_surface_resource, PinGranted, Claimed, HandlersClaim, OneHandlerEach
  <2>2. IncarnationsAreSpent' /\ OpenWindowsAreActivated'
    BY <1>4 DEF activate_surface_resource, PinGranted, Claimed, IncarnationsAreSpent,
       ReapedOwnersAreGone, HandlersClaim, OpenWindowsAreActivated
  <2>3. PendingIsNotLive'
    BY <1>4 DEF activate_surface_resource, PinGranted, Claimed, PendingIsNotLive,
       IncarnationsAreSpent, HandlersClaim, OneHandlerEach
  <2>4. ReservationsHaveOwners'
    <3> DEFINE id == wOpening.id
    <3>0. id \in SurfaceIds
      BY DEF SurfaceTypeOK
    <3>1. CASE sReserved[id] = "pending"
      <4>1. /\ sReserved' = [sReserved EXCEPT ![id] = "visible"] /\ sPending' = sPending \ {id}
            /\ sHandlers' = sHandlers \cup {[kind |-> "activate", id |-> id, step |-> "record"]}
            /\ sLive' = sLive
        BY <1>4, <3>1 DEF activate_surface_resource
      <4> HIDE DEF id
      <4>2. sReserved'[id] = "visible" /\ \A i \in SurfaceIds \ {id} : sReserved'[i] = sReserved[i]
        BY <3>0, <4>1 DEF SurfaceTypeOK
      <4>3. \A i : (\E h \in sHandlers' : h.id = i) <=> (i = id \/ \E h \in sHandlers : h.id = i)
        <5> DEFINE new == [kind |-> "activate", id |-> id, step |-> "record"]
        <5>1. new.id = id /\ sHandlers' = sHandlers \cup {new}
          BY <4>1
        <5> HIDE DEF new
        <5> QED
          BY <5>1
      <4> QED
        BY <4>1, <4>2, <4>3 DEF ReservationsHaveOwners
    <3>2. CASE sReserved[id] # "pending"
      <4>1. sPending' = sPending \ {id} /\ UNCHANGED <<sReserved, sHandlers, sLive>>
        BY <1>4, <3>2 DEF activate_surface_resource
      <4> QED
        BY <3>2, <4>1 DEF ReservationsHaveOwners
    <3> QED
      BY <3>1, <3>2
  <2>5. OneSurfacePerLabel' /\ ReapedOwnersAreGone'
    BY <1>4 DEF activate_surface_resource, PinGranted, Claimed, OneSurfacePerLabel, HandlersClaim,
       ReapedOwnersAreGone
  <2> QED
    BY <2>1, <2>2, <2>3, <2>4, <2>5
<1>5. ASSUME activation_unanswered
      PROVE  Account'
  BY <1>5 DEF activation_unanswered, sDaemon, HandlersClaim, OneHandlerEach, IncarnationsAreSpent,
     PendingIsNotLive, OpenWindowsAreActivated,
     ReservationsHaveOwners, OneSurfacePerLabel, ReapedOwnersAreGone
<1>6. ASSUME open_cleanup
      PROVE  Account'
  <2>1. HandlersClaim' /\ OneHandlerEach'
    BY <1>6 DEF open_cleanup, HandlersClaim, OneHandlerEach, OpenWindowsAreActivated
  <2>2. IncarnationsAreSpent' /\ OpenWindowsAreActivated'
    BY <1>6 DEF open_cleanup, IncarnationsAreSpent, ReapedOwnersAreGone, HandlersClaim,
       OpenWindowsAreActivated
  <2>3. PendingIsNotLive'
    BY <1>6 DEF open_cleanup, PendingIsNotLive, IncarnationsAreSpent, HandlersClaim,
       OneHandlerEach, OpenWindowsAreActivated
  <2>4. ReservationsHaveOwners'
    BY <1>6 DEF open_cleanup, ReservationsHaveOwners, HandlersClaim, OneHandlerEach,
       PendingIsNotLive, OpenWindowsAreActivated
  <2>5. OneSurfacePerLabel' /\ ReapedOwnersAreGone'
    BY <1>6 DEF open_cleanup, OneSurfacePerLabel, HandlersClaim, ReapedOwnersAreGone,
       OpenWindowsAreActivated
  <2> QED
    BY <2>1, <2>2, <2>3, <2>4, <2>5
<1>7. ASSUME NEW h \in sHandlers, record_surface_event(h)
      PROVE  Account'
  <2>1. HandlersClaim' /\ OneHandlerEach'
    BY <1>7 DEF record_surface_event, HandlersClaim, OneHandlerEach
  <2>2. IncarnationsAreSpent' /\ OpenWindowsAreActivated'
    BY <1>7 DEF record_surface_event, IncarnationsAreSpent, ReapedOwnersAreGone, HandlersClaim,
       OpenWindowsAreActivated
  <2>3. PendingIsNotLive'
    BY <1>7 DEF record_surface_event, PendingIsNotLive, IncarnationsAreSpent, HandlersClaim,
       OneHandlerEach
  <2>4. ReservationsHaveOwners'
    <3>1. CASE sHandlers' = (sHandlers \ {h}) \cup {[h EXCEPT !.step = "publish"]} /\ UNCHANGED sReserved
      <4>1. [h EXCEPT !.step = "publish"].id = h.id
        BY DEF SurfaceTypeOK
      <4>2. \A i : (\E g \in sHandlers' : g.id = i) <=> \E g \in sHandlers : g.id = i
        BY <3>1, <4>1
      <4>3. UNCHANGED <<sPending, sLive>>
        BY <1>7 DEF record_surface_event
      <4> QED
        BY <3>1, <4>2, <4>3 DEF ReservationsHaveOwners
    <3>2. CASE sHandlers' = sHandlers \ {h} /\ sReserved' = [sReserved EXCEPT ![h.id] = "none"]
      <4>1. UNCHANGED <<sPending, sLive>>
        BY <1>7 DEF record_surface_event
      <4> QED
        BY <3>2, <4>1 DEF ReservationsHaveOwners, HandlersClaim, OneHandlerEach, SurfaceTypeOK
    <3> QED
      BY <1>7, <3>1, <3>2 DEF record_surface_event
  <2>5. OneSurfacePerLabel' /\ ReapedOwnersAreGone'
    BY <1>7 DEF record_surface_event, OneSurfacePerLabel, HandlersClaim, ReapedOwnersAreGone
  <2> QED
    BY <2>1, <2>2, <2>3, <2>4, <2>5
<1>8. ASSUME NEW h \in sHandlers, publish_surface(h)
      PROVE  Account'
  <2>1. HandlersClaim' /\ OneHandlerEach'
    BY <1>8 DEF publish_surface, HandlersClaim, OneHandlerEach
  <2>2. IncarnationsAreSpent' /\ OpenWindowsAreActivated'
    BY <1>8 DEF publish_surface, IncarnationsAreSpent, ReapedOwnersAreGone, HandlersClaim,
       OpenWindowsAreActivated
  <2>3. PendingIsNotLive'
    BY <1>8 DEF publish_surface, PendingIsNotLive, IncarnationsAreSpent, HandlersClaim,
       OneHandlerEach
  <2>4. ReservationsHaveOwners'
    BY <1>8 DEF publish_surface, ReservationsHaveOwners, HandlersClaim, OneHandlerEach,
       PendingIsNotLive
  <2>5. OneSurfacePerLabel' /\ ReapedOwnersAreGone'
    BY <1>8 DEF publish_surface, OneSurfacePerLabel, HandlersClaim, ReapedOwnersAreGone
  <2> QED
    BY <2>1, <2>2, <2>3, <2>4, <2>5
<1>9. ASSUME NEW h \in sHandlers, surface_handler_dropped(h)
      PROVE  Account'
  <2>1. HandlersClaim' /\ OneHandlerEach'
    BY <1>9 DEF surface_handler_dropped, wDesktop, HandlersClaim, OneHandlerEach
  <2>2. IncarnationsAreSpent' /\ OpenWindowsAreActivated'
    BY <1>9 DEF surface_handler_dropped, wDesktop, IncarnationsAreSpent, ReapedOwnersAreGone,
       HandlersClaim, OpenWindowsAreActivated
  <2>3. PendingIsNotLive'
    BY <1>9 DEF surface_handler_dropped, wDesktop, PendingIsNotLive, IncarnationsAreSpent,
       HandlersClaim, OneHandlerEach
  <2>4. ReservationsHaveOwners'
    BY <1>9 DEF surface_handler_dropped, wDesktop, ReservationsHaveOwners, HandlersClaim,
       OneHandlerEach, PendingIsNotLive
  <2>5. OneSurfacePerLabel' /\ ReapedOwnersAreGone'
    BY <1>9 DEF surface_handler_dropped, wDesktop, OneSurfacePerLabel, HandlersClaim,
       ReapedOwnersAreGone
  <2> QED
    BY <2>1, <2>2, <2>3, <2>4, <2>5
<1>10. ASSUME NEW id \in wLive, NEW v \in {"visible", "hidden"}, update_surface_visibility(id, v)
      PROVE  Account'
  <2>1. HandlersClaim' /\ OneHandlerEach'
    BY <1>10 DEF update_surface_visibility, wDesktop, HandlersClaim, OneHandlerEach
  <2>2. IncarnationsAreSpent' /\ OpenWindowsAreActivated'
    BY <1>10 DEF update_surface_visibility, wDesktop, IncarnationsAreSpent, ReapedOwnersAreGone,
       HandlersClaim, OpenWindowsAreActivated
  <2>3. PendingIsNotLive'
    BY <1>10 DEF update_surface_visibility, wDesktop, PendingIsNotLive, IncarnationsAreSpent,
       HandlersClaim, OneHandlerEach
  <2>4. ReservationsHaveOwners'
    BY <1>10 DEF update_surface_visibility, wDesktop, ReservationsHaveOwners, HandlersClaim,
       OneHandlerEach, PendingIsNotLive
  <2>5. OneSurfacePerLabel' /\ ReapedOwnersAreGone'
    BY <1>10 DEF update_surface_visibility, wDesktop, OneSurfacePerLabel, HandlersClaim,
       ReapedOwnersAreGone
  <2> QED
    BY <2>1, <2>2, <2>3, <2>4, <2>5
<1>11. ASSUME NEW id \in wLive, reattach_surface_resource(id)
      PROVE  Account'
  <2>1. HandlersClaim' /\ OneHandlerEach'
    BY <1>11 DEF reattach_surface_resource, Registered, Claimed, HandlersClaim, OneHandlerEach,
       OpenWindowsAreActivated
  <2>2. IncarnationsAreSpent' /\ OpenWindowsAreActivated'
    BY <1>11 DEF reattach_surface_resource, Registered, Claimed, IncarnationsAreSpent,
       ReapedOwnersAreGone, HandlersClaim, OpenWindowsAreActivated
  <2>3. PendingIsNotLive'
    BY <1>11 DEF reattach_surface_resource, Registered, Claimed, PendingIsNotLive,
       IncarnationsAreSpent, HandlersClaim, OneHandlerEach, OpenWindowsAreActivated
  <2>4. ReservationsHaveOwners'
    <3>0. id \in SurfaceIds
      BY DEF SurfaceTypeOK
    <3>1. CASE UNCHANGED <<sReserved, sHandlers>>
      BY <1>11, <3>1 DEF reattach_surface_resource, ReservationsHaveOwners
    <3>2. CASE /\ sReserved' = [sReserved EXCEPT ![id] = "visible"]
               /\ sHandlers' = sHandlers \cup {[kind |-> "reattach", id |-> id, step |-> "record"]}
      <4>1. UNCHANGED <<sPending, sLive>>
        BY <1>11 DEF reattach_surface_resource
      <4>2. sReserved'[id] = "visible" /\ \A i \in SurfaceIds \ {id} : sReserved'[i] = sReserved[i]
        BY <3>0, <3>2 DEF SurfaceTypeOK
      <4>3. \A i : (\E h \in sHandlers' : h.id = i) <=> (i = id \/ \E h \in sHandlers : h.id = i)
        <5> DEFINE new == [kind |-> "reattach", id |-> id, step |-> "record"]
        <5>1. new.id = id /\ sHandlers' = sHandlers \cup {new}
          BY <3>2
        <5> HIDE DEF new
        <5> QED
          BY <5>1
      <4> QED
        BY <4>1, <4>2, <4>3 DEF ReservationsHaveOwners
    <3> QED
      BY <1>11, <3>1, <3>2 DEF reattach_surface_resource
  <2>5. OneSurfacePerLabel' /\ ReapedOwnersAreGone'
    BY <1>11 DEF reattach_surface_resource, Registered, Claimed, OneSurfacePerLabel,
       HandlersClaim, ReapedOwnersAreGone, OpenWindowsAreActivated
  <2> QED
    BY <2>1, <2>2, <2>3, <2>4, <2>5
<1>12. ASSUME NEW id \in wLive, release_surface_resource(id)
      PROVE  Account'
  <2>1. HandlersClaim' /\ OneHandlerEach'
    BY <1>12 DEF release_surface_resource, HandlersClaim, OneHandlerEach
  <2>2. IncarnationsAreSpent' /\ OpenWindowsAreActivated'
    BY <1>12 DEF release_surface_resource, IncarnationsAreSpent, ReapedOwnersAreGone,
       HandlersClaim, OpenWindowsAreActivated
  <2>3. PendingIsNotLive'
    BY <1>12 DEF release_surface_resource, PendingIsNotLive, IncarnationsAreSpent, HandlersClaim,
       OneHandlerEach
  <2>4. ReservationsHaveOwners'
    BY <1>12 DEF release_surface_resource, ReservationsHaveOwners, HandlersClaim, OneHandlerEach,
       PendingIsNotLive
  <2>5. OneSurfacePerLabel' /\ ReapedOwnersAreGone'
    BY <1>12 DEF release_surface_resource, OneSurfacePerLabel, HandlersClaim, ReapedOwnersAreGone
  <2> QED
    BY <2>1, <2>2, <2>3, <2>4, <2>5
<1>13. ASSUME NEW o \in SurfaceOwners, surface_owner_expires(o)
      PROVE  Account'
  BY <1>13 DEF surface_owner_expires, wDesktop, HandlersClaim, OneHandlerEach,
     IncarnationsAreSpent, PendingIsNotLive, OpenWindowsAreActivated,
     ReservationsHaveOwners, OneSurfacePerLabel, ReapedOwnersAreGone
<1>14. ASSUME NEW o \in SurfaceOwners, reap_expired_surface_owner(o)
      PROVE  Account'
  <2>1. HandlersClaim' /\ OneHandlerEach'
    BY <1>14 DEF reap_expired_surface_owner, wDesktop, Pinned, HandlersClaim, OneHandlerEach
  <2>2. IncarnationsAreSpent' /\ OpenWindowsAreActivated'
    BY <1>14 DEF reap_expired_surface_owner, wDesktop, Pinned, IncarnationsAreSpent,
       ReapedOwnersAreGone, HandlersClaim, OpenWindowsAreActivated
  <2>3. PendingIsNotLive'
    BY <1>14 DEF reap_expired_surface_owner, wDesktop, Pinned, PendingIsNotLive,
       IncarnationsAreSpent, HandlersClaim, OneHandlerEach
  <2>4. ReservationsHaveOwners'
    BY <1>14 DEF reap_expired_surface_owner, wDesktop, Pinned, ReservationsHaveOwners,
       HandlersClaim, OneHandlerEach, PendingIsNotLive
  <2>5. OneSurfacePerLabel' /\ ReapedOwnersAreGone'
    BY <1>14 DEF reap_expired_surface_owner, wDesktop, Pinned, OneSurfacePerLabel, HandlersClaim,
       ReapedOwnersAreGone
  <2> QED
    BY <2>1, <2>2, <2>3, <2>4, <2>5
<1>15. ASSUME NEW o \in SurfaceOwners, desktop_restarts(o)
      PROVE  Account'
  BY <1>15 DEF desktop_restarts, sDaemon, HandlersClaim, OneHandlerEach, IncarnationsAreSpent,
     PendingIsNotLive, OpenWindowsAreActivated,
     ReservationsHaveOwners, OneSurfacePerLabel, ReapedOwnersAreGone
<1>16. ASSUME release_surface_resource_session
      PROVE  Account'
  <2>1. HandlersClaim' /\ OneHandlerEach'
    BY <1>16 DEF release_surface_resource_session, wDesktop, HandlersClaim, OneHandlerEach
  <2>2. IncarnationsAreSpent' /\ OpenWindowsAreActivated'
    BY <1>16 DEF release_surface_resource_session, wDesktop, IncarnationsAreSpent,
       ReapedOwnersAreGone, HandlersClaim, OpenWindowsAreActivated
  <2>3. PendingIsNotLive'
    BY <1>16 DEF release_surface_resource_session, wDesktop, PendingIsNotLive,
       IncarnationsAreSpent, HandlersClaim, OneHandlerEach
  <2>4. ReservationsHaveOwners'
    BY <1>16 DEF release_surface_resource_session, wDesktop, ReservationsHaveOwners,
       HandlersClaim, OneHandlerEach, PendingIsNotLive
  <2>5. OneSurfacePerLabel' /\ ReapedOwnersAreGone'
    BY <1>16 DEF release_surface_resource_session, wDesktop, OneSurfacePerLabel, HandlersClaim,
       ReapedOwnersAreGone
  <2> QED
    BY <2>1, <2>2, <2>3, <2>4, <2>5
<1>17. ASSUME update_sample
      PROVE  Account'
  BY <1>17 DEF update_sample, sDaemon, wDesktop, HandlersClaim, OneHandlerEach,
     IncarnationsAreSpent, PendingIsNotLive, OpenWindowsAreActivated,
     ReservationsHaveOwners, OneSurfacePerLabel, ReapedOwnersAreGone
<1>18. ASSUME daemon_restarts
      PROVE  Account'
  BY <1>18 DEF daemon_restarts, HandlersClaim, OneHandlerEach, IncarnationsAreSpent,
     PendingIsNotLive, OpenWindowsAreActivated,
     ReservationsHaveOwners, OneSurfacePerLabel, ReapedOwnersAreGone
<1>19. ASSUME UNCHANGED surfaceVars
      PROVE  Account'
  BY <1>19 DEF surfaceVars, sDaemon, wDesktop, HandlersClaim, OneHandlerEach,
     IncarnationsAreSpent, PendingIsNotLive, OpenWindowsAreActivated,
     ReservationsHaveOwners, OneSurfacePerLabel, ReapedOwnersAreGone
<1> QED
  BY <1>0, <1>1, <1>2, <1>3, <1>4, <1>5, <1>6, <1>7, <1>8, <1>9, <1>10, <1>11, <1>12, <1>13,
     <1>14, <1>15, <1>16, <1>17, <1>18, <1>19 DEF SurfaceNext

\* Before the first surface is opened, the accounts agree.
LEMMA AccountInit == SurfaceInit => AccountInv
<1> SUFFICES ASSUME SurfaceInit
             PROVE  AccountInv
  OBVIOUS
<1>1. SurfaceIds # {}
  <2>1. PICK o \in SurfaceOwners, l \in SurfaceLabels : TRUE
    BY SurfaceConstants
  <2>2. [owner |-> o, label |-> l, inc |-> 1] \in SurfaceIds
    BY SurfaceConstants DEF SurfaceIds
  <2> QED
    BY <2>2
<1>2. wOpening.id \in SurfaceIds /\ wOwner \in SurfaceOwners
  <2>1. (CHOOSE i \in SurfaceIds : TRUE) \in SurfaceIds
    BY <1>1
  <2>2. (CHOOSE o \in SurfaceOwners : TRUE) \in SurfaceOwners
    BY SurfaceConstants
  <2> QED
    BY <2>1, <2>2 DEF SurfaceInit
<1>3. SurfaceTypeOK
  <2>1. wOpening \in [id : SurfaceIds, step : {"none", "reserved", "created", "activating", "cancel"}]
    BY <1>2 DEF SurfaceInit
  <2>2. sLeases \in [SurfaceOwners -> [id : 0..MaxLeases, fresh : BOOLEAN]]
    BY SurfaceConstants DEF SurfaceInit
  <2>3. sBoot \in 1..MaxBoots /\ wProof \in [boot : 0..MaxBoots, lease : 0..MaxLeases]
        /\ wNext \in [SurfaceLabels -> 0..MaxIncarnations]
    BY SurfaceConstants DEF SurfaceInit
  <2> QED
    BY <1>2, <2>1, <2>2, <2>3 DEF SurfaceInit, SurfaceTypeOK
<1>4. /\ OpeningIsOwn /\ HandlersClaim /\ OneHandlerEach
      /\ IncarnationsAreSpent /\ PendingIsNotLive /\ OpenWindowsAreActivated
  BY DEF SurfaceInit, OpeningIsOwn, HandlersClaim, OneHandlerEach, IncarnationsAreSpent,
         PendingIsNotLive, OpenWindowsAreActivated
<1>5. SurfacesAreAccountedFor
  BY DEF SurfaceInit, SurfacesAreAccountedFor, ReservationsHaveOwners, OneSurfacePerLabel,
     ReapedOwnersAreGone
<1> QED
  BY <1>3, <1>4, <1>5 DEF AccountInv

\* The reservations of the governor, the activations and reattachments under
\* way, the live surfaces and the owner leases agree, whatever request,
\* publication, reap, release, dropped handler and restart overlap
\* (crates/control/src/resource_runtime.rs and surface_owner.rs).
THEOREM SurfacesStayAccountedFor == SurfaceSpec => []SurfacesAreAccountedFor
<1>1. SurfaceInit => AccountInv
  BY AccountInit
<1>2. AccountInv /\ [SurfaceNext]_surfaceVars => AccountInv'
  BY AccountKept
<1>3. AccountInv => SurfacesAreAccountedFor
  BY DEF AccountInv
<1> QED
  BY <1>1, <1>2, <1>3, PTL DEF SurfaceSpec

-----------------------------------------------------------------------------
(* Sessions: for every set of servers, numbers of ids and of boots.        *)

Lineages == {session_lineage(s) : s \in LocalServers}

\* A port has one listener.
OneListenerPerPort ==
  /\ sesWorld \in [up : SUBSET LocalServers, ids : Nat, boots : Nat]
  /\ IsFiniteSet(sesWorld.up)
  /\ \A s, t \in sesWorld.up : s.port = t.port => s = t

\* A batch has a port once, and what it was given are ids that exist.
BatchIsSound ==
  /\ sesScan \in [phase : {"idle", "assign"}, batch : Seq(LocalServers), given : Seq(Nat)]
  /\ Len(sesScan.given) <= Len(sesScan.batch)
  /\ \A i, j \in DOMAIN sesScan.batch : sesScan.batch[i].port = sesScan.batch[j].port => i = j
  /\ \A i \in DOMAIN sesScan.given : sesScan.given[i] \in 1..sesWorld.ids

LiveSessions ==
  sesLive \in [DOMAIN sesLive -> [server : LocalServers, gone : Away, lineage : Lineages]]

\* Fresh ids are new to the registry too.
RegisteredIdsExist ==
  /\ sesIds = [records |-> sesIds.records, healthy |-> sesIds.healthy]
  /\ \A l \in DOMAIN sesDisk : sesDisk[l] \in 1..sesWorld.ids

IdentityInv ==
  /\ OneListenerPerPort /\ BatchIsSound /\ LiveSessions /\ RegisteredIdsExist
  /\ SessionsTypeOK /\ SessionIdsAreSound

\* The id of a server is new to the batch.
LEMMA GivenStaysDistinct ==
  ASSUME IdentityInv, NEW id \in Nat, id \notin Given, Give(id),
         Len(sesScan.given) < Len(sesScan.batch)
  PROVE  /\ sesScan' \in [phase : {"idle", "assign"}, batch : Seq(LocalServers), given : Seq(Nat)]
         /\ sesScan'.batch = sesScan.batch /\ sesScan'.given = Append(sesScan.given, id)
         /\ Len(sesScan'.given) <= Len(sesScan'.batch)
         /\ \A i, j \in DOMAIN sesScan'.given : i # j => sesScan'.given[i] # sesScan'.given[j]
<1>1. sesScan \in [phase : {"idle", "assign"}, batch : Seq(LocalServers), given : Seq(Nat)]
  BY DEF IdentityInv, BatchIsSound
<1>2. sesScan' = [sesScan EXCEPT !.given = Append(@, id)]
  BY DEF Give
<1>3. sesScan'.batch = sesScan.batch /\ sesScan'.given = Append(sesScan.given, id)
  BY <1>1, <1>2
<1>4. sesScan' \in [phase : {"idle", "assign"}, batch : Seq(LocalServers), given : Seq(Nat)]
  <2>1. /\ sesScan.phase \in {"idle", "assign"} /\ sesScan.batch \in Seq(LocalServers)
        /\ sesScan.given \in Seq(Nat)
    BY <1>1
  <2>2. Append(sesScan.given, id) \in Seq(Nat)
    BY <2>1
  <2>3. sesScan' = [phase |-> sesScan.phase, batch |-> sesScan.batch, given |-> Append(sesScan.given, id)]
    BY <1>1, <1>2
  <2> QED
    BY <2>1, <2>2, <2>3
<1> DEFINE given == sesScan.given
<1>5. given \in Seq(Nat) /\ sesScan'.given = Append(given, id) /\ Len(given) < Len(sesScan.batch)
      /\ Len(sesScan.batch) \in Nat
  BY <1>1, <1>3
<1>6. \A i, j \in DOMAIN given : i # j => given[i] # given[j]
  BY DEF IdentityInv, SessionIdsAreSound, ServersAreNotAliased
<1>7. \A i \in DOMAIN given : given[i] # id
  BY DEF Given, ToSet
<1> HIDE DEF given
<1>8. \A i, j \in DOMAIN Append(given, id) : i # j => Append(given, id)[i] # Append(given, id)[j]
  <2>1. DOMAIN Append(given, id) = 1..(Len(given) + 1) /\ Len(given) \in Nat /\ DOMAIN given = 1..Len(given)
    BY <1>5
  <2>2. \A i \in 1..Len(given) : Append(given, id)[i] = given[i]
    BY <1>5
  <2>3. Append(given, id)[Len(given) + 1] = id
    BY <1>5
  <2> SUFFICES ASSUME NEW i \in 1..(Len(given) + 1), NEW j \in 1..(Len(given) + 1), i # j
               PROVE  Append(given, id)[i] # Append(given, id)[j]
    BY <2>1
  <2>4. i \in 1..Len(given) \/ i = Len(given) + 1
    BY <2>1
  <2>5. j \in 1..Len(given) \/ j = Len(given) + 1
    BY <2>1
  <2> QED
    BY <1>6, <1>7, <2>1, <2>2, <2>3, <2>4, <2>5
<1>9. Len(Append(given, id)) <= Len(sesScan'.batch)
  BY <1>3, <1>5
<1> QED
  BY <1>3, <1>4, <1>5, <1>8, <1>9

\* What an assignment has to keep, once the id it gives is known to exist.
LEMMA AssignmentKeeps ==
  ASSUME IdentityInv, NEW id \in Nat, id \notin Given, Give(id),
         Len(sesScan.given) < Len(sesScan.batch),
         sesWorld' = [sesWorld EXCEPT !.ids = sesWorld'.ids],
         sesWorld'.ids \in Nat, sesWorld.ids <= sesWorld'.ids, id \in 1..sesWorld'.ids,
         UNCHANGED sesLive,
         RegisteredIdsExist', DurableIdsAreOnDisk'
  PROVE  IdentityInv'
<1>1. /\ sesScan' \in [phase : {"idle", "assign"}, batch : Seq(LocalServers), given : Seq(Nat)]
      /\ sesScan'.batch = sesScan.batch /\ sesScan'.given = Append(sesScan.given, id)
      /\ Len(sesScan'.given) <= Len(sesScan'.batch)
      /\ \A i, j \in DOMAIN sesScan'.given : i # j => sesScan'.given[i] # sesScan'.given[j]
  BY GivenStaysDistinct
<1>2. OneListenerPerPort'
  BY DEF IdentityInv, OneListenerPerPort
<1>3. BatchIsSound'
  <2>1. sesScan.given \in Seq(Nat) /\ sesWorld.ids \in Nat
    BY DEF IdentityInv, BatchIsSound, OneListenerPerPort
  <2>2. \A i \in DOMAIN sesScan.given : sesScan.given[i] \in 1..sesWorld.ids
    BY DEF IdentityInv, BatchIsSound
  <2>3. \A i \in DOMAIN Append(sesScan.given, id) : Append(sesScan.given, id)[i] \in 1..sesWorld'.ids
    BY <2>1, <2>2
  <2> QED
    BY <1>1, <2>3 DEF IdentityInv, BatchIsSound
<1>4. LiveSessions' /\ SessionsTypeOK'
  <2>1. 1..sesWorld.ids \subseteq 1..sesWorld'.ids
    BY DEF IdentityInv, OneListenerPerPort
  <2> QED
    BY <2>1 DEF IdentityInv, LiveSessions, SessionsTypeOK
<1>5. ServersAreNotAliased'
  BY <1>1 DEF IdentityInv, SessionIdsAreSound, ServersAreNotAliased
<1> QED
  BY <1>2, <1>3, <1>4, <1>5 DEF IdentityInv, SessionIdsAreSound

\* A server gets an id nobody has in this scan, whichever way it is found, and
\* a mapping is on disk before it is in memory.
LEMMA ResolveKeeps ==
  ASSUME IdentityInv, resolve_assignment
  PROVE  IdentityInv'
<1> DEFINE server == sesScan.batch[Len(sesScan.given) + 1]
<1>1. Len(sesScan.given) < Len(sesScan.batch) /\ UNCHANGED sesLive
  BY DEF resolve_assignment
<1>2. /\ sesWorld \in [up : SUBSET LocalServers, ids : Nat, boots : Nat]
      /\ sesWorld.ids \in Nat
      /\ Given \subseteq 1..sesWorld.ids /\ DOMAIN sesLive \subseteq 1..sesWorld.ids
  BY DEF IdentityInv, OneListenerPerPort, BatchIsSound, SessionsTypeOK, Given, ToSet
<1>3. ASSUME NEW id \in 1..sesWorld.ids, id \notin Given, Give(id), UNCHANGED <<sesIds, sesDisk, sesWorld>>
      PROVE  IdentityInv'
  <2>1. RegisteredIdsExist' /\ DurableIdsAreOnDisk'
    BY <1>3 DEF IdentityInv, RegisteredIdsExist, SessionIdsAreSound, DurableIdsAreOnDisk
  <2>2. /\ id \in Nat /\ sesWorld' = [sesWorld EXCEPT !.ids = sesWorld'.ids]
        /\ sesWorld'.ids \in Nat /\ sesWorld.ids <= sesWorld'.ids /\ id \in 1..sesWorld'.ids
    BY <1>2, <1>3
  <2> QED
    BY <1>1, <1>3, <2>1, <2>2, AssignmentKeeps
<1>4. ASSUME Allocate, Give(Fresh), RegisteredIdsExist', DurableIdsAreOnDisk'
      PROVE  IdentityInv'
  <2>1. sesWorld' = [sesWorld EXCEPT !.ids = Fresh] /\ Fresh = sesWorld.ids + 1
    BY <1>4 DEF Allocate, Fresh
  <2>2. sesWorld'.ids = Fresh /\ Fresh \in Nat /\ sesWorld.ids <= Fresh /\ Fresh \in 1..Fresh
        /\ Fresh \notin 1..sesWorld.ids
    BY <1>2, <2>1
  <2>3. sesWorld' = [sesWorld EXCEPT !.ids = sesWorld'.ids]
    BY <2>1, <2>2
  <2>4. Fresh \notin Given
    BY <1>2, <2>2
  <2> QED
    BY <1>1, <1>4, <2>2, <2>3, <2>4, AssignmentKeeps
<1>5. ASSUME Allocate
      PROVE  1..sesWorld.ids \subseteq 1..sesWorld'.ids /\ Fresh \in 1..sesWorld'.ids /\ Fresh \notin 1..sesWorld.ids
  <2>1. sesWorld'.ids = sesWorld.ids + 1 /\ Fresh = sesWorld.ids + 1
    BY <1>2, <1>5 DEF Allocate, Fresh
  <2> QED
    BY <1>2, <2>1
<1>6. ASSUME NEW id \in current_matches(server), Give(id), UNCHANGED <<sesIds, sesDisk, sesWorld>>
      PROVE  IdentityInv'
  <2>1. id \in DOMAIN sesLive \ Given
    BY <1>6 DEF current_matches, find_exact_endpoint_match, find_lineage_match, find_legacy_project_match
  <2> QED
    BY <1>2, <1>3, <1>6, <2>1
<1>7. ASSUME volatile_identity
      PROVE  IdentityInv'
  <2>1. Allocate /\ Give(Fresh) /\ UNCHANGED <<sesIds, sesDisk>>
    BY <1>7 DEF volatile_identity
  <2>2. RegisteredIdsExist' /\ DurableIdsAreOnDisk'
    BY <1>5, <2>1 DEF IdentityInv, RegisteredIdsExist, SessionIdsAreSound, DurableIdsAreOnDisk
  <2> QED
    BY <1>4, <2>1, <2>2
<1>8. ASSUME NEW lineage, commit_registry(lineage), lineage \notin DOMAIN sesIds.records
      PROVE  IdentityInv'
  <2>1. Allocate /\ Give(Fresh)
    BY <1>8 DEF commit_registry
  <2>2. /\ \A l \in DOMAIN sesDisk : sesDisk[l] \in 1..sesWorld.ids
        /\ sesIds = [records |-> sesIds.records, healthy |-> sesIds.healthy]
        /\ \A l \in DOMAIN sesIds.records : l \in DOMAIN sesDisk /\ sesDisk[l] = sesIds.records[l]
        /\ \A k, l \in DOMAIN sesDisk : k # l => sesDisk[k] # sesDisk[l]
    BY DEF IdentityInv, RegisteredIdsExist, SessionIdsAreSound, DurableIdsAreOnDisk
  <2>3. CASE sesIds' = [sesIds EXCEPT !.healthy = FALSE] /\ UNCHANGED sesDisk
    <3>1. sesIds'.records = sesIds.records /\ sesIds' = [records |-> sesIds'.records, healthy |-> sesIds'.healthy]
      BY <2>2, <2>3
    <3>2. RegisteredIdsExist' /\ DurableIdsAreOnDisk'
      BY <1>5, <2>1, <2>2, <2>3, <3>1 DEF RegisteredIdsExist, DurableIdsAreOnDisk
    <3> QED
      BY <1>4, <2>1, <3>2
  <2>4. CASE /\ sesDisk' = Map(sesDisk, lineage, Fresh)
             /\ sesIds' = [sesIds EXCEPT !.records = Map(@, lineage, Fresh)]
    <3>1. /\ DOMAIN sesDisk' = DOMAIN sesDisk \cup {lineage} /\ sesDisk'[lineage] = Fresh
          /\ \A l \in DOMAIN sesDisk \ {lineage} : sesDisk'[l] = sesDisk[l]
      BY <2>4 DEF Map
    <3>2. /\ sesIds' = [records |-> Map(sesIds.records, lineage, Fresh), healthy |-> sesIds.healthy]
          /\ sesIds'.records = Map(sesIds.records, lineage, Fresh)
      BY <2>2, <2>4
    <3>3. /\ DOMAIN sesIds'.records = DOMAIN sesIds.records \cup {lineage} /\ sesIds'.records[lineage] = Fresh
          /\ \A l \in DOMAIN sesIds.records : sesIds'.records[l] = sesIds.records[l]
      BY <1>8, <3>2 DEF Map
    <3>4. RegisteredIdsExist'
      BY <1>5, <2>1, <2>2, <3>1, <3>2 DEF RegisteredIdsExist
    <3>5. DurableIdsAreOnDisk'
      <4>1. \A l \in DOMAIN sesIds'.records : l \in DOMAIN sesDisk' /\ sesDisk'[l] = sesIds'.records[l]
        BY <1>8, <2>2, <3>1, <3>3
      <4>2. \A k, l \in DOMAIN sesDisk' : k # l => sesDisk'[k] # sesDisk'[l]
        BY <1>5, <2>1, <2>2, <3>1
      <4> QED
        BY <4>1, <4>2 DEF DurableIdsAreOnDisk
    <3> QED
      BY <1>4, <2>1, <3>4, <3>5
  <2> QED
    BY <1>8, <2>3, <2>4 DEF commit_registry
<1>9. ASSUME resolve_new(server)
      PROVE  IdentityInv'
  <2> DEFINE lineage == session_lineage(server)
  <2>1. CASE lineage \in DOMAIN sesIds.records /\ id_available_for_lineage(sesIds.records[lineage], lineage)
             /\ Give(sesIds.records[lineage]) /\ UNCHANGED <<sesIds, sesDisk, sesWorld>>
    <3>1. sesIds.records[lineage] \in 1..sesWorld.ids
      BY <2>1 DEF IdentityInv, RegisteredIdsExist, SessionIdsAreSound, DurableIdsAreOnDisk
    <3>2. sesIds.records[lineage] \notin Given
      BY <2>1 DEF id_available_for_lineage
    <3> QED
      BY <1>3, <2>1, <3>1, <3>2
  <2>2. CASE volatile_identity
    BY <1>7, <2>2
  <2>3. CASE lineage \notin DOMAIN sesIds.records /\ commit_registry(lineage)
    BY <1>8, <2>3
  <2> HIDE DEF lineage
  <2> QED
    BY <1>9, <2>1, <2>2, <2>3 DEF resolve_new, lineage
<1> HIDE DEF server
<1>10. \/ \E id \in current_matches(server) : Give(id) /\ UNCHANGED <<sesIds, sesDisk, sesWorld>>
       \/ resolve_new(server)
  BY DEF resolve_assignment, server
<1> QED
  BY <1>6, <1>9, <1>10

\* A batch of listening servers has each port once.
LEMMA ScanKeeps ==
  ASSUME IdentityInv, scan
  PROVE  IdentityInv'
<1>1. PICK found \in SUBSET sesWorld.up :
        \E batch \in SetToSeqs(found) : sesScan' = [phase |-> "assign", batch |-> batch, given |-> <<>>]
  BY DEF scan
<1>2. PICK batch \in SetToSeqs(found) : sesScan' = [phase |-> "assign", batch |-> batch, given |-> <<>>]
  BY <1>1
<1>3. Cardinality(found) \in Nat
  BY FS_Subset, FS_CardinalityType DEF IdentityInv, OneListenerPerPort
<1>4. /\ batch \in [1..Cardinality(found) -> found]
      /\ \A i, j \in 1..Cardinality(found) : i # j => batch[i] # batch[j]
  BY DEF SetToSeqs
<1>5. found \subseteq LocalServers /\ \A s, t \in found : s.port = t.port => s = t
  BY DEF IdentityInv, OneListenerPerPort
<1>6. batch \in Seq(LocalServers) /\ DOMAIN batch = 1..Cardinality(found) /\ Len(batch) \in Nat
  BY <1>3, <1>4, <1>5
<1>7. BatchIsSound'
  <2>1. sesScan' \in [phase : {"idle", "assign"}, batch : Seq(LocalServers), given : Seq(Nat)]
    BY <1>2, <1>6
  <2>2. sesScan'.batch = batch /\ sesScan'.given = <<>>
    BY <1>2
  <2>3. Len(sesScan'.given) <= Len(sesScan'.batch)
    BY <1>6, <2>2
  <2>4. \A i, j \in DOMAIN batch : batch[i].port = batch[j].port => i = j
    BY <1>4, <1>5, <1>6
  <2>5. DOMAIN sesScan'.given = {}
    BY <2>2
  <2> QED
    BY <2>1, <2>2, <2>3, <2>4, <2>5 DEF BatchIsSound
<1>8. UNCHANGED <<sesLive, sesIds, sesDisk, sesWorld>>
  BY DEF scan
<1>9. ServersAreNotAliased'
  <2>1. DOMAIN sesScan'.given = {}
    BY <1>2
  <2> QED
    BY <1>8, <2>1 DEF IdentityInv, SessionIdsAreSound, ServersAreNotAliased
<1> QED
  BY <1>7, <1>8, <1>9 DEF IdentityInv, OneListenerPerPort, LiveSessions, RegisteredIdsExist, SessionsTypeOK,
                         SessionIdsAreSound, DurableIdsAreOnDisk

\* The sessions of a batch have its servers, each a port of its own, and every
\* other session is away.
LEMMA ApplyKeeps ==
  ASSUME IdentityInv, apply_reconciliation
  PROVE  IdentityInv'
<1> DEFINE missing == DOMAIN sesLive \ Given
           removed == {id \in missing : sesLive[id].gone = "expired"}
           at(id) == CHOOSE i \in DOMAIN sesScan.given : sesScan.given[i] = id
           old(id) == [sesLive[id] EXCEPT !.gone = IF @ = "here" THEN "away" ELSE @]
           new(id) == seen(id, sesScan.batch[at(id)])
           kept == (DOMAIN sesLive \ removed) \cup Given
<1>1. sesLive' = [id \in kept |-> IF id \in missing THEN old(id) ELSE new(id)]
      /\ sesScan' = NoScan /\ UNCHANGED <<sesIds, sesDisk, sesWorld>>
      /\ Len(sesScan.given) = Len(sesScan.batch)
  BY DEF apply_reconciliation
<1>2. /\ sesScan.batch \in Seq(LocalServers) /\ sesScan.given \in Seq(Nat)
      /\ DOMAIN sesScan.given = DOMAIN sesScan.batch
      /\ \A i \in DOMAIN sesScan.batch : sesScan.batch[i] \in LocalServers
  BY <1>1 DEF IdentityInv, BatchIsSound
<1>3. ASSUME NEW id \in Given
      PROVE  at(id) \in DOMAIN sesScan.batch /\ sesScan.given[at(id)] = id
  BY <1>2 DEF Given, ToSet
<1>4. ASSUME NEW id \in missing
      PROVE  /\ old(id) \in [server : LocalServers, gone : {"away", "expired"}, lineage : Lineages]
             /\ old(id).lineage = session_lineage(old(id).server)
  <2>1. /\ sesLive[id] \in [server : LocalServers, gone : Away, lineage : Lineages]
        /\ sesLive[id].lineage = session_lineage(sesLive[id].server)
    BY DEF IdentityInv, LiveSessions, SessionsTypeOK
  <2> QED
    BY <2>1 DEF Away
<1>5. ASSUME NEW id \in Given
      PROVE  /\ new(id) = [server |-> sesScan.batch[at(id)], gone |-> "here",
                           lineage |-> session_lineage(sesScan.batch[at(id)])]
             /\ new(id) \in [server : LocalServers, gone : Away, lineage : Lineages]
             /\ new(id).lineage = session_lineage(new(id).server)
             /\ new(id).server = sesScan.batch[at(id)]
  <2>1. sesScan.batch[at(id)] \in LocalServers
    BY <1>2, <1>3
  <2> HIDE DEF at
  <2> QED
    BY <2>1 DEF seen, Lineages, Away
<1> HIDE DEF missing, removed, at, old, new
<1>6. /\ DOMAIN sesLive' = kept
      /\ \A id \in kept \ missing : id \in Given /\ sesLive'[id] = new(id)
      /\ \A id \in kept \cap missing : sesLive'[id] = old(id)
  BY <1>1 DEF missing
<1>7. LiveSessions' /\ SessionsTypeOK'
  <2>1. kept \subseteq 1..sesWorld.ids
    <3>1. Given \subseteq 1..sesWorld.ids
      BY DEF IdentityInv, BatchIsSound, Given, ToSet
    <3> QED
      BY <3>1 DEF IdentityInv, SessionsTypeOK
  <2>2. \A id \in kept : /\ sesLive'[id] \in [server : LocalServers, gone : Away, lineage : Lineages]
                         /\ sesLive'[id].lineage = session_lineage(sesLive'[id].server)
    BY <1>4, <1>5, <1>6 DEF Away
  <2>3. sesLive' = [id \in DOMAIN sesLive' |-> sesLive'[id]]
    BY <1>1
  <2> HIDE DEF kept
  <2>4. LiveSessions'
    BY <1>6, <2>2, <2>3 DEF LiveSessions
  <2>5. SessionsTypeOK'
    BY <1>1, <1>6, <2>1, <2>2 DEF SessionsTypeOK
  <2> QED
    BY <2>4, <2>5
<1>8. ServersAreNotAliased'
  <2>1. DOMAIN sesScan'.given = {}
    BY <1>1 DEF NoScan
  <2>2. ASSUME NEW a \in DOMAIN sesLive', NEW b \in DOMAIN sesLive', a # b,
               sesLive'[a].gone = "here", sesLive'[b].gone = "here"
        PROVE  sesLive'[a].server.port # sesLive'[b].server.port
    <3>1. a \in Given /\ sesLive'[a] = new(a) /\ b \in Given /\ sesLive'[b] = new(b)
      BY <1>4, <1>6, <2>2
    <3>2. at(a) # at(b) /\ at(a) \in DOMAIN sesScan.batch /\ at(b) \in DOMAIN sesScan.batch
      BY <1>3, <2>2, <3>1
    <3>3. sesScan.batch[at(a)].port # sesScan.batch[at(b)].port
      BY <3>2 DEF IdentityInv, BatchIsSound
    <3> QED
      BY <1>5, <3>1, <3>3
  <2> QED
    BY <2>1, <2>2 DEF ServersAreNotAliased
<1>9. BatchIsSound'
  <2>1. NoScan \in [phase : {"idle", "assign"}, batch : Seq(LocalServers), given : Seq(Nat)]
        /\ NoScan.batch = <<>> /\ NoScan.given = <<>>
    BY DEF NoScan
  <2> QED
    BY <1>1, <2>1 DEF BatchIsSound
<1> QED
  BY <1>1, <1>7, <1>8, <1>9 DEF IdentityInv, OneListenerPerPort, RegisteredIdsExist,
                                SessionIdsAreSound, DurableIdsAreOnDisk

\* Every step of discovery, of the registry and of a boot keeps the identities.
LEMMA IdentityKept ==
  ASSUME IdentityInv, [SessionsNext]_sesVars
  PROVE  IdentityInv'
<1>1. ASSUME server_starts
      PROVE  IdentityInv'
  <2>1. PICK s \in LocalServers :
          /\ \A t \in sesWorld.up : t.port # s.port
          /\ sesWorld' = [sesWorld EXCEPT !.up = @ \cup {s}]
          /\ UNCHANGED <<sesLive, sesScan, sesIds, sesDisk>>
    BY <1>1 DEF server_starts
  <2>2. sesWorld \in [up : SUBSET LocalServers, ids : Nat, boots : Nat] /\ IsFiniteSet(sesWorld.up)
    BY DEF IdentityInv, OneListenerPerPort
  <2>3. /\ sesWorld' \in [up : SUBSET LocalServers, ids : Nat, boots : Nat]
        /\ sesWorld'.up = sesWorld.up \cup {s} /\ sesWorld'.ids = sesWorld.ids
    BY <2>1, <2>2
  <2>4. IsFiniteSet(sesWorld'.up)
    BY <2>2, <2>3, FS_AddElement
  <2>5. OneListenerPerPort'
    BY <2>1, <2>3, <2>4 DEF IdentityInv, OneListenerPerPort
  <2> QED
    BY <2>1, <2>3, <2>5 DEF IdentityInv, BatchIsSound, LiveSessions, RegisteredIdsExist, SessionsTypeOK,
         SessionIdsAreSound, ServersAreNotAliased, DurableIdsAreOnDisk
<1>2. ASSUME server_stops
      PROVE  IdentityInv'
  <2>1. PICK s \in sesWorld.up : /\ sesWorld' = [sesWorld EXCEPT !.up = @ \ {s}]
                                 /\ UNCHANGED <<sesLive, sesScan, sesIds, sesDisk>>
    BY <1>2 DEF server_stops
  <2>2. sesWorld \in [up : SUBSET LocalServers, ids : Nat, boots : Nat] /\ IsFiniteSet(sesWorld.up)
    BY DEF IdentityInv, OneListenerPerPort
  <2>3. /\ sesWorld' \in [up : SUBSET LocalServers, ids : Nat, boots : Nat]
        /\ sesWorld'.up = sesWorld.up \ {s} /\ sesWorld'.ids = sesWorld.ids
    BY <2>1, <2>2
  <2>4. IsFiniteSet(sesWorld'.up)
    BY <2>2, <2>3, FS_RemoveElement
  <2>5. OneListenerPerPort'
    BY <2>3, <2>4 DEF IdentityInv, OneListenerPerPort
  <2> QED
    BY <2>1, <2>3, <2>5 DEF IdentityInv, BatchIsSound, LiveSessions, RegisteredIdsExist, SessionsTypeOK,
         SessionIdsAreSound, ServersAreNotAliased, DurableIdsAreOnDisk
<1>3. ASSUME grace_passes
      PROVE  IdentityInv'
  <2> DEFINE expired(id) == [sesLive[id] EXCEPT !.gone = "expired"]
  <2>1. /\ sesLive' = [id \in DOMAIN sesLive |-> IF sesLive[id].gone = "away" THEN expired(id) ELSE sesLive[id]]
        /\ UNCHANGED <<sesScan, sesIds, sesDisk, sesWorld>>
    BY <1>3 DEF grace_passes
  <2>2. \A id \in DOMAIN sesLive : sesLive[id] \in [server : LocalServers, gone : Away, lineage : Lineages]
    BY DEF IdentityInv, LiveSessions
  <2>3. \A id \in DOMAIN sesLive :
          /\ expired(id) \in [server : LocalServers, gone : Away, lineage : Lineages]
          /\ expired(id).server = sesLive[id].server /\ expired(id).lineage = sesLive[id].lineage
          /\ expired(id).gone # "here"
    BY <2>2 DEF Away
  <2> HIDE DEF expired
  <2>4. /\ DOMAIN sesLive' = DOMAIN sesLive
        /\ \A id \in DOMAIN sesLive :
             /\ sesLive'[id] \in [server : LocalServers, gone : Away, lineage : Lineages]
             /\ sesLive'[id].server = sesLive[id].server /\ sesLive'[id].lineage = sesLive[id].lineage
             /\ sesLive'[id].gone = "here" => sesLive[id].gone = "here"
    BY <2>1, <2>2, <2>3
  <2>5. LiveSessions'
    BY <2>1, <2>4 DEF LiveSessions
  <2>6. SessionsTypeOK'
    BY <2>1, <2>4, <2>5 DEF IdentityInv, SessionsTypeOK, LiveSessions
  <2>7. ServersAreNotAliased'
    BY <2>1, <2>4 DEF IdentityInv, SessionIdsAreSound, ServersAreNotAliased
  <2> QED
    BY <2>1, <2>5, <2>6, <2>7 DEF IdentityInv, OneListenerPerPort, BatchIsSound, RegisteredIdsExist,
         SessionIdsAreSound, DurableIdsAreOnDisk
<1>4. ASSUME registry_reopened
      PROVE  IdentityInv'
  <2>1. PICK readable \in BOOLEAN : sesIds' = load_registry(readable)
    BY <1>4 DEF registry_reopened
  <2>2. /\ sesLive' = <<>> /\ sesScan' = NoScan /\ UNCHANGED sesDisk
        /\ sesWorld' = [sesWorld EXCEPT !.boots = @ + 1]
    BY <1>4 DEF registry_reopened
  <2>3. sesWorld \in [up : SUBSET LocalServers, ids : Nat, boots : Nat]
    BY DEF IdentityInv, OneListenerPerPort
  <2>4. /\ sesWorld' \in [up : SUBSET LocalServers, ids : Nat, boots : Nat]
        /\ sesWorld'.up = sesWorld.up /\ sesWorld'.ids = sesWorld.ids
    BY <2>2, <2>3
  <2>5. OneListenerPerPort'
    BY <2>4 DEF IdentityInv, OneListenerPerPort
  <2>6. BatchIsSound' /\ DOMAIN sesScan'.given = {}
    <3>1. NoScan \in [phase : {"idle", "assign"}, batch : Seq(LocalServers), given : Seq(Nat)]
          /\ NoScan.batch = <<>> /\ NoScan.given = <<>>
      BY DEF NoScan
    <3> QED
      BY <2>2, <3>1 DEF BatchIsSound
  <2>7. DOMAIN sesLive' = {}
    BY <2>2
  <2>8. LiveSessions' /\ SessionsTypeOK' /\ ServersAreNotAliased'
    BY <2>2, <2>6, <2>7 DEF LiveSessions, SessionsTypeOK, ServersAreNotAliased
  <2>9. RegisteredIdsExist' /\ DurableIdsAreOnDisk'
    <3>1. sesIds' = [records |-> sesIds'.records, healthy |-> sesIds'.healthy]
          /\ (sesIds'.records = sesDisk \/ sesIds'.records = <<>>)
      BY <2>1 DEF load_registry
    <3>2. sesIds'.records = sesDisk \/ DOMAIN sesIds'.records = {}
      BY <3>1
    <3> QED
      BY <2>2, <2>4, <3>1, <3>2 DEF IdentityInv, RegisteredIdsExist, SessionIdsAreSound, DurableIdsAreOnDisk
  <2> QED
    BY <2>5, <2>6, <2>8, <2>9 DEF IdentityInv, SessionIdsAreSound
<1>5. ASSUME UNCHANGED sesVars
      PROVE  IdentityInv'
  BY <1>5 DEF sesVars, IdentityInv, OneListenerPerPort, BatchIsSound, LiveSessions, RegisteredIdsExist,
       SessionsTypeOK, SessionIdsAreSound, ServersAreNotAliased, DurableIdsAreOnDisk
<1> QED
  BY <1>1, <1>2, <1>3, <1>4, <1>5, ScanKeeps, ResolveKeeps, ApplyKeeps DEF SessionsNext

\* A session id names one server, in this process and in the next: no two
\* servers of a scan are given one session, two sessions that are there do not
\* share a port, and what the resolver remembers is on disk under one lineage
\* (resolve_assignments, apply_reconciliation and resolve_new).
THEOREM SessionIdsStaySound == SessionsSpec => []SessionIdsAreSound
<1>1. SessionsInit => IdentityInv
  <2> SUFFICES ASSUME SessionsInit
               PROVE  IdentityInv
    OBVIOUS
  <2> USE DEF SessionsInit
  <2>1. OneListenerPerPort
    BY FS_EmptySet DEF OneListenerPerPort
  <2>2. BatchIsSound /\ DOMAIN sesScan.given = {}
    <3>1. NoScan \in [phase : {"idle", "assign"}, batch : Seq(LocalServers), given : Seq(Nat)]
          /\ NoScan.batch = <<>> /\ NoScan.given = <<>>
      BY DEF NoScan
    <3> QED
      BY <3>1 DEF BatchIsSound
  <2>3. DOMAIN sesLive = {} /\ DOMAIN sesDisk = {} /\ DOMAIN sesIds.records = {}
        /\ sesIds = [records |-> sesIds.records, healthy |-> sesIds.healthy]
    BY DEF EmptyRegistry
  <2>4. LiveSessions
    BY <2>3 DEF LiveSessions
  <2> QED
    BY <2>1, <2>2, <2>3, <2>4 DEF IdentityInv, RegisteredIdsExist, SessionsTypeOK,
         SessionIdsAreSound, ServersAreNotAliased, DurableIdsAreOnDisk
<1>2. IdentityInv /\ [SessionsNext]_sesVars => IdentityInv'
  BY IdentityKept
<1>3. IdentityInv => SessionIdsAreSound
  BY DEF IdentityInv
<1> QED
  BY <1>1, <1>2, <1>3, PTL DEF SessionsSpec

-----------------------------------------------------------------------------
(* Network faults: for every set of tokens and numbers of pages and of     *)
(* controls.                                                               *)

FaultControls(n) == [id : 1..n, command : {"install", "clear"}, token : FaultTokens]
FaultReports(n) == [id : 1..n, ok : BOOLEAN, active : BOOLEAN, page : 1..MaxFaultPages]
FaultTasks(n) == [control : FaultControls(n), result : FaultReports(n) \cup {FaultUnexecuted}]

Queued == ToSet(fQueue)
Taken == {fPending[i].control : i \in DOMAIN fPending}

\* The controls that may still be executed, and what was said of the others.
Unexecuted(i) == fPending[i].result = FaultUnexecuted
Waiting == Queued \cup {fPending[i].control : i \in {j \in DOMAIN fPending : Unexecuted(j)}}
Outcomes == ToSet(fResults) \cup {fPending[i].result : i \in {j \in DOMAIN fPending : ~Unexecuted(j)}}

Installs(c) == c.command = "install"
ClearOf(t, c) == c.command = "clear" /\ c.token = t

\* What the daemon and the page hold, as FaultTypeOK has it.
CountsShape ==
  /\ fIds \in Nat /\ fNumber \in 1..MaxFaultPages /\ fGone \subseteq 1..MaxFaultPages
  /\ fMinted \cup fCleared \cup fDropped \subseteq FaultTokens

QueueShape == fQueue \in Seq(FaultControls(fIds)) /\ fInflight \subseteq FaultControls(fIds)

TaskShape == fPending \in Seq(FaultTasks(fIds)) /\ fResults \in Seq(FaultReports(fIds))

HeldShape ==
  LET Tokens == FaultTokens \cup {"none"}
  IN  /\ fLease \in [token : Tokens, page : 0..MaxFaultPages] /\ fPage \in Tokens
      /\ fGate \in [step : {"idle", "install", "clear"}, id : 0..fIds, token : Tokens, previous : Tokens]

\* Controls keep the order they were queued in until they are executed, one by
\* one.
ControlsInOrder ==
  /\ \A i, j \in DOMAIN fQueue : i < j => fQueue[i].id < fQueue[j].id
  /\ \A i, j \in DOMAIN fPending : i < j => fPending[i].control.id < fPending[j].control.id
  /\ \A c \in Taken, d \in Queued : c.id < d.id
  /\ \A i \in DOMAIN fPending : ~Unexecuted(i) => i = 1 /\ fPending[i].result.id = fPending[i].control.id

\* What has an answer is not waiting, nor is anything older.
AnswersComeFirst == \A k \in Outcomes, c \in Waiting : k.id < c.id

\* A plan is taken back after it was queued.
InstallsComeFirst ==
  \A c \in Waiting, d \in Queued \cup Taken : Installs(c) /\ ClearOf(c.token, d) => c.id < d.id

TokensAreMinted ==
  /\ \A c \in Queued \cup Taken : c.token \in fMinted
  /\ fLease = NoFaultLease \/ fLease.token \in fMinted
  /\ fCleared \subseteq fMinted
  /\ fGate # FaultIdle => fGate.token \in fMinted /\ fGate.previous \in fMinted \cup {"none"}

\* A plan that may still come into force is being installed, was abandoned or
\* will be taken back; it is not leased, not being cleared and was not cleared.
WaitingIsAccountedFor ==
  \A c \in Waiting :
    Installs(c) =>
      /\ c.token # fLease.token /\ c.token \notin fCleared
      /\ fGate.step = "clear" => c.token # fGate.token
      /\ \/ fGate.step = "install" /\ fGate.token = c.token
         \/ c.token \in fDropped
         \/ \E d \in Queued \cup fInflight : ClearOf(c.token, d)

\* Nothing is queued behind the control a handler waits for.
GateIsLast ==
  fGate # FaultIdle =>
    /\ fGate.step \in {"install", "clear"} /\ fGate.id = fIds
    /\ \A c \in Queued \cup Taken : c.id = fGate.id => c.command = fGate.step /\ c.token = fGate.token

\* So its answer still says what the page does, unless the plan expired or the
\* page went.
AnswerIsCurrent ==
  \A k \in Outcomes :
    fGate # FaultIdle /\ k.id = fGate.id /\ k.ok =>
      /\ fGate.step = "install" => k.active /\ (fPage # "none" => fPage = fGate.token /\ k.page = fNumber)
      /\ fGate.step = "clear" => ~k.active /\ fPage = "none"

\* The plan in force is leased on the page that runs it.
LeaseIsOfThisPage ==
  /\ fPage # "none" /\ fPage = fLease.token => fLease.page = fNumber
  /\ fGate.step = "clear" /\ fPage = fGate.token => fLease.token = fGate.token
  /\ \A n \in fGone : n < fNumber

\* The clear that was executed last took its plan back.
ClearedByTheHead ==
  \A i \in DOMAIN fPending : ~Unexecuted(i) => ~ClearOf(fPage, fPending[i].control)

FaultInv ==
  /\ CountsShape /\ QueueShape /\ TaskShape /\ HeldShape
  /\ ControlsInOrder /\ AnswersComeFirst /\ InstallsComeFirst /\ TokensAreMinted
  /\ WaitingIsAccountedFor /\ GateIsLast /\ AnswerIsCurrent /\ LeaseIsOfThisPage /\ ClearedByTheHead
  /\ FaultsAreAccountedFor

\* The sets of controls and answers hold what they should.
LEMMA KnownControls ==
  ASSUME FaultInv
  PROVE  /\ Queued \subseteq FaultControls(fIds) /\ Taken \subseteq FaultControls(fIds)
         /\ Waiting \subseteq Queued \cup Taken /\ Queued \subseteq Waiting
         /\ Outcomes \subseteq FaultReports(fIds)
         /\ \A k \in ToSet(fResults) : k \in Outcomes
<1> USE DEF FaultInv
<1>1. Queued \subseteq FaultControls(fIds)
  BY DEF QueueShape, Queued, ToSet
<1>2. \A i \in DOMAIN fPending : fPending[i] \in FaultTasks(fIds)
  BY DEF TaskShape
<1>3. Taken \subseteq FaultControls(fIds)
  BY <1>2 DEF Taken, FaultTasks
<1>4. Waiting \subseteq Queued \cup Taken /\ Queued \subseteq Waiting
  BY DEF Waiting, Taken
<1>5. Outcomes \subseteq FaultReports(fIds)
  <2>1. ToSet(fResults) \subseteq FaultReports(fIds)
    BY DEF TaskShape, ToSet
  <2>2. \A i \in DOMAIN fPending : ~Unexecuted(i) => fPending[i].result \in FaultReports(fIds)
    BY <1>2 DEF FaultTasks, Unexecuted
  <2> QED
    BY <2>1, <2>2 DEF Outcomes
<1> QED
  BY <1>1, <1>3, <1>4, <1>5 DEF Outcomes

\* The places of a control depend on the three queues only.
LEMMA SameControls ==
  ASSUME UNCHANGED <<fQueue, fPending, fResults>>
  PROVE  Queued' = Queued /\ Taken' = Taken /\ Waiting' = Waiting /\ Outcomes' = Outcomes
         /\ \A i : Unexecuted(i)' = Unexecuted(i)
BY DEF Queued, Taken, Waiting, Outcomes, Unexecuted

\* What is made of few ids can be made of more.
LEMMA MoreIds ==
  ASSUME NEW m \in Nat, NEW n \in Nat, m <= n
  PROVE  /\ FaultControls(m) \subseteq FaultControls(n)
         /\ FaultReports(m) \subseteq FaultReports(n)
         /\ FaultTasks(m) \subseteq FaultTasks(n)
<1>1. 1..m \subseteq 1..n
  OBVIOUS
<1>2. FaultControls(m) \subseteq FaultControls(n) /\ FaultReports(m) \subseteq FaultReports(n)
  BY <1>1 DEF FaultControls, FaultReports
<1> QED
  BY <1>2 DEF FaultTasks

\* New controls go behind the others.
LEMMA EnqueueKeepsOrder ==
  ASSUME FaultInv,
         fIds' \in Nat, fIds <= fIds',
         NEW es \in Seq(FaultControls(fIds')),
         \A i \in DOMAIN es : es[i].id > fIds,
         \A i, j \in DOMAIN es : i < j => es[i].id < es[j].id,
         fQueue' = fQueue \o es,
         UNCHANGED <<fInflight, fPending, fResults>>
  PROVE  /\ QueueShape' /\ TaskShape' /\ ControlsInOrder' /\ AnswersComeFirst'
         /\ Queued' = Queued \cup ToSet(es) /\ Waiting' = Waiting \cup ToSet(es)
         /\ Taken' = Taken /\ Outcomes' = Outcomes
<1>0. fIds \in Nat
  BY DEF FaultInv, CountsShape
<1>1. /\ FaultControls(fIds) \subseteq FaultControls(fIds')
      /\ FaultReports(fIds) \subseteq FaultReports(fIds')
      /\ FaultTasks(fIds) \subseteq FaultTasks(fIds')
  BY <1>0, MoreIds
<1>2. fQueue \in Seq(FaultControls(fIds')) /\ fInflight \subseteq FaultControls(fIds')
  BY <1>1 DEF FaultInv, QueueShape
<1>3. QueueShape'
  BY <1>2 DEF QueueShape
<1>4. TaskShape'
  BY <1>1 DEF FaultInv, TaskShape
<1>5. /\ DOMAIN fQueue' = 1..(Len(fQueue) + Len(es)) /\ Len(fQueue) \in Nat /\ Len(es) \in Nat
      /\ DOMAIN fQueue = 1..Len(fQueue) /\ DOMAIN es = 1..Len(es)
      /\ \A i \in 1..(Len(fQueue) + Len(es)) :
           fQueue'[i] = IF i <= Len(fQueue) THEN fQueue[i] ELSE es[i - Len(fQueue)]
  BY <1>2
<1>6. Queued' = Queued \cup ToSet(es)
  <2>1. \A c : (\E i \in DOMAIN fQueue' : fQueue'[i] = c) =>
               (\E i \in DOMAIN fQueue : fQueue[i] = c) \/ (\E i \in DOMAIN es : es[i] = c)
    BY <1>5
  <2>2. \A i \in DOMAIN fQueue : i \in DOMAIN fQueue' /\ fQueue'[i] = fQueue[i]
    BY <1>5
  <2>3. \A i \in DOMAIN es : Len(fQueue) + i \in DOMAIN fQueue' /\ fQueue'[Len(fQueue) + i] = es[i]
    BY <1>5
  <2>4. \A c : (\E i \in DOMAIN fQueue' : fQueue'[i] = c) <=>
               (\E i \in DOMAIN fQueue : fQueue[i] = c) \/ (\E i \in DOMAIN es : es[i] = c)
    BY <2>1, <2>2, <2>3, Zenon
  <2>5. \A c : /\ c \in Queued' <=> \E i \in DOMAIN fQueue' : fQueue'[i] = c
               /\ c \in Queued <=> \E i \in DOMAIN fQueue : fQueue[i] = c
               /\ c \in ToSet(es) <=> \E i \in DOMAIN es : es[i] = c
    BY DEF Queued, ToSet
  <2>6. \A c : c \in Queued' <=> c \in Queued \cup ToSet(es)
    BY <2>4, <2>5
  <2> QED
    BY <2>6
<1>7. Taken' = Taken /\ Outcomes' = Outcomes /\ Waiting' = Waiting \cup ToSet(es)
      /\ \A i : Unexecuted(i)' = Unexecuted(i)
  BY <1>6 DEF Taken, Outcomes, Waiting, Unexecuted
<1>8. \A e \in ToSet(es) : e.id > fIds /\ e \in FaultControls(fIds')
  BY <1>5 DEF ToSet
<1>9. AnswersComeFirst'
  <2>1. \A k \in Outcomes : k.id \in 1..fIds
    BY KnownControls DEF FaultReports
  <2>2. \A e \in ToSet(es) : e.id \in 1..fIds' /\ e.id > fIds
    BY <1>8 DEF FaultControls
  <2> QED
    BY <1>0, <1>7, <2>1, <2>2 DEF FaultInv, AnswersComeFirst
<1>10. ControlsInOrder'
  <2>1. \A i, j \in DOMAIN fQueue' : i < j => fQueue'[i].id < fQueue'[j].id
    <3> SUFFICES ASSUME NEW i \in DOMAIN fQueue', NEW j \in DOMAIN fQueue', i < j
                 PROVE  fQueue'[i].id < fQueue'[j].id
      OBVIOUS
    <3>1. CASE j <= Len(fQueue)
      BY <1>5, <3>1 DEF FaultInv, ControlsInOrder
    <3>2. CASE i > Len(fQueue)
      <4>1. /\ i - Len(fQueue) \in DOMAIN es /\ j - Len(fQueue) \in DOMAIN es
            /\ i - Len(fQueue) < j - Len(fQueue)
            /\ fQueue'[i] = es[i - Len(fQueue)] /\ fQueue'[j] = es[j - Len(fQueue)]
        BY <1>5, <3>2
      <4> QED
        BY <4>1
    <3>3. CASE i <= Len(fQueue) /\ j > Len(fQueue)
      <4>1. i \in DOMAIN fQueue /\ fQueue'[i] = fQueue[i]
        BY <1>5, <3>3
      <4>2. j - Len(fQueue) \in DOMAIN es /\ fQueue'[j] = es[j - Len(fQueue)]
        BY <1>5, <3>3
      <4>3. fQueue[i].id \in 1..fIds
        <5>1. fQueue[i] \in Queued
          BY <4>1 DEF Queued, ToSet
        <5> QED
          BY <5>1, KnownControls DEF FaultControls
      <4>4. es[j - Len(fQueue)].id \in 1..fIds' /\ es[j - Len(fQueue)].id > fIds
        <5>1. es[j - Len(fQueue)] \in ToSet(es)
          BY <4>2 DEF ToSet
        <5> QED
          BY <1>8, <5>1 DEF FaultControls
      <4> QED
        BY <1>0, <4>1, <4>2, <4>3, <4>4
    <3> QED
      BY <1>5, <3>1, <3>2, <3>3
  <2>2. \A c \in Taken, d \in Queued' : c.id < d.id
    <3>1. \A c \in Taken : c.id \in 1..fIds
      BY KnownControls DEF FaultControls
    <3>2. \A e \in ToSet(es) : e.id \in 1..fIds' /\ e.id > fIds
      BY <1>8 DEF FaultControls
    <3> QED
      BY <1>0, <1>6, <3>1, <3>2 DEF FaultInv, ControlsInOrder
  <2> QED
    BY <1>7, <2>1, <2>2 DEF FaultInv, ControlsInOrder
<1> QED
  BY <1>3, <1>4, <1>6, <1>7, <1>9, <1>10

\* An install is queued with a token nobody has, and a clear with that of the
\* lease.
LEMMA InstallKeeps ==
  ASSUME FaultInv, NEW t \in FaultTokens, install_network_faults(t)
  PROVE  FaultInv'
<1> DEFINE e == FaultControl("install", t, fIds + 1)
           es == <<e>>
<1>0. fIds \in Nat /\ fIds' = fIds + 1 /\ fIds' \in Nat /\ fIds <= fIds'
  BY DEF install_network_faults, FaultInv, CountsShape
<1>1. e \in FaultControls(fIds') /\ e.id = fIds + 1 /\ e.command = "install" /\ e.token = t
  BY <1>0 DEF FaultControl, FaultControls
<1>2. fQueue' = Append(fQueue, e) /\ UNCHANGED <<fInflight, fPending, fResults>>
  BY <1>0 DEF install_network_faults
<1>3. /\ fGate = FaultIdle /\ t \notin fMinted
      /\ fGate' = [step |-> "install", id |-> fIds', token |-> t, previous |-> fLease.token]
      /\ fMinted' = fMinted \cup {t}
      /\ UNCHANGED <<fLease, fPage, fNumber, fGone, fCleared, fDropped>>
  BY DEF install_network_faults
<1> HIDE DEF e
<1>4. /\ es \in Seq(FaultControls(fIds')) /\ ToSet(es) = {e} /\ fQueue' = fQueue \o es
      /\ \A i \in DOMAIN es : es[i].id > fIds
      /\ \A i, j \in DOMAIN es : i < j => es[i].id < es[j].id
  <2>1. es \in Seq(FaultControls(fIds')) /\ DOMAIN es = {1} /\ es[1] = e
    BY <1>1
  <2>2. ToSet(es) = {e}
    BY <2>1 DEF ToSet
  <2>3. fQueue' = fQueue \o es
    BY <1>1, <1>2 DEF FaultInv, QueueShape
  <2>4. \A i \in DOMAIN es : es[i].id > fIds
    BY <1>0, <1>1, <2>1
  <2>5. \A i, j \in DOMAIN es : i < j => es[i].id < es[j].id
    BY <2>1
  <2> QED
    BY <2>1, <2>2, <2>3, <2>4, <2>5
<1> HIDE DEF es
<1>5. /\ QueueShape' /\ TaskShape' /\ ControlsInOrder' /\ AnswersComeFirst'
      /\ Queued' = Queued \cup {e} /\ Waiting' = Waiting \cup {e}
      /\ Taken' = Taken /\ Outcomes' = Outcomes
  BY <1>0, <1>2, <1>4, EnqueueKeepsOrder
<1>6. /\ \A c \in Queued \cup Taken : c.id \in 1..fIds /\ c.token \in fMinted
      /\ Waiting \subseteq Queued \cup Taken
      /\ \A k \in Outcomes : k.id \in 1..fIds
  BY KnownControls DEF FaultControls, FaultReports, FaultInv, TokensAreMinted
<1>7. CountsShape' /\ HeldShape'
  <2>1. CountsShape'
    BY <1>0, <1>3 DEF FaultInv, CountsShape
  <2>2. HeldShape'
    BY <1>0, <1>3 DEF FaultInv, HeldShape
  <2> QED
    BY <2>1, <2>2
<1>8. InstallsComeFirst'
  BY <1>1, <1>3, <1>5, <1>6 DEF FaultInv, InstallsComeFirst, Installs, ClearOf
<1>9. TokensAreMinted'
  BY <1>1, <1>3, <1>5, <1>6 DEF FaultInv, TokensAreMinted, NoFaultLease
<1>10. WaitingIsAccountedFor'
  <2>1. t # fLease.token /\ t \notin fCleared
    BY <1>3, FaultConstants DEF FaultInv, TokensAreMinted, NoFaultLease
  <2>2. fGate.step = "idle" /\ fGate'.step = "install" /\ fGate'.token = t
    BY <1>3 DEF FaultIdle
  <2> QED
    BY <1>1, <1>2, <1>3, <1>5, <2>1, <2>2 DEF FaultInv, WaitingIsAccountedFor
<1>11. GateIsLast'
  BY <1>0, <1>1, <1>3, <1>5, <1>6 DEF GateIsLast
<1>12. AnswerIsCurrent'
  BY <1>0, <1>3, <1>5, <1>6 DEF AnswerIsCurrent
<1>13. LeaseIsOfThisPage' /\ ClearedByTheHead'
  BY <1>2, <1>3 DEF FaultInv, LeaseIsOfThisPage, ClearedByTheHead, Unexecuted
<1>14. FaultsAreAccountedFor'
  <2>1. fGate.token = "none"
    BY <1>3 DEF FaultIdle
  <2>2. ToSet(fQueue) \subseteq ToSet(fQueue')
    BY <1>5 DEF Queued
  <2> QED
    BY <1>2, <1>3, <2>1, <2>2 DEF FaultInv, FaultsAreAccountedFor
<1> QED
  BY <1>5, <1>7, <1>8, <1>9, <1>10, <1>11, <1>12, <1>13, <1>14 DEF FaultInv

\* clear_network_faults queues a clear of the token in force.
LEMMA ClearKeeps ==
  ASSUME FaultInv, clear_network_faults
  PROVE  FaultInv'
<1> DEFINE t == fLease.token
           e == FaultControl("clear", t, fIds + 1)
           es == <<e>>
<1>0. fIds \in Nat /\ fIds' = fIds + 1 /\ fIds' \in Nat /\ fIds <= fIds'
  BY DEF clear_network_faults, FaultInv, CountsShape
<1>1. t \in fMinted /\ t \in FaultTokens
  BY DEF clear_network_faults, FaultInv, TokensAreMinted, CountsShape
<1>2. e \in FaultControls(fIds') /\ e.id = fIds + 1 /\ e.command = "clear" /\ e.token = t
  BY <1>0, <1>1 DEF FaultControl, FaultControls
<1>3. fQueue' = Append(fQueue, e) /\ UNCHANGED <<fInflight, fPending, fResults>>
  BY <1>0 DEF clear_network_faults
<1>4. /\ fGate = FaultIdle
      /\ fGate' = [step |-> "clear", id |-> fIds', token |-> t, previous |-> "none"]
      /\ UNCHANGED <<fLease, fPage, fNumber, fGone, fMinted, fCleared, fDropped>>
  BY DEF clear_network_faults
<1> HIDE DEF e
<1>5. /\ es \in Seq(FaultControls(fIds')) /\ ToSet(es) = {e} /\ fQueue' = fQueue \o es
      /\ \A i \in DOMAIN es : es[i].id > fIds
      /\ \A i, j \in DOMAIN es : i < j => es[i].id < es[j].id
  <2>1. es \in Seq(FaultControls(fIds')) /\ DOMAIN es = {1} /\ es[1] = e
    BY <1>2
  <2>2. ToSet(es) = {e}
    BY <2>1 DEF ToSet
  <2>3. fQueue' = fQueue \o es
    BY <1>2, <1>3 DEF FaultInv, QueueShape
  <2>4. \A i \in DOMAIN es : es[i].id > fIds
    BY <1>0, <1>2, <2>1
  <2>5. \A i, j \in DOMAIN es : i < j => es[i].id < es[j].id
    BY <2>1
  <2> QED
    BY <2>1, <2>2, <2>3, <2>4, <2>5
<1> HIDE DEF es
<1>6. /\ QueueShape' /\ TaskShape' /\ ControlsInOrder' /\ AnswersComeFirst'
      /\ Queued' = Queued \cup {e} /\ Waiting' = Waiting \cup {e}
      /\ Taken' = Taken /\ Outcomes' = Outcomes
  BY <1>0, <1>3, <1>5, EnqueueKeepsOrder
<1>7. /\ \A c \in Queued \cup Taken : c.id \in 1..fIds /\ c.token \in fMinted
      /\ Waiting \subseteq Queued \cup Taken
      /\ \A k \in Outcomes : k.id \in 1..fIds
  BY KnownControls DEF FaultControls, FaultReports, FaultInv, TokensAreMinted
<1>8. CountsShape' /\ HeldShape'
  <2>1. CountsShape'
    BY <1>0, <1>4 DEF FaultInv, CountsShape
  <2>2. HeldShape'
    BY <1>0, <1>1, <1>4 DEF FaultInv, HeldShape
  <2> QED
    BY <2>1, <2>2
<1>9. InstallsComeFirst'
  <2>1. \A c \in Waiting : c.id \in 1..fIds
    BY <1>7
  <2> QED
    BY <1>0, <1>2, <1>6, <2>1 DEF FaultInv, InstallsComeFirst, Installs, ClearOf
<1>10. TokensAreMinted'
  BY <1>1, <1>2, <1>4, <1>6, <1>7 DEF FaultInv, TokensAreMinted
<1>11. WaitingIsAccountedFor'
  <2>1. fGate.step = "idle" /\ fGate'.token = t
    BY <1>4 DEF FaultIdle
  <2>2. ~Installs(e)
    BY <1>2 DEF Installs
  <2> QED
    BY <1>3, <1>4, <1>6, <2>1, <2>2 DEF FaultInv, WaitingIsAccountedFor
<1>12. GateIsLast'
  BY <1>0, <1>2, <1>4, <1>6, <1>7 DEF GateIsLast
<1>13. AnswerIsCurrent'
  BY <1>0, <1>4, <1>6, <1>7 DEF AnswerIsCurrent
<1>14. LeaseIsOfThisPage' /\ ClearedByTheHead'
  BY <1>3, <1>4 DEF FaultInv, LeaseIsOfThisPage, ClearedByTheHead, Unexecuted
<1>15. FaultsAreAccountedFor'
  <2>1. fGate.token = "none"
    BY <1>4 DEF FaultIdle
  <2>2. ToSet(fQueue) \subseteq ToSet(fQueue')
    BY <1>6 DEF Queued
  <2> QED
    BY <1>3, <1>4, <2>1, <2>2 DEF FaultInv, FaultsAreAccountedFor
<1> QED
  BY <1>6, <1>8, <1>9, <1>10, <1>11, <1>12, <1>13, <1>14, <1>15 DEF FaultInv

\* What a failed installation queues: the clear of its plan and, unless the
\* plan is known to have been in force, that of the plan before it.
LEMMA CleanupQueues ==
  ASSUME FaultInv, fGate # FaultIdle, NEW withPrevious \in BOOLEAN,
         queue_failed_install_cleanup(withPrevious),
         UNCHANGED <<fInflight, fPending, fResults>>
  PROVE  \E es :
           /\ fIds' = fIds + 2 /\ QueueShape' /\ TaskShape' /\ ControlsInOrder' /\ AnswersComeFirst'
           /\ Queued' = Queued \cup es /\ Waiting' = Waiting \cup es
           /\ Taken' = Taken /\ Outcomes' = Outcomes
           /\ \A e \in es : e.command = "clear" /\ e.token \in fMinted /\ e.id > fIds /\ e.id \in 1..fIds'
           /\ \E e \in es : ClearOf(fGate.token, e)
           /\ withPrevious /\ fGate.previous # "none" => \E e \in es : ClearOf(fGate.previous, e)
<1> DEFINE e1 == FaultControl("clear", fGate.token, fIds + 1)
           e2 == FaultControl("clear", fGate.previous, fIds + 2)
           both == withPrevious /\ fGate.previous # "none"
           es == IF both THEN <<e1, e2>> ELSE <<e1>>
<1>0. fIds \in Nat /\ fIds' = fIds + 2 /\ fIds' \in Nat /\ fIds <= fIds'
  BY DEF queue_failed_install_cleanup, FaultInv, CountsShape
<1>1. fGate.token \in fMinted /\ (both => fGate.previous \in fMinted) /\ fMinted \subseteq FaultTokens
  BY DEF FaultInv, TokensAreMinted, CountsShape
<1>2. /\ e1 \in FaultControls(fIds') /\ e1.id = fIds + 1 /\ e1.command = "clear" /\ e1.token = fGate.token
      /\ both => e2 \in FaultControls(fIds')
      /\ e2.id = fIds + 2 /\ e2.command = "clear" /\ e2.token = fGate.previous
  BY <1>0, <1>1 DEF FaultControl, FaultControls
<1>3. fQueue' = Append(fQueue, e1) \o IF both THEN <<e2>> ELSE <<>>
  BY DEF queue_failed_install_cleanup
<1> HIDE DEF e1, e2, both
<1>4. fQueue \in Seq(FaultControls(fIds'))
  BY <1>0, MoreIds DEF FaultInv, QueueShape
<1>5. fQueue' = fQueue \o es
  <2>1. CASE both
    <3>1. fQueue' = Append(fQueue, e1) \o <<e2>> /\ es = <<e1, e2>>
      BY <1>3, <2>1
    <3> QED
      BY <1>2, <1>4, <2>1, <3>1
  <2>2. CASE ~both
    <3>1. fQueue' = Append(fQueue, e1) \o <<>> /\ es = <<e1>>
      BY <1>3, <2>2
    <3>2. Append(fQueue, e1) \in Seq(FaultControls(fIds')) /\ Append(fQueue, e1) = fQueue \o <<e1>>
      BY <1>2, <1>4
    <3>3. Append(fQueue, e1) \o <<>> = Append(fQueue, e1)
      BY <3>2
    <3> QED
      BY <3>1, <3>2, <3>3
  <2> QED
    BY <2>1, <2>2
<1>6. /\ es \in Seq(FaultControls(fIds'))
      /\ \A i \in DOMAIN es : es[i].id > fIds
      /\ \A i, j \in DOMAIN es : i < j => es[i].id < es[j].id
      /\ ToSet(es) = IF both THEN {e1, e2} ELSE {e1}
  <2>1. CASE both
    <3>1. es = <<e1, e2>> /\ es \in Seq(FaultControls(fIds')) /\ DOMAIN es = {1, 2} /\ es[1] = e1 /\ es[2] = e2
      BY <1>2, <2>1
    <3> HIDE DEF es
    <3> QED
      BY <1>0, <1>2, <2>1, <3>1 DEF ToSet
  <2>2. CASE ~both
    <3>1. es = <<e1>> /\ es \in Seq(FaultControls(fIds')) /\ DOMAIN es = {1} /\ es[1] = e1
      BY <1>2, <2>2
    <3> HIDE DEF es
    <3> QED
      BY <1>0, <1>2, <2>2, <3>1 DEF ToSet
  <2> QED
    BY <2>1, <2>2
<1> HIDE DEF es
<1>7. /\ QueueShape' /\ TaskShape' /\ ControlsInOrder' /\ AnswersComeFirst'
      /\ Queued' = Queued \cup ToSet(es) /\ Waiting' = Waiting \cup ToSet(es)
      /\ Taken' = Taken /\ Outcomes' = Outcomes
  BY <1>0, <1>5, <1>6, EnqueueKeepsOrder
<1>8. \A e \in ToSet(es) : e.command = "clear" /\ e.token \in fMinted /\ e.id > fIds /\ e.id \in 1..fIds'
  <2>1. fIds + 1 > fIds /\ fIds + 2 > fIds /\ fIds + 1 \in 1..fIds' /\ fIds + 2 \in 1..fIds'
    BY <1>0
  <2> QED
    BY <1>1, <1>2, <1>6, <2>1
<1>9. /\ \E e \in ToSet(es) : ClearOf(fGate.token, e)
      /\ both => \E e \in ToSet(es) : ClearOf(fGate.previous, e)
  BY <1>2, <1>6 DEF ClearOf
<1> QED
  <2> WITNESS ToSet(es)
  <2> QED
    BY <1>0, <1>7, <1>8, <1>9 DEF both

\* An install that failed queues the clean-up of what it may have left.
LEMMA InstallFailedKeeps ==
  ASSUME FaultInv, install_failed
  PROVE  FaultInv'
<1>1. PICK withPrevious \in BOOLEAN :
        /\ queue_failed_install_cleanup(withPrevious)
        /\ ~withPrevious => \E k \in FaultAnswer : k.ok
  BY DEF install_failed
<1>2. /\ fGate.step = "install" /\ fGate # FaultIdle /\ fGate' = FaultIdle
      /\ UNCHANGED <<fInflight, fResults, fPage, fNumber, fPending, fGone, fMinted, fCleared, fDropped>>
  BY DEF install_failed, FaultIdle
<1>3. PICK es :
        /\ fIds' = fIds + 2 /\ QueueShape' /\ TaskShape' /\ ControlsInOrder' /\ AnswersComeFirst'
        /\ Queued' = Queued \cup es /\ Waiting' = Waiting \cup es
        /\ Taken' = Taken /\ Outcomes' = Outcomes
        /\ \A e \in es : e.command = "clear" /\ e.token \in fMinted /\ e.id > fIds /\ e.id \in 1..fIds'
        /\ \E e \in es : ClearOf(fGate.token, e)
        /\ withPrevious /\ fGate.previous # "none" => \E e \in es : ClearOf(fGate.previous, e)
  BY <1>1, <1>2, CleanupQueues
<1>4. fLease' = IF fGate.previous = fLease.token THEN NoFaultLease ELSE fLease
  BY <1>1 DEF queue_failed_install_cleanup
<1>5. /\ \A c \in Queued \cup Taken : c.id \in 1..fIds /\ c.token \in fMinted /\ c.token \in FaultTokens
      /\ Waiting \subseteq Queued \cup Taken
      /\ fIds \in Nat
  BY KnownControls DEF FaultControls, FaultInv, TokensAreMinted, CountsShape
<1>6. CountsShape' /\ HeldShape'
  <2>1. CountsShape'
    BY <1>2, <1>3 DEF FaultInv, CountsShape
  <2>2. FaultIdle \in [step : {"idle", "install", "clear"}, id : 0..fIds', token : FaultTokens \cup {"none"},
                       previous : FaultTokens \cup {"none"}]
    BY <1>3, <1>5 DEF FaultIdle
  <2>3. NoFaultLease \in [token : FaultTokens \cup {"none"}, page : 0..MaxFaultPages]
    BY FaultConstants DEF NoFaultLease
  <2> QED
    BY <1>2, <1>4, <2>1, <2>2, <2>3 DEF FaultInv, HeldShape
<1>7. InstallsComeFirst'
  <2>1. ASSUME NEW c \in Waiting, NEW d \in es
        PROVE  c.id < d.id
    <3>1. c.id \in 1..fIds /\ d.id > fIds /\ d.id \in 1..fIds'
      BY <1>3, <1>5
    <3> QED
      BY <1>3, <1>5, <3>1
  <2>2. \A e \in es : ~Installs(e)
    BY <1>3 DEF Installs
  <2> QED
    BY <1>3, <2>1, <2>2 DEF FaultInv, InstallsComeFirst
<1>8. TokensAreMinted'
  BY <1>2, <1>3, <1>4 DEF FaultInv, TokensAreMinted
<1>9. WaitingIsAccountedFor'
  <2> SUFFICES ASSUME NEW c \in Waiting', Installs(c)
               PROVE  /\ c.token # fLease'.token /\ c.token \notin fCleared'
                      /\ fGate'.step = "clear" => c.token # fGate'.token
                      /\ \/ fGate'.step = "install" /\ fGate'.token = c.token
                         \/ c.token \in fDropped'
                         \/ \E d \in Queued' \cup fInflight' : ClearOf(c.token, d)
    BY DEF WaitingIsAccountedFor
  <2>1. c \in Waiting
    BY <1>3 DEF Installs
  <2>2. c.token # fLease'.token
    <3>1. c.token # fLease.token /\ c.token # "none"
      BY <1>5, <2>1, FaultConstants DEF FaultInv, WaitingIsAccountedFor
    <3> QED
      BY <1>4, <3>1 DEF NoFaultLease
  <2>3. c.token \notin fCleared' /\ fGate'.step = "idle"
    BY <1>2, <2>1 DEF FaultInv, WaitingIsAccountedFor, FaultIdle
  <2>4. \/ c.token \in fDropped'
        \/ \E d \in Queued' \cup fInflight' : ClearOf(c.token, d)
    BY <1>2, <1>3, <2>1 DEF FaultInv, WaitingIsAccountedFor
  <2> QED
    BY <2>2, <2>3, <2>4
<1>10. GateIsLast' /\ AnswerIsCurrent'
  BY <1>2 DEF GateIsLast, AnswerIsCurrent
<1>11. LeaseIsOfThisPage'
  BY <1>2, <1>4 DEF FaultInv, LeaseIsOfThisPage, NoFaultLease, FaultIdle
<1>12. ClearedByTheHead'
  BY <1>2 DEF FaultInv, ClearedByTheHead, Unexecuted
<1>13. FaultsAreAccountedFor'
  <2>1. fPage' \notin fCleared'
    BY <1>2 DEF FaultInv, FaultsAreAccountedFor
  <2>2. ASSUME fPage # "none", ~withPrevious
        PROVE  fPage = fGate.token
    <3>1. PICK k \in FaultAnswer : k.ok
      BY <1>1, <2>2
    <3>2. k \in Outcomes /\ k.id = fGate.id
      BY <3>1, KnownControls DEF FaultAnswer
    <3> QED
      BY <1>2, <2>2, <3>1, <3>2 DEF FaultInv, AnswerIsCurrent
  <2>3. ASSUME fPage # "none"
        PROVE  \/ fPage' = fLease'.token
               \/ fPage' \in fDropped'
               \/ \E d \in Queued' \cup fInflight' : ClearOf(fPage', d)
    <3>1. CASE fPage = fGate.token
      BY <1>2, <1>3, <3>1
    <3>2. CASE fPage = fLease.token
      <4>1. CASE fGate.previous = fLease.token /\ withPrevious
        BY <1>2, <1>3, <2>3, <3>2, <4>1
      <4>2. CASE ~withPrevious
        BY <2>2, <2>3, <3>1, <4>2
      <4>3. CASE fGate.previous # fLease.token
        BY <1>2, <1>4, <3>2, <4>3
      <4> QED
        BY <4>1, <4>2, <4>3
    <3>3. CASE fPage \in fDropped \/ \E d \in Queued \cup fInflight : ClearOf(fPage, d)
      BY <1>2, <1>3, <3>3
    <3> QED
      BY <2>3, <3>1, <3>2, <3>3 DEF FaultInv, FaultsAreAccountedFor, Queued, ClearOf
  <2> QED
    BY <1>2, <2>1, <2>3 DEF FaultsAreAccountedFor, Queued, ClearOf
<1> QED
  BY <1>3, <1>6, <1>7, <1>8, <1>9, <1>10, <1>11, <1>12, <1>13 DEF FaultInv

\* The steps of handlers that queue nothing.
LEMMA HandlerKeeps ==
  ASSUME FaultInv,
         \/ set_network_fault_lease \/ clear_answered \/ fault_request_dropped
         \/ current_live_lease \/ \E n \in 1..MaxFaultPages : invalidate_preview_fault_lease(n)
  PROVE  FaultInv'
<1>1. UNCHANGED <<fQueue, fInflight, fResults, fPage, fNumber, fPending, fIds, fMinted>>
  BY DEF set_network_fault_lease, clear_answered, fault_request_dropped, current_live_lease,
         invalidate_preview_fault_lease
<1>2. Queued' = Queued /\ Taken' = Taken /\ Waiting' = Waiting /\ Outcomes' = Outcomes
      /\ \A i : Unexecuted(i)' = Unexecuted(i)
  BY <1>1, SameControls
<1>3. QueueShape' /\ TaskShape'
  BY <1>1 DEF FaultInv, QueueShape, TaskShape
<1>4. ControlsInOrder' /\ AnswersComeFirst' /\ InstallsComeFirst' /\ ClearedByTheHead'
  <2>1. ControlsInOrder' /\ ClearedByTheHead'
    BY <1>1, <1>2 DEF FaultInv, ControlsInOrder, ClearedByTheHead
  <2>2. AnswersComeFirst' /\ InstallsComeFirst'
    BY <1>2 DEF FaultInv, AnswersComeFirst, InstallsComeFirst
  <2> QED
    BY <2>1, <2>2
<1>5. /\ \A c \in Waiting : c.token \in FaultTokens /\ c.id \in 1..fIds
      /\ \A k \in ToSet(fResults) : k \in Outcomes
      /\ fIds \in Nat /\ fMinted \subseteq FaultTokens
      /\ Outcomes \subseteq FaultReports(fIds)
  BY KnownControls DEF FaultControls, FaultInv, CountsShape
<1> DEFINE Held == CountsShape /\ HeldShape /\ TokensAreMinted /\ WaitingIsAccountedFor /\ GateIsLast
                   /\ AnswerIsCurrent /\ LeaseIsOfThisPage /\ FaultsAreAccountedFor
\* With the answer of the last control there is nothing left to execute.
<1>6. ASSUME fGate # FaultIdle, NEW k \in FaultAnswer
      PROVE  Waiting = {} /\ k \in Outcomes /\ k.id = fGate.id
  <2>1. k \in Outcomes /\ k.id = fGate.id /\ fGate.id = fIds
    BY <1>5, <1>6 DEF FaultAnswer, FaultInv, GateIsLast
  <2>2. \A c \in Waiting : fIds < c.id /\ c.id \in 1..fIds
    BY <1>5, <2>1 DEF FaultInv, AnswersComeFirst
  <2> QED
    BY <1>5, <2>1, <2>2
<1>7. ASSUME set_network_fault_lease
      PROVE  Held'
  <2>1. PICK k \in FaultAnswer : k.ok /\ k.active /\ fLease' = [token |-> fGate.token, page |-> k.page]
    BY <1>7 DEF set_network_fault_lease
  <2>2. /\ fGate.step = "install" /\ fGate # FaultIdle /\ fGate' = FaultIdle
        /\ UNCHANGED <<fGone, fCleared, fDropped>>
    BY <1>7 DEF set_network_fault_lease, FaultIdle
  <2>3. Waiting = {} /\ (fPage # "none" => fPage = fGate.token /\ k.page = fNumber)
        /\ k.page \in 1..MaxFaultPages
    BY <1>5, <1>6, <2>1, <2>2 DEF FaultInv, AnswerIsCurrent, FaultReports
  <2>4. fGate.token \in fMinted /\ FaultIdle.step = "idle"
    BY <2>2 DEF FaultInv, TokensAreMinted, FaultIdle
  <2>5. CountsShape' /\ TokensAreMinted'
    BY <1>1, <1>2, <2>1, <2>2, <2>4 DEF FaultInv, CountsShape, TokensAreMinted
  <2>6. HeldShape'
    <3>1. FaultIdle \in [step : {"idle", "install", "clear"}, id : 0..fIds, token : FaultTokens \cup {"none"},
                         previous : FaultTokens \cup {"none"}]
      BY <1>5 DEF FaultIdle
    <3>2. fLease' \in [token : FaultTokens \cup {"none"}, page : 0..MaxFaultPages]
      BY <1>5, <2>1, <2>3, <2>4, FaultConstants
    <3> QED
      BY <1>1, <2>2, <3>1, <3>2 DEF FaultInv, HeldShape
  <2>7. WaitingIsAccountedFor' /\ GateIsLast' /\ AnswerIsCurrent'
    BY <1>2, <2>2, <2>3 DEF WaitingIsAccountedFor, GateIsLast, AnswerIsCurrent
  <2>8. LeaseIsOfThisPage'
    BY <1>1, <2>1, <2>2, <2>3, <2>4 DEF FaultInv, LeaseIsOfThisPage
  <2>9. FaultsAreAccountedFor'
    BY <1>1, <2>1, <2>2, <2>3 DEF FaultInv, FaultsAreAccountedFor
  <2> QED
    BY <2>5, <2>6, <2>7, <2>8, <2>9
<1>8. ASSUME clear_answered
      PROVE  Held'
  <2> DEFINE done == /\ \E k \in FaultAnswer : k.ok /\ ~k.active /\ k.page = fLease.page
                     /\ fLease.token = fGate.token
  <2>1. /\ fGate.step = "clear" /\ fGate # FaultIdle /\ fGate' = FaultIdle
        /\ fLease' = (IF done THEN NoFaultLease ELSE fLease)
        /\ fCleared' = (IF done THEN fCleared \cup {fGate.token} ELSE fCleared)
        /\ UNCHANGED <<fGone, fDropped>>
    BY <1>8 DEF clear_answered, FaultIdle
  <2>2. ASSUME done
        PROVE  Waiting = {} /\ fPage = "none"
    <3>1. PICK k \in FaultAnswer : k.ok /\ ~k.active
      BY <2>2
    <3>2. Waiting = {} /\ k \in Outcomes /\ k.id = fGate.id
      BY <1>6, <2>1, <3>1
    <3> QED
      BY <2>1, <3>1, <3>2 DEF FaultInv, AnswerIsCurrent
  <2> HIDE DEF done
  <2>3. fGate.token \in fMinted /\ FaultIdle.step = "idle" /\ "none" \notin FaultTokens
    BY <2>1, FaultConstants DEF FaultInv, TokensAreMinted, FaultIdle
  <2>4. CountsShape' /\ TokensAreMinted'
    BY <1>1, <1>2, <1>5, <2>1, <2>3 DEF FaultInv, CountsShape, TokensAreMinted
  <2>5. HeldShape'
    <3>1. FaultIdle \in [step : {"idle", "install", "clear"}, id : 0..fIds, token : FaultTokens \cup {"none"},
                         previous : FaultTokens \cup {"none"}]
      BY <1>5 DEF FaultIdle
    <3>2. NoFaultLease \in [token : FaultTokens \cup {"none"}, page : 0..MaxFaultPages]
      BY FaultConstants DEF NoFaultLease
    <3> QED
      BY <1>1, <2>1, <3>1, <3>2 DEF FaultInv, HeldShape
  <2>6. WaitingIsAccountedFor'
    <3>1. CASE done
      BY <1>2, <2>2, <3>1 DEF WaitingIsAccountedFor
    <3>2. CASE ~done
      BY <1>1, <1>2, <2>1, <2>3, <3>2 DEF FaultInv, WaitingIsAccountedFor
    <3> QED
      BY <3>1, <3>2
  <2>7. GateIsLast' /\ AnswerIsCurrent'
    BY <2>1 DEF GateIsLast, AnswerIsCurrent
  <2>8. LeaseIsOfThisPage'
    BY <1>1, <2>1, <2>2, <2>3 DEF FaultInv, LeaseIsOfThisPage, NoFaultLease
  <2>9. FaultsAreAccountedFor'
    <3>1. CASE done
      BY <1>1, <1>5, <2>1, <2>2, <2>3, <3>1 DEF FaultInv, FaultsAreAccountedFor
    <3>2. CASE ~done
      BY <1>1, <2>1, <3>2 DEF FaultInv, FaultsAreAccountedFor, LeaseIsOfThisPage
    <3> QED
      BY <3>1, <3>2
  <2> QED
    BY <2>4, <2>5, <2>6, <2>7, <2>8, <2>9
<1>9. ASSUME fault_request_dropped
      PROVE  Held'
  <2>1. /\ fGate # FaultIdle /\ fGate' = FaultIdle
        /\ fDropped' = (IF fGate.step = "install" THEN fDropped \cup {fGate.token} ELSE fDropped)
        /\ UNCHANGED <<fLease, fGone, fCleared>>
    BY <1>9 DEF fault_request_dropped
  <2>2. /\ fGate.token \in fMinted /\ fGate.step \in {"install", "clear"}
        /\ FaultIdle.step = "idle" /\ FaultIdle.token = "none"
    BY <2>1 DEF FaultInv, TokensAreMinted, GateIsLast, FaultIdle
  <2>3. CountsShape' /\ TokensAreMinted'
    BY <1>1, <1>2, <1>5, <2>1, <2>2 DEF FaultInv, CountsShape, TokensAreMinted
  <2>4. HeldShape'
    <3>1. FaultIdle \in [step : {"idle", "install", "clear"}, id : 0..fIds, token : FaultTokens \cup {"none"},
                         previous : FaultTokens \cup {"none"}]
      BY <1>5 DEF FaultIdle
    <3> QED
      BY <1>1, <2>1, <3>1 DEF FaultInv, HeldShape
  <2>5. WaitingIsAccountedFor'
    BY <1>1, <1>2, <2>1, <2>2 DEF FaultInv, WaitingIsAccountedFor
  <2>6. GateIsLast' /\ AnswerIsCurrent'
    BY <2>1 DEF GateIsLast, AnswerIsCurrent
  <2>7. LeaseIsOfThisPage'
    BY <1>1, <2>1, <2>2 DEF FaultInv, LeaseIsOfThisPage
  <2>8. FaultsAreAccountedFor'
    BY <1>1, <2>1, <2>2 DEF FaultInv, FaultsAreAccountedFor, LeaseIsOfThisPage
  <2> QED
    BY <2>3, <2>4, <2>5, <2>6, <2>7, <2>8
<1>10. ASSUME UNCHANGED <<fGate, fCleared, fDropped>>, fGone' \subseteq fGone,
              \/ fLease' = fLease
              \/ fLease' = NoFaultLease /\ (fPage # "none" => fPage # fLease.token)
       PROVE  Held'
  <2>1. CountsShape' /\ TokensAreMinted'
    BY <1>1, <1>2, <1>10 DEF FaultInv, CountsShape, TokensAreMinted
  <2>2. HeldShape'
    <3>1. NoFaultLease \in [token : FaultTokens \cup {"none"}, page : 0..MaxFaultPages]
      BY FaultConstants DEF NoFaultLease
    <3> QED
      BY <1>1, <1>10, <3>1 DEF FaultInv, HeldShape
  <2>3. WaitingIsAccountedFor'
    <3>1. \A c \in Waiting : c.token # NoFaultLease.token
      BY <1>5, FaultConstants DEF NoFaultLease
    <3> QED
      BY <1>1, <1>2, <1>10, <3>1 DEF FaultInv, WaitingIsAccountedFor
  <2>4. GateIsLast' /\ AnswerIsCurrent'
    BY <1>1, <1>2, <1>10 DEF FaultInv, GateIsLast, AnswerIsCurrent
  <2>5. LeaseIsOfThisPage'
    <3>1. fGate.step = "clear" => fGate.token # "none"
      BY <1>5, FaultConstants DEF FaultInv, TokensAreMinted, FaultIdle
    <3> QED
      BY <1>1, <1>10, <3>1 DEF FaultInv, LeaseIsOfThisPage, NoFaultLease
  <2>6. FaultsAreAccountedFor'
    BY <1>1, <1>10 DEF FaultInv, FaultsAreAccountedFor
  <2> QED
    BY <2>1, <2>2, <2>3, <2>4, <2>5, <2>6
<1>11. ASSUME current_live_lease
       PROVE  Held'
  BY <1>10, <1>11 DEF current_live_lease
<1>12. ASSUME NEW n \in 1..MaxFaultPages, invalidate_preview_fault_lease(n)
       PROVE  Held'
  <2>1. /\ n \in fGone /\ fGone' \subseteq fGone
        /\ fLease' = (IF fLease.page = n THEN NoFaultLease ELSE fLease)
        /\ UNCHANGED <<fGate, fCleared, fDropped>>
    BY <1>12 DEF invalidate_preview_fault_lease
  <2>2. n < fNumber /\ n \in Nat /\ fNumber \in Nat
    BY <2>1, FaultConstants DEF FaultInv, LeaseIsOfThisPage, CountsShape
  <2>3. fLease.page = n /\ fPage # "none" => fPage # fLease.token
    BY <2>2 DEF FaultInv, LeaseIsOfThisPage
  <2> QED
    BY <1>10, <2>1, <2>3
<1>13. Held'
  BY <1>7, <1>8, <1>9, <1>11, <1>12
<1> QED
  BY <1>3, <1>4, <1>13 DEF FaultInv

\* The page only forgets controls, and answers what it has executed.
LEMMA PageKeepsOrder ==
  ASSUME FaultInv,
         Queued' \cup Taken' \subseteq Queued \cup Taken, Waiting' \subseteq Waiting,
         UNCHANGED <<fGate, fIds, fLease, fMinted, fCleared>>
  PROVE  InstallsComeFirst' /\ TokensAreMinted' /\ GateIsLast'
         /\ (Outcomes' \subseteq Outcomes => AnswersComeFirst')
<1>1. InstallsComeFirst'
  BY DEF FaultInv, InstallsComeFirst
<1>2. TokensAreMinted'
  BY DEF FaultInv, TokensAreMinted
<1>3. GateIsLast'
  BY DEF FaultInv, GateIsLast
<1>4. Outcomes' \subseteq Outcomes => AnswersComeFirst'
  BY DEF FaultInv, AnswersComeFirst
<1> QED
  BY <1>1, <1>2, <1>3, <1>4

\* The page takes the whole queue, or its answer is lost.
LEMMA TakeKeeps ==
  ASSUME FaultInv, take_network_fault_controls
  PROVE  FaultInv'
<1>1. /\ fPending = <<>> /\ fQueue' = <<>> /\ fInflight' = fInflight \cup Queued
      /\ UNCHANGED <<fResults, fLease, fGate, fPage, fNumber, fGone, fIds, fMinted, fCleared, fDropped>>
  BY DEF take_network_fault_controls, Queued
<1>2. /\ fQueue \in Seq(FaultControls(fIds)) /\ DOMAIN fQueue = 1..Len(fQueue) /\ Len(fQueue) \in Nat
      /\ \A i \in DOMAIN fQueue : fQueue[i] \in Queued /\ fQueue[i] \in FaultControls(fIds)
  BY DEF FaultInv, QueueShape, Queued, ToSet
<1>3. Queued' = {}
  BY <1>1 DEF Queued, ToSet
<1>4. DOMAIN fPending = {} /\ Taken = {} /\ Waiting = Queued /\ Outcomes = ToSet(fResults)
  BY <1>1 DEF Taken, Waiting, Outcomes
<1>5. /\ fPending' \in Seq(FaultTasks(fIds)) /\ Taken' \subseteq Queued
      /\ \A i, j \in DOMAIN fPending' : i < j => fPending'[i].control.id < fPending'[j].control.id
      /\ \A i \in DOMAIN fPending' : Unexecuted(i)'
  <2>1. CASE fPending' = [k \in DOMAIN fQueue |-> [control |-> fQueue[k], result |-> FaultUnexecuted]]
    <3>1. /\ DOMAIN fPending' = 1..Len(fQueue)
          /\ \A k \in 1..Len(fQueue) : /\ fPending'[k].control = fQueue[k]
                                       /\ fPending'[k].result = FaultUnexecuted
                                       /\ fPending'[k] \in FaultTasks(fIds)
      BY <1>2, <2>1 DEF FaultTasks
    <3>2. fPending' \in Seq(FaultTasks(fIds))
      BY <1>2, <2>1, <3>1
    <3>3. Taken' \subseteq Queued
      BY <1>2, <3>1 DEF Taken
    <3>4. \A i, j \in DOMAIN fPending' : i < j => fPending'[i].control.id < fPending'[j].control.id
      BY <1>2, <3>1 DEF FaultInv, ControlsInOrder
    <3> QED
      BY <3>1, <3>2, <3>3, <3>4 DEF Unexecuted
  <2>2. CASE fPending' = fPending
    BY <1>1, <1>4, <2>2 DEF Taken, Unexecuted
  <2> QED
    BY <2>1, <2>2 DEF take_network_fault_controls
<1>6. Waiting' \subseteq Waiting /\ Outcomes' = Outcomes /\ Queued' \cup Taken' \subseteq Queued \cup Taken
  <2>1. Waiting' \subseteq Queued' \cup Taken'
    BY DEF Waiting, Taken
  <2>2. Outcomes' = ToSet(fResults')
    BY <1>5 DEF Outcomes
  <2> QED
    BY <1>1, <1>3, <1>4, <1>5, <2>1, <2>2
<1>7. CountsShape' /\ HeldShape'
  BY <1>1 DEF FaultInv, CountsShape, HeldShape
<1>8. QueueShape' /\ TaskShape'
  <2>1. Queued \subseteq FaultControls(fIds)
    BY KnownControls
  <2> QED
    BY <1>1, <1>5, <2>1 DEF FaultInv, QueueShape, TaskShape
<1>9. ControlsInOrder'
  <2>1. DOMAIN fQueue' = {}
    BY <1>1
  <2> QED
    BY <1>3, <1>5, <2>1 DEF ControlsInOrder
<1>10. AnswersComeFirst' /\ InstallsComeFirst' /\ TokensAreMinted' /\ GateIsLast'
  BY <1>1, <1>6, PageKeepsOrder
<1>11. WaitingIsAccountedFor'
  BY <1>1, <1>3, <1>6 DEF FaultInv, WaitingIsAccountedFor
<1>12. AnswerIsCurrent' /\ LeaseIsOfThisPage'
  BY <1>1, <1>6 DEF FaultInv, AnswerIsCurrent, LeaseIsOfThisPage
<1>13. ClearedByTheHead'
  BY <1>5 DEF ClearedByTheHead
<1>14. FaultsAreAccountedFor'
  BY <1>1 DEF FaultInv, FaultsAreAccountedFor, Queued
<1> QED
  BY <1>7, <1>8, <1>9, <1>10, <1>11, <1>12, <1>13, <1>14 DEF FaultInv

\* The oldest control is executed; nothing that waits is older.
LEMMA ExecuteKeeps ==
  ASSUME FaultInv, executeNetworkFaultControl
  PROVE  FaultInv'
<1> DEFINE c == fPending[1].control
           report(page, ok) == [id |-> c.id, ok |-> ok, active |-> ok /\ page # "none", page |-> fNumber]
<1>1. /\ fPending # <<>> /\ Head(fPending).result = FaultUnexecuted
      /\ UNCHANGED <<fQueue, fInflight, fResults, fLease, fGate, fNumber, fGone, fIds,
                     fMinted, fCleared, fDropped>>
  BY DEF executeNetworkFaultControl
<1>2. /\ fPending \in Seq(FaultTasks(fIds)) /\ fPending # <<>> /\ 1 \in DOMAIN fPending
      /\ Head(fPending) = fPending[1] /\ fPending[1] \in FaultTasks(fIds)
      /\ c \in FaultControls(fIds) /\ Unexecuted(1)
      /\ c.id \in 1..fIds /\ c.token \in FaultTokens /\ c.command \in {"install", "clear"}
  <2>1. /\ fPending \in Seq(FaultTasks(fIds)) /\ fPending # <<>> /\ 1 \in DOMAIN fPending
        /\ Head(fPending) = fPending[1] /\ fPending[1] \in FaultTasks(fIds)
    BY <1>1 DEF FaultInv, TaskShape
  <2>2. c \in FaultControls(fIds) /\ Unexecuted(1)
    BY <1>1, <2>1 DEF FaultTasks, Unexecuted
  <2>3. c.id \in 1..fIds /\ c.token \in FaultTokens /\ c.command \in {"install", "clear"}
    BY <2>2 DEF FaultControls
  <2> QED
    BY <2>1, <2>2, <2>3
<1>3. c \in Waiting /\ c \in Taken
  BY <1>2 DEF Waiting, Taken
<1>4. PICK ok \in BOOLEAN :
        /\ fPage' = (IF ok THEN (IF c.command = "install" THEN c.token ELSE "none") ELSE fPage)
        /\ fPending' = [fPending EXCEPT ![1].result = report(fPage', ok)]
        /\ c.command = "clear" => (ok <=> fPage \in {c.token, "none"})
  <2>1. \/ /\ c.command = "install" /\ fPage' = c.token
           /\ fPending' = [fPending EXCEPT ![1].result = report(c.token, TRUE)]
        \/ /\ c.command = "install" /\ fPage' = fPage
           /\ fPending' = [fPending EXCEPT ![1].result = report(fPage, FALSE)]
        \/ /\ c.command = "clear" /\ fPage \in {c.token, "none"} /\ fPage' = "none"
           /\ fPending' = [fPending EXCEPT ![1].result = report("none", TRUE)]
        \/ /\ c.command = "clear" /\ fPage \notin {c.token, "none"} /\ fPage' = fPage
           /\ fPending' = [fPending EXCEPT ![1].result = report(fPage, FALSE)]
    BY <1>1, <1>2 DEF executeNetworkFaultControl
  <2> HIDE DEF c, report
  <2>2. CASE fPending' = [fPending EXCEPT ![1].result = report(fPage', TRUE)]
             /\ fPage' = (IF c.command = "install" THEN c.token ELSE "none")
             /\ (c.command = "clear" => fPage \in {c.token, "none"})
    BY <2>2
  <2>3. CASE fPending' = [fPending EXCEPT ![1].result = report(fPage', FALSE)] /\ fPage' = fPage
             /\ (c.command = "clear" => fPage \notin {c.token, "none"})
    BY <2>3
  <2> QED
    BY <2>1, <2>2, <2>3
<1> DEFINE r == report(fPage', ok)
<1>5. /\ fPage' \in FaultTokens \cup {"none"} /\ r \in FaultReports(fIds) /\ r # FaultUnexecuted
      /\ r.id = c.id /\ r.ok = ok /\ r.active = (ok /\ fPage' # "none") /\ r.page = fNumber
  <2>1. fPage' \in FaultTokens \cup {"none"} /\ fNumber \in 1..MaxFaultPages
    BY <1>2, <1>4 DEF FaultInv, HeldShape, CountsShape
  <2>2. /\ r.id = c.id /\ r.ok = ok /\ r.active = (ok /\ fPage' # "none") /\ r.page = fNumber
        /\ r \in FaultReports(fIds)
    BY <1>2, <2>1 DEF FaultReports
  <2>3. r # FaultUnexecuted
    <3>1. FaultUnexecuted.id = 0 /\ c.id # 0
      BY <1>2 DEF FaultUnexecuted
    <3> HIDE DEF r
    <3> QED
      BY <2>2, <3>1
  <2> QED
    BY <2>1, <2>2, <2>3
<1> HIDE DEF r
<1>6. /\ fPending' \in Seq(FaultTasks(fIds)) /\ DOMAIN fPending' = DOMAIN fPending
      /\ fPending'[1].control = c /\ fPending'[1].result = r
      /\ \A i \in DOMAIN fPending : i # 1 => fPending'[i] = fPending[i]
  <2>1. fPending' = [fPending EXCEPT ![1] = [fPending[1] EXCEPT !.result = r]]
    BY <1>4 DEF r
  <2>2. /\ [fPending[1] EXCEPT !.result = r] \in FaultTasks(fIds)
        /\ [fPending[1] EXCEPT !.result = r].control = c
        /\ [fPending[1] EXCEPT !.result = r].result = r
    BY <1>2, <1>5 DEF FaultTasks
  <2>3. /\ fPending' \in Seq(FaultTasks(fIds)) /\ DOMAIN fPending' = DOMAIN fPending
        /\ fPending'[1] = [fPending[1] EXCEPT !.result = r]
        /\ \A i \in DOMAIN fPending : i # 1 => fPending'[i] = fPending[i]
    <3> DEFINE task == [fPending[1] EXCEPT !.result = r]
    <3>1. fPending' = [fPending EXCEPT ![1] = task] /\ task \in FaultTasks(fIds)
      BY <2>1, <2>2
    <3>2. fPending \in Seq(FaultTasks(fIds)) /\ 1 \in DOMAIN fPending
      BY <1>2
    <3> HIDE DEF task
    <3>3. fPending' \in Seq(FaultTasks(fIds))
      BY <3>1, <3>2
    <3>4. /\ DOMAIN fPending' = DOMAIN fPending /\ fPending'[1] = task
          /\ \A i \in DOMAIN fPending : i # 1 => fPending'[i] = fPending[i]
      BY <3>1, <3>2
    <3> QED
      BY <3>3, <3>4 DEF task
  <2> QED
    BY <2>2, <2>3
<1> HIDE DEF c, report
<1>7. /\ Queued' = Queued /\ Taken' = Taken
      /\ \A i \in DOMAIN fPending : i # 1 => Unexecuted(i) /\ Unexecuted(i)'
      /\ ~Unexecuted(1)'
      /\ \A i \in DOMAIN fPending : fPending'[i].control = fPending[i].control
  <2>1. \A i \in DOMAIN fPending : i # 1 => Unexecuted(i) /\ Unexecuted(i)'
    BY <1>6 DEF FaultInv, ControlsInOrder, Unexecuted
  <2>2. ~Unexecuted(1)'
    BY <1>5, <1>6 DEF Unexecuted
  <2>3. \A i \in DOMAIN fPending : fPending'[i].control = fPending[i].control
    BY <1>6 DEF c
  <2> QED
    BY <1>1, <1>6, <2>1, <2>2, <2>3 DEF Queued, Taken
<1>8. /\ Waiting' \subseteq Waiting /\ Outcomes' = Outcomes \cup {r}
      /\ \A w \in Waiting' : c.id < w.id
  <2>1. Waiting' \subseteq Waiting
    BY <1>6, <1>7 DEF Waiting
  <2>2. \A i \in DOMAIN fPending : Unexecuted(i)
    BY <1>2, <1>7
  <2>3. Outcomes = ToSet(fResults)
    BY <2>2 DEF Outcomes
  <2>4. Outcomes' = ToSet(fResults) \cup {r}
    <3>1. {i \in DOMAIN fPending' : ~Unexecuted(i)'} = {1}
      BY <1>2, <1>6, <1>7
    <3> QED
      BY <1>1, <1>6, <3>1 DEF Outcomes
  <2>5. \A w \in Waiting' : c.id < w.id
    <3> SUFFICES ASSUME NEW w \in Waiting'
                 PROVE  c.id < w.id
      OBVIOUS
    <3>1. CASE w \in Queued
      BY <1>3, <3>1 DEF FaultInv, ControlsInOrder
    <3>2. CASE w \notin Queued
      <4>1. PICK i \in DOMAIN fPending : i # 1 /\ w = fPending[i].control
        BY <1>6, <1>7, <3>2 DEF Waiting
      <4>2. 1 < i
        BY <1>2, <4>1
      <4> QED
        BY <1>2, <4>1, <4>2 DEF FaultInv, ControlsInOrder, c
    <3> QED
      BY <3>1, <3>2
  <2> QED
    BY <2>1, <2>3, <2>4, <2>5
<1>9. CountsShape' /\ HeldShape' /\ QueueShape' /\ TaskShape'
  <2>1. CountsShape' /\ QueueShape' /\ TaskShape'
    BY <1>1, <1>6 DEF FaultInv, CountsShape, QueueShape, TaskShape
  <2>2. HeldShape'
    BY <1>1, <1>5 DEF FaultInv, HeldShape
  <2> QED
    BY <2>1, <2>2
<1>10. ControlsInOrder'
  <2>1. \A i \in DOMAIN fPending' : ~Unexecuted(i)' => i = 1 /\ fPending'[i].result.id = fPending'[i].control.id
    BY <1>5, <1>6, <1>7
  <2>2. \A i, j \in DOMAIN fPending' : i < j => fPending'[i].control.id < fPending'[j].control.id
    BY <1>6, <1>7 DEF FaultInv, ControlsInOrder
  <2> QED
    BY <1>1, <1>7, <2>1, <2>2 DEF FaultInv, ControlsInOrder
<1>11. InstallsComeFirst' /\ TokensAreMinted' /\ GateIsLast'
  BY <1>1, <1>7, <1>8, PageKeepsOrder
<1>12. AnswersComeFirst'
  BY <1>5, <1>8 DEF FaultInv, AnswersComeFirst
<1>13. WaitingIsAccountedFor'
  BY <1>1, <1>7, <1>8 DEF FaultInv, WaitingIsAccountedFor
<1>14. AnswerIsCurrent'
  <2> SUFFICES ASSUME NEW k \in Outcomes', fGate # FaultIdle, k.id = fGate.id, k.ok
               PROVE  /\ fGate.step = "install" =>
                           k.active /\ (fPage' # "none" => fPage' = fGate.token /\ k.page = fNumber)
                      /\ fGate.step = "clear" => ~k.active /\ fPage' = "none"
    BY <1>1 DEF AnswerIsCurrent
  <2>1. k.id = fIds /\ fIds \in Nat
    BY DEF FaultInv, GateIsLast, CountsShape
  <2>2. k \notin Outcomes
    <3>1. k \in Outcomes => k.id < c.id
      BY <1>3 DEF FaultInv, AnswersComeFirst
    <3> QED
      BY <1>2, <2>1, <3>1
  <2>3. k = r /\ c.id = fGate.id
    BY <1>5, <1>8, <2>2
  <2>4. c.command = fGate.step /\ c.token = fGate.token
    BY <1>3, <2>3 DEF FaultInv, GateIsLast
  <2>5. ok
    BY <1>5, <2>3
  <2>6. fPage' = (IF c.command = "install" THEN c.token ELSE "none") /\ c.token # "none"
    BY <1>2, <1>4, <2>5, FaultConstants
  <2> QED
    BY <1>5, <2>3, <2>4, <2>5, <2>6
<1>15. ASSUME fPage' # fPage, fPage' # "none"
       PROVE  /\ fPage' = c.token /\ Installs(c)
              /\ c.token # fLease.token /\ c.token \notin fCleared
              /\ fGate.step = "clear" => c.token # fGate.token
              /\ \/ fGate.step = "install" /\ fGate.token = c.token
                 \/ c.token \in fDropped
                 \/ \E d \in Queued \cup fInflight : ClearOf(c.token, d)
  <2>1. fPage' = c.token /\ Installs(c)
    BY <1>4, <1>15 DEF Installs
  <2> QED
    BY <1>3, <2>1 DEF FaultInv, WaitingIsAccountedFor
<1>16. LeaseIsOfThisPage'
  <2>1. fGate.step = "clear" => fGate.token # "none"
    BY FaultConstants DEF FaultInv, TokensAreMinted, FaultIdle, CountsShape
  <2> QED
    BY <1>1, <1>15, <2>1 DEF FaultInv, LeaseIsOfThisPage
<1>17. ClearedByTheHead'
  <2>1. ~ClearOf(fPage', c)
    <3>1. CASE c.command = "install"
      BY <3>1 DEF ClearOf
    <3>2. CASE c.command = "clear"
      BY <1>2, <1>4, <3>2, FaultConstants DEF ClearOf
    <3> QED
      BY <1>2, <3>1, <3>2
  <2> QED
    BY <1>6, <1>7, <2>1 DEF ClearedByTheHead
<1>18. FaultsAreAccountedFor'
  <2>1. "none" \notin fCleared
    BY FaultConstants DEF FaultInv, CountsShape
  <2> QED
    BY <1>1, <1>15, <2>1 DEF FaultInv, FaultsAreAccountedFor, Queued, ClearOf
<1> QED
  BY <1>9, <1>10, <1>11, <1>12, <1>13, <1>14, <1>16, <1>17, <1>18 DEF FaultInv

\* An answer is given once, for the oldest control.
LEMMA CompleteKeeps ==
  ASSUME FaultInv, complete_network_fault_control
  PROVE  FaultInv'
<1> DEFINE c == fPending[1].control
           r == fPending[1].result
<1>1. /\ fPending # <<>> /\ Head(fPending).result # FaultUnexecuted
      /\ fInflight' = fInflight \ {Head(fPending).control} /\ fResults' = Append(fResults, Head(fPending).result)
      /\ fPending' = Tail(fPending) \/ fPending' = fPending
      /\ UNCHANGED <<fQueue, fLease, fGate, fPage, fNumber, fGone, fIds, fMinted, fCleared, fDropped>>
  BY DEF complete_network_fault_control
<1>2. /\ fPending \in Seq(FaultTasks(fIds)) /\ 1 \in DOMAIN fPending /\ DOMAIN fPending = 1..Len(fPending)
      /\ Len(fPending) \in Nat /\ Head(fPending) = fPending[1] /\ fPending[1] \in FaultTasks(fIds)
  BY <1>1 DEF FaultInv, TaskShape
<1>3. /\ ~Unexecuted(1) /\ r \in FaultReports(fIds) /\ r \in Outcomes /\ c \in Taken
      /\ r.id = c.id /\ fResults' = Append(fResults, r) /\ fInflight' = fInflight \ {c}
  <2>1. ~Unexecuted(1) /\ r \in FaultReports(fIds)
    BY <1>1, <1>2 DEF Unexecuted, FaultTasks
  <2>2. r \in Outcomes /\ c \in Taken
    BY <1>2, <2>1 DEF Outcomes, Taken
  <2>3. r.id = c.id
    BY <1>2, <2>1 DEF FaultInv, ControlsInOrder
  <2> QED
    BY <1>1, <1>2, <2>1, <2>2, <2>3
<1>4. \A i \in DOMAIN fPending : i # 1 => Unexecuted(i)
  BY DEF FaultInv, ControlsInOrder
<1> HIDE DEF r, c
\* What is pending afterwards was pending before, one place further behind.
<1>6. \E shift \in {0, 1} :
        /\ fPending' \in Seq(FaultTasks(fIds))
        /\ \A i \in DOMAIN fPending' : /\ i \in Nat \ {0} /\ i + shift \in DOMAIN fPending
                                       /\ fPending'[i] = fPending[i + shift]
        /\ shift = 1 => \A i \in DOMAIN fPending' : Unexecuted(i)'
  <2>1. CASE fPending' = fPending
    <3> WITNESS 0 \in {0, 1}
    <3> QED
      BY <1>2, <2>1
  <2>2. CASE fPending' = Tail(fPending)
    <3> WITNESS 1 \in {0, 1}
    <3>1. fPending' \in Seq(FaultTasks(fIds)) /\ DOMAIN fPending' = 1..(Len(fPending) - 1)
          /\ \A i \in DOMAIN fPending' : fPending'[i] = fPending[i + 1]
      BY <1>1, <1>2, <2>2
    <3>2. \A i \in DOMAIN fPending' : i \in Nat \ {0} /\ i + 1 \in DOMAIN fPending /\ i + 1 # 1
      BY <1>2, <3>1
    <3> QED
      BY <1>4, <3>1, <3>2 DEF Unexecuted
  <2> QED
    BY <1>1, <2>1, <2>2
<1>7. PICK shift \in {0, 1} :
        /\ fPending' \in Seq(FaultTasks(fIds))
        /\ \A i \in DOMAIN fPending' : /\ i \in Nat \ {0} /\ i + shift \in DOMAIN fPending
                                       /\ fPending'[i] = fPending[i + shift]
        /\ shift = 1 => \A i \in DOMAIN fPending' : Unexecuted(i)'
  BY <1>6
<1>8. \A i \in DOMAIN fPending' : Unexecuted(i)' <=> Unexecuted(i + shift)
  BY <1>7 DEF Unexecuted
<1>9. Queued' = Queued /\ Taken' \subseteq Taken /\ Waiting' \subseteq Waiting /\ Outcomes' \subseteq Outcomes
  <2>1. Queued' = Queued
    BY <1>1 DEF Queued
  <2>2. Taken' \subseteq Taken
    BY <1>7 DEF Taken
  <2>3. Waiting' \subseteq Waiting
    BY <1>7, <1>8, <2>1 DEF Waiting
  <2>4. ToSet(fResults') \subseteq ToSet(fResults) \cup {r}
    BY <1>3 DEF FaultInv, TaskShape, ToSet
  <2>5. ToSet(fResults) \subseteq Outcomes
    BY DEF Outcomes
  <2>6. Outcomes' \subseteq Outcomes
    <3> SUFFICES ASSUME NEW k \in Outcomes'
                 PROVE  k \in Outcomes
      OBVIOUS
    <3>1. CASE k \in ToSet(fResults')
      BY <1>3, <2>4, <2>5, <3>1
    <3>2. CASE k \notin ToSet(fResults')
      <4>1. PICK i \in DOMAIN fPending' : ~Unexecuted(i)' /\ k = fPending'[i].result
        BY <3>2 DEF Outcomes
      <4>2. i + shift \in DOMAIN fPending /\ ~Unexecuted(i + shift) /\ k = fPending[i + shift].result
        BY <1>7, <1>8, <4>1
      <4> QED
        BY <4>2 DEF Outcomes
    <3> QED
      BY <3>1, <3>2
  <2> QED
    BY <2>1, <2>2, <2>3, <2>6
<1>10. CountsShape' /\ HeldShape' /\ QueueShape' /\ TaskShape'
  <2>1. CountsShape' /\ HeldShape'
    BY <1>1 DEF FaultInv, CountsShape, HeldShape
  <2>2. QueueShape'
    BY <1>1 DEF FaultInv, QueueShape
  <2>3. fResults' \in Seq(FaultReports(fIds))
    BY <1>3 DEF FaultInv, TaskShape
  <2> QED
    BY <1>1, <1>7, <2>1, <2>2, <2>3 DEF TaskShape
<1>11. ControlsInOrder'
  <2>1. \A i, j \in DOMAIN fPending' : i < j => fPending'[i].control.id < fPending'[j].control.id
    <3> SUFFICES ASSUME NEW i \in DOMAIN fPending', NEW j \in DOMAIN fPending', i < j
                 PROVE  fPending'[i].control.id < fPending'[j].control.id
      OBVIOUS
    <3>1. i + shift \in DOMAIN fPending /\ j + shift \in DOMAIN fPending /\ i + shift < j + shift
          /\ fPending'[i] = fPending[i + shift] /\ fPending'[j] = fPending[j + shift]
      BY <1>7
    <3> QED
      BY <3>1 DEF FaultInv, ControlsInOrder
  <2>2. \A i \in DOMAIN fPending' : ~Unexecuted(i)' => i = 1 /\ fPending'[i].result.id = fPending'[i].control.id
    <3> SUFFICES ASSUME NEW i \in DOMAIN fPending', ~Unexecuted(i)'
                 PROVE  i = 1 /\ fPending'[i].result.id = fPending'[i].control.id
      OBVIOUS
    <3>1. shift = 0 /\ i + shift = i
      BY <1>7
    <3>2. i \in DOMAIN fPending /\ fPending'[i] = fPending[i] /\ ~Unexecuted(i)
      BY <1>7, <1>8, <3>1
    <3> QED
      BY <3>2 DEF FaultInv, ControlsInOrder
  <2> QED
    BY <1>1, <1>9, <2>1, <2>2 DEF FaultInv, ControlsInOrder
<1>12. AnswersComeFirst' /\ InstallsComeFirst' /\ TokensAreMinted' /\ GateIsLast'
  BY <1>1, <1>9, PageKeepsOrder
<1>13. WaitingIsAccountedFor'
  <2> SUFFICES ASSUME NEW w \in Waiting, Installs(w), NEW d \in Queued \cup fInflight, ClearOf(w.token, d)
               PROVE  d \in Queued' \cup fInflight'
    BY <1>1, <1>9 DEF FaultInv, WaitingIsAccountedFor
  <2>1. d # c
    <3>1. r.id < w.id
      BY <1>3 DEF FaultInv, AnswersComeFirst
    <3>2. d = c => w.id < c.id
      BY <1>3 DEF FaultInv, InstallsComeFirst
    <3>3. w.id \in Nat /\ c.id \in Nat
      BY <1>3, KnownControls DEF FaultControls
    <3> QED
      BY <1>3, <3>1, <3>2, <3>3
  <2> QED
    BY <1>3, <1>9, <2>1
<1>14. AnswerIsCurrent' /\ LeaseIsOfThisPage'
  BY <1>1, <1>9 DEF FaultInv, AnswerIsCurrent, LeaseIsOfThisPage
<1>15. ClearedByTheHead'
  BY <1>1, <1>7, <1>8 DEF FaultInv, ClearedByTheHead
<1>16. FaultsAreAccountedFor'
  <2>1. ~ClearOf(fPage, c)
    BY <1>2, <1>3 DEF FaultInv, ClearedByTheHead, c
  <2> QED
    BY <1>1, <1>3, <2>1 DEF FaultInv, FaultsAreAccountedFor, ClearOf
<1> QED
  BY <1>10, <1>11, <1>12, <1>13, <1>14, <1>15, <1>16 DEF FaultInv

\* A plan that expires, or goes with its page, is not in force any more.
LEMMA PlanGoneKeeps ==
  ASSUME FaultInv, activeNetworkFaultLease \/ preview_destroyed
  PROVE  FaultInv'
<1>1. /\ fPage' = "none"
      /\ fPending' = fPending \/ fPending' = <<>>
      /\ UNCHANGED <<fQueue, fInflight, fResults, fLease, fGate, fIds, fMinted, fCleared, fDropped>>
  BY DEF activeNetworkFaultLease, preview_destroyed
<1>2. /\ Queued' = Queued /\ Taken' \subseteq Taken /\ Waiting' \subseteq Waiting /\ Outcomes' \subseteq Outcomes
      /\ \A i \in DOMAIN fPending' : i \in DOMAIN fPending /\ fPending'[i] = fPending[i]
                                     /\ (Unexecuted(i)' <=> Unexecuted(i))
  <2>1. \A i \in DOMAIN fPending' : i \in DOMAIN fPending /\ fPending'[i] = fPending[i]
                                    /\ (Unexecuted(i)' <=> Unexecuted(i))
    BY <1>1 DEF Unexecuted
  <2> QED
    BY <1>1, <2>1 DEF Queued, Taken, Waiting, Outcomes
<1>3. "none" \notin FaultTokens
  BY FaultConstants
<1>4. CountsShape' /\ \A n \in fGone' : n < fNumber'
  <2>1. CASE activeNetworkFaultLease
    BY <2>1 DEF activeNetworkFaultLease, FaultInv, CountsShape, LeaseIsOfThisPage
  <2>2. CASE preview_destroyed
    <3>1. fNumber' = fNumber + 1 /\ fGone' = fGone \cup {fNumber} /\ fNumber < MaxFaultPages
      BY <2>2 DEF preview_destroyed
    <3>2. fNumber \in 1..MaxFaultPages /\ fGone \subseteq 1..MaxFaultPages /\ \A n \in fGone : n < fNumber
      BY DEF FaultInv, CountsShape, LeaseIsOfThisPage
    <3>3. fNumber' \in 1..MaxFaultPages /\ fGone' \subseteq 1..MaxFaultPages
      BY <3>1, <3>2, FaultConstants
    <3>4. \A n \in fGone' : n < fNumber'
      BY <3>1, <3>2, FaultConstants
    <3> QED
      BY <1>1, <3>3, <3>4 DEF FaultInv, CountsShape
  <2> QED
    BY <2>1, <2>2
<1>5. HeldShape' /\ QueueShape' /\ TaskShape'
  <2>1. fPending' \in Seq(FaultTasks(fIds))
    <3>1. <<>> \in Seq(FaultTasks(fIds))
      OBVIOUS
    <3>2. fPending \in Seq(FaultTasks(fIds))
      BY Zenon DEF FaultInv, TaskShape
    <3> QED
      BY <1>1, <3>1, <3>2, Zenon
  <2> QED
    BY <1>1, <2>1 DEF FaultInv, HeldShape, QueueShape, TaskShape
<1>6. ControlsInOrder'
  BY <1>1, <1>2 DEF FaultInv, ControlsInOrder
<1>7. AnswersComeFirst' /\ InstallsComeFirst' /\ TokensAreMinted' /\ GateIsLast'
  BY <1>1, <1>2, PageKeepsOrder
<1>8. WaitingIsAccountedFor'
  BY <1>1, <1>2 DEF FaultInv, WaitingIsAccountedFor
<1>9. AnswerIsCurrent'
  BY <1>1, <1>2 DEF FaultInv, AnswerIsCurrent
<1>10. LeaseIsOfThisPage'
  <2>1. fGate.step = "clear" => fGate.token # "none"
    BY <1>3 DEF FaultInv, TokensAreMinted, FaultIdle, CountsShape
  <2> QED
    BY <1>1, <1>4, <2>1 DEF LeaseIsOfThisPage
<1>11. ClearedByTheHead'
  <2>1. \A i \in DOMAIN fPending' : fPending'[i].control.token # "none"
    <3>1. \A i \in DOMAIN fPending' : fPending'[i].control \in Taken
      BY <1>2 DEF Taken
    <3> QED
      BY <1>3, <3>1, KnownControls DEF FaultControls
  <2> QED
    BY <1>1, <2>1 DEF ClearedByTheHead, ClearOf
<1>12. FaultsAreAccountedFor'
  BY <1>1, <1>3 DEF FaultInv, FaultsAreAccountedFor, CountsShape
<1> QED
  BY <1>4, <1>5, <1>6, <1>7, <1>8, <1>9, <1>10, <1>11, <1>12 DEF FaultInv

\* A page that no fault was ever put on is accounted for.
LEMMA FaultInitKeeps == FaultInit => FaultInv
<1> SUFFICES ASSUME FaultInit
             PROVE  FaultInv
  OBVIOUS
<1>1. /\ fQueue = <<>> /\ DOMAIN fQueue = {} /\ fPending = <<>> /\ DOMAIN fPending = {}
      /\ fResults = <<>> /\ DOMAIN fResults = {}
  BY DEF FaultInit
<1>2. Queued = {} /\ Taken = {} /\ Waiting = {} /\ Outcomes = {}
  BY <1>1 DEF Queued, Taken, Waiting, Outcomes, ToSet
<1>3. CountsShape /\ HeldShape /\ QueueShape /\ TaskShape
  BY FaultConstants DEF FaultInit, CountsShape, HeldShape, QueueShape, TaskShape, NoFaultLease, FaultIdle
<1>4. ControlsInOrder /\ AnswersComeFirst /\ InstallsComeFirst /\ ClearedByTheHead
  BY <1>1, <1>2 DEF ControlsInOrder, AnswersComeFirst, InstallsComeFirst, ClearedByTheHead
<1>5. TokensAreMinted /\ WaitingIsAccountedFor /\ GateIsLast /\ AnswerIsCurrent
  BY <1>2 DEF FaultInit, TokensAreMinted, WaitingIsAccountedFor, GateIsLast, AnswerIsCurrent
<1>6. LeaseIsOfThisPage /\ FaultsAreAccountedFor
  BY DEF FaultInit, LeaseIsOfThisPage, FaultsAreAccountedFor, FaultIdle
<1> QED
  BY <1>3, <1>4, <1>5, <1>6 DEF FaultInv

\* No fault stays in force behind the daemon's back, whatever answer is lost,
\* refused or late, whichever request is dropped, lease expires or window goes:
\* the plan of the page is leased, being installed, about to be taken back, or
\* one whose client hung up; and a plan whose removal was confirmed does not
\* come back (crates/control/src/network_fault.rs).
THEOREM FaultsStayAccountedFor == FaultSpec => []FaultsAreAccountedFor
<1>1. FaultInit => FaultInv
  BY FaultInitKeeps
<1>2. FaultInv /\ [FaultNext]_faultVars => FaultInv'
  <2> SUFFICES ASSUME FaultInv, [FaultNext]_faultVars
               PROVE  FaultInv'
    OBVIOUS
  <2>1. ASSUME UNCHANGED faultVars
        PROVE  FaultInv'
    <3>1. UNCHANGED <<fQueue, fInflight, fResults, fLease, fGate, fPage, fNumber, fPending,
                      fGone, fIds, fMinted, fCleared, fDropped>>
      BY <2>1 DEF faultVars
    <3>2. Queued' = Queued /\ Taken' = Taken /\ Waiting' = Waiting /\ Outcomes' = Outcomes
          /\ \A i : Unexecuted(i)' = Unexecuted(i)
      BY <3>1, SameControls
    <3>3. CountsShape' /\ HeldShape' /\ QueueShape' /\ TaskShape'
      BY <3>1 DEF FaultInv, CountsShape, HeldShape, QueueShape, TaskShape
    <3>4. ControlsInOrder' /\ ClearedByTheHead'
      BY <3>1, <3>2 DEF FaultInv, ControlsInOrder, ClearedByTheHead
    <3>5. AnswersComeFirst' /\ InstallsComeFirst' /\ TokensAreMinted' /\ GateIsLast'
      BY <3>1, <3>2, PageKeepsOrder
    <3>6. WaitingIsAccountedFor' /\ AnswerIsCurrent'
      BY <3>1, <3>2 DEF FaultInv, WaitingIsAccountedFor, AnswerIsCurrent
    <3>7. LeaseIsOfThisPage' /\ FaultsAreAccountedFor'
      BY <3>1 DEF FaultInv, LeaseIsOfThisPage, FaultsAreAccountedFor
    <3> QED
      BY <3>3, <3>4, <3>5, <3>6, <3>7 DEF FaultInv
  <2>2. CASE \E t \in FaultTokens : install_network_faults(t)
    BY <2>2, InstallKeeps
  <2>3. CASE install_failed \/ clear_network_faults
    BY <2>3, InstallFailedKeeps, ClearKeeps
  <2>4. CASE \/ set_network_fault_lease \/ clear_answered \/ fault_request_dropped
             \/ current_live_lease \/ \E n \in 1..MaxFaultPages : invalidate_preview_fault_lease(n)
    BY <2>4, HandlerKeeps
  <2>5. CASE take_network_fault_controls \/ executeNetworkFaultControl \/ complete_network_fault_control
    BY <2>5, TakeKeeps, ExecuteKeeps, CompleteKeeps
  <2>6. CASE activeNetworkFaultLease \/ preview_destroyed
    BY <2>6, PlanGoneKeeps
  <2> QED
    BY <2>1, <2>2, <2>3, <2>4, <2>5, <2>6 DEF FaultNext
<1>3. FaultInv => FaultsAreAccountedFor
  BY DEF FaultInv
<1> QED
  BY <1>1, <1>2, <1>3, PTL DEF FaultSpec
===============================================================================
