--------------------- MODULE ConsequentialJournalProofs ---------------------
(***************************************************************************)
(* Proofs about ConsequentialJournal, for every set of actions, lineages,  *)
(* contracts and faults, and for every bound.                              *)
(*                                                                         *)
(* The inductive invariant ties the authority that callers hold to what    *)
(* the two copies of the history say: while anybody holds dispatch         *)
(* authority for an action, or has used it, both memory and every replay   *)
(* of the file have the action after dispatch.  A fresh PREPARED needs the *)
(* opposite, so there is never a second one.                               *)
(*                                                                         *)
(* The second part is about what the records say of each other and what    *)
(* the journal promises to its callers.                                    *)
(***************************************************************************)
EXTENDS ConsequentialJournal, TLAPS, WellFoundedInduction, SequenceTheorems

Early == {"none", "admitted", "authorized_not_dispatched"}

\* Dispatch authority that was ever minted and not given up unused.
Minted == {t \in held : t.kind # "observation"} \cup effects

EffectsAreExecutions == \A t \in effects : t.kind = "execution"

OneTokenPerAction == \A s, t \in Minted : s.action = t.action => s = t

MintedAfterDispatch ==
  \A t \in Minted :
    /\ mode = "open" => recovery_state_for(entries, t.action) \in AfterDispatch
    /\ Replayable(file) => recovery_state_for(file, t.action) \in AfterDispatch

LiveAfterPrepared ==
  \A g \in live :
    mode = "open" /\ recovery_state_for(entries, g.action) \notin Early

IInv ==
  /\ TypeOK
  /\ EffectsAreExecutions
  /\ OneTokenPerAction
  /\ MintedAfterDispatch
  /\ LiveAfterPrepared
  /\ DispatchExcludesObservation

-----------------------------------------------------------------------------

\* A nonempty set of positions of a sequence has a greatest element, so
\* LastOf picks one of its members.
LEMMA LastOfMember ==
  ASSUME NEW n \in Nat, NEW S \in SUBSET (1 .. n), S # {}
  PROVE  LastOf(S) \in S /\ \A j \in S : j <= LastOf(S)
<1> DEFINE T == {n - i : i \in S}
<1>a. T \subseteq Nat
  OBVIOUS
<1>b. T # {}
  <2>1. PICK i \in S : TRUE
    OBVIOUS
  <2>2. n - i \in T
    BY <2>1
  <2> QED
    BY <2>2
<1>1. T \subseteq Nat /\ T # {}
  BY <1>a, <1>b
<1>2. PICK m \in T : \A y \in T : <<y, m>> \notin OpToRel(<, Nat)
  BY <1>1, WFMin, NatLessThanWellFounded
<1>3. \A y \in T : m <= y
  <2>1. \A x, y \in Nat : x < y => <<x, y>> \in OpToRel(<, Nat)
    BY SMTT(20) DEF OpToRel
  <2>2. \A y \in T : ~(y < m)
    BY <1>1, <1>2, <2>1
  <2>3. m \in Nat /\ \A y \in T : y \in Nat
    BY <1>1, <1>2
  <2> QED
    BY <2>2, <2>3
<1>4. PICK i \in S : m = n - i
  BY <1>2
<1>5. \A j \in S : j <= i
  BY <1>3, <1>4
<1> QED
  BY <1>5 DEF LastOf

\* What a record does to the recovery state of an action.
LEMMA RecoveryStateAppend ==
  ASSUME NEW es \in Seq(Entry), NEW e \in Entry, NEW a
  PROVE  recovery_state_for(Append(es, e), a)
           = IF e.action = a THEN StateAfter(e) ELSE recovery_state_for(es, a)
<1> DEFINE n  == Len(es)
           fs == Append(es, e)
           P  == Positions(es, a, Kinds)
           Q  == Positions(fs, a, Kinds)
<1>1. n \in Nat /\ DOMAIN es = 1 .. n /\ DOMAIN fs = 1 .. n + 1
      /\ fs[n + 1] = e /\ \A i \in 1 .. n : fs[i] = es[i]
  OBVIOUS
<1>2. e.transition \in Kinds
  BY DEF Entry, Records, Kinds
<1>3. P \in SUBSET (1 .. n) /\ Q \in SUBSET (1 .. n + 1)
  BY <1>1 DEF Positions
<1>4. CASE e.action = a
  <2>1. n + 1 \in Q
    BY <1>1, <1>2, <1>4 DEF Positions
  <2>2. LastOf(Q) = n + 1
    <3>1. n + 1 \in Nat /\ Q # {}
      BY <1>1, <2>1
    <3>2. LastOf(Q) \in Q /\ \A j \in Q : j <= LastOf(Q)
      BY <1>3, <3>1, LastOfMember
    <3>3. LastOf(Q) \in 1 .. n + 1 /\ n + 1 <= LastOf(Q)
      BY <1>3, <2>1, <3>2
    <3> HIDE DEF Q, n
    <3> QED
      BY <1>1, <3>3
  <2> QED
    BY <1>1, <1>4, <2>2 DEF recovery_state_for, Latest
<1>5. CASE e.action # a
  <2>1. Q = P
    BY <1>1, <1>5 DEF Positions
  <2>2. CASE P = {}
    BY <1>5, <2>1, <2>2 DEF recovery_state_for, Latest, LastOf
  <2>3. CASE P # {}
    <3>1. LastOf(P) \in 1 .. n
      BY <1>1, <1>3, <2>3, LastOfMember
    <3> QED
      BY <1>1, <1>5, <2>1, <3>1 DEF recovery_state_for, Latest
  <2> QED
    BY <2>2, <2>3
<1> QED
  BY <1>4, <1>5
\* Records of the kinds after dispatch lead only to states after dispatch,
\* except a report that nothing was dispatched.
LEMMA StepKeepsAfterDispatch ==
  ASSUME NEW es \in Seq(Entry), NEW e \in Entry, NEW replay \in BOOLEAN,
         validate_transition(es, e, replay), NEW a,
         recovery_state_for(es, a) \in AfterDispatch,
         e.action = a /\ e.transition = "dispatch_linearized"
           => e.payload \in DispatchedResults
  PROVE  recovery_state_for(Append(es, e), a) \in AfterDispatch
<1>1. CASE e.action # a
  BY <1>1, RecoveryStateAppend
<1>2. CASE e.action = a
  <2>1. recovery_state_for(es, a) \in Sources(e.transition, replay)
    BY <1>2 DEF validate_transition
  <2>2. e.transition \in Kinds
    BY DEF Entry, Records, Kinds
  <2>3. StateAfter(e) \in AfterDispatch
    BY <1>2, <2>1, <2>2
    DEF Sources, StateAfter, AfterDispatch, UncertainStates, Kinds
  <2> QED
    BY <1>2, <2>3, RecoveryStateAppend
<1> QED
  BY <1>1, <1>2

\* An action that was prepared never returns to a state before PREPARED.
LEMMA StepNeverEarly ==
  ASSUME NEW es \in Seq(Entry), NEW e \in Entry, NEW replay \in BOOLEAN,
         validate_transition(es, e, replay), NEW a,
         recovery_state_for(es, a) \notin Early
  PROVE  recovery_state_for(Append(es, e), a) \notin Early
<1>1. CASE e.action # a
  BY <1>1, RecoveryStateAppend
<1>2. CASE e.action = a
  <2>1. recovery_state_for(es, a) \in Sources(e.transition, replay)
    BY <1>2 DEF validate_transition
  <2>2. e.transition \in Kinds
    BY DEF Entry, Records, Kinds
  <2>3. StateAfter(e) \notin Early
    BY <1>2, <2>1, <2>2
    DEF Sources, StateAfter, Early, UncertainStates, Kinds
  <2> QED
    BY <1>2, <2>3, RecoveryStateAppend
<1> QED
  BY <1>1, <1>2

\* A file that replays did so before its last line.
LEMMA ReplayablePrefix ==
  ASSUME NEW es \in Seq(Entry), NEW e \in Entry, Replayable(Append(es, e))
  PROVE  Replayable(es) /\ validate_transition(es, e, TRUE)
<1> DEFINE fs == Append(es, e)
           n  == Len(es)
           m  == n + 1
<1>1. n \in Nat /\ DOMAIN es = 1 .. n
      /\ DOMAIN fs = 1 .. m /\ fs[m] = e
      /\ \A i \in DOMAIN es : i \in DOMAIN fs /\ fs[i] = es[i]
  OBVIOUS
<1>2. \A i \in DOMAIN es : SubSeq(fs, 1, i - 1) = SubSeq(es, 1, i - 1)
  BY <1>1
<1>3. SubSeq(fs, 1, m - 1) = es
  <2>1. m - 1 = n
    BY <1>1
  <2>2. SubSeq(fs, 1, n) = es
    OBVIOUS
  <2> QED
    BY <2>1, <2>2
<1>4. m \in DOMAIN fs
  BY <1>1
<1>5. Replayable(fs)
  OBVIOUS
<1> HIDE DEF fs, n, m
<1>6. \A i \in DOMAIN fs :
        fs[i].seq = i /\ validate_transition(SubSeq(fs, 1, i - 1), fs[i], TRUE)
  BY <1>5, Zenon DEF Replayable
<1>7. ASSUME NEW i \in DOMAIN es
      PROVE  es[i].seq = i /\ validate_transition(SubSeq(es, 1, i - 1), es[i], TRUE)
  <2>1. i \in DOMAIN fs /\ fs[i] = es[i] /\ SubSeq(fs, 1, i - 1) = SubSeq(es, 1, i - 1)
    BY <1>1, <1>2
  <2>2. fs[i].seq = i /\ validate_transition(SubSeq(fs, 1, i - 1), fs[i], TRUE)
    BY <2>1, <1>6, Zenon
  <2> QED
    BY <2>1, <2>2, Zenon
<1>8. Replayable(es)
  BY <1>7, Zenon DEF Replayable
<1>9. validate_transition(SubSeq(fs, 1, m - 1), fs[m], TRUE)
  BY <1>4, <1>6, Zenon
<1>10. fs[m] = e
  BY <1>1
<1> QED
  BY <1>3, <1>8, <1>9, <1>10, Zenon

\* A line keeps the action, kind and payload of its record.
LEMMA LineForEntry ==
  ASSUME NEW e \in Entry
  PROVE  /\ LineFor(e) \in Entry
         /\ LineFor(e).action = e.action
         /\ LineFor(e).transition = e.transition
         /\ LineFor(e).payload = e.payload
BY DEF LineFor, Entry, Records

\* The position of the latest record of some kinds is a position.
LEMMA LatestInDomain ==
  ASSUME NEW es \in Seq(Entry), NEW a, NEW K, Latest(es, a, K) # 0
  PROVE  /\ Latest(es, a, K) \in DOMAIN es
         /\ es[Latest(es, a, K)] \in Entry
<1> DEFINE S == Positions(es, a, K)
<1>1. S \in SUBSET (1 .. Len(es)) /\ Len(es) \in Nat /\ DOMAIN es = 1 .. Len(es)
  BY DEF Positions
<1>2. S # {}
  BY DEF Latest, LastOf
<1>3. Latest(es, a, K) \in DOMAIN es
  BY <1>1, <1>2, LastOfMember DEF Latest
<1> QED
  BY <1>3

\* Every record carries a natural sequence number.
LEMMA EntrySeq == ASSUME NEW e \in Entry PROVE e.seq \in Nat
BY DEF Entry, Records

-----------------------------------------------------------------------------
(***************************************************************************)
(* Appending, whether it succeeds or fails.                                *)
(***************************************************************************)
\* An append changes neither the shape of the file nor that of memory.
LEMMA AppendTypes ==
  ASSUME TypeOK, NEW e \in Entry, append_validated(e) \/ append_fails(e)
  PROVE  /\ file' \in Seq(Entry) /\ tail' \in BOOLEAN
         /\ entries' \in Seq(Entry) /\ next_sequence' = Len(entries') + 1
<1>1. LineFor(e) \in Entry
  BY LineForEntry, Zenon
<1>2. /\ file \in Seq(Entry) /\ tail \in BOOLEAN
      /\ entries \in Seq(Entry) /\ next_sequence = Len(entries) + 1
  BY DEF TypeOK
<1>3. \/ file' = Append(file, LineFor(e)) /\ tail' = FALSE
      \/ file' = file /\ tail' = tail
      \/ file' = file /\ tail' = TRUE
  BY Zenon DEF append_validated, append_fails, disk
<1>4. \/ entries' = Append(entries, e) /\ next_sequence' = next_sequence + 1
      \/ entries' = entries /\ next_sequence' = next_sequence
  BY Zenon DEF append_validated, append_fails, memory
<1>5. tail' \in BOOLEAN
  BY <1>2, <1>3, Zenon
<1>6. file' \in Seq(Entry)
  BY <1>1, <1>2, <1>3
<1>7. entries' \in Seq(Entry) /\ next_sequence' = Len(entries') + 1
  <2>1. Append(entries, e) \in Seq(Entry)
        /\ Len(Append(entries, e)) = Len(entries) + 1
    BY <1>2
  <2>2. CASE entries' = Append(entries, e) /\ next_sequence' = next_sequence + 1
    BY <1>2, <2>1, <2>2
  <2>3. CASE entries' = entries /\ next_sequence' = next_sequence
    BY <1>2, <2>3, Zenon
  <2> QED
    BY <1>4, <2>2, <2>3
<1> QED
  BY <1>5, <1>6, <1>7, Zenon

\* Memory gains the record or stays; the file gains its line or stays.
LEMMA AppendShape ==
  ASSUME NEW e, append_validated(e) \/ append_fails(e)
  PROVE  /\ mode = "open" /\ validate_transition(entries, e, FALSE)
         /\ entries' = Append(entries, e) \/ entries' = entries
         /\ file' = Append(file, LineFor(e)) \/ file' = file
BY DEF append_validated, append_fails, disk, memory

\* A record that is not a report of no dispatch for b leaves b after
\* dispatch, in memory and in every replay of the file.
LEMMA AppendKeepsAfterDispatch ==
  ASSUME TypeOK, NEW e \in Entry, append_validated(e) \/ append_fails(e), NEW b,
         e.action = b /\ e.transition = "dispatch_linearized"
           => e.payload \in DispatchedResults,
         recovery_state_for(entries, b) \in AfterDispatch,
         Replayable(file) => recovery_state_for(file, b) \in AfterDispatch
  PROVE  /\ recovery_state_for(entries', b) \in AfterDispatch
         /\ Replayable(file') => recovery_state_for(file', b) \in AfterDispatch
<1>1. entries \in Seq(Entry) /\ file \in Seq(Entry)
  BY DEF TypeOK
<1>2. /\ validate_transition(entries, e, FALSE)
      /\ entries' = Append(entries, e) \/ entries' = entries
      /\ file' = Append(file, LineFor(e)) \/ file' = file
  BY AppendShape, Zenon
<1>3. recovery_state_for(Append(entries, e), b) \in AfterDispatch
  BY <1>1, <1>2, StepKeepsAfterDispatch, FALSE \in BOOLEAN, Zenon
<1>4. ASSUME Replayable(Append(file, LineFor(e)))
      PROVE  recovery_state_for(Append(file, LineFor(e)), b) \in AfterDispatch
  <2>1. /\ LineFor(e) \in Entry /\ LineFor(e).action = e.action
        /\ LineFor(e).transition = e.transition /\ LineFor(e).payload = e.payload
    BY LineForEntry, Zenon
  <2>2. Replayable(file) /\ validate_transition(file, LineFor(e), TRUE)
    BY <1>1, <1>4, <2>1, ReplayablePrefix, Zenon
  <2>3. LineFor(e).action = b /\ LineFor(e).transition = "dispatch_linearized"
          => LineFor(e).payload \in DispatchedResults
    BY <2>1, Zenon
  <2> QED
    BY <1>1, <2>1, <2>2, <2>3, StepKeepsAfterDispatch, TRUE \in BOOLEAN, Zenon
<1> QED
  BY <1>2, <1>3, <1>4, Zenon

\* Memory never takes a prepared action back.
LEMMA AppendNeverEarly ==
  ASSUME TypeOK, NEW e \in Entry, append_validated(e) \/ append_fails(e), NEW b,
         recovery_state_for(entries, b) \notin Early
  PROVE  recovery_state_for(entries', b) \notin Early
<1>1. entries \in Seq(Entry)
  BY DEF TypeOK
<1>2. /\ validate_transition(entries, e, FALSE)
      /\ entries' = Append(entries, e) \/ entries' = entries
  BY AppendShape, Zenon
<1>3. recovery_state_for(Append(entries, e), b) \notin Early
  BY <1>1, <1>2, StepNeverEarly, FALSE \in BOOLEAN, Zenon
<1> QED
  BY <1>2, <1>3, Zenon

-----------------------------------------------------------------------------
(***************************************************************************)
(* Steps that leave both copies of the history alone.                      *)
(***************************************************************************)
\* Giving up authority, or using a permit, adds neither authority nor grants.
LEMMA QuietStep ==
  ASSUME IInv, UNCHANGED <<file, entries, mode>>,
         Minted' \subseteq Minted, live' \subseteq live, EffectsAreExecutions'
  PROVE  /\ OneTokenPerAction' /\ MintedAfterDispatch'
         /\ LiveAfterPrepared' /\ DispatchExcludesObservation'
<1>1. OneTokenPerAction /\ MintedAfterDispatch /\ LiveAfterPrepared
      /\ DispatchExcludesObservation
  BY DEF IInv
<1>2. OneTokenPerAction'
  BY <1>1, Zenon DEF OneTokenPerAction
<1>3. MintedAfterDispatch'
  BY <1>1, Zenon DEF MintedAfterDispatch
<1>4. LiveAfterPrepared'
  BY <1>1, Zenon DEF LiveAfterPrepared
<1>5. DispatchExcludesObservation'
  BY <1>1, Zenon DEF DispatchExcludesObservation
<1> QED
  BY <1>2, <1>3, <1>4, <1>5

\* Abandoning or dropping a token.
LEMMA GiveUpStep ==
  ASSUME IInv, NEW t \in held, held' = held \ {t}, live' \subseteq live,
         observed' \subseteq ObservationReceipt,
         UNCHANGED <<disk, process, memory, cuts, effects>>
  PROVE  IInv'
<1>1. TypeOK'
  BY DEF IInv, TypeOK, disk, process, memory
<1>2. EffectsAreExecutions'
  BY DEF IInv, EffectsAreExecutions
<1>3. Minted' \subseteq Minted
  BY DEF Minted
<1> QED
  BY <1>1, <1>2, <1>3, QuietStep, Zenon DEF IInv, disk, process, memory

\* An executor acts on the permit it holds.
LEMMA ExecutorActsStep ==
  ASSUME IInv, NEW t \in held, executor_acts(t)
  PROVE  IInv'
<1>1. TypeOK'
  BY DEF IInv, TypeOK, executor_acts, disk, process, memory
<1>2. EffectsAreExecutions'
  BY DEF IInv, EffectsAreExecutions, executor_acts
<1>3. Minted' \subseteq Minted
  BY DEF Minted, executor_acts
<1> QED
  BY <1>1, <1>2, <1>3, QuietStep, Zenon
  DEF IInv, executor_acts, disk, process, memory

\* A capability is exchanged for the one execution permit, or lost.
LEMMA BeginDispatchStep ==
  ASSUME IInv, NEW t \in held, begin_dispatch(t)
  PROVE  IInv'
<1> DEFINE g == [GrantOf(t) EXCEPT !.kind = "execution"]
<1>1. /\ t \in Token /\ t.kind = "prepared" /\ mode = "open" /\ instance \in Nat
      /\ UNCHANGED <<disk, process, memory, observed, cuts, effects>>
  BY DEF IInv, TypeOK, begin_dispatch
<1>2. CASE Accepted(t) /\ DurablyPrepared(t)
  <2>1. /\ live' = Insert(live \ {GrantOf(t)}, g)
        /\ held' = (held \ {t}) \cup {TokenOf(g)}
    BY <1>2 DEF begin_dispatch
  <2>2. /\ g \in Grant /\ TokenOf(g) \in Token /\ g.action = t.action
        /\ TokenOf(g).action = t.action /\ TokenOf(g).kind = "execution"
        /\ GrantOf(t).action = t.action
    BY <1>1 DEF Grant, Token, GrantOf, TokenOf, TokenKinds
  <2> HIDE DEF g
  <2>3. TypeOK'
    BY <1>1, <2>1, <2>2 DEF IInv, TypeOK, disk, process, memory, Insert
  <2>4. EffectsAreExecutions'
    BY <1>1 DEF IInv, EffectsAreExecutions
  <2>5. t \in Minted /\ t \notin effects
    BY <1>1 DEF IInv, EffectsAreExecutions, Minted
  <2>6. Minted' \subseteq (Minted \ {t}) \cup {TokenOf(g)}
    BY <1>1, <2>1, <2>5 DEF Minted
  <2>7. OneTokenPerAction'
    BY <2>2, <2>5, <2>6 DEF IInv, OneTokenPerAction
  <2>8. MintedAfterDispatch'
    <3>1. MintedAfterDispatch
      BY DEF IInv
    <3>2. ASSUME NEW s \in Minted'
          PROVE  \E u \in Minted : u.action = s.action
      BY <2>2, <2>5, <2>6
    <3> QED
      BY <1>1, <3>1, <3>2, Zenon
      DEF MintedAfterDispatch, disk, process, memory
  <2>9. live' \subseteq (live \ {GrantOf(t)}) \cup {g} /\ GrantOf(t) \in live
    BY <1>2, <2>1 DEF Insert, Accepted
  <2>10. LiveAfterPrepared'
    <3>1. ASSUME NEW h \in live'
          PROVE  \E k \in live : k.action = h.action
      BY <2>2, <2>9
    <3> QED
      BY <1>1, <3>1, Zenon DEF IInv, LiveAfterPrepared, disk, process, memory
  <2>11. DispatchExcludesObservation'
    BY <2>2, <2>9 DEF IInv, DispatchExcludesObservation
  <2> QED
    BY <2>3, <2>4, <2>7, <2>8, <2>10, <2>11 DEF IInv
<1>3. CASE ~(Accepted(t) /\ DurablyPrepared(t))
  <2>1. held' = held \ {t} /\ live' \subseteq live
    BY <1>3 DEF begin_dispatch
  <2>2. observed' \subseteq ObservationReceipt
    BY <1>1 DEF IInv, TypeOK
  <2> QED
    BY <1>1, <2>1, <2>2, GiveUpStep
<1> QED
  BY <1>2, <1>3

\* An observation permit is minted only where no other grant lives.
LEMMA BeginObservationStep ==
  ASSUME IInv, NEW a \in Actions, begin_postcondition_observation(a)
  PROVE  IInv'
<1> DEFINE g == [kind |-> "observation", action |-> a,
                 seq  |-> postcondition_observation_cause_for(entries, a),
                 cut  |-> cuts + 1]
<1>1. /\ mode = "open" /\ ~HasLive(a, {"prepared", "execution"})
      /\ ~HasLive(a, {"observation"})
      /\ recovery_state_for(entries, a) \in UncertainStates
      /\ Latest(entries, a, CauseKinds) # 0
      /\ live' = Insert(live, g) /\ held' = held \cup {TokenOf(g)}
      /\ cuts' = cuts + 1
      /\ UNCHANGED <<disk, process, memory, observed, effects>>
  BY Zenon DEF begin_postcondition_observation
<1>2. /\ entries \in Seq(Entry) /\ live \subseteq Grant /\ instance \in Nat
      /\ cuts \in Nat
  BY DEF IInv, TypeOK
<1>3. postcondition_observation_cause_for(entries, a) \in Nat
  BY <1>1, <1>2, LatestInDomain, EntrySeq, Zenon
  DEF postcondition_observation_cause_for
<1>4. /\ g \in Grant /\ TokenOf(g) \in Token /\ g.action = a
      /\ TokenOf(g).kind = "observation"
  BY <1>2, <1>3 DEF Grant, Token, TokenOf, TokenKinds
<1> HIDE DEF g
<1>5. TypeOK'
  BY <1>1, <1>2, <1>4 DEF IInv, TypeOK, disk, process, memory, Insert
<1>6. EffectsAreExecutions' /\ Minted' = Minted
  BY <1>1, <1>4 DEF IInv, EffectsAreExecutions, Minted
<1>7. OneTokenPerAction' /\ MintedAfterDispatch'
  BY <1>1, <1>6, Zenon
  DEF IInv, OneTokenPerAction, MintedAfterDispatch, disk, process, memory
<1>8. \A h \in live : h.action # a
  BY <1>1, <1>2 DEF HasLive, Grant, TokenKinds
<1>9. live' \subseteq live \cup {g}
  BY <1>1 DEF Insert
<1>10. LiveAfterPrepared'
  <2>1. recovery_state_for(entries, a) \notin Early
    BY <1>1 DEF UncertainStates, Early
  <2> QED
    BY <1>1, <1>4, <1>9, <2>1
    DEF IInv, LiveAfterPrepared, disk, process, memory
<1>11. DispatchExcludesObservation'
  BY <1>4, <1>8, <1>9 DEF IInv, DispatchExcludesObservation
<1> QED
  BY <1>5, <1>6, <1>7, <1>10, <1>11 DEF IInv

-----------------------------------------------------------------------------
(***************************************************************************)
(* Steps that append.                                                      *)
(***************************************************************************)
\* A record that hands out no authority and is no dispatch report.
LEMMA AppendOnlyStep ==
  ASSUME IInv, NEW e \in Entry, e.transition # "dispatch_linearized",
         append_validated(e) \/ append_fails(e),
         UNCHANGED <<process, live, held, observed, cuts, effects>>
  PROVE  IInv'
<1>1. TypeOK /\ mode = "open" /\ mode' = mode
  BY AppendShape DEF IInv, process
<1>2. TypeOK'
  <2>1. /\ file' \in Seq(Entry) /\ tail' \in BOOLEAN
        /\ entries' \in Seq(Entry) /\ next_sequence' = Len(entries') + 1
    BY <1>1, AppendTypes, Zenon
  <2> QED
    BY <1>1, <2>1, Zenon DEF TypeOK, process
<1>3. EffectsAreExecutions' /\ Minted' = Minted
  BY DEF IInv, EffectsAreExecutions, Minted
<1>4. OneTokenPerAction' /\ DispatchExcludesObservation'
  BY <1>3, Zenon DEF IInv, OneTokenPerAction, DispatchExcludesObservation
<1>5. MintedAfterDispatch'
  <2>1. ASSUME NEW t \in Minted
        PROVE  /\ recovery_state_for(entries', t.action) \in AfterDispatch
               /\ Replayable(file') =>
                    recovery_state_for(file', t.action) \in AfterDispatch
    <3>1. /\ recovery_state_for(entries, t.action) \in AfterDispatch
          /\ Replayable(file) => recovery_state_for(file, t.action) \in AfterDispatch
      BY <1>1, Zenon DEF IInv, MintedAfterDispatch
    <3> QED
      BY <1>1, <3>1, AppendKeepsAfterDispatch, Zenon
  <2> QED
    BY <1>3, <2>1, Zenon DEF MintedAfterDispatch
<1>6. LiveAfterPrepared'
  <2>1. ASSUME NEW h \in live
        PROVE  recovery_state_for(entries', h.action) \notin Early
    <3>1. recovery_state_for(entries, h.action) \notin Early
      BY Zenon DEF IInv, LiveAfterPrepared
    <3> QED
      BY <1>1, <3>1, AppendNeverEarly, Zenon
  <2> QED
    BY <1>1, <2>1, Zenon DEF LiveAfterPrepared
<1> QED
  BY <1>2, <1>3, <1>4, <1>5, <1>6 DEF IInv

\* PREPARED is recorded only for an action nobody has authority for, so the
\* capability it mints is the only one.
LEMMA PreparedStep ==
  ASSUME IInv, NEW a \in Actions,
         NEW receipt \in [authorization : Nat, lineage : Lineages],
         record_dispatch_prepared(a, receipt)
  PROVE  IInv'
<1> DEFINE e == Record(a, "dispatch_prepared", receipt)
           g == [kind |-> "prepared", action |-> a, seq |-> next_sequence,
                 cut |-> PreconditionCut]
<1>1. TypeOK /\ entries \in Seq(Entry) /\ file \in Seq(Entry)
      /\ next_sequence \in Nat /\ instance \in Nat
  BY DEF IInv, TypeOK
<1>2. e \in Entry /\ e.action = a /\ e.transition = "dispatch_prepared"
  BY <1>1 DEF Record, Entry, Records
<1>3. /\ g \in Grant /\ TokenOf(g) \in Token /\ g.action = a
      /\ TokenOf(g).action = a
  BY <1>1 DEF Grant, Token, TokenOf, TokenKinds, PreconditionCut
<1>4. \/ /\ append_validated(e)
         /\ live' = Insert(live, g) /\ held' = held \cup {TokenOf(g)}
         /\ UNCHANGED <<process, observed, cuts, effects>>
      \/ /\ append_fails(e)
         /\ UNCHANGED <<process, live, held, observed, cuts, effects>>
  BY Zenon DEF record_dispatch_prepared
<1>5. StateAfter(e) = "dispatch_prepared"
  BY <1>2, Zenon DEF StateAfter
<1> HIDE DEF e, g
<1>6. CASE append_fails(e) /\ UNCHANGED <<process, live, held, observed, cuts, effects>>
  BY <1>2, <1>6, AppendOnlyStep
<1>7. CASE /\ append_validated(e)
           /\ live' = Insert(live, g) /\ held' = held \cup {TokenOf(g)}
           /\ UNCHANGED <<process, observed, cuts, effects>>
  <2>1. /\ mode = "open" /\ mode' = "open" /\ validate_transition(entries, e, FALSE)
        /\ entries' = Append(entries, e) /\ file' = Append(file, LineFor(e))
    BY <1>7, Zenon DEF append_validated, process
  <2>2. recovery_state_for(entries, a) = "authorized_not_dispatched"
    BY <1>2, <2>1 DEF validate_transition, Sources
  <2>3. recovery_state_for(entries, a) \in Early
        /\ recovery_state_for(entries, a) \notin AfterDispatch
    BY <2>2 DEF Early, AfterDispatch, UncertainStates
  <2>4. \A t \in Minted : t.action # a
    BY <2>1, <2>3, Zenon DEF IInv, MintedAfterDispatch
  <2>5. \A h \in live : h.action # a
    BY <2>3, Zenon DEF IInv, LiveAfterPrepared
  <2>6. Minted' \subseteq Minted \cup {TokenOf(g)}
    BY <1>7 DEF Minted
  <2>7. live' \subseteq live \cup {g}
    BY <1>7 DEF Insert
  <2>8. recovery_state_for(entries', a) = "dispatch_prepared"
    BY <1>1, <1>2, <1>5, <2>1, RecoveryStateAppend
  <2>9. recovery_state_for(file', a) = "dispatch_prepared"
    <3>1. LineFor(e) \in Entry /\ LineFor(e).action = a
          /\ LineFor(e).transition = "dispatch_prepared"
      BY <1>2, LineForEntry
    <3>2. StateAfter(LineFor(e)) = "dispatch_prepared"
      BY <3>1, Zenon DEF StateAfter
    <3> QED
      BY <1>1, <2>1, <3>1, <3>2, RecoveryStateAppend
  <2>10. "dispatch_prepared" \in AfterDispatch /\ "dispatch_prepared" \notin Early
    BY DEF AfterDispatch, UncertainStates, Early
  <2>11. append_validated(e) \/ append_fails(e)
    BY <1>7
  <2>12. TypeOK'
    <3>1. /\ file' \in Seq(Entry) /\ tail' \in BOOLEAN
          /\ entries' \in Seq(Entry) /\ next_sequence' = Len(entries') + 1
      BY <1>1, <1>2, <2>11, AppendTypes, Zenon
    <3>2. /\ live' \subseteq Grant /\ held' \subseteq Token
      BY <1>1, <1>3, <1>7, <2>7 DEF TypeOK
    <3> QED
      BY <1>1, <1>7, <3>1, <3>2, Zenon DEF TypeOK, process
  <2>13. EffectsAreExecutions'
    BY <1>7 DEF IInv, EffectsAreExecutions
  <2>14. OneTokenPerAction'
    BY <1>3, <2>4, <2>6 DEF IInv, OneTokenPerAction
  <2>15. MintedAfterDispatch'
    <3>1. ASSUME NEW t \in Minted
          PROVE  /\ recovery_state_for(entries', t.action) \in AfterDispatch
                 /\ Replayable(file') =>
                      recovery_state_for(file', t.action) \in AfterDispatch
      <4>1. /\ recovery_state_for(entries, t.action) \in AfterDispatch
            /\ Replayable(file) => recovery_state_for(file, t.action) \in AfterDispatch
        BY <2>1, Zenon DEF IInv, MintedAfterDispatch
      <4>2. e.action # t.action
        BY <1>2, <2>4
      <4> QED
        BY <1>1, <1>2, <2>11, <4>1, <4>2, AppendKeepsAfterDispatch, Zenon
    <3>2. ASSUME NEW t \in Minted'
          PROVE  /\ recovery_state_for(entries', t.action) \in AfterDispatch
                 /\ Replayable(file') =>
                      recovery_state_for(file', t.action) \in AfterDispatch
      <4>1. CASE t \in Minted
        BY <3>1, <4>1, Zenon
      <4>2. CASE t = TokenOf(g)
        BY <1>3, <2>8, <2>9, <2>10, <4>2, Zenon
      <4> QED
        BY <2>6, <4>1, <4>2
    <3> QED
      BY <3>2, Zenon DEF MintedAfterDispatch
  <2>16. LiveAfterPrepared'
    <3>1. ASSUME NEW h \in live'
          PROVE  recovery_state_for(entries', h.action) \notin Early
      <4>1. CASE h = g
        BY <1>3, <2>8, <2>10, <4>1, Zenon
      <4>2. CASE h \in live
        <5>1. recovery_state_for(entries, h.action) \notin Early
          BY <4>2, Zenon DEF IInv, LiveAfterPrepared
        <5> QED
          BY <1>1, <1>2, <2>11, <5>1, AppendNeverEarly, Zenon
      <4> QED
        BY <2>7, <4>1, <4>2
    <3> QED
      BY <2>1, <3>1, Zenon DEF LiveAfterPrepared
  <2>17. DispatchExcludesObservation'
    BY <1>3, <2>5, <2>7 DEF IInv, DispatchExcludesObservation
  <2> QED
    BY <2>12, <2>13, <2>14, <2>15, <2>16, <2>17 DEF IInv
<1> QED
  BY <1>4, <1>6, <1>7

\* A report gives up the only authority for its action, so nobody is left to
\* act after a report of no dispatch.
LEMMA LinearizedStep ==
  ASSUME IInv, NEW t \in held, NEW result \in Reports(t),
         record_dispatch_linearized(t, result)
  PROVE  IInv'
<1> DEFINE e == Record(t.action, "dispatch_linearized", result)
<1>1. TypeOK /\ t \in Token /\ t.action \in Actions /\ next_sequence \in Nat
  BY DEF IInv, TypeOK, Token
<1>2. result \in DispatchedResults \cup NotDispatchedResults
      /\ (t \in effects => result \in DispatchedResults)
  BY DEF Reports
<1>3. /\ e \in Entry /\ e.action = t.action /\ e.payload = result
  BY <1>1, <1>2 DEF Record, Entry, Records
<1>4. /\ mode = "open" /\ t.kind = "execution" /\ held' = held \ {t}
      /\ live' \subseteq live
      /\ UNCHANGED <<process, observed, cuts, effects>>
  BY DEF record_dispatch_linearized
<1>5. (append_validated(e) \/ append_fails(e)) \/ UNCHANGED <<disk, memory>>
  BY Zenon DEF record_dispatch_linearized
<1> HIDE DEF e
<1>6. CASE UNCHANGED <<disk, memory>>
  <2>1. observed' \subseteq ObservationReceipt
    BY <1>1, <1>4 DEF TypeOK
  <2> QED
    BY <1>4, <1>6, <2>1, GiveUpStep
<1>7. CASE append_validated(e) \/ append_fails(e)
  <2>1. TypeOK'
    <3>1. /\ file' \in Seq(Entry) /\ tail' \in BOOLEAN
          /\ entries' \in Seq(Entry) /\ next_sequence' = Len(entries') + 1
      BY <1>1, <1>3, <1>7, AppendTypes, Zenon
    <3>2. live' \subseteq Grant /\ held' \subseteq Token
      BY <1>1, <1>4 DEF TypeOK
    <3> QED
      BY <1>1, <1>4, <3>1, <3>2, Zenon DEF TypeOK, process
  <2>2. EffectsAreExecutions' /\ Minted' \subseteq Minted
    BY <1>4 DEF IInv, EffectsAreExecutions, Minted
  <2>3. OneTokenPerAction'
    BY <2>2, Zenon DEF IInv, OneTokenPerAction
  <2>4. DispatchExcludesObservation'
    BY <1>4, Zenon DEF IInv, DispatchExcludesObservation
  <2>5. t \in Minted
    BY <1>4 DEF Minted
  <2>6. ASSUME NEW s \in Minted', s.action = t.action
        PROVE  result \in DispatchedResults
    <3>1. s = t
      BY <2>2, <2>5, <2>6, Zenon DEF IInv, OneTokenPerAction
    <3>2. t \in effects
      BY <1>4, <2>6, <3>1 DEF Minted
    <3> QED
      BY <1>2, <3>2
  <2>7. MintedAfterDispatch'
    <3>1. ASSUME NEW s \in Minted'
          PROVE  /\ recovery_state_for(entries', s.action) \in AfterDispatch
                 /\ Replayable(file') =>
                      recovery_state_for(file', s.action) \in AfterDispatch
      <4>1. /\ recovery_state_for(entries, s.action) \in AfterDispatch
            /\ Replayable(file) => recovery_state_for(file, s.action) \in AfterDispatch
        BY <1>4, <2>2, Zenon DEF IInv, MintedAfterDispatch
      <4>2. e.action = s.action /\ e.transition = "dispatch_linearized"
              => e.payload \in DispatchedResults
        BY <1>3, <2>6
      <4> QED
        BY <1>1, <1>3, <1>7, <4>1, <4>2, AppendKeepsAfterDispatch, Zenon
    <3> QED
      BY <3>1, Zenon DEF MintedAfterDispatch
  <2>8. LiveAfterPrepared'
    <3>1. ASSUME NEW h \in live'
          PROVE  recovery_state_for(entries', h.action) \notin Early
      <4>1. recovery_state_for(entries, h.action) \notin Early
        BY <1>4, Zenon DEF IInv, LiveAfterPrepared
      <4> QED
        BY <1>1, <1>3, <1>7, <4>1, AppendNeverEarly, Zenon
    <3>2. mode' = "open"
      BY <1>4 DEF process
    <3> QED
      BY <3>1, <3>2, Zenon DEF LiveAfterPrepared
  <2> QED
    BY <2>1, <2>2, <2>3, <2>4, <2>7, <2>8 DEF IInv
<1> QED
  BY <1>5, <1>6, <1>7

-----------------------------------------------------------------------------
(***************************************************************************)
(* Observing, closing and opening.                                         *)
(***************************************************************************)
\* Completing an observation gives up its permit for at most a receipt.
LEMMA CompleteObservationStep ==
  ASSUME IInv, NEW t \in held, NEW l \in Lineages, NEW c \in 0 .. cuts,
         complete_postcondition_observation(t, l, c)
  PROVE  IInv'
<1>1. /\ t \in Token /\ observed \subseteq ObservationReceipt /\ cuts \in Nat
  BY DEF IInv, TypeOK
<1>2. [action |-> t.action, lineage |-> l, cut |-> c, cause |-> t.seq]
        \in ObservationReceipt
  BY <1>1 DEF Token, ObservationReceipt
<1>3. observed' \subseteq ObservationReceipt
  BY <1>1, <1>2 DEF complete_postcondition_observation
<1>4. /\ held' = held \ {t} /\ live' \subseteq live
      /\ UNCHANGED <<disk, process, memory, cuts, effects>>
  BY DEF complete_postcondition_observation
<1> QED
  BY <1>3, <1>4, GiveUpStep

\* Closing keeps at most what was held.
LEMMA CloseStep ==
  ASSUME IInv, NEW kept \in SUBSET held, NEW seen \in SUBSET observed,
         close(kept, seen)
  PROVE  IInv'
<1>1. /\ mode' = "closed" /\ live' = {} /\ held' = kept /\ observed' = seen
      /\ entries' = <<>> /\ next_sequence' = 1
      /\ UNCHANGED <<disk, instance, cuts, effects>>
  BY DEF close
<1>2. TypeOK'
  <2>1. entries' \in Seq(Entry) /\ next_sequence' = Len(entries') + 1
    BY <1>1
  <2> QED
    BY <1>1, <2>1 DEF IInv, TypeOK, disk
<1>3. EffectsAreExecutions' /\ Minted' \subseteq Minted
  BY <1>1 DEF IInv, EffectsAreExecutions, Minted
<1>4. OneTokenPerAction'
  BY <1>3, Zenon DEF IInv, OneTokenPerAction
<1>5. MintedAfterDispatch'
  BY <1>1, <1>3 DEF IInv, MintedAfterDispatch, disk
<1>6. LiveAfterPrepared' /\ DispatchExcludesObservation'
  BY <1>1 DEF LiveAfterPrepared, DispatchExcludesObservation
<1> QED
  BY <1>2, <1>3, <1>4, <1>5, <1>6 DEF IInv

\* What a replay reads is what the invariant says of the file.
LEMMA OpenStep ==
  ASSUME IInv, open
  PROVE  IInv'
<1>1. /\ mode = "closed" /\ tail' = FALSE
      /\ UNCHANGED <<file, live, held, observed, cuts, effects>>
      /\ \/ /\ Replayable(file) /\ mode' = "open" /\ instance' = instance + 1
            /\ entries' = file /\ next_sequence' = Len(file) + 1
         \/ /\ mode' = "refused"
            /\ UNCHANGED <<instance, memory>>
  BY Zenon DEF open
<1>2. live = {}
  BY <1>1 DEF IInv, LiveAfterPrepared
<1>3. TypeOK'
  <2>1. /\ entries' \in Seq(Entry) /\ next_sequence' = Len(entries') + 1
        /\ mode' \in {"closed", "open", "refused"} /\ instance' \in Nat
    BY <1>1 DEF IInv, TypeOK, memory
  <2>2. tail' \in BOOLEAN
    BY <1>1, Zenon
  <2> QED
    BY <1>1, <2>1, <2>2, Zenon DEF IInv, TypeOK
<1>4. EffectsAreExecutions' /\ Minted' = Minted
  BY <1>1 DEF IInv, EffectsAreExecutions, Minted
<1>5. OneTokenPerAction'
  BY <1>4, Zenon DEF IInv, OneTokenPerAction
<1>6. MintedAfterDispatch'
  <2>1. MintedAfterDispatch /\ file' = file
    BY <1>1 DEF IInv
  <2>2. mode' = "open" => Replayable(file) /\ entries' = file
    BY <1>1
  <2> QED
    BY <1>4, <2>1, <2>2, Zenon DEF MintedAfterDispatch
<1>7. LiveAfterPrepared' /\ DispatchExcludesObservation'
  BY <1>1, <1>2 DEF LiveAfterPrepared, DispatchExcludesObservation
<1> QED
  BY <1>3, <1>4, <1>5, <1>6, <1>7 DEF IInv

-----------------------------------------------------------------------------
(***************************************************************************)
(* The invariant holds.                                                    *)
(***************************************************************************)
LEMMA InitIInv == Init => IInv
<1> SUFFICES ASSUME Init PROVE IInv
  OBVIOUS
<1>1. file \in Seq(Entry)
  BY ConstantsAssumption DEF Init
<1>2. <<>> \in Seq(Entry) /\ Len(<<>>) = 0
  OBVIOUS
<1>3. TypeOK
  <2>1. tail \in BOOLEAN
    BY Zenon DEF Init
  <2>2. entries \in Seq(Entry) /\ next_sequence = Len(entries) + 1
        /\ instance \in Nat /\ cuts \in Nat
    BY <1>2 DEF Init
  <2> QED
    BY <1>1, <2>1, <2>2 DEF Init, TypeOK
<1>4. Minted = {}
  BY DEF Init, Minted
<1> QED
  BY <1>3, <1>4
  DEF Init, IInv, EffectsAreExecutions, OneTokenPerAction, MintedAfterDispatch,
      LiveAfterPrepared, DispatchExcludesObservation

\* One case per action of Next.
LEMMA NextIInv == IInv /\ [Next]_vars => IInv'
<1> SUFFICES ASSUME IInv, [Next]_vars PROVE IInv'
  OBVIOUS
<1>t. next_sequence \in Nat
  BY DEF IInv, TypeOK
<1>1. ASSUME NEW a \in Actions, NEW env \in Envelopes, record_intent_admitted(a, env)
      PROVE  IInv'
  <2> DEFINE e == Record(a, "intent_admitted", env)
  <2>1. e \in Entry /\ e.transition # "dispatch_linearized"
    BY <1>t, ConstantsAssumption DEF Record, Entry, Records
  <2> QED
    BY <1>1, <2>1, AppendOnlyStep, Zenon DEF record_intent_admitted, append_only
<1>2. ASSUME NEW a \in Actions, NEW r \in Revisions, NEW b \in BOOLEAN,
             record_authorization(a, r, b)
      PROVE  IInv'
  <2> DEFINE e == Record(a, "authorization_recorded",
                         [revision |-> r, revalidated |-> b])
  <2>1. e \in Entry /\ e.transition # "dispatch_linearized"
    BY <1>t DEF Record, Entry, Records
  <2> QED
    BY <1>2, <2>1, AppendOnlyStep, Zenon DEF record_authorization, append_only
<1>3. ASSUME NEW a \in Actions, NEW n \in 1 .. MaxRecords, NEW l \in Lineages,
             record_dispatch_prepared(a, [authorization |-> n, lineage |-> l])
      PROVE  IInv'
  <2>1. [authorization |-> n, lineage |-> l] \in [authorization : Nat, lineage : Lineages]
    BY ConstantsAssumption
  <2> QED
    BY <1>3, <2>1, PreparedStep, Zenon
<1>4. ASSUME NEW a \in Actions, NEW b \in BOOLEAN, record_compensation(a, b)
      PROVE  IInv'
  <2> DEFINE e == Record(a, "compensation_recorded", b)
  <2>1. e \in Entry /\ e.transition # "dispatch_linearized"
    BY <1>t DEF Record, Entry, Records
  <2> QED
    BY <1>4, <2>1, AppendOnlyStep, Zenon DEF record_compensation, append_only
<1>5. ASSUME NEW a \in Actions, record_committed(a)
      PROVE  IInv'
  <2> DEFINE e == Record(a, "committed", TRUE)
  <2>1. e \in Entry /\ e.transition # "dispatch_linearized"
    BY <1>t DEF Record, Entry, Records
  <2> QED
    BY <1>5, <2>1, AppendOnlyStep, Zenon DEF record_committed, append_only
<1>6. ASSUME NEW o \in observed, NEW ev \in Evidence,
             record_action_postcondition_receipt(o, ev)
      PROVE  IInv'
  <2> DEFINE p == [lineage |-> o.lineage, cut |-> o.cut,
                   cause |-> o.cause, evidence |-> ev]
             e == Record(o.action, "postcondition_receipt", p)
  <2>1. e \in Entry /\ e.transition # "dispatch_linearized"
    <3>1. o \in ObservationReceipt
      BY DEF IInv, TypeOK
    <3> QED
      BY <1>t, <3>1 DEF Record, Entry, Records, ObservationReceipt
  <2> QED
    BY <1>6, <2>1, AppendOnlyStep, Zenon
    DEF record_action_postcondition_receipt, append_only
<1>7. ASSUME NEW t \in held,
             \/ abandon_dispatch_execution(t)
             \/ abandon_postcondition_observation(t)
             \/ drop_token(t)
      PROVE  IInv'
  <2>1. observed \subseteq ObservationReceipt
    BY DEF IInv, TypeOK
  <2>2. /\ held' = held \ {t} /\ live' \subseteq live /\ observed' = observed
        /\ UNCHANGED <<disk, process, memory, cuts, effects>>
    BY <1>7
    DEF abandon_dispatch_execution, abandon_postcondition_observation, drop_token
  <2> QED
    BY <2>1, <2>2, GiveUpStep
<1>8. ASSUME close({}, {}) \/ close(held, observed)
      PROVE  IInv'
  BY <1>8, CloseStep
<1>9. CASE UNCHANGED vars
  <2>1. UNCHANGED <<file, tail, mode, instance, entries, next_sequence,
                    live, held, observed, cuts, effects>>
    BY <1>9 DEF vars
  <2>2. TypeOK'
    BY <2>1, Zenon DEF IInv, TypeOK
  <2>3. EffectsAreExecutions' /\ Minted' = Minted
    BY <2>1 DEF IInv, EffectsAreExecutions, Minted
  <2> QED
    BY <2>1, <2>2, <2>3, QuietStep, Zenon DEF IInv
<1> QED
  BY <1>1, <1>2, <1>3, <1>4, <1>5, <1>6, <1>7, <1>8, <1>9, OpenStep,
     BeginObservationStep, BeginDispatchStep, ExecutorActsStep, LinearizedStep,
     CompleteObservationStep, Zenon DEF Next

\* The inductive invariant holds in every behaviour of the journal.
THEOREM Invariance == Spec => []IInv
BY InitIInv, NextIInv, PTL DEF Spec

\* Every step keeps the shape of the journal's state: in particular the next
\* sequence number is always one more than the records in memory.
THEOREM TypeCorrect == Spec => []TypeOK
<1>1. IInv => TypeOK
  BY DEF IInv
<1> QED
  BY <1>1, Invariance, PTL

\* At most one executor ever acts for an action, whatever appends fail and
\* however often the process restarts or the journal is reopened.
THEOREM NoSecondDispatch == Spec => []AtMostOneDispatch
<1>1. IInv => AtMostOneDispatch
  BY DEF IInv, OneTokenPerAction, Minted, AtMostOneDispatch
<1> QED
  BY <1>1, Invariance, PTL

\* An effect is never forgotten: neither memory nor a replay of the file
\* takes an action somebody acted for as one not dispatched.
THEOREM EffectsRemembered == Spec => []EffectNeverForgotten
<1>1. IInv => EffectNeverForgotten
  BY Zenon DEF IInv, MintedAfterDispatch, Minted, EffectNeverForgotten
<1> QED
  BY <1>1, Invariance, PTL

\* Dispatch and observation of an action are never authorized together.
THEOREM ObservationExcluded == Spec => []DispatchExcludesObservation
<1>1. IInv => DispatchExcludesObservation
  BY DEF IInv
<1> QED
  BY <1>1, Invariance, PTL

-----------------------------------------------------------------------------
(***************************************************************************)
(* What the records of ConsequentialJournal say of each other, and what it *)
(* promises to its callers.                                                *)
(*                                                                         *)
(* First: memory is at every moment a history that a replay accepts: each  *)
(* record passed validation against the records before it, and its sequence*)
(* is its position.  What a commit or a PREPARED record rests on follows from*)
(* that alone, so it holds of every history a restart can read as well.    *)
(*                                                                         *)
(* Then: a dispatch grant is backed by durable PREPARED, and DispatchPromise*)
(* is kept.  Both are about two copies of the history that a failed append *)
(* may let drift apart.  The invariants say how far: the file knows every  *)
(* preparation that memory knows, and of each action it is at most one valid*)
(* record ahead.                                                           *)
(***************************************************************************)
\* Memory is a history that a replay accepts.
HistoryInv == IInv /\ Replayable(entries)

-----------------------------------------------------------------------------
(***************************************************************************)
(* Prefixes, latest and first records.                                     *)
(***************************************************************************)
\* The records before position i.
Before(es, i) == SubSeq(es, 1, i - 1)

\* A prefix that ends before a position is a shorter history.
LEMMA BeforeShape ==
  ASSUME NEW es \in Seq(Entry), NEW i \in DOMAIN es
  PROVE  /\ Before(es, i) \in Seq(Entry)
         /\ i \in Nat /\ Len(Before(es, i)) = i - 1
         /\ DOMAIN Before(es, i) = 1 .. i - 1
         /\ \A j \in 1 .. i - 1 : j \in DOMAIN es /\ Before(es, i)[j] = es[j]
BY DEF Before

\* The position that no other exceeds is the latest one.
LEMMA LatestIs ==
  ASSUME NEW es \in Seq(Entry), NEW a, NEW K, NEW n \in Positions(es, a, K),
         \A j \in Positions(es, a, K) : j <= n
  PROVE  Latest(es, a, K) = n
<1> DEFINE S == Positions(es, a, K)
<1>1. S \in SUBSET (1 .. Len(es)) /\ Len(es) \in Nat /\ S # {}
  BY DEF Positions
<1>2. LastOf(S) \in S /\ \A j \in S : j <= LastOf(S)
  BY <1>1, LastOfMember
<1>3. LastOf(S) \in Nat /\ n \in Nat /\ LastOf(S) <= n /\ n <= LastOf(S)
  BY <1>1, <1>2
<1> HIDE DEF S
<1> QED
  BY <1>3 DEF Latest, S

\* The latest record of some kinds is one of them, and none is later.
LEMMA LatestRecord ==
  ASSUME NEW es \in Seq(Entry), NEW a, NEW K, Latest(es, a, K) # 0
  PROVE  /\ Latest(es, a, K) \in Positions(es, a, K)
         /\ \A j \in Positions(es, a, K) : j <= Latest(es, a, K)
<1> DEFINE S == Positions(es, a, K)
<1>1. S \in SUBSET (1 .. Len(es)) /\ Len(es) \in Nat
  BY DEF Positions
<1>2. S # {}
  BY DEF Latest, LastOf
<1> QED
  BY <1>1, <1>2, LastOfMember DEF Latest

\* A record that exists is found.
LEMMA LatestOfSome ==
  ASSUME NEW es \in Seq(Entry), NEW a, NEW K, Positions(es, a, K) # {}
  PROVE  Latest(es, a, K) # 0 /\ Latest(es, a, K) \in Positions(es, a, K)
<1> DEFINE S == Positions(es, a, K)
<1>1. S \in SUBSET (1 .. Len(es)) /\ Len(es) \in Nat /\ S # {}
  BY DEF Positions
<1>2. LastOf(S) \in S
  BY <1>1, LastOfMember
<1>3. LastOf(S) # 0
  BY <1>1, <1>2
<1> QED
  BY <1>2, <1>3 DEF Latest

\* Every record leaves its action in a state of its own kind.
LEMMA StateAfterNames ==
  ASSUME NEW e \in Entry
  PROVE  /\ e.transition \in Kinds
         /\ StateAfter(e) # "none"
         /\ StateAfter(e) = "authorized_not_dispatched"
              => e.transition = "authorization_recorded"
         /\ StateAfter(e) = "verified_uncommitted"
              => \/ /\ e.transition = "postcondition_receipt"
                    /\ Verdict(e.payload.evidence) = "verified_expected"
                 \/ e.transition = "reconciliation_outcome" /\ e.payload
<1>1. e.transition \in Kinds
  BY DEF Entry, Records, Kinds
<1> QED
  BY <1>1 DEF StateAfter, Kinds

\* An action has no recovery state exactly while it has no record.
LEMMA NoStateNoRecord ==
  ASSUME NEW es \in Seq(Entry), NEW a
  PROVE  recovery_state_for(es, a) = "none"
           <=> \A i \in DOMAIN es : es[i].action # a
<1>1. \A i \in DOMAIN es : es[i] \in Entry /\ es[i].transition \in Kinds
  BY StateAfterNames
<1>2. Positions(es, a, Kinds) = {} <=> \A i \in DOMAIN es : es[i].action # a
  BY <1>1 DEF Positions
<1>3. CASE Positions(es, a, Kinds) = {}
  BY <1>2, <1>3 DEF recovery_state_for, Latest, LastOf
<1>4. CASE Positions(es, a, Kinds) # {}
  <2>1. /\ Latest(es, a, Kinds) # 0
        /\ es[Latest(es, a, Kinds)] \in Entry
    BY <1>4, LatestOfSome, LatestInDomain
  <2>2. recovery_state_for(es, a) # "none"
    BY <2>1, StateAfterNames, Zenon DEF recovery_state_for
  <2> QED
    BY <1>2, <1>4, <2>2
<1> QED
  BY <1>3, <1>4

\* The recovery state of an action is what its last record says.
LEMMA StateIsLastRecord ==
  ASSUME NEW es \in Seq(Entry), NEW a, recovery_state_for(es, a) # "none"
  PROVE  \E n \in DOMAIN es :
           /\ es[n].action = a
           /\ recovery_state_for(es, a) = StateAfter(es[n])
           /\ \A j \in DOMAIN es : es[j].action = a => j <= n
<1> DEFINE n == Latest(es, a, Kinds)
<1>1. n # 0
  BY DEF recovery_state_for
<1>2. n \in Positions(es, a, Kinds) /\ \A j \in Positions(es, a, Kinds) : j <= n
  BY <1>1, LatestRecord
<1>3. \A j \in DOMAIN es : es[j].transition \in Kinds
  BY StateAfterNames
<1>4. n \in DOMAIN es /\ es[n].action = a
      /\ \A j \in DOMAIN es : es[j].action = a => j <= n
  BY <1>2, <1>3 DEF Positions
<1>5. recovery_state_for(es, a) = StateAfter(es[n])
  BY <1>1, Zenon DEF recovery_state_for
<1> HIDE DEF n
<1> QED
  BY <1>4, <1>5

-----------------------------------------------------------------------------
(***************************************************************************)
(* Histories that replay.                                                  *)
(***************************************************************************)
\* Each record carries its position and was valid after those before it.
LEMMA ReplayedRecord ==
  ASSUME NEW es \in Seq(Entry), Replayable(es), NEW i \in DOMAIN es
  PROVE  /\ es[i] \in Entry /\ es[i].seq = i
         /\ validate_transition(Before(es, i), es[i], TRUE)
         /\ recovery_state_for(Before(es, i), es[i].action)
              \in Sources(es[i].transition, TRUE)
<1>1. es[i] \in Entry
  OBVIOUS
<1>2. es[i].seq = i /\ validate_transition(Before(es, i), es[i], TRUE)
  BY Zenon DEF Replayable, Before
<1> QED
  BY <1>1, <1>2, Zenon DEF validate_transition

\* The first record of an action admits its intent, and no other does.
LEMMA IntentComesFirst ==
  ASSUME NEW es \in Seq(Entry), Replayable(es), NEW i \in DOMAIN es
  PROVE  (\A j \in 1 .. i - 1 : es[j].action # es[i].action)
           <=> es[i].transition = "intent_admitted"
<1> DEFINE a == es[i].action
           p == Before(es, i)
<1>1. /\ p \in Seq(Entry) /\ DOMAIN p = 1 .. i - 1
      /\ \A j \in 1 .. i - 1 : p[j] = es[j]
  BY BeforeShape
<1>2. recovery_state_for(p, a) = "none" <=> \A j \in DOMAIN p : p[j].action # a
  BY <1>1, NoStateNoRecord
<1>3. /\ es[i].transition \in Kinds
      /\ recovery_state_for(p, a) \in Sources(es[i].transition, TRUE)
  BY ReplayedRecord, StateAfterNames, Zenon
<1>4. recovery_state_for(p, a) = "none" <=> es[i].transition = "intent_admitted"
  <2> HIDE DEF a, p
  <2> QED
    BY <1>3 DEF Kinds, Sources, UncertainStates
<1> QED
  BY <1>1, <1>2, <1>4

\* Whatever is recorded of an action, its intent was admitted before.
LEMMA IntentExists ==
  ASSUME NEW es \in Seq(Entry), Replayable(es), NEW i \in DOMAIN es
  PROVE  \E k \in 1 .. i : /\ es[k].action = es[i].action
                           /\ es[k].transition = "intent_admitted"
<1> DEFINE a == es[i].action
           T == {j \in DOMAIN es : es[j].action = a}
<1>1. T \subseteq Nat /\ i \in T
  OBVIOUS
<1>2. PICK k \in T : \A j \in T : <<j, k>> \notin OpToRel(<, Nat)
  BY <1>1, WFMin, NatLessThanWellFounded
<1>3. \A x, y \in Nat : x < y => <<x, y>> \in OpToRel(<, Nat)
  BY SMTT(20) DEF OpToRel
<1>4. \A j \in T : ~(j < k)
  BY <1>1, <1>2, <1>3
<1>5. k \in DOMAIN es /\ k \in 1 .. i /\ \A j \in 1 .. k - 1 : es[j].action # a
  BY <1>1, <1>4
<1>6. es[k].transition = "intent_admitted"
  BY <1>2, <1>5, IntentComesFirst
<1> QED
  BY <1>2, <1>5, <1>6

\* There is one intent, so the envelope of an action never changes: what a
\* record was validated against is what the whole history says.
LEMMA EnvelopeIsFixed ==
  ASSUME NEW es \in Seq(Entry), Replayable(es), NEW i \in DOMAIN es,
         NEW a, \E j \in 1 .. i - 1 : es[j].action = a
  PROVE  admitted_envelope_for(Before(es, i), a) = admitted_envelope_for(es, a)
<1> DEFINE p == Before(es, i)
           I == {"intent_admitted"}
<1>1. /\ p \in Seq(Entry) /\ i \in Nat /\ DOMAIN p = 1 .. i - 1
      /\ \A j \in 1 .. i - 1 : j \in DOMAIN es /\ p[j] = es[j]
      /\ DOMAIN es = 1 .. Len(es) /\ Len(es) \in Nat
  BY BeforeShape
<1>2. PICK j \in 1 .. i - 1 : es[j].action = a
  OBVIOUS
<1>3. PICK k \in 1 .. j : es[k].action = a /\ es[k].transition = "intent_admitted"
  BY <1>1, <1>2, IntentExists
<1>4. k \in 1 .. i - 1 /\ k \in DOMAIN es
  BY <1>1, <1>2, <1>3
<1>5. ASSUME NEW m \in Positions(es, a, I) PROVE m = k
  <2>1. /\ m \in DOMAIN es /\ es[m].action = a /\ es[m].transition = "intent_admitted"
    BY DEF Positions
  <2>2. ~(k < m)
    <3>1. \A x \in 1 .. m - 1 : es[x].action # a
      BY <2>1, IntentComesFirst
    <3> QED
      BY <1>1, <1>3, <1>4, <2>1, <3>1
  <2>3. ~(m < k)
    <3>1. \A x \in 1 .. k - 1 : es[x].action # a
      BY <1>3, <1>4, IntentComesFirst
    <3> QED
      BY <1>1, <1>4, <2>1, <3>1
  <2> QED
    BY <1>1, <1>4, <2>1, <2>2, <2>3
<1>6. k \in Positions(es, a, I) /\ k \in Positions(p, a, I)
  BY <1>1, <1>3, <1>4 DEF Positions
<1>7. \A m \in Positions(p, a, I) : m \in Positions(es, a, I)
  BY <1>1 DEF Positions
<1>8. Latest(es, a, I) = k /\ Latest(p, a, I) = k
  <2>1. Latest(es, a, I) # 0 /\ Latest(es, a, I) \in Positions(es, a, I)
    BY <1>6, LatestOfSome
  <2>2. Latest(p, a, I) # 0 /\ Latest(p, a, I) \in Positions(p, a, I)
    BY <1>1, <1>6, LatestOfSome
  <2> QED
    BY <1>5, <1>7, <2>1, <2>2
<1> QED
  BY <1>1, <1>4, <1>8 DEF admitted_envelope_for

\* A PREPARED record of a history that replays rests on the latest
\* authorization of its action, and nothing came in between.
LEMMA PreparedRests ==
  ASSUME NEW es \in Seq(Entry), Replayable(es), NEW i \in DOMAIN es,
         es[i].transition = "dispatch_prepared"
  PROVE  LET a    == es[i].action
             auth == es[es[i].payload.authorization]
         IN  /\ auth.action = a
             /\ auth.transition = "authorization_recorded"
             /\ auth.payload.revalidated
             /\ auth.payload.revision = admitted_envelope_for(es, a).revision
             /\ es[i].payload.lineage = admitted_envelope_for(es, a).lineage
             /\ ~ \E j \in auth.seq + 1 .. i - 1 : es[j].action = a
<1> DEFINE a == es[i].action
           p == Before(es, i)
           A == {"authorization_recorded"}
           n == Latest(p, a, A)
<1>1. /\ p \in Seq(Entry) /\ i \in Nat /\ DOMAIN p = 1 .. i - 1
      /\ \A j \in 1 .. i - 1 : j \in DOMAIN es /\ p[j] = es[j]
  BY BeforeShape
<1>2. /\ validate_transition(p, es[i], TRUE)
      /\ recovery_state_for(p, a) \in Sources(es[i].transition, TRUE)
  BY ReplayedRecord, Zenon
<1>3. recovery_state_for(p, a) = "authorized_not_dispatched"
  BY <1>2, Zenon DEF Sources
<1>4. validate_dispatch_preparation(p, a, es[i].payload)
  BY <1>2, Zenon DEF validate_transition
<1>5. /\ n # 0 /\ p[n].payload.revalidated
      /\ p[n].payload.revision = admitted_envelope_for(p, a).revision
      /\ es[i].payload.authorization = p[n].seq
      /\ es[i].payload.lineage = admitted_envelope_for(p, a).lineage
  BY <1>4, Zenon DEF validate_dispatch_preparation
<1>6. n \in Positions(p, a, A) /\ \A j \in Positions(p, a, A) : j <= n
  BY <1>1, <1>5, LatestRecord
<1>7. n \in 1 .. i - 1 /\ p[n].action = a /\ p[n].transition = "authorization_recorded"
  BY <1>1, <1>6 DEF Positions
<1>8. PICK m \in DOMAIN p :
        /\ p[m].action = a
        /\ recovery_state_for(p, a) = StateAfter(p[m])
        /\ \A j \in DOMAIN p : p[j].action = a => j <= m
  BY <1>1, <1>3, StateIsLastRecord
<1>9. p[m].transition = "authorization_recorded"
  BY <1>1, <1>3, <1>8, StateAfterNames
<1>10. m \in Positions(p, a, A)
  BY <1>8, <1>9 DEF Positions
<1>11. m = n
  BY <1>1, <1>6, <1>7, <1>8, <1>10
<1>12. p[n] = es[n] /\ es[n].seq = n /\ n \in DOMAIN es
  BY <1>1, <1>7, ReplayedRecord
<1>13. admitted_envelope_for(p, a) = admitted_envelope_for(es, a)
  BY <1>7, <1>12, EnvelopeIsFixed
<1>14. ~ \E j \in n + 1 .. i - 1 : es[j].action = a
  BY <1>1, <1>7, <1>8, <1>11
<1> HIDE DEF a, p, n
<1>15. es[i].payload.authorization = n
  BY <1>5, <1>12
<1>16. /\ es[n].action = a /\ es[n].transition = "authorization_recorded"
       /\ es[n].payload.revalidated
       /\ es[n].payload.revision = admitted_envelope_for(es, a).revision
       /\ es[i].payload.lineage = admitted_envelope_for(es, a).lineage
       /\ ~ \E j \in es[n].seq + 1 .. i - 1 : es[j].action = a
  BY <1>5, <1>7, <1>12, <1>13, <1>14, Zenon
<1> QED
  BY <1>15, <1>16, Zenon DEF a

\* A commit in a history that replays has an earlier record that settles its
\* action, and if that is a receipt it found every declared contract passed.
LEMMA CommitRests ==
  ASSUME NEW es \in Seq(Entry), Replayable(es), NEW i \in DOMAIN es,
         es[i].transition = "committed"
  PROVE  \E j \in 1 .. i - 1 :
           LET a == es[i].action
               r == es[j].payload
           IN  /\ es[j].action = a
               /\ \/ /\ es[j].transition = "postcondition_receipt"
                     /\ r.evidence = [c \in admitted_envelope_for(es, a).contracts
                                        |-> "pass"]
                     /\ r.evidence # <<>>
                     /\ r.cut # PreconditionCut
                     /\ r.cause < j /\ es[r.cause].action = a
                     /\ es[r.cause].transition \in CauseKinds
                  \/ es[j].transition = "reconciliation_outcome" /\ r
<1> DEFINE a == es[i].action
           p == Before(es, i)
<1>1. /\ p \in Seq(Entry) /\ i \in Nat /\ DOMAIN p = 1 .. i - 1
      /\ \A j \in 1 .. i - 1 : j \in DOMAIN es /\ p[j] = es[j]
  BY BeforeShape
<1>2. recovery_state_for(p, a) \in Sources(es[i].transition, TRUE)
  BY ReplayedRecord, Zenon
<1>3. recovery_state_for(p, a) = "verified_uncommitted"
  BY <1>2, Zenon DEF Sources
<1>4. PICK j \in DOMAIN p :
        p[j].action = a /\ recovery_state_for(p, a) = StateAfter(p[j])
  BY <1>1, <1>3, StateIsLastRecord
<1>5. j \in 1 .. i - 1 /\ j \in DOMAIN es /\ es[j].action = a
      /\ es[j] \in Entry /\ StateAfter(es[j]) = "verified_uncommitted"
  BY <1>1, <1>3, <1>4, ReplayedRecord
<1>6. \/ /\ es[j].transition = "postcondition_receipt"
         /\ Verdict(es[j].payload.evidence) = "verified_expected"
      \/ es[j].transition = "reconciliation_outcome" /\ es[j].payload
  BY <1>5, StateAfterNames, Zenon
<1>7. ASSUME es[j].transition = "postcondition_receipt",
             Verdict(es[j].payload.evidence) = "verified_expected"
      PROVE  LET r == es[j].payload
             IN  /\ r.evidence = [c \in admitted_envelope_for(es, a).contracts
                                    |-> "pass"]
                 /\ r.evidence # <<>>
                 /\ r.cut # PreconditionCut
                 /\ r.cause < j /\ es[r.cause].action = a
                 /\ es[r.cause].transition \in CauseKinds
  <2> DEFINE q   == Before(es, j)
             r   == es[j].payload
             env == admitted_envelope_for(q, a)
             n   == Latest(q, a, CauseKinds)
  <2>1. /\ q \in Seq(Entry) /\ j \in Nat /\ DOMAIN q = 1 .. j - 1
        /\ \A m \in 1 .. j - 1 : m \in DOMAIN es /\ q[m] = es[m]
    BY <1>5, BeforeShape
  <2>2. validate_transition(q, es[j], TRUE) /\ es[j].seq = j
    BY <1>5, ReplayedRecord, Zenon
  <2>3. validate_action_postcondition_receipt(q, a, j, r)
    BY <1>5, <1>7, <2>2, Zenon DEF validate_transition
  <2>4. /\ r.cut # PreconditionCut /\ r.cause < j
        /\ n # 0 /\ r.cause = q[n].seq
        /\ env.contracts # {} /\ DOMAIN r.evidence = env.contracts
    BY <2>3, Zenon
    DEF validate_action_postcondition_receipt, postcondition_observation_cause_for
  <2>5. n \in Positions(q, a, CauseKinds)
    BY <2>1, <2>4, LatestRecord
  <2>6. n \in 1 .. j - 1 /\ es[n].action = a /\ es[n].transition \in CauseKinds
        /\ n \in DOMAIN es /\ q[n] = es[n]
    BY <2>1, <2>5 DEF Positions
  <2>7. r.cause = n
    <3>1. es[n].seq = n
      BY <2>6, ReplayedRecord
    <3> QED
      BY <2>4, <2>6, <3>1
  <2>8. env = admitted_envelope_for(es, a)
    BY <1>5, <2>6, EnvelopeIsFixed
  <2>9. r.evidence \in Evidence
    BY <1>5, <1>7 DEF Entry, Records
  <2>10. PICK C \in SUBSET Contracts : r.evidence \in [C -> Statuses]
    BY <2>9 DEF Evidence
  <2> HIDE DEF r, q, env, n
  <2>11. \A c \in C : r.evidence[c] = "pass"
    BY <1>7, <2>10 DEF Verdict, Statuses, r
  <2>12. r.evidence = [c \in C |-> "pass"] /\ DOMAIN r.evidence = C
    BY <2>10, <2>11
  <2>13. C = admitted_envelope_for(es, a).contracts /\ C # {}
    BY <2>4, <2>8, <2>12, Zenon
  <2>14. r.evidence # <<>>
    <3>1. DOMAIN <<>> = {}
      OBVIOUS
    <3> QED
      BY <2>12, <2>13, <3>1, Zenon
  <2> QED
    BY <2>4, <2>6, <2>7, <2>12, <2>13, <2>14, Zenon DEF r
<1> QED
  BY <1>5, <1>6, <1>7, Zenon

-----------------------------------------------------------------------------
(***************************************************************************)
(* Memory always replays.                                                  *)
(***************************************************************************)
\* A transition that a caller may append is one that a replay accepts.
LEMMA AppendedReplays ==
  ASSUME NEW es \in Seq(Entry), NEW e \in Entry, validate_transition(es, e, FALSE)
  PROVE  validate_transition(es, e, TRUE)
<1>1. Sources(e.transition, FALSE) \subseteq Sources(e.transition, TRUE)
  <2>1. e.transition \in Kinds
    BY StateAfterNames
  <2> QED
    BY <2>1 DEF Kinds, Sources
<1> QED
  BY <1>1, Zenon DEF validate_transition

\* A valid record at the next position keeps the history replayable.
LEMMA ReplayableAppend ==
  ASSUME NEW es \in Seq(Entry), NEW e \in Entry, Replayable(es),
         e.seq = Len(es) + 1, validate_transition(es, e, TRUE)
  PROVE  Replayable(Append(es, e))
<1> DEFINE fs == Append(es, e)
           m  == Len(es) + 1
<1>1. /\ Len(es) \in Nat /\ DOMAIN es = 1 .. Len(es)
      /\ DOMAIN fs = 1 .. m /\ fs[m] = e
      /\ \A i \in DOMAIN es : fs[i] = es[i]
  OBVIOUS
<1>2. \A i \in DOMAIN es : SubSeq(fs, 1, i - 1) = SubSeq(es, 1, i - 1)
  BY <1>1
<1>3. SubSeq(fs, 1, m - 1) = es
  <2>1. m - 1 = Len(es) /\ SubSeq(fs, 1, Len(es)) = es
    OBVIOUS
  <2> QED
    BY <2>1
<1> HIDE DEF fs
<1>4. ASSUME NEW i \in DOMAIN fs
      PROVE  fs[i].seq = i /\ validate_transition(SubSeq(fs, 1, i - 1), fs[i], TRUE)
  <2>1. CASE i \in DOMAIN es
    <3>1. es[i].seq = i /\ validate_transition(SubSeq(es, 1, i - 1), es[i], TRUE)
      BY <2>1, Zenon DEF Replayable
    <3> QED
      BY <1>1, <1>2, <2>1, <3>1, Zenon
  <2>2. CASE i = m
    BY <1>1, <1>3, <2>2, Zenon
  <2>3. i \in DOMAIN es \/ i = m
    BY <1>1
  <2> QED
    BY <2>1, <2>2, <2>3
<1> QED
  BY <1>4, Zenon DEF Replayable, fs

\* A history without a record replays.
LEMMA EmptyReplays == Replayable(<<>>)
BY DEF Replayable

\* Whatever an append leaves in the file, memory still replays.
LEMMA AppendReplays ==
  ASSUME HistoryInv, NEW e \in Entry, e.seq = next_sequence,
         append_validated(e) \/ append_fails(e)
  PROVE  Replayable(entries')
<1>1. entries \in Seq(Entry) /\ next_sequence = Len(entries) + 1 /\ Replayable(entries)
  BY DEF HistoryInv, IInv, TypeOK
<1>2. /\ validate_transition(entries, e, FALSE)
      /\ entries' = Append(entries, e) \/ entries' = entries
  BY AppendShape, Zenon
<1>3. validate_transition(entries, e, TRUE)
  BY <1>1, <1>2, AppendedReplays, Zenon
<1>4. Replayable(Append(entries, e))
  BY <1>1, <1>3, ReplayableAppend
<1> QED
  BY <1>1, <1>2, <1>4, Zenon

-----------------------------------------------------------------------------
(***************************************************************************)
(* The steps of the journal, by what they do to its history.               *)
(***************************************************************************)
\* The records of operations that hand out no authority and report no
\* dispatch.  A receipt is recorded only of an action somebody observed.
OnlyRecords ==
  {e \in Entry :
     /\ e.seq = next_sequence
     /\ e.transition \in Kinds \ {"dispatch_prepared", "dispatch_linearized",
                                  "reconciliation_outcome"}
     /\ e.transition = "postcondition_receipt"
          => \E o \in observed : o.action = e.action}

\* Of the actions that append a record and do nothing else, each appends one of OnlyRecords.
LEMMA OnlyRecordSteps ==
  ASSUME IInv,
         \/ \E a \in Actions, env \in Envelopes : record_intent_admitted(a, env)
         \/ \E a \in Actions, r \in Revisions, b \in BOOLEAN :
              record_authorization(a, r, b)
         \/ \E a \in Actions, b \in BOOLEAN : record_compensation(a, b)
         \/ \E a \in Actions : record_committed(a)
         \/ \E o \in observed, ev \in Evidence :
              record_action_postcondition_receipt(o, ev)
  PROVE  \E e \in OnlyRecords : append_only(e)
<1>1. next_sequence \in Nat /\ observed \subseteq ObservationReceipt
  BY DEF IInv, TypeOK
<1>2. ASSUME NEW a \in Actions, NEW env \in Envelopes, record_intent_admitted(a, env)
      PROVE  \E e \in OnlyRecords : append_only(e)
  <2>1. Record(a, "intent_admitted", env) \in OnlyRecords
    BY <1>1, ConstantsAssumption DEF Record, Entry, Records, OnlyRecords, Kinds
  <2> QED
    BY <1>2, <2>1, Zenon DEF record_intent_admitted
<1>3. ASSUME NEW a \in Actions, NEW r \in Revisions, NEW b \in BOOLEAN,
             record_authorization(a, r, b)
      PROVE  \E e \in OnlyRecords : append_only(e)
  <2>1. Record(a, "authorization_recorded", [revision |-> r, revalidated |-> b])
          \in OnlyRecords
    BY <1>1 DEF Record, Entry, Records, OnlyRecords, Kinds
  <2> QED
    BY <1>3, <2>1, Zenon DEF record_authorization
<1>4. ASSUME NEW a \in Actions, NEW b \in BOOLEAN, record_compensation(a, b)
      PROVE  \E e \in OnlyRecords : append_only(e)
  <2>1. Record(a, "compensation_recorded", b) \in OnlyRecords
    BY <1>1 DEF Record, Entry, Records, OnlyRecords, Kinds
  <2> QED
    BY <1>4, <2>1, Zenon DEF record_compensation
<1>5. ASSUME NEW a \in Actions, record_committed(a)
      PROVE  \E e \in OnlyRecords : append_only(e)
  <2>1. Record(a, "committed", TRUE) \in OnlyRecords
    BY <1>1 DEF Record, Entry, Records, OnlyRecords, Kinds
  <2> QED
    BY <1>5, <2>1, Zenon DEF record_committed
<1>6. ASSUME NEW o \in observed, NEW ev \in Evidence,
             record_action_postcondition_receipt(o, ev)
      PROVE  \E e \in OnlyRecords : append_only(e)
  <2> DEFINE e == Record(o.action, "postcondition_receipt",
                         [lineage |-> o.lineage, cut |-> o.cut,
                          cause |-> o.cause, evidence |-> ev])
  <2>1. /\ e.action = o.action /\ e.seq = next_sequence
        /\ e.transition = "postcondition_receipt" /\ e \in Entry
    BY <1>1 DEF Record, Entry, Records, ObservationReceipt
  <2>2. append_only(e)
    BY <1>6, Zenon DEF record_action_postcondition_receipt
  <2> HIDE DEF e
  <2>3. e \in OnlyRecords
    BY <2>1 DEF OnlyRecords, Kinds
  <2> QED
    BY <2>2, <2>3
<1> QED
  BY <1>2, <1>3, <1>4, <1>5, <1>6, Zenon

\* Steps that leave the history, the mode and the file alone.
QuietActions(t) ==
  \/ begin_dispatch(t) \/ executor_acts(t)
  \/ abandon_dispatch_execution(t)
  \/ abandon_postcondition_observation(t)
  \/ \E l \in Lineages, c \in 0 .. cuts : complete_postcondition_observation(t, l, c)
  \/ drop_token(t)

\* A step opens or closes the journal, appends a record, or is about one token.
LEMMA StepKinds ==
  ASSUME IInv, [Next]_vars
  PROVE  \/ open
         \/ \E kept \in SUBSET held, seen \in SUBSET observed : close(kept, seen)
         \/ \E e \in OnlyRecords : append_only(e)
         \/ \E a \in Actions,
               receipt \in [authorization : Nat, lineage : Lineages] :
              record_dispatch_prepared(a, receipt)
         \/ \E t \in held : \E r \in Reports(t) : record_dispatch_linearized(t, r)
         \/ \E a \in Actions : begin_postcondition_observation(a)
         \/ \E t \in held : QuietActions(t)
         \/ UNCHANGED vars
<1>1. ASSUME close({}, {}) \/ close(held, observed)
      PROVE  \E kept \in SUBSET held, seen \in SUBSET observed : close(kept, seen)
  BY <1>1
<1>2. ASSUME NEW a \in Actions, NEW n \in 1 .. MaxRecords, NEW l \in Lineages,
             record_dispatch_prepared(a, [authorization |-> n, lineage |-> l])
      PROVE  \E receipt \in [authorization : Nat, lineage : Lineages] :
               record_dispatch_prepared(a, receipt)
  <2>1. [authorization |-> n, lineage |-> l] \in [authorization : Nat, lineage : Lineages]
    BY ConstantsAssumption
  <2> QED
    BY <1>2, <2>1, Zenon
<1>3. ASSUME NEW t \in held, \/ begin_dispatch(t)
                             \/ executor_acts(t)
                             \/ abandon_dispatch_execution(t)
                             \/ abandon_postcondition_observation(t)
                             \/ \E l \in Lineages, c \in 0 .. cuts :
                                  complete_postcondition_observation(t, l, c)
                             \/ drop_token(t)
      PROVE  QuietActions(t)
  BY <1>3, Zenon DEF QuietActions
<1> QED
  BY <1>1, <1>2, <1>3, OnlyRecordSteps, Zenon DEF Next

-----------------------------------------------------------------------------
(***************************************************************************)
(* Memory always replays, step by step.                                    *)
(***************************************************************************)
LEMMA NextHistory == HistoryInv /\ [Next]_vars => HistoryInv'
<1> SUFFICES ASSUME HistoryInv, [Next]_vars PROVE HistoryInv'
  OBVIOUS
<1>1. IInv /\ Replayable(entries) /\ IInv'
  BY NextIInv DEF HistoryInv
<1>2. ASSUME NEW e \in Entry, e.seq = next_sequence,
             append_validated(e) \/ append_fails(e)
      PROVE  Replayable(entries')
  BY <1>2, AppendReplays
<1>3. ASSUME UNCHANGED memory PROVE Replayable(entries')
  BY <1>1, <1>3, Zenon DEF memory
<1>4. ASSUME open PROVE Replayable(entries')
  <2>1. (Replayable(file) /\ entries' = file) \/ UNCHANGED memory
    BY <1>4, Zenon DEF open
  <2> QED
    BY <1>3, <2>1, Zenon
<1>5. ASSUME NEW kept, NEW seen, close(kept, seen) PROVE Replayable(entries')
  BY <1>5, EmptyReplays, Zenon DEF close
<1>6. ASSUME NEW e \in OnlyRecords, append_only(e) PROVE Replayable(entries')
  BY <1>2, <1>6, Zenon DEF append_only, OnlyRecords
<1>7. ASSUME NEW a \in Actions,
             NEW receipt \in [authorization : Nat, lineage : Lineages],
             record_dispatch_prepared(a, receipt)
      PROVE  Replayable(entries')
  <2> DEFINE e == Record(a, "dispatch_prepared", receipt)
  <2>1. e \in Entry /\ e.seq = next_sequence
    BY <1>1 DEF IInv, TypeOK, Record, Entry, Records
  <2>2. append_validated(e) \/ append_fails(e)
    BY <1>7, Zenon DEF record_dispatch_prepared
  <2> HIDE DEF e
  <2> QED
    BY <1>2, <2>1, <2>2, Zenon
<1>8. ASSUME NEW t \in held, NEW r \in Reports(t), record_dispatch_linearized(t, r)
      PROVE  Replayable(entries')
  <2> DEFINE e == Record(t.action, "dispatch_linearized", r)
  <2>1. e \in Entry /\ e.seq = next_sequence
    <3>1. t.action \in Actions /\ next_sequence \in Nat
          /\ r \in DispatchedResults \cup NotDispatchedResults
      BY <1>1 DEF IInv, TypeOK, Token, Reports
    <3> QED
      BY <3>1 DEF Record, Entry, Records
  <2>2. append_validated(e) \/ append_fails(e) \/ UNCHANGED memory
    BY <1>8, Zenon DEF record_dispatch_linearized
  <2> HIDE DEF e
  <2> QED
    BY <1>2, <1>3, <2>1, <2>2, Zenon
<1>9. ASSUME NEW a \in Actions, begin_postcondition_observation(a)
      PROVE  Replayable(entries')
  BY <1>3, <1>9, Zenon DEF begin_postcondition_observation
<1>10. ASSUME NEW t \in held, QuietActions(t)
       PROVE  Replayable(entries')
  <2>1. UNCHANGED memory
    BY <1>10, Zenon
    DEF QuietActions, begin_dispatch, executor_acts, abandon_dispatch_execution,
        abandon_postcondition_observation, complete_postcondition_observation,
        drop_token
  <2> QED
    BY <1>3, <2>1
<1>11. ASSUME UNCHANGED vars PROVE Replayable(entries')
  <2>1. UNCHANGED memory
    BY <1>11 DEF vars, memory
  <2> QED
    BY <1>3, <2>1, Zenon
<1>12. Replayable(entries')
  BY <1>1, <1>4, <1>5, <1>6, <1>7, <1>8, <1>9, <1>10, <1>11, StepKinds, Zenon
<1> QED
  BY <1>1, <1>12 DEF HistoryInv

\* The running journal never holds a history that it would refuse to replay.
THEOREM MemoryReplays == Spec => []HistoryInv
<1>1. Init => HistoryInv
  BY InitIInv, EmptyReplays DEF HistoryInv, Init
<1> QED
  BY <1>1, NextHistory, PTL DEF Spec

\* A PREPARED record rests on the latest authorization of its action,
\* revalidated for the revision of the admitted envelope, however the
\* operations of other callers interleave.
THEOREM PreparationIsCurrent == Spec => []PreparedUnderLatestAuthority
<1>1. HistoryInv => PreparedUnderLatestAuthority
  <2> SUFFICES ASSUME HistoryInv PROVE PreparedUnderLatestAuthority
    OBVIOUS
  <2>1. entries \in Seq(Entry) /\ Replayable(entries)
    BY DEF HistoryInv, IInv, TypeOK
  <2> QED
    BY <2>1, PreparedRests, Zenon DEF PreparedUnderLatestAuthority
<1> QED
  BY <1>1, MemoryReplays, PTL

\* Nothing is committed on less than a receipt of every declared contract
\* passed, or a recorded reconciliation of an earlier release.
THEOREM CommitsAreVerified == Spec => []CommittedIsVerified
<1>1. HistoryInv => CommittedIsVerified
  <2> SUFFICES ASSUME HistoryInv PROVE CommittedIsVerified
    OBVIOUS
  <2>1. entries \in Seq(Entry) /\ Replayable(entries)
    BY DEF HistoryInv, IInv, TypeOK
  <2> QED
    BY <2>1, CommitRests, Zenon DEF CommittedIsVerified
<1> QED
  BY <1>1, MemoryReplays, PTL

-----------------------------------------------------------------------------
(***************************************************************************)
(* The inductive invariants.                                               *)
(***************************************************************************)
\* What memory has past PREPARED, every replay of the file has too.
MemoryIsInFile ==
  mode = "open" /\ Replayable(file) =>
    \A a \in Actions : recovery_state_for(entries, a) \notin Early
                         => recovery_state_for(file, a) \notin Early

\* Only what was prepared is observed, and nobody can dispatch it any more.
ObservedIsPast ==
  \A o \in observed :
    /\ mode = "open" => recovery_state_for(entries, o.action) \notin Early
    /\ Replayable(file) => recovery_state_for(file, o.action) \notin Early
    /\ \A g \in live : g.action = o.action => g.kind = "observation"

GrantInv ==
  /\ IInv
  /\ tail = FALSE
  /\ MemoryIsInFile
  /\ ObservedIsPast
  /\ GrantBackedByDurablePrepared

\* The phases that one record may take an action to.
PhasesAfter(p) ==
  CASE p = "idle"      -> {"idle", "prepared"}
    [] p = "prepared"  -> {"prepared", "ruled_out", "uncertain", "settled"}
    [] p = "ruled_out" -> {"ruled_out"}
    [] p = "uncertain" -> {"uncertain", "settled"}
    [] OTHER           -> {"settled"}

\* Of each action, the file is at most one record ahead of memory.
FileIsOneAhead ==
  mode = "open" =>
    \A a \in Actions : PhaseOf(recovery_state_for(file, a))
                         \in PhasesAfter(PhaseOf(recovery_state_for(entries, a)))

\* Where the file rules an action out, nobody can act for it or has.
RuledOutForAll ==
  mode = "open" =>
    \A t \in Minted : recovery_state_for(file, t.action) # "known_not_dispatched"

PromiseInv == IInv /\ FileIsOneAhead /\ RuledOutForAll

-----------------------------------------------------------------------------
(***************************************************************************)
(* What an append does to the two copies of the history.                   *)
(***************************************************************************)
\* A line leaves its action in the state that its record does.
LEMMA LineForState ==
  ASSUME NEW e \in Entry
  PROVE  StateAfter(LineFor(e)) = StateAfter(e)
BY LineForEntry, Zenon DEF StateAfter

\* The file takes the states of the line that it gains.
LEMMA FileStateAppend ==
  ASSUME NEW es \in Seq(Entry), NEW e \in Entry, NEW a
  PROVE  recovery_state_for(Append(es, LineFor(e)), a)
           = IF e.action = a THEN StateAfter(e) ELSE recovery_state_for(es, a)
<1>1. /\ LineFor(e) \in Entry /\ LineFor(e).action = e.action
      /\ StateAfter(LineFor(e)) = StateAfter(e)
  BY LineForEntry, LineForState, Zenon
<1> QED
  BY <1>1, RecoveryStateAppend, Zenon

\* The three outcomes of an append.
LEMMA AppendOutcomes ==
  ASSUME IInv, NEW e \in Entry, append_validated(e) \/ append_fails(e)
  PROVE  /\ mode = "open" /\ validate_transition(entries, e, FALSE)
         /\ entries \in Seq(Entry) /\ file \in Seq(Entry)
         /\ \/ entries' = Append(entries, e) /\ file' = Append(file, LineFor(e))
            \/ entries' = entries /\ file' = file
            \/ entries' = entries /\ file' = Append(file, LineFor(e))
<1>1. entries \in Seq(Entry) /\ file \in Seq(Entry)
  BY DEF IInv, TypeOK
<1> QED
  BY <1>1, Zenon DEF append_validated, append_fails, disk, memory

\* A replay of the file never takes a prepared action back either.
LEMMA FileNeverEarly ==
  ASSUME IInv, NEW e \in Entry, append_validated(e) \/ append_fails(e), NEW a,
         Replayable(file) => recovery_state_for(file, a) \notin Early,
         Replayable(file')
  PROVE  recovery_state_for(file', a) \notin Early
<1>1. file \in Seq(Entry) /\ LineFor(e) \in Entry
      /\ (file' = file \/ file' = Append(file, LineFor(e)))
  BY AppendOutcomes, LineForEntry, Zenon
<1>2. CASE file' = file
  BY <1>2, Zenon
<1>3. CASE file' = Append(file, LineFor(e))
  <2>1. Replayable(Append(file, LineFor(e)))
    BY <1>3, Zenon
  <2>2. Replayable(file) /\ validate_transition(file, LineFor(e), TRUE)
    BY <1>1, <2>1, ReplayablePrefix, Zenon
  <2> QED
    BY <1>1, <1>3, <2>2, StepNeverEarly, TRUE \in BOOLEAN, Zenon
<1> QED
  BY <1>1, <1>2, <1>3

\* What memory has past PREPARED after an append, the file has past it too.
LEMMA AppendStaysInFile ==
  ASSUME IInv, MemoryIsInFile, NEW e \in Entry,
         append_validated(e) \/ append_fails(e), NEW a \in Actions,
         Replayable(file'), recovery_state_for(entries', a) \notin Early
  PROVE  recovery_state_for(file', a) \notin Early
<1>1. /\ mode = "open" /\ entries \in Seq(Entry) /\ file \in Seq(Entry)
      /\ \/ entries' = Append(entries, e) /\ file' = Append(file, LineFor(e))
         \/ entries' = entries
  BY AppendOutcomes, Zenon
<1>2. CASE entries' = entries
  <2>1. Replayable(file) => recovery_state_for(file, a) \notin Early
    BY <1>1, <1>2, Zenon DEF MemoryIsInFile
  <2> QED
    BY <2>1, FileNeverEarly, Zenon
<1>3. CASE entries' = Append(entries, e) /\ file' = Append(file, LineFor(e))
  <2>1. CASE e.action = a
    BY <1>1, <1>3, <2>1, RecoveryStateAppend, FileStateAppend
  <2>2. CASE e.action # a
    <3>1. recovery_state_for(entries, a) \notin Early
      BY <1>1, <1>3, <2>2, RecoveryStateAppend
    <3>2. Replayable(file) => recovery_state_for(file, a) \notin Early
      BY <1>1, <3>1, Zenon DEF MemoryIsInFile
    <3> QED
      BY <3>2, FileNeverEarly, Zenon
  <2> QED
    BY <2>1, <2>2
<1> QED
  BY <1>1, <1>2, <1>3

\* A preparation that is recorded stays recorded.
LEMMA PreparationStays ==
  ASSUME NEW es \in Seq(Entry), NEW e \in Entry, NEW a, NEW n,
         durable_preparation_matches(es, a, n)
  PROVE  durable_preparation_matches(Append(es, e), a, n)
<1>1. PICK i \in Positions(es, a, {"dispatch_prepared"}) : es[i].seq = n
  BY DEF durable_preparation_matches
<1>2. i \in DOMAIN Append(es, e) /\ Append(es, e)[i] = es[i]
  BY DEF Positions
<1>3. i \in Positions(Append(es, e), a, {"dispatch_prepared"})
  BY <1>1, <1>2 DEF Positions
<1> QED
  BY <1>1, <1>2, <1>3, Zenon DEF durable_preparation_matches

\* An append for another action leaves a backed grant backed.
LEMMA BackingStays ==
  ASSUME GrantInv, NEW e \in Entry, append_validated(e) \/ append_fails(e),
         NEW g \in live, g.kind \in {"prepared", "execution"}, g.action # e.action
  PROVE  /\ recovery_state_for(entries', g.action) = "dispatch_prepared"
         /\ durable_preparation_matches(entries', g.action, g.seq)
         /\ durable_preparation_matches(file', g.action, g.seq)
<1>1. /\ recovery_state_for(entries, g.action) = "dispatch_prepared"
      /\ durable_preparation_matches(entries, g.action, g.seq)
      /\ durable_preparation_matches(file, g.action, g.seq)
  BY Zenon DEF GrantInv, GrantBackedByDurablePrepared
<1>2. /\ entries \in Seq(Entry) /\ file \in Seq(Entry) /\ LineFor(e) \in Entry
      /\ entries' = Append(entries, e) \/ entries' = entries
      /\ file' = Append(file, LineFor(e)) \/ file' = file
  BY AppendOutcomes, LineForEntry, Zenon DEF GrantInv
<1>3. recovery_state_for(entries', g.action) = "dispatch_prepared"
  <2>1. recovery_state_for(Append(entries, e), g.action)
          = recovery_state_for(entries, g.action)
    BY <1>2, RecoveryStateAppend
  <2> QED
    BY <1>1, <1>2, <2>1, Zenon
<1>4. durable_preparation_matches(entries', g.action, g.seq)
  BY <1>1, <1>2, PreparationStays, Zenon
<1>5. durable_preparation_matches(file', g.action, g.seq)
  BY <1>1, <1>2, PreparationStays, Zenon
<1> QED
  BY <1>3, <1>4, <1>5

-----------------------------------------------------------------------------
(***************************************************************************)
(* Grants stay backed while no line is torn.                               *)
(***************************************************************************)
\* Memory, file and what was observed agree after any append that hands
\* out nothing.
LEMMA AppendKeepsAgreement ==
  ASSUME GrantInv, "torn" \notin Faults, NEW e \in Entry,
         append_validated(e) \/ append_fails(e),
         mode' = mode, observed' = observed
  PROVE  /\ tail' = FALSE /\ MemoryIsInFile'
         /\ \A o \in observed' :
              /\ mode' = "open" => recovery_state_for(entries', o.action) \notin Early
              /\ Replayable(file') => recovery_state_for(file', o.action) \notin Early
<1>1. IInv /\ MemoryIsInFile /\ ObservedIsPast /\ tail = FALSE /\ TypeOK
  BY DEF GrantInv, IInv
<1>2. mode = "open"
  BY <1>1, AppendOutcomes
<1>3. tail' = FALSE
  BY <1>1 DEF append_validated, append_fails, disk
<1>4. MemoryIsInFile'
  BY <1>1, AppendStaysInFile, Zenon DEF MemoryIsInFile
<1>5. ASSUME NEW o \in observed'
      PROVE  /\ mode' = "open" => recovery_state_for(entries', o.action) \notin Early
             /\ Replayable(file') => recovery_state_for(file', o.action) \notin Early
  <2>1. /\ recovery_state_for(entries, o.action) \notin Early
        /\ Replayable(file) => recovery_state_for(file, o.action) \notin Early
    BY <1>1, <1>2, <1>5, Zenon DEF ObservedIsPast
  <2>2. recovery_state_for(entries', o.action) \notin Early
    BY <1>1, <2>1, AppendNeverEarly, Zenon
  <2>3. Replayable(file') => recovery_state_for(file', o.action) \notin Early
    BY <1>1, <2>1, FileNeverEarly, Zenon
  <2> QED
    BY <2>2, <2>3
<1> QED
  BY <1>3, <1>4, <1>5, Zenon

\* A step that appends nothing, arms nobody anew and observes only under a
\* live observation permit.
LEMMA GrantQuiet ==
  ASSUME GrantInv, IInv', UNCHANGED <<file, tail, entries, mode>>,
         \A g \in live' :
           \/ g.kind = "observation"
           \/ \E h \in live : /\ h.kind # "observation"
                              /\ h.action = g.action /\ h.seq = g.seq,
         \A o \in observed' :
           \/ o \in observed
           \/ \E h \in live : h.kind = "observation" /\ h.action = o.action
  PROVE  GrantInv'
<1>1. /\ IInv /\ TypeOK /\ MemoryIsInFile /\ ObservedIsPast /\ tail = FALSE
      /\ GrantBackedByDurablePrepared /\ LiveAfterPrepared
      /\ DispatchExcludesObservation
  BY DEF GrantInv, IInv
<1>2. \A h \in live : h.action \in Actions /\ (h.kind # "observation"
                                  => h.kind \in {"prepared", "execution"})
  BY <1>1 DEF TypeOK, Grant, TokenKinds
<1>3. MemoryIsInFile' /\ tail' = FALSE
  BY <1>1, Zenon DEF MemoryIsInFile
<1>4. ASSUME NEW o \in observed'
      PROVE  /\ mode' = "open" => recovery_state_for(entries', o.action) \notin Early
             /\ Replayable(file') => recovery_state_for(file', o.action) \notin Early
             /\ \A h \in live : h.action = o.action => h.kind = "observation"
  <2>1. CASE o \in observed
    BY <1>1, <2>1, Zenon DEF ObservedIsPast
  <2>2. ASSUME NEW h \in live, h.kind = "observation", h.action = o.action
        PROVE  /\ mode' = "open" => recovery_state_for(entries', o.action) \notin Early
               /\ Replayable(file') => recovery_state_for(file', o.action) \notin Early
               /\ \A k \in live : k.action = o.action => k.kind = "observation"
    <3>1. mode = "open" /\ recovery_state_for(entries, o.action) \notin Early
      BY <1>1, <2>2, Zenon DEF LiveAfterPrepared
    <3>2. Replayable(file) => recovery_state_for(file, o.action) \notin Early
      BY <1>1, <1>2, <2>2, <3>1, Zenon DEF MemoryIsInFile
    <3>3. \A k \in live : k.action = o.action => k.kind = "observation"
      BY <1>1, <2>2 DEF DispatchExcludesObservation
    <3> QED
      BY <3>1, <3>2, <3>3, Zenon
  <2> QED
    BY <1>4, <2>1, <2>2, Zenon
<1>5. ObservedIsPast'
  BY <1>4, Zenon DEF ObservedIsPast
<1>6. GrantBackedByDurablePrepared'
  <2>1. ASSUME NEW g \in live', g.kind \in {"prepared", "execution"}
        PROVE  /\ recovery_state_for(entries', g.action) = "dispatch_prepared"
               /\ durable_preparation_matches(entries', g.action, g.seq)
               /\ durable_preparation_matches(file', g.action, g.seq)
    <3>1. g.kind # "observation"
      BY <2>1
    <3>2. PICK h \in live : /\ h.kind # "observation"
                            /\ h.action = g.action /\ h.seq = g.seq
      BY <3>1, Zenon
    <3>3. /\ recovery_state_for(entries, h.action) = "dispatch_prepared"
          /\ durable_preparation_matches(entries, h.action, h.seq)
          /\ durable_preparation_matches(file, h.action, h.seq)
      BY <1>1, <1>2, <3>2, Zenon DEF GrantBackedByDurablePrepared
    <3> QED
      BY <3>2, <3>3, Zenon
  <2> QED
    BY <2>1, Zenon DEF GrantBackedByDurablePrepared
<1> QED
  BY <1>3, <1>5, <1>6 DEF GrantInv

\* A receipt, an authorization or a commit concerns no action that is still
\* being dispatched.
LEMMA OnlyRecordGrant ==
  ASSUME GrantInv, "torn" \notin Faults, NEW e \in OnlyRecords, append_only(e)
  PROVE  GrantInv'
<1>1. /\ e \in Entry
      /\ append_validated(e) \/ append_fails(e)
      /\ UNCHANGED <<process, live, held, observed, cuts, effects>>
  BY Zenon DEF append_only, OnlyRecords
<1>2. mode' = mode /\ live' = live /\ observed' = observed
  BY <1>1 DEF process
<1>3. IInv /\ IInv' /\ ObservedIsPast /\ GrantBackedByDurablePrepared
  <2>1. e.transition # "dispatch_linearized"
    BY DEF OnlyRecords
  <2> QED
    BY <1>1, <2>1, AppendOnlyStep, Zenon DEF GrantInv
<1>4. validate_transition(entries, e, FALSE)
  BY <1>1, <1>3, AppendOutcomes, Zenon
<1>5. ASSUME NEW g \in live, g.kind \in {"prepared", "execution"}
      PROVE  g.action # e.action
  <2> SUFFICES ASSUME g.action = e.action PROVE FALSE
    OBVIOUS
  <2>1. recovery_state_for(entries, e.action) = "dispatch_prepared"
    BY <1>3, <1>5, Zenon DEF GrantBackedByDurablePrepared
  <2>2. "dispatch_prepared" \in Sources(e.transition, FALSE)
    BY <1>4, <2>1, Zenon DEF validate_transition
  <2>3. e.transition = "postcondition_receipt"
    BY <2>2 DEF OnlyRecords, Kinds, Sources, UncertainStates
  <2>4. PICK o \in observed : o.action = e.action
    BY <2>3 DEF OnlyRecords
  <2>5. g.kind = "observation"
    BY <1>3, <2>4, Zenon DEF ObservedIsPast
  <2> QED
    BY <1>5, <2>5
<1>6. GrantBackedByDurablePrepared'
  BY <1>1, <1>2, <1>5, BackingStays, Zenon DEF GrantBackedByDurablePrepared
<1>7. /\ tail' = FALSE /\ MemoryIsInFile'
      /\ \A o \in observed' :
           /\ mode' = "open" => recovery_state_for(entries', o.action) \notin Early
           /\ Replayable(file') => recovery_state_for(file', o.action) \notin Early
  BY <1>1, <1>2, AppendKeepsAgreement, Zenon
<1>8. ObservedIsPast'
  BY <1>2, <1>3, <1>7, Zenon DEF ObservedIsPast
<1> QED
  BY <1>3, <1>6, <1>7, <1>8 DEF GrantInv

\* The capability names the record that memory and file have just gained.
LEMMA PreparedGrant ==
  ASSUME GrantInv, "torn" \notin Faults, NEW a \in Actions,
         NEW receipt \in [authorization : Nat, lineage : Lineages],
         record_dispatch_prepared(a, receipt)
  PROVE  GrantInv'
<1> DEFINE e == Record(a, "dispatch_prepared", receipt)
           g == [kind |-> "prepared", action |-> a, seq |-> next_sequence,
                 cut |-> PreconditionCut]
<1>1. /\ IInv /\ TypeOK /\ MemoryIsInFile /\ ObservedIsPast /\ tail = FALSE
      /\ LiveAfterPrepared /\ GrantBackedByDurablePrepared
  BY DEF GrantInv, IInv
<1>2. IInv'
  BY <1>1, PreparedStep
<1>3. /\ e \in Entry /\ e.action = a /\ e.transition = "dispatch_prepared"
      /\ e.seq = next_sequence
  BY <1>1 DEF TypeOK, Record, Entry, Records
<1>4. g.kind = "prepared" /\ g.action = a /\ g.seq = next_sequence
  OBVIOUS
<1>5. /\ mode' = mode /\ observed' = observed
      /\ \/ append_validated(e) /\ live' = Insert(live, g)
         \/ append_fails(e) /\ live' = live
  BY Zenon DEF record_dispatch_prepared, process
<1> HIDE DEF e, g
<1>6. mode = "open" /\ validate_transition(entries, e, FALSE)
  BY <1>1, <1>3, <1>5, AppendOutcomes, Zenon
<1>7. recovery_state_for(entries, a) = "authorized_not_dispatched"
  BY <1>3, <1>6 DEF validate_transition, Sources
<1>8. recovery_state_for(entries, a) \in Early
  BY <1>7 DEF Early
<1>9. \A h \in live : h.action # a
  BY <1>1, <1>8, Zenon DEF LiveAfterPrepared
<1>10. \A o \in observed : o.action # a
  BY <1>1, <1>6, <1>8, Zenon DEF ObservedIsPast
<1>11. /\ tail' = FALSE /\ MemoryIsInFile'
       /\ \A o \in observed' :
            /\ mode' = "open" => recovery_state_for(entries', o.action) \notin Early
            /\ Replayable(file') => recovery_state_for(file', o.action) \notin Early
  BY <1>3, <1>5, AppendKeepsAgreement, Zenon
<1>12. live' \subseteq live \cup {g}
  BY <1>5 DEF Insert
<1>13. ObservedIsPast'
  <2>1. \A o \in observed', h \in live' : h.action = o.action => h.kind = "observation"
    BY <1>1, <1>4, <1>5, <1>10, <1>12 DEF ObservedIsPast
  <2> QED
    BY <1>11, <2>1, Zenon DEF ObservedIsPast
<1>14. ASSUME NEW h \in live, h.kind \in {"prepared", "execution"}
       PROVE  /\ recovery_state_for(entries', h.action) = "dispatch_prepared"
              /\ durable_preparation_matches(entries', h.action, h.seq)
              /\ durable_preparation_matches(file', h.action, h.seq)
  BY <1>3, <1>5, <1>9, <1>14, BackingStays, Zenon
<1>15. ASSUME append_validated(e)
       PROVE  /\ recovery_state_for(entries', a) = "dispatch_prepared"
              /\ durable_preparation_matches(entries', a, next_sequence)
              /\ durable_preparation_matches(file', a, next_sequence)
  <2>1. /\ entries' = Append(entries, e) /\ file' = Append(file, e)
        /\ entries \in Seq(Entry) /\ file \in Seq(Entry)
    BY <1>1, <1>15, Zenon DEF append_validated, LineFor, TypeOK
  <2>2. \A es \in Seq(Entry) :
          durable_preparation_matches(Append(es, e), a, next_sequence)
    <3>1. ASSUME NEW es \in Seq(Entry)
          PROVE  Len(es) + 1 \in DOMAIN Append(es, e)
                 /\ Append(es, e)[Len(es) + 1] = e
      BY <1>3
    <3>2. ASSUME NEW es \in Seq(Entry)
          PROVE  Len(es) + 1
                   \in Positions(Append(es, e), a, {"dispatch_prepared"})
      BY <1>3, <3>1 DEF Positions
    <3> QED
      BY <1>3, <3>1, <3>2, Zenon DEF durable_preparation_matches
  <2>3. StateAfter(e) = "dispatch_prepared"
    BY <1>3, Zenon DEF StateAfter
  <2>4. recovery_state_for(entries', a) = "dispatch_prepared"
    BY <1>3, <2>1, <2>3, RecoveryStateAppend
  <2> QED
    BY <2>1, <2>2, <2>4, Zenon
<1>16. GrantBackedByDurablePrepared'
  <2>1. ASSUME NEW h \in live', h.kind \in {"prepared", "execution"}
        PROVE  /\ recovery_state_for(entries', h.action) = "dispatch_prepared"
               /\ durable_preparation_matches(entries', h.action, h.seq)
               /\ durable_preparation_matches(file', h.action, h.seq)
    <3>1. CASE h \in live
      BY <1>14, <2>1, <3>1, Zenon
    <3>2. CASE h \notin live
      <4>1. h = g /\ append_validated(e)
        BY <1>5, <1>12, <3>2
      <4> QED
        BY <1>4, <1>15, <4>1, Zenon
    <3> QED
      BY <3>1, <3>2
  <2> QED
    BY <2>1, Zenon DEF GrantBackedByDurablePrepared
<1> QED
  BY <1>2, <1>11, <1>13, <1>16 DEF GrantInv

\* A report consumes the only grant of the action that it is about.
LEMMA LinearizedGrant ==
  ASSUME GrantInv, "torn" \notin Faults, NEW t \in held, NEW r \in Reports(t),
         record_dispatch_linearized(t, r)
  PROVE  GrantInv'
<1> DEFINE e == Record(t.action, "dispatch_linearized", r)
<1>1. /\ IInv /\ TypeOK /\ ObservedIsPast /\ DispatchExcludesObservation
      /\ GrantBackedByDurablePrepared
  BY DEF GrantInv, IInv
<1>2. IInv'
  BY <1>1, LinearizedStep
<1>3. mode' = mode /\ observed' = observed /\ live' \subseteq live
  BY DEF record_dispatch_linearized, process
<1>4. \A h \in live : h.kind # "observation" => h.kind \in {"prepared", "execution"}
  BY <1>1 DEF TypeOK, Grant, TokenKinds
<1>5. CASE UNCHANGED <<disk, memory>>
  <2>1. UNCHANGED <<file, tail, entries, mode>>
    BY <1>3, <1>5 DEF disk, memory
  <2>2. \A g \in live' : \/ g.kind = "observation"
                         \/ \E h \in live : /\ h.kind # "observation"
                                            /\ h.action = g.action /\ h.seq = g.seq
    BY <1>3, Zenon
  <2> QED
    BY <1>2, <1>3, <2>1, <2>2, GrantQuiet, Zenon
<1>6. CASE ~UNCHANGED <<disk, memory>>
  <2>1. Accepted(t) /\ (append_validated(e) \/ append_fails(e))
    <3>1. CASE Accepted(t) /\ DurablyPrepared(t)
      BY <3>1, Zenon DEF record_dispatch_linearized
    <3>2. CASE ~(Accepted(t) /\ DurablyPrepared(t))
      BY <1>6, <3>2, Zenon DEF record_dispatch_linearized
    <3> QED
      BY <3>1, <3>2
  <2>2. /\ t.action \in Actions /\ next_sequence \in Nat
        /\ r \in DispatchedResults \cup NotDispatchedResults
    BY <1>1 DEF TypeOK, Token, Reports
  <2>3. e \in Entry /\ e.action = t.action
    BY <2>2 DEF Record, Entry, Records
  <2>4. live' = live \ {GrantOf(t)} /\ GrantOf(t) \in live
        /\ GrantOf(t).action = t.action
    BY <2>1 DEF record_dispatch_linearized, Accepted, GrantOf
  <2> HIDE DEF e
  <2>5. \A h \in live' : h.action # e.action
    BY <1>1, <2>3, <2>4 DEF DispatchExcludesObservation
  <2>6. GrantBackedByDurablePrepared'
    BY <1>3, <2>1, <2>3, <2>5, BackingStays, Zenon DEF GrantBackedByDurablePrepared
  <2>7. /\ tail' = FALSE /\ MemoryIsInFile'
        /\ \A o \in observed' :
             /\ mode' = "open" => recovery_state_for(entries', o.action) \notin Early
             /\ Replayable(file') => recovery_state_for(file', o.action) \notin Early
    BY <1>3, <2>1, <2>3, AppendKeepsAgreement, Zenon
  <2>8. ObservedIsPast'
    BY <1>1, <1>3, <2>7, Zenon DEF ObservedIsPast
  <2> QED
    BY <1>2, <2>6, <2>7, <2>8 DEF GrantInv
<1> QED
  BY <1>5, <1>6

\* Exchanging, using, abandoning or losing a token.
LEMMA QuietGrant ==
  ASSUME GrantInv, IInv', NEW t \in held, QuietActions(t)
  PROVE  GrantInv'
<1>1. DispatchExcludesObservation /\ TypeOK
  BY DEF GrantInv, IInv
<1>2. UNCHANGED <<disk, process, memory>>
  BY Zenon
  DEF QuietActions, begin_dispatch, executor_acts, abandon_dispatch_execution,
      abandon_postcondition_observation, complete_postcondition_observation,
      drop_token
<1>3. UNCHANGED <<file, tail, entries, mode>>
  BY <1>2 DEF disk, process, memory
<1>4. GrantOf(t).action = t.action /\ GrantOf(t).seq = t.seq
      /\ GrantOf(t).kind = t.kind
  BY DEF GrantOf
<1>5. ASSUME NEW g \in live'
      PROVE  \/ g.kind = "observation"
             \/ \E h \in live : /\ h.kind # "observation"
                                /\ h.action = g.action /\ h.seq = g.seq
  <2>1. CASE g \in live
    BY <2>1, Zenon
  <2>2. CASE g \notin live
    <3>1. begin_dispatch(t)
      BY <1>5, <2>2
      DEF QuietActions, executor_acts, abandon_dispatch_execution,
          abandon_postcondition_observation, complete_postcondition_observation,
          drop_token
    <3>2. /\ t.kind = "prepared" /\ Accepted(t)
          /\ g = [GrantOf(t) EXCEPT !.kind = "execution"]
      BY <1>5, <2>2, <3>1 DEF begin_dispatch, Insert
    <3>3. g.action = t.action /\ g.seq = t.seq
      BY <3>2 DEF GrantOf
    <3>4. GrantOf(t) \in live /\ GrantOf(t).kind # "observation"
      BY <1>4, <3>2 DEF Accepted
    <3> QED
      BY <1>4, <3>3, <3>4, Zenon
  <2> QED
    BY <2>1, <2>2
<1>6. ASSUME NEW o \in observed'
      PROVE  \/ o \in observed
             \/ \E h \in live : h.kind = "observation" /\ h.action = o.action
  <2>1. CASE o \in observed
    BY <2>1
  <2>2. CASE o \notin observed
    <3>1. PICK l \in Lineages, c \in 0 .. cuts :
            complete_postcondition_observation(t, l, c)
      BY <1>6, <2>2
      DEF QuietActions, begin_dispatch, executor_acts, abandon_dispatch_execution,
          abandon_postcondition_observation, drop_token
    <3>2. t.kind = "observation" /\ Accepted(t) /\ o.action = t.action
      BY <1>6, <2>2, <3>1 DEF complete_postcondition_observation
    <3> QED
      BY <1>4, <3>2 DEF Accepted
  <2> QED
    BY <2>1, <2>2
<1> QED
  BY <1>3, <1>5, <1>6, GrantQuiet, Zenon

\* With no torn appends, every step keeps what the file knows of the preparations.
LEMMA NextGrant ==
  ASSUME "torn" \notin Faults
  PROVE  GrantInv /\ [Next]_vars => GrantInv'
<1> SUFFICES ASSUME GrantInv, [Next]_vars PROVE GrantInv'
  OBVIOUS
<1>1. /\ IInv /\ IInv' /\ TypeOK /\ ObservedIsPast /\ MemoryIsInFile
      /\ LiveAfterPrepared /\ tail = FALSE
  BY NextIInv DEF GrantInv, IInv
<1>2. ASSUME open PROVE GrantInv'
  <2>1. /\ mode = "closed" /\ tail' = FALSE
        /\ UNCHANGED <<file, live, observed>>
        /\ mode' = "open" => Replayable(file) /\ entries' = file
    BY <1>2, Zenon DEF open
  <2>2. live' = {}
    BY <1>1, <2>1 DEF LiveAfterPrepared
  <2>3. MemoryIsInFile'
    BY <2>1, Zenon DEF MemoryIsInFile
  <2>4. ObservedIsPast'
    BY <1>1, <2>1, <2>2, Zenon DEF ObservedIsPast
  <2>5. GrantBackedByDurablePrepared'
    BY <2>2 DEF GrantBackedByDurablePrepared
  <2> QED
    BY <1>1, <2>1, <2>3, <2>4, <2>5 DEF GrantInv
<1>3. ASSUME NEW kept \in SUBSET held, NEW seen \in SUBSET observed, close(kept, seen)
      PROVE  GrantInv'
  <2>1. /\ mode' = "closed" /\ live' = {} /\ observed' \subseteq observed
        /\ file' = file /\ tail' = tail
    BY <1>3 DEF close, disk
  <2>2. MemoryIsInFile'
    BY <2>1 DEF MemoryIsInFile
  <2>3. ObservedIsPast'
    BY <1>1, <2>1 DEF ObservedIsPast
  <2>4. GrantBackedByDurablePrepared'
    BY <2>1 DEF GrantBackedByDurablePrepared
  <2> QED
    BY <1>1, <2>1, <2>2, <2>3, <2>4 DEF GrantInv
<1>4. ASSUME NEW a \in Actions, begin_postcondition_observation(a)
      PROVE  GrantInv'
  <2>1. /\ UNCHANGED <<disk, process, memory, observed>>
        /\ \A g \in live' : g.kind = "observation" \/ g \in live
    BY <1>4 DEF begin_postcondition_observation, Insert
  <2>2. UNCHANGED <<file, tail, entries, mode>>
    BY <2>1 DEF disk, process, memory
  <2> QED
    BY <1>1, <2>1, <2>2, GrantQuiet, Zenon
<1>5. ASSUME UNCHANGED vars PROVE GrantInv'
  <2>1. UNCHANGED <<file, tail, entries, mode, live, observed>>
    BY <1>5 DEF vars
  <2> QED
    BY <1>1, <2>1, GrantQuiet, Zenon
<1> QED
  BY <1>1, <1>2, <1>3, <1>4, <1>5, StepKinds, OnlyRecordGrant, PreparedGrant,
     LinearizedGrant, QuietGrant, Zenon

\* A live dispatch grant is backed by the PREPARED record it names, in
\* memory and on disk, through lost and unreported writes and every restart.
\* A torn write is left out: a PREPARED line appended behind one is unreadable
\* (the run JournalTornAppend shows what that leads to).
THEOREM GrantsAreDurable ==
  ASSUME "torn" \notin Faults
  PROVE  Spec => []GrantBackedByDurablePrepared
<1>1. Init => GrantInv
  <2> SUFFICES ASSUME Init PROVE GrantInv
    OBVIOUS
  <2>1. IInv
    BY InitIInv
  <2> QED
    BY <2>1
    DEF Init, GrantInv, MemoryIsInFile, ObservedIsPast, GrantBackedByDurablePrepared
<1>2. GrantInv /\ [Next]_vars => GrantInv'
  BY NextGrant
<1>3. GrantInv => GrantBackedByDurablePrepared
  BY DEF GrantInv
<1> QED
  BY <1>1, <1>2, <1>3, PTL DEF Spec

-----------------------------------------------------------------------------
(***************************************************************************)
(* Phases.                                                                 *)
(***************************************************************************)
\* A record that a caller may append moves its action one phase on at most.
LEMMA RecordMovesPhase ==
  ASSUME NEW es, NEW e \in Entry, validate_transition(es, e, FALSE)
  PROVE  PhaseOf(StateAfter(e))
           \in PhasesAfter(PhaseOf(recovery_state_for(es, e.action)))
<1> DEFINE s == recovery_state_for(es, e.action)
<1>1. e.transition \in Kinds
  BY StateAfterNames
<1>2. s \in Sources(e.transition, FALSE)
  BY Zenon DEF validate_transition
<1> HIDE DEF s
<1> QED
  BY <1>1, <1>2
  DEF s, Kinds, Sources, StateAfter, UncertainStates, PhaseOf, PhasesAfter

\* To stay in a phase is one of the moves the promise allows.
LEMMA PhaseStays ==
  ASSUME NEW s
  PROVE  PhaseOf(s) \in PhasesAfter(PhaseOf(s))
BY DEF PhaseOf, PhasesAfter

\* Only a report that nothing was dispatched rules an action out.
LEMMA OnlyReportsRuleOut ==
  ASSUME NEW e \in Entry
  PROVE  /\ StateAfter(e) = "known_not_dispatched"
              => /\ e.transition = "dispatch_linearized"
                 /\ e.payload \notin DispatchedResults
         /\ \A s : PhaseOf(s) = "ruled_out" => s = "known_not_dispatched"
<1>1. e.transition \in Kinds
  BY StateAfterNames
<1>2. StateAfter(e) = "known_not_dispatched"
        => /\ e.transition = "dispatch_linearized"
           /\ e.payload \notin DispatchedResults
  BY <1>1 DEF Kinds, StateAfter
<1>3. \A s : PhaseOf(s) = "ruled_out" => s = "known_not_dispatched"
  BY DEF PhaseOf
<1> QED
  BY <1>2, <1>3

-----------------------------------------------------------------------------
(***************************************************************************)
(* The file stays at most one record ahead.                                *)
(***************************************************************************)
LEMMA AppendOneAhead ==
  ASSUME IInv, FileIsOneAhead, NEW e \in Entry,
         append_validated(e) \/ append_fails(e)
  PROVE  FileIsOneAhead'
<1>1. /\ mode = "open" /\ validate_transition(entries, e, FALSE)
      /\ entries \in Seq(Entry) /\ file \in Seq(Entry)
      /\ \/ entries' = Append(entries, e) /\ file' = Append(file, LineFor(e))
         \/ entries' = entries /\ file' = file
         \/ entries' = entries /\ file' = Append(file, LineFor(e))
  BY AppendOutcomes, Zenon
<1>2. ASSUME NEW a \in Actions
      PROVE  PhaseOf(recovery_state_for(file', a))
               \in PhasesAfter(PhaseOf(recovery_state_for(entries', a)))
  <2>1. PhaseOf(recovery_state_for(file, a))
          \in PhasesAfter(PhaseOf(recovery_state_for(entries, a)))
    BY <1>1, Zenon DEF FileIsOneAhead
  <2>2. CASE e.action # a
    <3>1. recovery_state_for(Append(file, LineFor(e)), a) = recovery_state_for(file, a)
      BY <1>1, <2>2, FileStateAppend
    <3>2. recovery_state_for(Append(entries, e), a) = recovery_state_for(entries, a)
      BY <1>1, <2>2, RecoveryStateAppend
    <3> QED
      BY <1>1, <2>1, <3>1, <3>2, Zenon
  <2>3. CASE e.action = a
    <3>1. recovery_state_for(Append(file, LineFor(e)), a) = StateAfter(e)
      BY <1>1, <2>3, FileStateAppend
    <3>2. recovery_state_for(Append(entries, e), a) = StateAfter(e)
      BY <1>1, <2>3, RecoveryStateAppend
    <3>3. PhaseOf(StateAfter(e))
            \in PhasesAfter(PhaseOf(recovery_state_for(entries, a)))
      BY <1>1, <2>3, RecordMovesPhase
    <3> QED
      BY <1>1, <2>1, <3>1, <3>2, <3>3, PhaseStays, Zenon
  <2> QED
    BY <2>2, <2>3
<1> QED
  BY <1>2, Zenon DEF FileIsOneAhead

\* An action is not ruled out by a record that does not say so.
LEMMA AppendRulesOutNone ==
  ASSUME IInv, NEW e \in Entry, append_validated(e) \/ append_fails(e), NEW b,
         recovery_state_for(file, b) # "known_not_dispatched",
         e.action = b => StateAfter(e) # "known_not_dispatched"
  PROVE  recovery_state_for(file', b) # "known_not_dispatched"
<1>1. file \in Seq(Entry) /\ (file' = file \/ file' = Append(file, LineFor(e)))
  BY AppendOutcomes, Zenon
<1>2. recovery_state_for(Append(file, LineFor(e)), b) # "known_not_dispatched"
  BY <1>1, FileStateAppend
<1> QED
  BY <1>1, <1>2, Zenon

\* A step that leaves both copies alone and arms nobody anew.
LEMMA PromiseQuiet ==
  ASSUME PromiseInv, IInv', UNCHANGED <<file, entries, mode>>,
         \A t \in Minted' : \E s \in Minted : s.action = t.action
  PROVE  PromiseInv'
<1>1. FileIsOneAhead'
  BY Zenon DEF PromiseInv, FileIsOneAhead
<1>2. RuledOutForAll'
  BY Zenon DEF PromiseInv, RuledOutForAll
<1> QED
  BY <1>1, <1>2 DEF PromiseInv

\* A step of a token that appends nothing leaves the history as it was and mints nothing new.
LEMMA QuietPromise ==
  ASSUME IInv, NEW t \in held, QuietActions(t)
  PROVE  /\ UNCHANGED <<file, entries, mode>>
         /\ \A u \in Minted' : \E s \in Minted : s.action = u.action
         /\ \A u \in held' : u.kind # "observation"
              => \E s \in held : s.kind # "observation" /\ s.action = u.action
         /\ effects' = effects \/ executor_acts(t)
<1>1. UNCHANGED <<disk, process, memory>>
  BY Zenon
  DEF QuietActions, begin_dispatch, executor_acts, abandon_dispatch_execution,
      abandon_postcondition_observation, complete_postcondition_observation,
      drop_token
<1>2. UNCHANGED <<file, entries, mode>>
  BY <1>1 DEF disk, process, memory
<1>3. ASSUME begin_dispatch(t)
      PROVE  /\ effects' = effects
             /\ \A u \in held' : u.kind # "observation"
                  => \E s \in held : s.kind # "observation" /\ s.action = u.action
  <2> DEFINE g == [GrantOf(t) EXCEPT !.kind = "execution"]
  <2>1. t.kind = "prepared" /\ effects' = effects
        /\ held' \subseteq held \cup {TokenOf(g)}
    BY <1>3 DEF begin_dispatch
  <2>2. TokenOf(g).action = t.action
    BY DEF TokenOf, GrantOf
  <2> HIDE DEF g
  <2> QED
    BY <2>1, <2>2
<1>4. ASSUME \/ executor_acts(t) \/ abandon_dispatch_execution(t)
             \/ abandon_postcondition_observation(t) \/ drop_token(t)
             \/ \E l \in Lineages, c \in 0 .. cuts :
                  complete_postcondition_observation(t, l, c)
      PROVE  /\ effects' = effects \/ executor_acts(t)
             /\ held' \subseteq held
  BY <1>4
  DEF executor_acts, abandon_dispatch_execution, drop_token,
      abandon_postcondition_observation, complete_postcondition_observation
<1>5. \A u \in held' : u.kind # "observation"
        => \E s \in held : s.kind # "observation" /\ s.action = u.action
  BY <1>3, <1>4, Zenon DEF QuietActions
<1>6. effects' = effects \/ executor_acts(t)
  BY <1>3, <1>4, Zenon DEF QuietActions
<1>7. ASSUME NEW u \in Minted' PROVE \E s \in Minted : s.action = u.action
  <2>1. CASE u \in effects'
    <3>1. CASE effects' = effects
      BY <2>1, <3>1 DEF Minted
    <3>2. CASE executor_acts(t)
      BY <2>1, <3>2 DEF executor_acts, Minted
    <3> QED
      BY <1>6, <3>1, <3>2
  <2>2. CASE u \notin effects'
    <3>1. u \in held' /\ u.kind # "observation"
      BY <1>7, <2>2 DEF Minted
    <3>2. PICK s \in held : s.kind # "observation" /\ s.action = u.action
      BY <1>5, <3>1
    <3> QED
      BY <3>2 DEF Minted
  <2> QED
    BY <2>1, <2>2
<1> QED
  BY <1>2, <1>5, <1>6, <1>7, Zenon

\* Every step keeps the two histories within one record of each other.
LEMMA NextPromiseInv == PromiseInv /\ [Next]_vars => PromiseInv'
<1> SUFFICES ASSUME PromiseInv, [Next]_vars PROVE PromiseInv'
  OBVIOUS
<1>1. /\ IInv /\ IInv' /\ TypeOK /\ FileIsOneAhead /\ RuledOutForAll
      /\ OneTokenPerAction /\ MintedAfterDispatch'
  <2>1. IInv /\ IInv'
    BY NextIInv DEF PromiseInv
  <2> QED
    BY <2>1 DEF PromiseInv, IInv
<1>2. ASSUME open PROVE PromiseInv'
  <2>1. mode' = "open" => entries' = file /\ file' = file
    BY <1>2, Zenon DEF open
  <2>2. FileIsOneAhead'
    BY <2>1, PhaseStays, Zenon DEF FileIsOneAhead
  <2>3. "known_not_dispatched" \notin AfterDispatch
    BY DEF AfterDispatch, UncertainStates
  <2>4. RuledOutForAll'
    BY <1>1, <2>1, <2>3, Zenon DEF RuledOutForAll, MintedAfterDispatch
  <2> QED
    BY <1>1, <2>2, <2>4 DEF PromiseInv
<1>3. ASSUME NEW kept, NEW seen, close(kept, seen) PROVE PromiseInv'
  <2>1. mode' # "open"
    BY <1>3 DEF close
  <2> QED
    BY <1>1, <2>1, Zenon DEF PromiseInv, FileIsOneAhead, RuledOutForAll
<1>4. ASSUME NEW e \in OnlyRecords, append_only(e) PROVE PromiseInv'
  <2>1. /\ e \in Entry
        /\ append_validated(e) \/ append_fails(e)
        /\ UNCHANGED <<held, effects>>
    BY <1>4, Zenon DEF append_only, OnlyRecords
  <2>2. StateAfter(e) # "known_not_dispatched"
    <3>1. e.transition # "dispatch_linearized"
      BY DEF OnlyRecords
    <3> QED
      BY <2>1, <3>1, OnlyReportsRuleOut, Zenon
  <2>3. Minted' = Minted
    BY <2>1 DEF Minted
  <2>4. mode = "open"
    BY <1>1, <2>1, AppendOutcomes, Zenon
  <2>5. RuledOutForAll'
    BY <1>1, <2>1, <2>2, <2>3, <2>4, AppendRulesOutNone, Zenon DEF RuledOutForAll
  <2> QED
    BY <1>1, <2>1, <2>5, AppendOneAhead, Zenon DEF PromiseInv
<1>5. ASSUME NEW a \in Actions,
             NEW receipt \in [authorization : Nat, lineage : Lineages],
             record_dispatch_prepared(a, receipt)
      PROVE  PromiseInv'
  <2> DEFINE e == Record(a, "dispatch_prepared", receipt)
             g == [kind |-> "prepared", action |-> a, seq |-> next_sequence,
                   cut |-> PreconditionCut]
  <2>1. e \in Entry /\ e.action = a /\ e.transition = "dispatch_prepared"
    BY <1>1 DEF TypeOK, Record, Entry, Records
  <2>2. TokenOf(g).action = a
    BY DEF TokenOf
  <2>3. /\ effects' = effects
        /\ \/ append_validated(e) /\ held' = held \cup {TokenOf(g)}
           \/ append_fails(e) /\ held' = held
    BY <1>5, Zenon DEF record_dispatch_prepared
  <2> HIDE DEF e, g
  <2>4. StateAfter(e) # "known_not_dispatched"
    BY <2>1, OnlyReportsRuleOut
  <2>5. mode = "open" /\ file \in Seq(Entry)
    BY <1>1, <2>1, <2>3, AppendOutcomes, Zenon
  <2>6. ASSUME NEW t \in Minted
        PROVE  recovery_state_for(file', t.action) # "known_not_dispatched"
    BY <1>1, <2>1, <2>3, <2>4, <2>5, AppendRulesOutNone, Zenon DEF RuledOutForAll
  <2>7. ASSUME NEW t \in Minted', t \notin Minted
        PROVE  recovery_state_for(file', t.action) # "known_not_dispatched"
    <3>1. t.action = a /\ append_validated(e)
      BY <2>2, <2>3, <2>7 DEF Minted
    <3>2. file' = Append(file, LineFor(e))
      BY <3>1, Zenon DEF append_validated
    <3> QED
      BY <2>1, <2>4, <2>5, <3>1, <3>2, FileStateAppend
  <2>8. RuledOutForAll'
    BY <2>6, <2>7, Zenon DEF RuledOutForAll
  <2> QED
    BY <1>1, <2>1, <2>3, <2>8, AppendOneAhead, Zenon DEF PromiseInv
<1>6. ASSUME NEW t \in held, NEW r \in Reports(t), record_dispatch_linearized(t, r)
      PROVE  PromiseInv'
  <2> DEFINE e == Record(t.action, "dispatch_linearized", r)
  <2>1. e \in Entry /\ e.action = t.action /\ e.payload = r
    <3>1. t.action \in Actions /\ next_sequence \in Nat
          /\ r \in DispatchedResults \cup NotDispatchedResults
      BY <1>1 DEF TypeOK, Token, Reports
    <3> QED
      BY <3>1 DEF Record, Entry, Records
  <2>2. /\ t.kind = "execution" /\ held' = held \ {t} /\ effects' = effects
        /\ mode' = mode
        /\ (append_validated(e) \/ append_fails(e)) \/ UNCHANGED <<disk, memory>>
    BY <1>6, Zenon DEF record_dispatch_linearized, process
  <2> HIDE DEF e
  <2>3. t \in Minted /\ Minted' \subseteq Minted
        /\ \A s \in Minted' : s = t => t \in effects
    BY <2>2 DEF Minted
  <2>4. CASE UNCHANGED <<disk, memory>>
    <3>1. UNCHANGED <<file, entries, mode>>
      BY <2>2, <2>4 DEF disk, memory
    <3> QED
      BY <1>1, <2>3, <3>1, PromiseQuiet, Zenon
  <2>5. CASE append_validated(e) \/ append_fails(e)
    <3>1. ASSUME NEW s \in Minted', s.action = t.action
          PROVE  StateAfter(e) # "known_not_dispatched"
      <4>1. t \in effects
        BY <1>1, <2>3, <3>1, Zenon DEF OneTokenPerAction
      <4>2. r \in DispatchedResults
        BY <4>1 DEF Reports
      <4> QED
        BY <2>1, <4>2, OnlyReportsRuleOut, Zenon
    <3>2. mode = "open"
      BY <1>1, <2>1, <2>5, AppendOutcomes, Zenon
    <3>3. RuledOutForAll'
      BY <1>1, <2>1, <2>3, <2>5, <3>1, <3>2, AppendRulesOutNone, Zenon
      DEF RuledOutForAll
    <3> QED
      BY <1>1, <2>1, <2>5, <3>3, AppendOneAhead, Zenon DEF PromiseInv
  <2> QED
    BY <2>2, <2>4, <2>5
<1>7. ASSUME NEW a \in Actions, begin_postcondition_observation(a)
      PROVE  PromiseInv'
  <2>1. UNCHANGED <<disk, process, memory, effects>>
        /\ \A t \in held' : t \in held \/ t.kind = "observation"
    BY <1>7 DEF begin_postcondition_observation, TokenOf
  <2>2. UNCHANGED <<file, entries, mode>> /\ Minted' \subseteq Minted
    BY <2>1 DEF disk, process, memory, Minted
  <2> QED
    BY <1>1, <2>2, PromiseQuiet, Zenon
<1>8. ASSUME NEW t \in held, QuietActions(t) PROVE PromiseInv'
  BY <1>1, <1>8, QuietPromise, PromiseQuiet, Zenon
<1>9. ASSUME UNCHANGED vars PROVE PromiseInv'
  <2>1. UNCHANGED <<file, entries, mode>> /\ Minted' = Minted
    BY <1>9 DEF vars, Minted
  <2> QED
    BY <1>1, <2>1, PromiseQuiet, Zenon
<1> QED
  BY <1>1, <1>2, <1>3, <1>4, <1>5, <1>6, <1>7, <1>8, <1>9, StepKinds, Zenon

-----------------------------------------------------------------------------
(***************************************************************************)
(* The journal implements DispatchPromise.                                 *)
(***************************************************************************)
\* The refinement mapping of ConsequentialJournal, by name.
PhaseAt(a) == PhaseOf(recovery_state_for(History, a))

Armed == {a \in Actions : \E t \in held : t.action = a /\ t.kind # "observation"}

Acted == {t.action : t \in effects}

\* What DispatchPromise allows to happen to one action.
PromiseMove(a) ==
  Promise!Prepare(a) \/ Promise!Act(a) \/ Promise!RuleOut(a)
    \/ Promise!Learn(a) \/ Promise!Idle(a)

\* An action moves at most one phase on, is armed only by its preparation,
\* and is ruled out only when nobody can act for it or has.
LEMMA AllowedMove ==
  ASSUME NEW a \in Actions,
         PhaseAt(a)' \in PhasesAfter(PhaseAt(a)),
         a \in Acted' <=> a \in Acted,
         a \in Armed' => \/ a \in Armed
                         \/ PhaseAt(a) = "idle" /\ PhaseAt(a)' = "prepared",
         PhaseAt(a) = "prepared" /\ PhaseAt(a)' = "ruled_out"
           => a \notin Acted' /\ a \notin Armed'
  PROVE  PromiseMove(a)
<1> DEFINE f == [b \in Actions |-> PhaseOf(recovery_state_for(History, b))]
<1>1. f[a] = PhaseAt(a) /\ f'[a] = PhaseAt(a)'
  BY DEF PhaseAt
<1>2. PhaseAt(a) \in {"idle", "prepared", "ruled_out", "uncertain", "settled"}
  BY DEF PhaseAt, PhaseOf
<1> HIDE DEF f
<1>3. CASE PhaseAt(a)' = PhaseAt(a)
  <2>1. a \in Armed' => a \in Armed
    BY <1>3
  <2>2. Promise!Idle(a)
    BY <1>1, <1>3, <2>1, Zenon DEF Promise!Idle, Armed, Acted, f
  <2> QED
    BY <2>2 DEF PromiseMove
<1>4. CASE PhaseAt(a) = "idle" /\ PhaseAt(a)' = "prepared"
  <2>1. Promise!Prepare(a)
    BY <1>1, <1>4, Zenon DEF Promise!Prepare, Acted, f
  <2> QED
    BY <2>1 DEF PromiseMove
<1>5. CASE PhaseAt(a) = "prepared" /\ PhaseAt(a)' = "ruled_out"
  <2>1. Promise!RuleOut(a)
    BY <1>1, <1>5, Zenon DEF Promise!RuleOut, Acted, Armed, f
  <2> QED
    BY <2>1 DEF PromiseMove
<1>6. CASE /\ PhaseAt(a) \in {"prepared", "uncertain", "settled"}
           /\ PhaseAt(a)' \in IF PhaseAt(a) = "settled"
                                THEN {"settled"} ELSE {"uncertain", "settled"}
  <2>1. a \in Armed' => a \in Armed
    BY <1>6
  <2>2. Promise!Learn(a)
    BY <1>1, <1>6, <2>1, Zenon DEF Promise!Learn, Acted, Armed, f
  <2> QED
    BY <2>2 DEF PromiseMove
<1> QED
  BY <1>2, <1>3, <1>4, <1>5, <1>6 DEF PhasesAfter

\* While the journal is open, nobody can act for an action that memory has
\* ruled out, and nobody has.
LEMMA RuledOutIsUnarmed ==
  ASSUME IInv', mode' = "open", NEW a \in Actions, PhaseAt(a)' = "ruled_out"
  PROVE  a \notin Acted' /\ a \notin Armed'
<1>1. recovery_state_for(entries', a) = "known_not_dispatched"
  <2>1. PhaseAt(a)' = PhaseOf(recovery_state_for(entries', a))
    BY DEF PhaseAt, History
  <2> QED
    BY <2>1, Zenon DEF PhaseOf
<1>2. recovery_state_for(entries', a) \notin AfterDispatch
  BY <1>1 DEF AfterDispatch, UncertainStates
<1>3. \A t \in Minted' : t.action # a
  BY <1>2, Zenon DEF IInv, MintedAfterDispatch
<1> QED
  BY <1>3 DEF Minted, Acted, Armed

\* An append of record e, as memory sees it.
LEMMA AppendMoves ==
  ASSUME IInv, IInv', NEW e \in Entry, append_validated(e) \/ append_fails(e),
         mode' = mode, effects' = effects, NEW a \in Actions,
         a \in Armed' => \/ a \in Armed
                         \/ /\ append_validated(e) /\ e.action = a
                            /\ e.transition = "dispatch_prepared"
  PROVE  PromiseMove(a)
<1>1. /\ mode = "open" /\ validate_transition(entries, e, FALSE)
      /\ entries \in Seq(Entry)
      /\ \/ entries' = Append(entries, e) \/ entries' = entries
  BY AppendOutcomes, Zenon
<1>2. /\ PhaseAt(a) = PhaseOf(recovery_state_for(entries, a))
      /\ PhaseAt(a)' = PhaseOf(recovery_state_for(entries', a))
  BY <1>1 DEF PhaseAt, History
<1>3. PhaseAt(a)' \in PhasesAfter(PhaseAt(a))
  <2>1. CASE entries' = entries
    BY <1>2, <2>1, PhaseStays, Zenon
  <2>2. CASE entries' = Append(entries, e) /\ e.action # a
    <3>1. recovery_state_for(entries', a) = recovery_state_for(entries, a)
      BY <1>1, <2>2, RecoveryStateAppend
    <3> QED
      BY <1>2, <3>1, PhaseStays, Zenon
  <2>3. CASE entries' = Append(entries, e) /\ e.action = a
    <3>1. recovery_state_for(entries', a) = StateAfter(e)
      BY <1>1, <2>3, RecoveryStateAppend
    <3>2. PhaseOf(StateAfter(e))
            \in PhasesAfter(PhaseOf(recovery_state_for(entries, a)))
      BY <1>1, <2>3, RecordMovesPhase, Zenon
    <3> QED
      BY <1>2, <3>1, <3>2, Zenon
  <2> QED
    BY <1>1, <2>1, <2>2, <2>3
<1>4. ASSUME append_validated(e), e.action = a, e.transition = "dispatch_prepared"
      PROVE  PhaseAt(a) = "idle" /\ PhaseAt(a)' = "prepared"
  <2>1. entries' = Append(entries, e)
    BY <1>4, Zenon DEF append_validated
  <2>2. recovery_state_for(entries', a) = "dispatch_prepared"
    <3>1. StateAfter(e) = "dispatch_prepared"
      BY <1>4, Zenon DEF StateAfter
    <3> QED
      BY <1>1, <1>4, <2>1, <3>1, RecoveryStateAppend
  <2>3. recovery_state_for(entries, a) = "authorized_not_dispatched"
    BY <1>1, <1>4 DEF validate_transition, Sources
  <2> QED
    BY <1>2, <2>2, <2>3 DEF PhaseOf
<1>5. a \in Armed' => \/ a \in Armed
                      \/ PhaseAt(a) = "idle" /\ PhaseAt(a)' = "prepared"
  BY <1>4, Zenon
<1>6. PhaseAt(a)' = "ruled_out" => a \notin Acted' /\ a \notin Armed'
  BY <1>1, RuledOutIsUnarmed, Zenon
<1>7. Acted' = Acted
  BY Zenon DEF Acted
<1> QED
  BY <1>3, <1>5, <1>6, <1>7, AllowedMove, Zenon

\* A step that moves no phase and arms nobody.
LEMMA IdleMoves ==
  ASSUME NEW a \in Actions, PhaseAt(a)' = PhaseAt(a), effects' = effects,
         \A u \in held' : u.kind # "observation"
           => \E s \in held : s.kind # "observation" /\ s.action = u.action
  PROVE  PromiseMove(a)
<1>1. PhaseAt(a)' \in PhasesAfter(PhaseAt(a))
  BY PhaseStays, Zenon DEF PhaseAt
<1>2. Acted' = Acted
  BY Zenon DEF Acted
<1>3. a \in Armed' => a \in Armed
  BY Zenon DEF Armed
<1>4. ~(PhaseAt(a) = "prepared" /\ PhaseAt(a)' = "ruled_out")
  OBVIOUS
<1> QED
  BY <1>1, <1>2, <1>3, <1>4, AllowedMove, Zenon

\* An executor acts for its own action alone, once.
LEMMA ActMoves ==
  ASSUME IInv, NEW t \in held, executor_acts(t), NEW a \in Actions
  PROVE  PromiseMove(a)
<1>1. /\ t.kind = "execution" /\ t \notin effects /\ effects' = effects \cup {t}
      /\ held' = held /\ UNCHANGED <<disk, process, memory>>
      /\ OneTokenPerAction
  BY DEF executor_acts, IInv
<1>2. PhaseAt(a)' = PhaseAt(a)
  <2>1. UNCHANGED <<file, entries, mode>>
    BY <1>1 DEF disk, process, memory
  <2> QED
    BY <2>1, Zenon DEF PhaseAt, History
<1>3. CASE a = t.action
  <2> DEFINE f == [b \in Actions |-> PhaseOf(recovery_state_for(History, b))]
  <2>1. f'[a] = f[a]
    BY <1>2 DEF PhaseAt
  <2>2. a \in Armed /\ a \in Armed'
    BY <1>1, <1>3 DEF Armed
  <2>3. a \in Acted'
    BY <1>1, <1>3 DEF Acted
  <2>4. a \notin Acted
    <3>1. ASSUME NEW s \in effects PROVE s.action # a
      <4>1. s \in Minted /\ t \in Minted
        BY <1>1 DEF Minted
      <4> QED
        BY <1>1, <1>3, <4>1 DEF OneTokenPerAction
    <3> QED
      BY <3>1 DEF Acted
  <2> HIDE DEF f
  <2>5. Promise!Act(a)
    BY <2>1, <2>2, <2>3, <2>4, Zenon DEF Promise!Act, Armed, Acted, f
  <2> QED
    BY <2>5 DEF PromiseMove
<1>4. CASE a # t.action
  <2>1. PhaseAt(a)' \in PhasesAfter(PhaseAt(a))
    BY <1>2, PhaseStays, Zenon DEF PhaseAt
  <2>2. a \in Acted' <=> a \in Acted
    BY <1>1, <1>4 DEF Acted
  <2>3. a \in Armed' => a \in Armed
    BY <1>1, Zenon DEF Armed
  <2>4. ~(PhaseAt(a) = "prepared" /\ PhaseAt(a)' = "ruled_out")
    BY <1>2
  <2> QED
    BY <2>1, <2>2, <2>3, <2>4, AllowedMove, Zenon
<1> QED
  BY <1>3, <1>4

\* When the journal goes away, the file decides, and it is one record ahead
\* of memory at most.
LEMMA CloseMoves ==
  ASSUME PromiseInv, NEW kept \in SUBSET held, NEW seen, close(kept, seen),
         NEW a \in Actions
  PROVE  PromiseMove(a)
<1>1. /\ mode = "open" /\ mode' = "closed" /\ held' = kept
      /\ file' = file /\ effects' = effects
  BY DEF close, disk
<1>2. /\ PhaseAt(a) = PhaseOf(recovery_state_for(entries, a))
      /\ PhaseAt(a)' = PhaseOf(recovery_state_for(file, a))
  BY <1>1 DEF PhaseAt, History
<1>3. PhaseAt(a)' \in PhasesAfter(PhaseAt(a))
  BY <1>1, <1>2, Zenon DEF PromiseInv, FileIsOneAhead
<1>4. Acted' = Acted
  BY <1>1, Zenon DEF Acted
<1>5. a \in Armed' => a \in Armed
  BY <1>1 DEF Armed
<1>6. ASSUME PhaseAt(a)' = "ruled_out" PROVE a \notin Acted' /\ a \notin Armed'
  <2>1. recovery_state_for(file, a) = "known_not_dispatched"
    BY <1>2, <1>6, Zenon DEF PhaseOf
  <2>2. \A t \in Minted : t.action # a
    BY <1>1, <2>1, Zenon DEF PromiseInv, RuledOutForAll
  <2>3. a \notin Acted /\ a \notin Armed
    BY <2>2 DEF Minted, Acted, Armed
  <2> QED
    BY <1>4, <1>5, <2>3
<1> QED
  BY <1>3, <1>4, <1>5, <1>6, AllowedMove, Zenon

\* Every step of the journal is a step of the promise.
LEMMA NextMoves ==
  ASSUME PromiseInv, PromiseInv', [Next]_vars, NEW a \in Actions
  PROVE  PromiseMove(a)
<1>1. IInv /\ IInv' /\ TypeOK
  BY DEF PromiseInv, IInv
<1>2. ASSUME open PROVE PromiseMove(a)
  <2>1. /\ mode = "closed" /\ file' = file /\ held' = held /\ effects' = effects
        /\ \/ mode' = "open" /\ entries' = file
           \/ mode' = "refused"
    BY <1>2, Zenon DEF open
  <2>2. PhaseAt(a)' = PhaseAt(a)
    BY <2>1 DEF PhaseAt, History
  <2> QED
    BY <2>1, <2>2, IdleMoves, Zenon
<1>3. ASSUME NEW e \in OnlyRecords, append_only(e) PROVE PromiseMove(a)
  <2>1. /\ e \in Entry
        /\ append_validated(e) \/ append_fails(e)
        /\ UNCHANGED <<process, held, effects>>
    BY <1>3, Zenon DEF append_only, OnlyRecords
  <2>2. mode' = mode /\ Armed' = Armed
    BY <2>1 DEF process, Armed
  <2> QED
    BY <1>1, <2>1, <2>2, AppendMoves, Zenon
<1>4. ASSUME NEW b \in Actions,
             NEW receipt \in [authorization : Nat, lineage : Lineages],
             record_dispatch_prepared(b, receipt)
      PROVE  PromiseMove(a)
  <2> DEFINE e == Record(b, "dispatch_prepared", receipt)
             g == [kind |-> "prepared", action |-> b, seq |-> next_sequence,
                   cut |-> PreconditionCut]
  <2>1. e \in Entry /\ e.action = b /\ e.transition = "dispatch_prepared"
    BY <1>1 DEF TypeOK, Record, Entry, Records
  <2>2. TokenOf(g).action = b
    BY DEF TokenOf
  <2>3. /\ effects' = effects /\ mode' = mode
        /\ \/ append_validated(e) /\ held' = held \cup {TokenOf(g)}
           \/ append_fails(e) /\ held' = held
    BY <1>4, Zenon DEF record_dispatch_prepared, process
  <2> HIDE DEF e, g
  <2>4. a \in Armed' => a \in Armed \/ (append_validated(e) /\ e.action = a)
    BY <2>1, <2>2, <2>3 DEF Armed
  <2> QED
    BY <1>1, <2>1, <2>3, <2>4, AppendMoves, Zenon
<1>5. ASSUME NEW t \in held, NEW r \in Reports(t), record_dispatch_linearized(t, r)
      PROVE  PromiseMove(a)
  <2> DEFINE e == Record(t.action, "dispatch_linearized", r)
  <2>1. e \in Entry
    <3>1. t.action \in Actions /\ next_sequence \in Nat
          /\ r \in DispatchedResults \cup NotDispatchedResults
      BY <1>1 DEF TypeOK, Token, Reports
    <3> QED
      BY <3>1 DEF Record, Entry, Records
  <2>2. /\ held' = held \ {t} /\ effects' = effects /\ mode' = mode
        /\ (append_validated(e) \/ append_fails(e)) \/ UNCHANGED <<disk, memory>>
    BY <1>5, Zenon DEF record_dispatch_linearized, process
  <2> HIDE DEF e
  <2>3. a \in Armed' => a \in Armed
    BY <2>2 DEF Armed
  <2>4. CASE UNCHANGED <<disk, memory>>
    <3>1. UNCHANGED <<file, entries, mode>>
      BY <2>2, <2>4 DEF disk, memory
    <3>2. PhaseAt(a)' = PhaseAt(a)
      BY <3>1, Zenon DEF PhaseAt, History
    <3>3. \A u \in held' : u.kind # "observation"
            => \E s \in held : s.kind # "observation" /\ s.action = u.action
      BY <2>2
    <3> QED
      BY <2>2, <3>2, <3>3, IdleMoves, Zenon
  <2>5. CASE append_validated(e) \/ append_fails(e)
    BY <1>1, <2>1, <2>2, <2>3, <2>5, AppendMoves, Zenon
  <2> QED
    BY <2>2, <2>4, <2>5
<1>6. ASSUME NEW b \in Actions, begin_postcondition_observation(b)
      PROVE  PromiseMove(a)
  <2>1. /\ UNCHANGED <<disk, process, memory, effects>>
        /\ \A t \in held' : t.kind # "observation" => t \in held
    BY <1>6 DEF begin_postcondition_observation, TokenOf
  <2>2. UNCHANGED <<file, entries, mode>>
    BY <2>1 DEF disk, process, memory
  <2>3. PhaseAt(a)' = PhaseAt(a)
    BY <2>2, Zenon DEF PhaseAt, History
  <2> QED
    BY <2>1, <2>3, IdleMoves, Zenon
<1>7. ASSUME NEW t \in held, QuietActions(t) PROVE PromiseMove(a)
  <2>1. /\ UNCHANGED <<file, entries, mode>>
        /\ \A u \in held' : u.kind # "observation"
             => \E s \in held : s.kind # "observation" /\ s.action = u.action
        /\ effects' = effects \/ executor_acts(t)
    BY <1>1, <1>7, QuietPromise, Zenon
  <2>2. PhaseAt(a)' = PhaseAt(a)
    BY <2>1, Zenon DEF PhaseAt, History
  <2> QED
    BY <1>1, <2>1, <2>2, ActMoves, IdleMoves, Zenon
<1>8. ASSUME UNCHANGED vars PROVE PromiseMove(a)
  <2>1. UNCHANGED <<file, entries, mode, held, effects>>
    BY <1>8 DEF vars
  <2>2. PhaseAt(a)' = PhaseAt(a)
    BY <2>1, Zenon DEF PhaseAt, History
  <2> QED
    BY <2>1, <2>2, IdleMoves, Zenon
<1> QED
  BY <1>1, <1>2, <1>3, <1>4, <1>5, <1>6, <1>7, <1>8, StepKinds, CloseMoves, Zenon

\* An empty journal keeps the promise.
LEMMA InitPromise == Init => PromiseInv /\ Promise!Init
<1> SUFFICES ASSUME Init PROVE PromiseInv /\ Promise!Init
  OBVIOUS
<1>1. PromiseInv
  <2>1. IInv
    BY InitIInv
  <2> QED
    BY <2>1 DEF Init, PromiseInv, FileIsOneAhead, RuledOutForAll
<1>2. [a \in Actions |-> PhaseOf(recovery_state_for(History, a))]
        \in [Actions -> {"idle", "prepared", "ruled_out", "uncertain", "settled"}]
  BY DEF PhaseOf
<1>3. /\ {a \in Actions : \E t \in held : t.action = a /\ t.kind # "observation"} = {}
      /\ {t.action : t \in effects} = {}
  BY DEF Init
<1>4. Promise!Init
  BY <1>2, <1>3 DEF Promise!Init, Promise!Phases
<1> QED
  BY <1>1, <1>4

\* The journal keeps its promise about every action: whatever is lost, torn
\* or written unreported, and however often the process restarts, each of
\* its steps is a step of DispatchPromise.
THEOREM JournalKeepsPromise == Spec => KeepsDispatchPromise
<1>1. Init => PromiseInv /\ Promise!Init
  BY InitPromise
<1>2. PromiseInv /\ [Next]_vars => PromiseInv'
  BY NextPromiseInv
<1>3. PromiseInv /\ PromiseInv' /\ [Next]_vars => [Promise!Next]_Promise!vars
  <2> SUFFICES ASSUME PromiseInv, PromiseInv', [Next]_vars
               PROVE  Promise!Next
    OBVIOUS
  <2> QED
    BY NextMoves, Zenon DEF Promise!Next, PromiseMove
<1> QED
  BY <1>1, <1>2, <1>3, PTL DEF Spec, KeepsDispatchPromise, Promise!Spec
===============================================================================
