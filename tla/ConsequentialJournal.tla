------------------------ MODULE ConsequentialJournal ------------------------
(***************************************************************************)
(* The durable journal of consequential actions, kept by                   *)
(*   crates/live-bridge/src/consequential_journal/base.rs                  *)
(*                                                                         *)
(* The journal is an append-only file of records.  A process that opens it *)
(* replays the file into memory, and appends by validating a transition    *)
(* against memory, writing and syncing one line, and only then updating    *)
(* memory.  Dispatch authority is process local: a prepared capability,    *)
(* the execution permit it is exchanged for, and the observation permit    *)
(* that reconciles an uncertain dispatch.  Each is a value that its holder *)
(* gives up by using it, matched against a live grant kept beside memory.  *)
(* No restart rebuilds a grant.                                            *)
(*                                                                         *)
(* Every operation runs under the mutex of the journal state, which is     *)
(* held across the blocking append; it is one step here.  What the mutex   *)
(* does not cover is modelled: the process may stop between any two steps, *)
(* an append may fail with nothing, part or all of its line in the file,   *)
(* and a holder may lose the value it holds.                               *)
(***************************************************************************)
EXTENDS Integers, Sequences, FiniteSets

CONSTANTS
  Actions,       \* transport action ids
  Lineages,      \* <<session, provider, target, precondition cut>> bindings
  Revisions,     \* authorization revisions
  Contracts,     \* postcondition contract references
  Envelopes,     \* the envelopes that plans bind
  LegacyFiles,   \* journal files that this process may find at first start
  Faults,        \* how an append can fail
  MaxRecords,    \* bound on the lines of the file and of memory
  MaxInstances,  \* bound on successful opens
  MaxCuts        \* bound on post-dispatch cuts minted

VARIABLES
  file,          \* the complete lines of the journal file
  tail,          \* TRUE iff bytes without a newline follow them
  mode,          \* "closed", "open" or "refused" (open reported corruption)
  instance,      \* journal_instance_ref
  entries,       \* JournalState.entries
  next_sequence, \* JournalState.next_sequence
  live,          \* the three grant maps of JournalState, tagged by kind
  held,          \* capabilities and permits in the hands of callers
  observed,      \* observation receipts in the hands of callers
  cuts,          \* number of post-dispatch snapshot cuts minted so far
  effects        \* history: permits whose executor has acted on the world

vars == <<file, tail, mode, instance, entries, next_sequence,
          live, held, observed, cuts, effects>>

disk    == <<file, tail>>
memory  == <<entries, next_sequence>>
process == <<mode, instance>>

-----------------------------------------------------------------------------
(***************************************************************************)
(* Data.                                                                   *)
(***************************************************************************)
PreconditionCut == 0

\* The dispatch results, by what they say of the world: full, partial and
\* ambiguous dispatch may have acted; not dispatched, rejected and blocked
\* have not.
DispatchedResults == {"dispatched"}

NotDispatchedResults == {"not_dispatched"}

Statuses == {"pass", "fail", "unknown"}

Envelope ==
  [lineage : Lineages, revision : Revisions, contracts : SUBSET Contracts]

Evidence == UNION {[C -> Statuses] : C \in SUBSET Contracts}

Records(kind, Payload) ==
  [seq : Nat, action : Actions, transition : {kind}, payload : Payload]

\* Journal records, by the kind of transition they carry.
Entry ==
  Records("intent_admitted", Envelope)
  \cup Records("authorization_recorded",
               [revision : Revisions, revalidated : BOOLEAN])
  \cup Records("dispatch_prepared", [authorization : Nat, lineage : Lineages])
  \cup Records("dispatch_linearized", DispatchedResults \cup NotDispatchedResults)
  \cup Records("postcondition_receipt",
               [lineage : Lineages, cut : Nat, cause : Nat, evidence : Evidence])
  \cup Records("reconciliation_outcome", BOOLEAN)
  \cup Records("compensation_recorded", BOOLEAN)
  \cup Records("committed", {TRUE})

Kinds ==
  {"intent_admitted", "authorization_recorded", "dispatch_prepared",
   "dispatch_linearized", "postcondition_receipt", "reconciliation_outcome",
   "compensation_recorded", "committed"}

TokenKinds == {"prepared", "execution", "observation"}

Grant == [kind : TokenKinds, action : Actions, seq : Nat, cut : Nat]

Token == [kind : TokenKinds, action : Actions, seq : Nat, cut : Nat,
          instance : Nat]

ObservationReceipt ==
  [action : Actions, lineage : Lineages, cut : Nat, cause : Nat]

\* The live grant that matches a capability or permit field by field.
GrantOf(t) ==
  [kind |-> t.kind, action |-> t.action, seq |-> t.seq, cut |-> t.cut]

TokenOf(g) ==
  [kind |-> g.kind, action |-> g.action, seq |-> g.seq, cut |-> g.cut,
   instance |-> instance]

ASSUME ConstantsAssumption ==
  /\ Envelopes \subseteq Envelope
  /\ \A f \in LegacyFiles : f \in Seq(Entry)
  /\ Faults \subseteq {"lost", "torn", "written"}
  /\ MaxRecords \in Nat /\ MaxInstances \in Nat /\ MaxCuts \in Nat

-----------------------------------------------------------------------------
(***************************************************************************)
(* Reading a history.                                                      *)
(***************************************************************************)
\* Positions of the records of action a whose kind is in K.
Positions(es, a, K) ==
  {i \in DOMAIN es : es[i].action = a /\ es[i].transition \in K}

\* The greatest element of a set of positions, 0 if it is empty.
LastOf(S) == IF S = {} THEN 0 ELSE CHOOSE i \in S : \A j \in S : j <= i

Latest(es, a, K) == LastOf(Positions(es, a, K))

\* Mutant: a contract without evidence counts as passed.
verdict_ignoring_unknown(evidence) ==
  IF \E c \in DOMAIN evidence : evidence[c] = "fail"
    THEN "verified_unexpected" ELSE "verified_expected"

\* The verdict that a receipt's evidence forces.
Verdict(evidence) ==
  IF \E c \in DOMAIN evidence : evidence[c] = "fail"
    THEN "verified_unexpected"
    ELSE IF \E c \in DOMAIN evidence : evidence[c] = "unknown"
      THEN "reconciliation_required"
      ELSE "verified_expected"

\* The recovery state that a record leaves its action in.
StateAfter(e) ==
  CASE e.transition = "intent_admitted"        -> "admitted"
    [] e.transition = "authorization_recorded" -> "authorized_not_dispatched"
    [] e.transition = "dispatch_prepared"      -> "dispatch_prepared"
    [] e.transition = "dispatch_linearized"    ->
         IF e.payload \in DispatchedResults
           THEN "possibly_dispatched" ELSE "known_not_dispatched"
    [] e.transition = "postcondition_receipt"  ->
         IF Verdict(e.payload.evidence) = "verified_expected"
           THEN "verified_uncommitted" ELSE "outcome_observed_unverified"
    [] e.transition = "reconciliation_outcome" ->
         IF e.payload
           THEN "verified_uncommitted" ELSE "outcome_observed_unverified"
    [] e.transition = "compensation_recorded"  ->
         IF e.payload THEN "compensated" ELSE "compensation_failed"
    [] OTHER                                   -> "committed"

recovery_state_for(es, a) ==
  IF Latest(es, a, Kinds) = 0
    THEN "none"
    ELSE StateAfter(es[Latest(es, a, Kinds)])

admitted_envelope_for(es, a) ==
  es[Latest(es, a, {"intent_admitted"})].payload

\* The record that a post-dispatch observation of a is causally after.
CauseKinds == {"dispatch_prepared", "dispatch_linearized"}

postcondition_observation_cause_for(es, a) ==
  es[Latest(es, a, CauseKinds)].seq

durable_preparation_matches(es, a, seq) ==
  \E i \in Positions(es, a, {"dispatch_prepared"}) : es[i].seq = seq

UncertainStates ==
  {"dispatch_prepared", "possibly_dispatched", "outcome_observed_unverified"}

requires_reconciliation(es, a) ==
  recovery_state_for(es, a) \in UncertainStates \cup {"compensation_failed"}

-----------------------------------------------------------------------------
(***************************************************************************)
(* Validation of the next record of a history.                             *)
(***************************************************************************)
\* Mutant: any recorded authorization of the action will do.
preparation_on_stale_authority(es, a, receipt) ==
  /\ \E i \in Positions(es, a, {"authorization_recorded"}) :
       /\ es[i].payload.revalidated
       /\ receipt.authorization = es[i].seq
  /\ receipt.lineage = admitted_envelope_for(es, a).lineage

validate_dispatch_preparation(es, a, receipt) ==
  LET env  == admitted_envelope_for(es, a)
      auth == Latest(es, a, {"authorization_recorded"})
  IN  /\ auth # 0
      /\ es[auth].payload.revalidated
      /\ es[auth].payload.revision = env.revision
      /\ receipt.authorization = es[auth].seq
      /\ receipt.lineage = env.lineage

validate_action_postcondition_receipt(es, a, seq, receipt) ==
  LET env == admitted_envelope_for(es, a)
  IN  /\ receipt.lineage = env.lineage
      /\ receipt.cut # PreconditionCut
      /\ seq = Len(es) + 1
      /\ receipt.cause < seq
      /\ Latest(es, a, CauseKinds) # 0
      /\ receipt.cause = postcondition_observation_cause_for(es, a)
      /\ env.contracts # {}
      /\ DOMAIN receipt.evidence = env.contracts

\* Mutant: PREPARED may be recorded again to retry a dispatch.
sources_with_retry(k, replay) ==
  CASE k = "intent_admitted"        -> {"none"}
    [] k = "authorization_recorded" ->
         {"admitted", "authorized_not_dispatched"}
    [] k = "dispatch_prepared"      ->
         {"authorized_not_dispatched", "dispatch_prepared"}
    [] k = "dispatch_linearized"    -> {"dispatch_prepared"}
    [] k = "postcondition_receipt"  -> UncertainStates
    [] k = "compensation_recorded"  -> {"outcome_observed_unverified"}
    [] OTHER                        -> {"verified_uncommitted"}

\* From which recovery states a record of kind k may follow.
Sources(k, replay) ==
  CASE k = "intent_admitted"        -> {"none"}
    [] k = "authorization_recorded" ->
         {"admitted", "authorized_not_dispatched"}
    [] k = "dispatch_prepared"      -> {"authorized_not_dispatched"}
    [] k = "dispatch_linearized"    ->
         {"dispatch_prepared"} \cup
           (IF replay THEN {"authorized_not_dispatched"} ELSE {})
    [] k = "postcondition_receipt"  -> UncertainStates
    [] k = "reconciliation_outcome" ->
         IF replay THEN UncertainStates \cup {"known_not_dispatched"} ELSE {}
    [] k = "compensation_recorded"  -> {"outcome_observed_unverified"}
    [] OTHER                        -> {"verified_uncommitted"}

validate_transition(es, e, replay) ==
  /\ recovery_state_for(es, e.action) \in Sources(e.transition, replay)
  /\ e.transition = "dispatch_prepared" =>
       validate_dispatch_preparation(es, e.action, e.payload)
  /\ e.transition = "postcondition_receipt" =>
       validate_action_postcondition_receipt(es, e.action, e.seq, e.payload)

\* load_and_repair accepts the complete lines f.
Replayable(f) ==
  \A i \in DOMAIN f :
    /\ f[i].seq = i
    /\ validate_transition(SubSeq(f, 1, i - 1), f[i], TRUE)

-----------------------------------------------------------------------------
(***************************************************************************)
(* Appending a record.                                                     *)
(***************************************************************************)
Record(a, k, p) ==
  [seq |-> next_sequence, action |-> a, transition |-> k, payload |-> p]

\* A line written behind an incomplete tail shares a line with it, which
\* does not parse; sequence 0 stands for that.
LineFor(e) == IF tail THEN [e EXCEPT !.seq = 0] ELSE e

\* Mutant: memory follows although the line never reached the file.
append_buffered(e) ==
  /\ mode = "open"
  /\ Len(file) < MaxRecords
  /\ Len(entries) < MaxRecords
  /\ validate_transition(entries, e, FALSE)
  /\ entries' = Append(entries, e)
  /\ next_sequence' = next_sequence + 1
  /\ UNCHANGED disk

\* Mutant: the next record reuses the sequence of this one.
append_without_advancing(e) ==
  /\ mode = "open"
  /\ Len(file) < MaxRecords
  /\ validate_transition(entries, e, FALSE)
  /\ file' = Append(file, LineFor(e))
  /\ tail' = FALSE
  /\ entries' = Append(entries, e)
  /\ UNCHANGED next_sequence

\* The record is in the file, synced, and memory follows.
append_validated(e) ==
  /\ mode = "open"
  /\ Len(file) < MaxRecords
  /\ validate_transition(entries, e, FALSE)
  /\ file' = Append(file, LineFor(e))
  /\ tail' = FALSE
  /\ entries' = Append(entries, e)
  /\ next_sequence' = next_sequence + 1

\* append_durable reports an error, or the future that awaits it is dropped:
\* memory stays as it was, and the file holds none of the line, part of it,
\* or all of it.
append_fails(e) ==
  /\ mode = "open"
  /\ Len(file) < MaxRecords
  /\ validate_transition(entries, e, FALSE)
  /\ \/ /\ "lost" \in Faults
        /\ UNCHANGED disk
     \/ /\ "torn" \in Faults
        /\ tail' = TRUE
        /\ UNCHANGED file
     \/ /\ "written" \in Faults
        /\ file' = Append(file, LineFor(e))
        /\ tail' = FALSE
  /\ UNCHANGED memory

\* A record whose operation changes nothing besides the journal.
append_only(e) ==
  /\ append_validated(e) \/ append_fails(e)
  /\ UNCHANGED <<process, live, held, observed, cuts, effects>>

record_intent_admitted(a, env) ==
  append_only(Record(a, "intent_admitted", env))

record_authorization(a, revision, revalidated) ==
  append_only(Record(a, "authorization_recorded",
                     [revision |-> revision, revalidated |-> revalidated]))

record_compensation(a, verified) ==
  append_only(Record(a, "compensation_recorded", verified))

record_committed(a) == append_only(Record(a, "committed", TRUE))

-----------------------------------------------------------------------------
(***************************************************************************)
(* Dispatch authority.                                                     *)
(***************************************************************************)
\* HashMap::insert: the grant replaces one of the same kind and action.
Insert(grants, g) ==
  {h \in grants : ~(h.kind = g.kind /\ h.action = g.action)} \cup {g}

HasLive(a, K) == \E g \in live : g.action = a /\ g.kind \in K

\* A token is accepted by the instance that minted it, while its grant lives.
Accepted(t) == t.instance = instance /\ GrantOf(t) \in live

DurablyPrepared(t) ==
  /\ recovery_state_for(entries, t.action) = "dispatch_prepared"
  /\ durable_preparation_matches(entries, t.action, t.seq)

record_dispatch_prepared(a, receipt) ==
  LET e == Record(a, "dispatch_prepared", receipt)
      g == [kind |-> "prepared", action |-> a, seq |-> next_sequence,
            cut |-> PreconditionCut]
  IN  \/ /\ append_validated(e)
         /\ live' = Insert(live, g)
         /\ held' = held \cup {TokenOf(g)}
         /\ UNCHANGED <<process, observed, cuts, effects>>
      \/ /\ append_fails(e)
         /\ UNCHANGED <<process, live, held, observed, cuts, effects>>

\* Mutant: the prepared grant outlives the permit it was exchanged for.
begin_dispatch_keeping_grant(t) ==
  LET g == [GrantOf(t) EXCEPT !.kind = "execution"]
  IN  /\ mode = "open"
      /\ t.kind = "prepared"
      /\ Accepted(t)
      /\ DurablyPrepared(t)
      /\ live' = Insert(live, g)
      /\ held' = (held \ {t}) \cup {TokenOf(g)}
      /\ UNCHANGED <<disk, process, memory, observed, cuts, effects>>

\* Consumes the capability first.  A refusal leaves no capability to retry.
begin_dispatch(t) ==
  LET g == [GrantOf(t) EXCEPT !.kind = "execution"]
  IN  /\ mode = "open"
      /\ t.kind = "prepared"
      /\ IF Accepted(t) /\ DurablyPrepared(t)
           THEN /\ live' = Insert(live \ {GrantOf(t)}, g)
                /\ held' = (held \ {t}) \cup {TokenOf(g)}
           ELSE /\ live' = IF Accepted(t) THEN live \ {GrantOf(t)} ELSE live
                /\ held' = held \ {t}
      /\ UNCHANGED <<disk, process, memory, observed, cuts, effects>>

\* The executor that holds a permit acts on the world, once.  External: the
\* journal neither sees nor causes it.
executor_acts(t) ==
  /\ t.kind = "execution"
  /\ t \notin effects
  /\ effects' = effects \cup {t}
  /\ UNCHANGED <<disk, process, memory, live, held, observed, cuts>>

abandon_dispatch_execution(t) ==
  /\ mode = "open"
  /\ t.kind = "execution"
  /\ held' = held \ {t}
  /\ live' = IF Accepted(t) THEN live \ {GrantOf(t)} ELSE live
  /\ UNCHANGED <<disk, process, memory, observed, cuts, effects>>

\* Mutant: a failed or refused report hands the permit back.
linearize_returning_permit(t, result) ==
  LET e == Record(t.action, "dispatch_linearized", result)
  IN  /\ t.kind = "execution"
      /\ Accepted(t)
      /\ DurablyPrepared(t)
      /\ append_validated(e) \/ append_fails(e)
      /\ UNCHANGED <<process, held, live, observed, cuts, effects>>

\* Consumes the permit before the record is validated and written.
record_dispatch_linearized(t, result) ==
  LET e == Record(t.action, "dispatch_linearized", result)
  IN  /\ mode = "open"
      /\ t.kind = "execution"
      /\ held' = held \ {t}
      /\ live' = IF Accepted(t) THEN live \ {GrantOf(t)} ELSE live
      /\ IF Accepted(t) /\ DurablyPrepared(t)
           THEN append_validated(e) \/ append_fails(e)
           ELSE UNCHANGED <<disk, memory>>
      /\ UNCHANGED <<process, observed, cuts, effects>>

-----------------------------------------------------------------------------
(***************************************************************************)
(* Observation of an uncertain dispatch.                                   *)
(***************************************************************************)
\* Mutant: only a live observation blocks another one.
observation_during_dispatch(a) ==
  /\ mode = "open"
  /\ ~HasLive(a, {"observation"})
  /\ recovery_state_for(entries, a) \in UncertainStates
  /\ cuts < MaxCuts
  /\ LET g == [kind |-> "observation", action |-> a,
               seq  |-> postcondition_observation_cause_for(entries, a),
               cut  |-> cuts + 1]
     IN  /\ live' = Insert(live, g)
         /\ held' = held \cup {TokenOf(g)}
  /\ cuts' = cuts + 1
  /\ UNCHANGED <<disk, process, memory, observed, effects>>

begin_postcondition_observation(a) ==
  /\ mode = "open"
  /\ ~HasLive(a, {"prepared", "execution"})
  /\ ~HasLive(a, {"observation"})
  /\ recovery_state_for(entries, a) \in UncertainStates
  /\ Latest(entries, a, CauseKinds) # 0
  /\ cuts < MaxCuts
  /\ LET g == [kind |-> "observation", action |-> a,
               seq  |-> postcondition_observation_cause_for(entries, a),
               cut  |-> cuts + 1]
     IN  /\ live' = Insert(live, g)
         /\ held' = held \cup {TokenOf(g)}
  /\ cuts' = cuts + 1
  /\ UNCHANGED <<disk, process, memory, observed, effects>>

abandon_postcondition_observation(t) ==
  /\ mode = "open"
  /\ t.kind = "observation"
  /\ held' = held \ {t}
  /\ live' = IF Accepted(t) THEN live \ {GrantOf(t)} ELSE live
  /\ UNCHANGED <<disk, process, memory, observed, cuts, effects>>

\* Consumes the permit first; only a snapshot of the permit's own lineage
\* and cut yields a receipt.
complete_postcondition_observation(t, lineage, cut) ==
  LET env == admitted_envelope_for(entries, t.action)
  IN  /\ mode = "open"
      /\ t.kind = "observation"
      /\ held' = held \ {t}
      /\ live' = IF Accepted(t) THEN live \ {GrantOf(t)} ELSE live
      /\ observed' =
           IF Accepted(t) /\ lineage = env.lineage /\ cut = t.cut
             THEN observed \cup {[action |-> t.action, lineage |-> lineage,
                                  cut |-> cut, cause |-> t.seq]}
             ELSE observed
      /\ UNCHANGED <<disk, process, memory, cuts, effects>>

record_action_postcondition_receipt(o, evidence) ==
  append_only(Record(o.action, "postcondition_receipt",
                     [lineage |-> o.lineage, cut |-> o.cut,
                      cause |-> o.cause, evidence |-> evidence]))

-----------------------------------------------------------------------------
(***************************************************************************)
(* The life of the process and of the values it hands out.                 *)
(***************************************************************************)
\* A holder's task is cancelled or panics; nobody tells the journal.
drop_token(t) ==
  /\ held' = held \ {t}
  /\ UNCHANGED <<disk, process, memory, live, observed, cuts, effects>>

\* The journal goes away.  With the process, every value goes with it; a
\* reopen within one process leaves them with their holders.
close(kept, seen) ==
  /\ mode = "open"
  /\ mode' = "closed"
  /\ live' = {}
  /\ held' = kept
  /\ observed' = seen
  /\ entries' = <<>>
  /\ next_sequence' = 1
  /\ UNCHANGED <<disk, instance, cuts, effects>>

\* load_and_repair drops an incomplete tail, then replays or refuses.
open ==
  /\ mode = "closed"
  /\ instance < MaxInstances
  /\ tail' = FALSE
  /\ IF Replayable(file)
       THEN /\ mode' = "open"
            /\ instance' = instance + 1
            /\ entries' = file
            /\ next_sequence' = Len(file) + 1
       ELSE /\ mode' = "refused"
            /\ UNCHANGED <<instance, memory>>
  /\ UNCHANGED <<file, live, held, observed, cuts, effects>>

-----------------------------------------------------------------------------
Init ==
  /\ file \in LegacyFiles
  /\ tail = FALSE
  /\ mode = "closed"
  /\ instance = 0
  /\ entries = <<>>
  /\ next_sequence = 1
  /\ live = {}
  /\ held = {}
  /\ observed = {}
  /\ cuts = 0
  /\ effects = {}

\* The results an executor reports: one that has acted does not report that
\* nothing was dispatched.
Reports(t) ==
  IF t \in effects THEN DispatchedResults
                   ELSE DispatchedResults \cup NotDispatchedResults

Next ==
  \/ open
  \/ close({}, {})
  \/ close(held, observed)
  \/ \E a \in Actions :
       \/ \E env \in Envelopes : record_intent_admitted(a, env)
       \/ \E r \in Revisions, b \in BOOLEAN : record_authorization(a, r, b)
       \/ \E n \in 1 .. MaxRecords, l \in Lineages :
            record_dispatch_prepared(a, [authorization |-> n, lineage |-> l])
       \/ begin_postcondition_observation(a)
       \/ \E b \in BOOLEAN : record_compensation(a, b)
       \/ record_committed(a)
  \/ \E t \in held :
       \/ begin_dispatch(t)
       \/ executor_acts(t)
       \/ abandon_dispatch_execution(t)
       \/ \E r \in Reports(t) : record_dispatch_linearized(t, r)
       \/ abandon_postcondition_observation(t)
       \/ \E l \in Lineages, c \in 0 .. cuts :
            complete_postcondition_observation(t, l, c)
       \/ drop_token(t)
  \/ \E o \in observed, ev \in Evidence :
       record_action_postcondition_receipt(o, ev)

Spec == Init /\ [][Next]_vars

-----------------------------------------------------------------------------
(***************************************************************************)
(* Properties.                                                             *)
(***************************************************************************)
\* Every variable has the shape the code's types give it.
TypeOK ==
  /\ file \in Seq(Entry) /\ tail \in BOOLEAN
  /\ mode \in {"closed", "open", "refused"} /\ instance \in Nat
  /\ entries \in Seq(Entry) /\ next_sequence = Len(entries) + 1
  /\ live \subseteq Grant /\ held \subseteq Token
  /\ observed \subseteq ObservationReceipt
  /\ cuts \in Nat /\ effects \subseteq Token

\* While an action may still be dispatched (a live prepared capability or
\* execution permit) nobody holds authority to observe its outcome, and it
\* is never backed by both dispatch grants at once: what
\* begin_postcondition_observation and begin_dispatch promise together.
DispatchExcludesObservation ==
  \A g, h \in live : g.action = h.action => g = h

\* Whatever crashes, failed writes and reopens happen, at most one executor
\* ever acts for an action: durable PREPARED never grants a second try.
AtMostOneDispatch ==
  \A s, t \in effects : s.action = t.action => s = t

AfterDispatch ==
  UncertainStates \cup
  {"verified_uncommitted", "compensated", "compensation_failed", "committed"}

\* Once an executor has acted, neither the running journal nor any replay
\* of the file as it stands takes the action for one not dispatched.
EffectNeverForgotten ==
  \A t \in effects :
    /\ mode = "open" => recovery_state_for(entries, t.action) \in AfterDispatch
    /\ Replayable(file) => recovery_state_for(file, t.action) \in AfterDispatch

\* A live dispatch grant is backed by the PREPARED record it names, as the
\* latest word on its action in memory and as a line a restart can read
\* ("capabilities created only after PREPARED fsync").
GrantBackedByDurablePrepared ==
  \A g \in live : g.kind \in {"prepared", "execution"} =>
    /\ recovery_state_for(entries, g.action) = "dispatch_prepared"
    /\ durable_preparation_matches(entries, g.action, g.seq)
    /\ durable_preparation_matches(file, g.action, g.seq)

\* A PREPARED record rests on the latest authorization of its action, which
\* was revalidated for the revision the admitted envelope carries: no later
\* withdrawal or re-authorization slips in between.
PreparedUnderLatestAuthority ==
  \A i \in DOMAIN entries : entries[i].transition = "dispatch_prepared" =>
    LET a    == entries[i].action
        auth == entries[entries[i].payload.authorization]
    IN  /\ auth.action = a
        /\ auth.transition = "authorization_recorded"
        /\ auth.payload.revalidated
        /\ auth.payload.revision = admitted_envelope_for(entries, a).revision
        /\ entries[i].payload.lineage = admitted_envelope_for(entries, a).lineage
        /\ ~ \E j \in auth.seq + 1 .. i - 1 : entries[j].action = a

\* A committed action has, before the commit, a receipt that found every
\* declared contract passed, from a cut minted after the dispatch record
\* that caused it: replaying the file never shows a commit on less.
CommittedIsVerified ==
  \A i \in DOMAIN entries : entries[i].transition = "committed" =>
    \E j \in 1 .. i - 1 :
      LET a == entries[i].action
          r == entries[j].payload
      IN  /\ entries[j].action = a
          /\ \/ /\ entries[j].transition = "postcondition_receipt"
                /\ r.evidence = [c \in admitted_envelope_for(entries, a).contracts
                                   |-> "pass"]
                /\ r.evidence # <<>>
                /\ r.cut # PreconditionCut
                /\ r.cause < j /\ entries[r.cause].action = a
                /\ entries[r.cause].transition \in CauseKinds
             \/ entries[j].transition = "reconciliation_outcome" /\ r

-----------------------------------------------------------------------------
(***************************************************************************)
(* What the journal promises for one action, apart from how it keeps it.   *)
(***************************************************************************)
\* The history that decides about an action: memory while it is open, the
\* file otherwise.
History == IF mode = "open" THEN entries ELSE file

PhaseOf(state) ==
  CASE state \in {"none", "admitted", "authorized_not_dispatched"} -> "idle"
    [] state = "dispatch_prepared"                                -> "prepared"
    [] state = "known_not_dispatched"                             -> "ruled_out"
    [] state \in {"possibly_dispatched", "outcome_observed_unverified"}
                                                                  -> "uncertain"
    [] OTHER                                                      -> "settled"

Promise == INSTANCE DispatchPromise WITH
  phase <- [a \in Actions |-> PhaseOf(recovery_state_for(History, a))],
  armed <- {a \in Actions : \E t \in held :
                              t.action = a /\ t.kind # "observation"},
  acted <- {t.action : t \in effects}

\* Restarts, reopens and failed appends included, the journal treats every
\* action the way DispatchPromise allows: it is prepared once, only a
\* prepared action is armed, and it is ruled out only if nobody acted.
KeepsDispatchPromise == Promise!Spec

\* No process that crashed, whatever its appends did, is refused its own
\* journal ("incomplete_trailing_record_is_discarded_before_new_durable_
\* append", crates/live-bridge/tests/v43_consequential_journal.rs).
JournalReopens == mode # "refused"

\* "an error therefore leaves durable PREPARED state requiring
\* reconciliation" (record_dispatch_linearized): a permit consumed without
\* the record entering memory leaves the file saying PREPARED.
\* The code does not keep this (README.md, Where code and text disagree).
FailedLinearizationStaysPrepared ==
  [][\A t \in held \ held' :
       (t.kind = "execution" /\ Accepted(t) /\ mode' = "open"
          /\ entries' = entries /\ Replayable(file'))
         => recovery_state_for(file', t.action) = "dispatch_prepared"]_vars
=============================================================================
