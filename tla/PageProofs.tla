------------------------------ MODULE PageProofs ------------------------------
(***************************************************************************)
(* Proofs about what the managed page is put through and given back from:  *)
(* captures (Capture), content stress (ContentStress), the selection of an   *)
(* element by a person (PointSelect) and the responsive search (Responsive). *)
(***************************************************************************)
EXTENDS Capture, ContentStress, PointSelect, Responsive,
        FiniteSetTheorems, SequenceTheorems, WellFoundedInduction, TLAPS

-----------------------------------------------------------------------------
(* Captures: for every set of transactions, number of tiles, of versions of   *)
(* the page and of probes, and every capacity of the queue.                   *)

CaptureFields == {"kind", "phase", "n", "ack", "tiles", "tile", "pixels", "frozen", "work", "drift",
                  "probes", "out"}
CaptureWorks == {"ok", "plan_failed", "native_failed", "scroll_failed", "probe_failed",
                 "native_geometry_drift", "transaction_timeout", "scroll_restore_failed",
                 "freeze_failed", "restore_failed"}
CaptureOuts == {"none", "registered", "unchanged", "failed"}
CaptureActions == [txn : CaptureTxns, op : {"freeze", "tile", "home", "probe", "restore"}, n : Nat \ {0},
                   y : Nat]

\* The shapes of a transaction, and the actions it has asked for.
CaptureShape(t) ==
  /\ DOMAIN cap[t] = CaptureFields
  /\ cap[t].phase \in Phases /\ cap[t].ack \in {"none", "ok"} \cup Failed
  /\ cap[t].n \in Nat /\ cap[t].tile \in Nat /\ cap[t].pixels \in 0..MaxPageVersions
  /\ cap[t].work \in CaptureWorks /\ cap[t].out \in CaptureOuts
  /\ cap[t].phase \in {"idle", "gate", "settle"} => cap[t].n = 0
  /\ cap[t].phase \in Waits \cup {"native"} => cap[t].n # 0
  /\ cap[t].phase # "done" => cap[t].out = "none"

\* A frame that was shot and waits for the restore of its freeze, and one whose
\* restore was acknowledged.
Shot(t) == cap[t].work = "ok" /\ cap[t].phase \in {"scroll_home", "restoring"}
Thawed(t) ==
  \/ cap[t].phase \in {"persist", "diff", "commit", "adaptive"}
  \/ cap[t].phase \in {"size_back", "restoring"} /\ cap[t].work = "ok"
     /\ (cap[t].phase = "restoring" => cap[t].ack = "ok")
  \/ cap[t].out = "registered"

\* What a frame in the making owes to the freeze, and what its evidence says.
FrameIsSound(t) ==
  /\ cap[t].phase \in {"idle", "gate", "settle"} => capPage.lease # t
  /\ Shot(t) => cap[t].pixels # 0 /\ (capPage.lease = t => cap[t].frozen)
  /\ Thawed(t) => cap[t].pixels # 0 /\ cap[t].frozen /\ capPage.lease # t
  /\ cap[t].phase \in {"diff", "commit"} \/ cap[t].out = "unchanged" => cap[t].pixels \in capSeen

\* The one operation a wait is for.
OpOf(phase) ==
  CASE phase = "freezing" -> "freeze" [] phase = "scrolling" -> "tile" [] phase = "tile_probe" -> "probe"
    [] phase = "scroll_home" -> "home" [] phase = "restoring" -> "restore"

\* A transaction whose freeze may still be queued.
FreezePending(t) ==
  \/ cap[t].phase = "freezing" /\ cap[t].ack # "ok"
  \/ cap[t].phase = "size_back" /\ cap[t].work # "ok"
  \/ cap[t].phase = "done" /\ cap[t].out # "registered"

\* A queued action is one its transaction asked for, in the order it asked; the
\* freeze is the first, and while it is queued the lease is not the transaction's.
ActionIsOf(a, t) ==
  /\ a.op = "freeze" <=> a.n = 1
  /\ cap[t].phase # "done" => a.n <= cap[t].n
  /\ cap[t].phase \in Waits /\ a.n = cap[t].n => a.op = OpOf(cap[t].phase)
  /\ a.op = "freeze" => capPage.lease # t /\ FreezePending(t)

QueueIsSound ==
  /\ capQueue \in Seq(CaptureActions) /\ Len(capQueue) <= CaptureQueueCapacity
  /\ \A i \in 1..Len(capQueue) : ActionIsOf(capQueue[i], capQueue[i].txn)
  /\ \A i, j \in 1..Len(capQueue) :
       i < j /\ capQueue[i].txn = capQueue[j].txn => capQueue[i].n < capQueue[j].n

\* The page and the baseline.
PageIsSound ==
  /\ DOMAIN capPage = {"lease", "scroll", "user", "version", "size"}
  /\ capPage.lease \in CaptureTxns \cup {"nobody"} /\ capPage.version \in 1..MaxPageVersions
  /\ capPage.lease = "nobody" => capPage.scroll = capPage.user
  /\ capGate \in CaptureTxns \cup {"nobody"}
  /\ capBase \in 0..MaxPageVersions /\ (capBase # 0 => capBase \in capSeen)

CaptureInv ==
  /\ DOMAIN cap = CaptureTxns
  /\ \A t \in CaptureTxns : CaptureShape(t) /\ FrameIsSound(t)
  /\ QueueIsSound /\ PageIsSound

\* What the bound leaves of a queue: all but the oldest elements.
Dropped(q, bound) == IF Len(q) <= bound THEN 0 ELSE Len(q) - bound

\* A bounded queue is what is left when its oldest are dropped.
LEMMA BoundedIsSuffix ==
  ASSUME NEW S, NEW q \in Seq(S), NEW bound \in Nat \ {0}, Len(q) # 0
  PROVE  /\ Bounded(q, bound) \in Seq(S) /\ Len(Bounded(q, bound)) <= bound
         /\ Dropped(q, bound) \in 0..Len(q) - 1
         /\ Len(Bounded(q, bound)) = Len(q) - Dropped(q, bound)
         /\ \A i \in 1..Len(Bounded(q, bound)) : Bounded(q, bound)[i] = q[i + Dropped(q, bound)]
<1>1. CASE Len(q) <= bound
  BY <1>1 DEF Bounded, Dropped
<1>2. CASE ~(Len(q) <= bound)
  BY <1>2 DEF Bounded, Dropped
<1> QED
  BY <1>1, <1>2

\* A queued action is one of a transaction.
LEMMA QueuedActionIs ==
  ASSUME CaptureInv, NEW i \in 1..Len(capQueue)
  PROVE  /\ capQueue[i] \in CaptureActions /\ capQueue[i].txn \in CaptureTxns
         /\ ActionIsOf(capQueue[i], capQueue[i].txn)
<1>1. capQueue[i] \in CaptureActions /\ ActionIsOf(capQueue[i], capQueue[i].txn)
  BY DEF CaptureInv, QueueIsSound
<1> QED
  BY <1>1 DEF CaptureActions

\* A step of the page by itself: a lease ends at most.
LEMMA CapturePageKeeps ==
  ASSUME CaptureInv, PageIsSound', capPage'.lease \in {capPage.lease, "nobody"},
         cap' = cap, capQueue' = capQueue, capSeen' = capSeen
  PROVE  CaptureInv'
<1>1. ASSUME NEW t \in CaptureTxns
      PROVE  CaptureShape(t)' /\ FrameIsSound(t)'
  BY CaptureAssumption DEF CaptureInv, CaptureShape, FrameIsSound, Shot, Thawed, CaptureAssumption
<1>2. QueueIsSound'
  <2>1. ASSUME NEW i \in 1..Len(capQueue)
        PROVE  ActionIsOf(capQueue[i], capQueue[i].txn)'
    <3>1. capQueue[i].txn \in CaptureTxns /\ ActionIsOf(capQueue[i], capQueue[i].txn)
      BY QueuedActionIs
    <3> QED
      BY <3>1, CaptureAssumption DEF ActionIsOf, FreezePending, CaptureAssumption
  <2> QED
    BY <2>1 DEF CaptureInv, QueueIsSound
<1> QED
  BY <1>1, <1>2 DEF CaptureInv

\* A step of one transaction that asks the page for nothing.
LEMMA PutKeeps ==
  ASSUME CaptureInv, NEW t \in CaptureTxns, NEW r, cap' = [cap EXCEPT ![t] = r],
         capQueue' = capQueue, PageIsSound', capPage'.lease = capPage.lease, capSeen \subseteq capSeen',
         CaptureShape(t)', FrameIsSound(t)',
         r.phase # "done" => cap[t].phase # "done" /\ r.n = cap[t].n,
         r.phase \in Waits => r.phase = cap[t].phase,
         FreezePending(t) => FreezePending(t)'
  PROVE  CaptureInv'
<1>1. /\ DOMAIN cap' = CaptureTxns /\ cap'[t] = r
      /\ \A u \in CaptureTxns : u # t => cap'[u] = cap[u]
  BY DEF CaptureInv
<1>2. ASSUME NEW u \in CaptureTxns
      PROVE  CaptureShape(u)' /\ FrameIsSound(u)'
  <2>1. CASE u = t
    BY <2>1
  <2>2. CASE u # t
    BY <1>1, <2>2 DEF CaptureInv, CaptureShape, FrameIsSound, Shot, Thawed
  <2> QED
    BY <2>1, <2>2
<1>3. QueueIsSound'
  <2>1. ASSUME NEW i \in 1..Len(capQueue)
        PROVE  ActionIsOf(capQueue[i], capQueue[i].txn)'
    <3>1. capQueue[i].txn \in CaptureTxns /\ ActionIsOf(capQueue[i], capQueue[i].txn)
      BY QueuedActionIs
    <3>2. CASE capQueue[i].txn = t
      <4>1. cap'[t].phase # "done" => cap[t].phase # "done" /\ cap'[t].n = cap[t].n
        BY <1>1
      <4>2. cap'[t].phase \in Waits => cap'[t].phase = cap[t].phase
        BY <1>1
      <4>3. "done" \notin Waits
        BY DEF Waits
      <4> QED
        BY <3>1, <3>2, <4>1, <4>2, <4>3 DEF ActionIsOf
    <3>3. CASE capQueue[i].txn # t
      BY <1>1, <3>1, <3>3 DEF ActionIsOf, FreezePending
    <3> QED
      BY <3>2, <3>3
  <2> QED
    BY <2>1 DEF CaptureInv, QueueIsSound
<1> QED
  BY <1>1, <1>2, <1>3 DEF CaptureInv

\* A step that queues an action: the answer it waits for is that of this action.
LEMMA AskKeeps ==
  ASSUME CaptureInv, NEW t \in CaptureTxns, NEW r, NEW op \in {"freeze", "tile", "home", "probe", "restore"},
         NEW phase \in Waits, Ask(t, r, op, phase), op = OpOf(phase),
         DOMAIN r = CaptureFields, r.n = cap[t].n, r.tile \in Nat, r.pixels \in 0..MaxPageVersions,
         r.work \in CaptureWorks, r.out = "none",
         cap[t].phase \notin {"idle", "gate", "done"},
         IF op = "freeze" THEN cap[t].phase = "settle" ELSE r.n # 0 /\ ~FreezePending(t),
         r.work = "ok" /\ phase \in {"scroll_home", "restoring"} =>
           r.pixels # 0 /\ (capPage.lease = t => r.frozen)
  PROVE  CaptureInv'
<1> DEFINE a == [txn |-> t, op |-> op, n |-> r.n + 1, y |-> r.tile]
           c == [r EXCEPT !.phase = phase, !.n = r.n + 1, !.ack = "none"]
<1>1. /\ cap' = [cap EXCEPT ![t] = c] /\ capQueue' = Bounded(Append(capQueue, a), CaptureQueueCapacity)
      /\ capGate' = capGate /\ capPage' = capPage /\ capBase' = capBase /\ capSeen' = capSeen
  BY DEF Ask, enqueue_capture, Put
<1>2. /\ cap[t].n \in Nat /\ r.n + 1 \in Nat \ {0}
      /\ (op = "freeze" => r.n = 0)
  BY DEF CaptureInv, CaptureShape
<1>3. a \in CaptureActions /\ a.txn = t /\ a.op = op /\ a.n = cap[t].n + 1
  BY <1>2 DEF CaptureActions
<1>4. /\ DOMAIN c = CaptureFields /\ c.phase = phase /\ c.n = cap[t].n + 1 /\ c.ack = "none"
      /\ c.tile = r.tile /\ c.pixels = r.pixels /\ c.work = r.work /\ c.out = "none"
      /\ (capPage.lease = t /\ r.frozen => c.frozen)
  BY DEF CaptureFields
<1> HIDE DEF a, c
<1>5. /\ DOMAIN cap' = CaptureTxns /\ cap'[t] = c
      /\ \A u \in CaptureTxns : u # t => cap'[u] = cap[u]
  BY <1>1 DEF CaptureInv
<1>6. "done" \notin Waits /\ Waits \cap {"idle", "gate", "settle", "native", "persist", "diff", "commit",
                                          "adaptive", "size_back"} = {}
  BY DEF Waits
<1>7. CaptureShape(t)'
  BY <1>2, <1>4, <1>5, <1>6 DEF CaptureShape, Phases, CaptureOuts
<1>8. FrameIsSound(t)'
  BY <1>1, <1>4, <1>5, <1>6 DEF FrameIsSound, Shot, Thawed
<1>9. ASSUME NEW u \in CaptureTxns
      PROVE  CaptureShape(u)' /\ FrameIsSound(u)'
  <2>1. CASE u = t
    BY <1>7, <1>8, <2>1
  <2>2. CASE u # t
    BY <1>1, <1>5, <2>2 DEF CaptureInv, CaptureShape, FrameIsSound, Shot, Thawed
  <2> QED
    BY <2>1, <2>2
<1>10. capQueue \in Seq(CaptureActions) /\ CaptureQueueCapacity \in Nat \ {0}
  BY CaptureAssumption DEF CaptureInv, QueueIsSound, CaptureAssumption
<1>11. PICK q : q = Append(capQueue, a) /\ capQueue' = Bounded(q, CaptureQueueCapacity)
  BY <1>1
<1>12. /\ q \in Seq(CaptureActions) /\ Len(q) = Len(capQueue) + 1 /\ Len(q) # 0
       /\ \A i \in 1..Len(q) : q[i] = IF i = Len(capQueue) + 1 THEN a ELSE capQueue[i]
  BY <1>3, <1>10, <1>11, AppendProperties
<1>13. /\ capQueue' \in Seq(CaptureActions) /\ Len(capQueue') <= CaptureQueueCapacity
       /\ Dropped(q, CaptureQueueCapacity) \in 0..Len(capQueue)
       /\ Len(capQueue') = (Len(capQueue) + 1) - Dropped(q, CaptureQueueCapacity)
       /\ \A i \in 1..Len(capQueue') : capQueue'[i] = q[i + Dropped(q, CaptureQueueCapacity)]
  <2>1. q \in Seq(CaptureActions) /\ Len(q) # 0 /\ capQueue' = Bounded(q, CaptureQueueCapacity)
    BY <1>11, <1>12
  <2>2. CaptureQueueCapacity \in Nat \ {0}
    BY <1>10
  <2>3. /\ capQueue' \in Seq(CaptureActions) /\ Len(capQueue') <= CaptureQueueCapacity
        /\ Dropped(q, CaptureQueueCapacity) \in 0..Len(q) - 1
        /\ Len(capQueue') = Len(q) - Dropped(q, CaptureQueueCapacity)
        /\ \A i \in 1..Len(capQueue') : capQueue'[i] = q[i + Dropped(q, CaptureQueueCapacity)]
    BY <2>1, <2>2, BoundedIsSuffix
  <2>4. Len(q) = Len(capQueue) + 1 /\ Len(capQueue) \in Nat
    BY <1>10, <1>12
  <2> QED
    BY <2>3, <2>4
<1>14. PICK d \in 0..Len(capQueue) :
         /\ Len(capQueue') = (Len(capQueue) + 1) - d
         /\ \A i \in 1..Len(capQueue') :
              capQueue'[i] = IF i + d = Len(capQueue) + 1 THEN a ELSE capQueue[i + d]
  <2>1. PICK d \in 0..Len(capQueue) :
          /\ Len(capQueue') = (Len(capQueue) + 1) - d
          /\ \A i \in 1..Len(capQueue') : capQueue'[i] = q[i + d]
    BY <1>13
  <2>2. ASSUME NEW i \in 1..Len(capQueue')
        PROVE  capQueue'[i] = IF i + d = Len(capQueue) + 1 THEN a ELSE capQueue[i + d]
    <3> DEFINE j == i + d
    <3>1. j \in 1..Len(q) /\ capQueue'[i] = q[j]
      BY <1>10, <1>12, <2>1
    <3> HIDE DEF j
    <3>2. capQueue'[i] = IF j = Len(capQueue) + 1 THEN a ELSE capQueue[j]
      BY <1>12, <3>1
    <3> QED
      BY <3>2 DEF j
  <2> QED
    BY <2>1, <2>2
<1>15. ASSUME NEW i \in 1..Len(capQueue'), i + d # Len(capQueue) + 1
       PROVE  i + d \in 1..Len(capQueue) /\ capQueue'[i] = capQueue[i + d]
  BY <1>10, <1>14, <1>15
<1>16. ActionIsOf(a, t)'
  <2>1. a.op = "freeze" <=> a.n = 1
    BY <1>2, <1>3
  <2>2. cap'[t].phase = phase /\ cap'[t].n = a.n /\ a.op = OpOf(phase)
    BY <1>3, <1>4, <1>5
  <2>3. ASSUME op = "freeze" PROVE phase = "freezing" /\ capPage.lease # t
    <3>1. cap[t].phase = "settle"
      BY <2>3
    <3>2. capPage.lease # t
      BY <3>1 DEF CaptureInv, FrameIsSound
    <3>3. phase = "freezing"
      BY <2>3 DEF OpOf, Waits
    <3> QED
      BY <3>2, <3>3
  <2>4. a.n \in Nat
    BY <1>2, <1>3
  <2> QED
    BY <1>1, <1>3, <1>4, <1>5, <2>1, <2>2, <2>3, <2>4 DEF ActionIsOf, FreezePending
<1>17. ASSUME NEW b \in CaptureActions, b.txn \in CaptureTxns, ActionIsOf(b, b.txn)
       PROVE  ActionIsOf(b, b.txn)' /\ (b.txn = t => b.n < a.n)
  <2>1. CASE b.txn = t
    <3>1. b.n \in Nat /\ b.n <= cap[t].n
      BY <1>17, <2>1 DEF ActionIsOf, CaptureActions
    <3>2. b.n < a.n
      BY <1>2, <1>3, <3>1
    <3>3. b.op # "freeze"
      <4>1. CASE op = "freeze"
        <5>1. cap[t].n = 0 /\ b.n = 0
          BY <1>2, <3>1, <4>1
        <5> QED
          BY <1>17, <5>1 DEF ActionIsOf
      <4>2. CASE op # "freeze"
        BY <1>17, <2>1, <4>2 DEF ActionIsOf
      <4> QED
        BY <4>1, <4>2
    <3>4. cap'[t].n = a.n /\ b.n # cap'[t].n /\ b.n <= cap'[t].n
      BY <1>2, <1>3, <1>4, <1>5, <3>1
    <3> QED
      BY <1>17, <2>1, <3>2, <3>3, <3>4 DEF ActionIsOf
  <2>2. CASE b.txn # t
    BY <1>1, <1>5, <1>17, <2>2 DEF ActionIsOf, FreezePending
  <2> QED
    BY <2>1, <2>2
<1>18. QueueIsSound'
  <2>1. ASSUME NEW i \in 1..Len(capQueue')
        PROVE  ActionIsOf(capQueue[i], capQueue[i].txn)'
    <3>1. CASE i + d = Len(capQueue) + 1
      <4>1. capQueue'[i] = a
        BY <1>14, <3>1
      <4> QED
        BY <1>3, <1>16, <4>1 DEF ActionIsOf
    <3>2. CASE i + d # Len(capQueue) + 1
      <4>1. i + d \in 1..Len(capQueue) /\ capQueue'[i] = capQueue[i + d]
        BY <1>15, <3>2
      <4>2. /\ capQueue[i + d] \in CaptureActions /\ capQueue[i + d].txn \in CaptureTxns
            /\ ActionIsOf(capQueue[i + d], capQueue[i + d].txn)
        BY <4>1, QueuedActionIs
      <4>3. PICK b \in CaptureActions : b = capQueue[i + d]
        BY <4>2
      <4>4. ActionIsOf(b, b.txn)'
        BY <1>17, <4>2, <4>3
      <4> QED
        BY <4>1, <4>3, <4>4 DEF ActionIsOf
    <3> QED
      BY <3>1, <3>2
  <2>2. ASSUME NEW i \in 1..Len(capQueue'), NEW j \in 1..Len(capQueue'), i < j,
               capQueue'[i].txn = capQueue'[j].txn
        PROVE  capQueue'[i].n < capQueue'[j].n
    <3>1. i + d # Len(capQueue) + 1
      BY <1>10, <1>14, <2>2
    <3>2. i + d \in 1..Len(capQueue) /\ capQueue'[i] = capQueue[i + d]
      BY <1>15, <3>1
    <3>3. /\ capQueue[i + d] \in CaptureActions /\ capQueue[i + d].txn \in CaptureTxns
          /\ ActionIsOf(capQueue[i + d], capQueue[i + d].txn)
      BY <3>2, QueuedActionIs
    <3>4. CASE j + d = Len(capQueue) + 1
      <4>1. capQueue'[j] = a
        BY <1>14, <3>4
      <4> QED
        BY <1>3, <1>17, <2>2, <3>2, <3>3, <4>1
    <3>5. CASE j + d # Len(capQueue) + 1
      <4>1. j + d \in 1..Len(capQueue) /\ capQueue'[j] = capQueue[j + d]
        BY <1>15, <3>5
      <4>2. i + d < j + d
        BY <1>10, <1>14, <2>2
      <4> QED
        BY <2>2, <3>2, <4>1, <4>2 DEF CaptureInv, QueueIsSound
    <3> QED
      BY <3>4, <3>5
  <2> QED
    BY <1>13, <2>1, <2>2 DEF QueueIsSound
<1>19. PageIsSound'
  BY <1>1 DEF CaptureInv, PageIsSound
<1> QED
  BY <1>5, <1>9, <1>18, <1>19 DEF CaptureInv

\* What running the oldest action does to the page: only a freeze takes the lease,
\* only its holder's restore is acknowledged, and a page that is left without a
\* lease is where its user left it.
LEMMA ExecutedActionIs ==
  ASSUME CaptureInv, NEW a \in CaptureActions, a.txn \in CaptureTxns, ActionIsOf(a, a.txn),
         NEW masks \in BOOLEAN, capPage' = execute_capture(a, masks).page, capGate' = capGate,
         capBase' = capBase, capSeen' = capSeen
  PROVE  /\ PageIsSound'
         /\ \/ capPage'.lease \in {capPage.lease, "nobody"}
            \/ a.op = "freeze" /\ capPage'.lease = a.txn
         /\ execute_capture(a, masks).ok /\ a.op = "restore" =>
              capPage.lease = a.txn /\ capPage'.lease = "nobody"
<1> DEFINE t == a.txn
<1>1. /\ DOMAIN capPage = {"lease", "scroll", "user", "version", "size"}
      /\ capPage.lease \in CaptureTxns \cup {"nobody"} /\ capPage.version \in 1..MaxPageVersions
      /\ capPage.lease = "nobody" => capPage.scroll = capPage.user
      /\ t \in CaptureTxns /\ t # "nobody"
  BY CaptureAssumption DEF CaptureInv, PageIsSound, CaptureAssumption
<1>2. a.op = "freeze" => capPage.lease # t
  BY DEF ActionIsOf
<1>3. a.op \in {"freeze", "tile", "home", "probe", "restore"}
  BY DEF CaptureActions
<1>4. SUFFICES /\ /\ DOMAIN capPage' = {"lease", "scroll", "user", "version", "size"}
                  /\ capPage'.lease \in CaptureTxns \cup {"nobody"} /\ capPage'.version \in 1..MaxPageVersions
                  /\ capPage'.lease = "nobody" => capPage'.scroll = capPage'.user
               /\ \/ capPage'.lease \in {capPage.lease, "nobody"}
                  \/ a.op = "freeze" /\ capPage'.lease = t
               /\ execute_capture(a, masks).ok /\ a.op = "restore" =>
                    capPage.lease = t /\ capPage'.lease = "nobody"
  BY DEF CaptureInv, PageIsSound
<1>5. CASE a.op = "freeze"
  <2>1. capPage' \in {capPage, [capPage EXCEPT !.lease = t], [capPage EXCEPT !.lease = "nobody"]}
    BY <1>5 DEF execute_capture, freezeVisuals, mask_geometry_failed
  <2>2. capPage' # capPage => capPage.lease = "nobody"
    BY <1>1, <1>2, <1>5 DEF execute_capture, freezeVisuals, mask_geometry_failed
  <2>3. CASE capPage' = capPage
    BY <1>1, <1>5, <2>3
  <2>4. CASE capPage' = [capPage EXCEPT !.lease = t]
    BY <1>1, <1>5, <2>4
  <2>5. CASE capPage' = [capPage EXCEPT !.lease = "nobody"] /\ capPage' # capPage
    BY <1>1, <1>5, <2>2, <2>5
  <2> QED
    BY <2>1, <2>3, <2>4, <2>5
<1>6. CASE a.op \in {"tile", "home"}
  <2>1. \/ capPage' = capPage
        \/ capPage.lease = t /\ \E y : capPage' = [capPage EXCEPT !.scroll = y]
    BY <1>6 DEF execute_capture, captureScrollTo
  <2>2. CASE capPage' = capPage
    BY <1>1, <1>6, <2>2
  <2>3. ASSUME capPage.lease = t, NEW y, capPage' = [capPage EXCEPT !.scroll = y]
        PROVE  /\ DOMAIN capPage' = DOMAIN capPage /\ capPage'.version = capPage.version
               /\ capPage'.lease = t
    BY <1>1, <2>3
  <2> QED
    BY <1>1, <1>6, <2>1, <2>2, <2>3
<1>7. CASE a.op = "probe"
  <2>1. capPage' = capPage
    BY <1>7 DEF execute_capture, captureTileProbe
  <2> QED
    BY <1>1, <1>7, <2>1
<1>8. CASE a.op = "restore"
  <2>1. execute_capture(a, masks) = restoreVisuals(t)
    BY <1>8 DEF execute_capture
  <2>2. \/ capPage.lease = t /\ capPage' = [capPage EXCEPT !.lease = "nobody", !.scroll = capPage.user]
        \/ ~restoreVisuals(t).ok /\ capPage' = capPage
    BY <2>1 DEF restoreVisuals
  <2> QED
    BY <1>1, <1>8, <2>1, <2>2
<1> QED
  BY <1>3, <1>5, <1>6, <1>7, <1>8

\* The page runs the oldest action and answers the transaction that waits for it.
LEMMA RunActionKeeps ==
  ASSUME CaptureInv, page_runs_capture_action
  PROVE  CaptureInv'
<1>1. capQueue \in Seq(CaptureActions) /\ capQueue # <<>> /\ 1 \in 1..Len(capQueue)
  BY DEF page_runs_capture_action, CaptureInv, QueueIsSound
<1>2. PICK a : a = capQueue[1] /\ a = Head(capQueue)
  BY <1>1
<1>3. a \in CaptureActions /\ a.txn \in CaptureTxns /\ ActionIsOf(a, a.txn)
  BY <1>1, <1>2, QueuedActionIs
<1> DEFINE t == a.txn
           waited == cap[t].n = a.n /\ cap[t].ack = "none" /\ At(t, Waits)
<1>4. PICK masks \in BOOLEAN :
        /\ capPage' = execute_capture(a, masks).page
        /\ cap' = IF waited THEN [cap EXCEPT ![t].ack = IF execute_capture(a, masks).ok THEN "ok" ELSE "error"]
                  ELSE cap
        /\ capQueue' = Tail(capQueue)
        /\ capGate' = capGate /\ capBase' = capBase /\ capSeen' = capSeen
  BY <1>2 DEF page_runs_capture_action
<1>5. PICK ok \in BOOLEAN : ok <=> execute_capture(a, masks).ok
  OBVIOUS
<1>6. /\ PageIsSound'
      /\ capPage'.lease \in {capPage.lease, "nobody"} \/ (a.op = "freeze" /\ capPage'.lease = t)
      /\ ok /\ a.op = "restore" => capPage.lease = t /\ capPage'.lease = "nobody"
  BY <1>3, <1>4, <1>5, ExecutedActionIs
<1>7. t \in CaptureTxns /\ t # "nobody" /\ "nobody" \notin CaptureTxns
  BY <1>3, CaptureAssumption DEF CaptureAssumption
<1> HIDE DEF t
<1>8. /\ DOMAIN cap' = CaptureTxns
      /\ \A u \in CaptureTxns : /\ DOMAIN cap'[u] = DOMAIN cap[u]
                                /\ cap'[u].phase = cap[u].phase /\ cap'[u].n = cap[u].n
                                /\ cap'[u].tile = cap[u].tile /\ cap'[u].pixels = cap[u].pixels
                                /\ cap'[u].work = cap[u].work /\ cap'[u].out = cap[u].out
                                /\ cap'[u].frozen = cap[u].frozen
      /\ \A u \in CaptureTxns : u # t \/ ~waited => cap'[u] = cap[u]
      /\ waited => cap'[t].ack = IF ok THEN "ok" ELSE "error"
  BY <1>4, <1>5, <1>7 DEF CaptureInv, CaptureShape, CaptureFields
<1>9. waited => a.op = OpOf(cap[t].phase)
  BY <1>3 DEF ActionIsOf, At, t
<1>10. a.op = "freeze" => FreezePending(t) /\ a.n = 1
  BY <1>3 DEF ActionIsOf, t
<1> HIDE DEF waited
<1>11. ASSUME NEW u \in CaptureTxns
       PROVE  CaptureShape(u)'
  <2>1. CASE u = t /\ waited
    BY <1>8, <2>1 DEF CaptureInv, CaptureShape, Failed
  <2>2. CASE u # t \/ ~waited
    BY <1>8, <2>2 DEF CaptureInv, CaptureShape
  <2> QED
    BY <2>1, <2>2
<1>12. ASSUME NEW u \in CaptureTxns, u # t \/ ~waited
       PROVE  FrameIsSound(u)'
  <2>1. cap'[u] = cap[u]
    BY <1>8, <1>12
  <2>2. CASE capPage'.lease = u /\ capPage.lease # u
    <3>1. a.op = "freeze" /\ u = t
      BY <1>6, <1>7, <2>2
    <3>2. FreezePending(u)
      BY <1>10, <3>1
    <3> QED
      BY <1>4, <2>1, <3>2 DEF CaptureInv, CaptureShape, FrameIsSound, FreezePending, Shot, Thawed
  <2>3. CASE capPage'.lease = u => capPage.lease = u
    <3>1. capSeen' = capSeen /\ FrameIsSound(u)
      BY <1>4 DEF CaptureInv
    <3> QED
      BY <2>1, <2>3, <3>1 DEF FrameIsSound, Shot, Thawed
  <2> QED
    BY <2>2, <2>3
<1>13. ASSUME waited
       PROVE  FrameIsSound(t)'
  <2>1. cap[t].phase \in Waits /\ cap[t].ack = "none" /\ CaptureShape(t) /\ FrameIsSound(t)
    BY <1>7, <1>13 DEF waited, At, CaptureInv
  <2>2. Shot(t)' => cap'[t].pixels # 0 /\ (capPage'.lease = t => cap'[t].frozen)
    <3> SUFFICES ASSUME Shot(t)' PROVE cap'[t].pixels # 0 /\ (capPage'.lease = t => cap'[t].frozen)
      OBVIOUS
    <3>1. Shot(t) /\ cap[t].pixels # 0 /\ (capPage.lease = t => cap[t].frozen)
      BY <1>7, <1>8, <2>1 DEF Shot, FrameIsSound
    <3>2. a.op # "freeze"
      BY <1>9, <1>13, <3>1 DEF Shot, OpOf
    <3>3. capPage'.lease = t => capPage.lease = t
      BY <1>6, <1>7, <3>2
    <3> QED
      BY <1>7, <1>8, <3>1, <3>3
  <2>3. Thawed(t)' => cap'[t].pixels # 0 /\ cap'[t].frozen /\ capPage'.lease # t
    <3> SUFFICES ASSUME Thawed(t)' PROVE cap'[t].pixels # 0 /\ cap'[t].frozen /\ capPage'.lease # t
      OBVIOUS
    <3>1. cap[t].out = "none"
      BY <2>1 DEF CaptureShape, Waits
    <3>2. cap[t].phase = "restoring" /\ cap[t].work = "ok" /\ ok
      BY <1>7, <1>8, <1>13, <2>1, <3>1 DEF Thawed, Waits
    <3>3. a.op = "restore"
      BY <1>9, <1>13, <3>2 DEF OpOf
    <3>4. capPage.lease = t /\ capPage'.lease # t
      BY <1>6, <1>7, <3>2, <3>3
    <3>5. cap[t].pixels # 0 /\ cap[t].frozen
      BY <2>1, <3>2, <3>4 DEF FrameIsSound, Shot
    <3> QED
      BY <1>7, <1>8, <3>4, <3>5
  <2>4. /\ cap'[t].phase \notin {"idle", "gate", "settle", "diff", "commit"} /\ cap'[t].out # "unchanged"
    BY <1>7, <1>8, <2>1 DEF CaptureShape, Waits
  <2> QED
    BY <2>2, <2>3, <2>4 DEF FrameIsSound
<1>14. ASSUME NEW b \in CaptureActions, b.txn \in CaptureTxns, ActionIsOf(b, b.txn),
              b.txn = t => a.n < b.n
       PROVE  ActionIsOf(b, b.txn)'
  <2> DEFINE u == b.txn
  <2>1. u \in CaptureTxns /\ ActionIsOf(b, u)
    BY <1>14
  <2> HIDE DEF u
  <2>2. SUFFICES ActionIsOf(b, u)'
    BY DEF u, ActionIsOf
  <2>3. ASSUME b.op = "freeze" PROVE capPage'.lease # u /\ FreezePending(u)'
    <3>1. b.n = 1 /\ capPage.lease # u /\ FreezePending(u)
      BY <2>1, <2>3 DEF ActionIsOf
    <3>2. u # t
      <4>1. a.n \in Nat \ {0}
        BY <1>3 DEF CaptureActions
      <4> QED
        BY <1>14, <3>1, <4>1 DEF u
    <3>3. capPage'.lease # u
      BY <1>6, <1>7, <2>1, <3>1, <3>2
    <3>4. cap'[u] = cap[u]
      BY <1>8, <2>1, <3>2
    <3> QED
      BY <3>1, <3>3, <3>4 DEF FreezePending
  <2>4. cap'[u].phase = cap[u].phase /\ cap'[u].n = cap[u].n
    BY <1>8, <2>1
  <2> QED
    BY <2>1, <2>3, <2>4 DEF ActionIsOf
<1>15. /\ capQueue' \in Seq(CaptureActions) /\ Len(capQueue') = Len(capQueue) - 1
       /\ \A i \in 1..Len(capQueue') : capQueue'[i] = capQueue[i + 1]
  BY <1>1, <1>4, HeadTailProperties
<1>16. QueueIsSound'
  <2>1. ASSUME NEW i \in 1..Len(capQueue')
        PROVE  ActionIsOf(capQueue[i], capQueue[i].txn)'
    <3>1. i + 1 \in 1..Len(capQueue) /\ 1 < i + 1 /\ capQueue'[i] = capQueue[i + 1]
      BY <1>1, <1>15
    <3>2. /\ capQueue[i + 1] \in CaptureActions /\ capQueue[i + 1].txn \in CaptureTxns
          /\ ActionIsOf(capQueue[i + 1], capQueue[i + 1].txn)
      BY <3>1, QueuedActionIs
    <3>3. capQueue[i + 1].txn = t => a.n < capQueue[i + 1].n
      BY <1>1, <1>2, <3>1 DEF CaptureInv, QueueIsSound, t
    <3>4. PICK b \in CaptureActions : b = capQueue[i + 1]
      BY <3>2
    <3>5. ActionIsOf(b, b.txn)'
      BY <1>14, <3>2, <3>3, <3>4
    <3> QED
      BY <3>1, <3>4, <3>5 DEF ActionIsOf
  <2>2. ASSUME NEW i \in 1..Len(capQueue'), NEW j \in 1..Len(capQueue'), i < j,
               capQueue'[i].txn = capQueue'[j].txn
        PROVE  capQueue'[i].n < capQueue'[j].n
    <3>1. /\ i + 1 \in 1..Len(capQueue) /\ j + 1 \in 1..Len(capQueue) /\ i + 1 < j + 1
          /\ capQueue'[i] = capQueue[i + 1] /\ capQueue'[j] = capQueue[j + 1]
      BY <1>1, <1>15, <2>2
    <3> QED
      BY <2>2, <3>1 DEF CaptureInv, QueueIsSound
  <2>3. Len(capQueue') <= CaptureQueueCapacity
    BY <1>1, <1>15, CaptureAssumption DEF CaptureInv, QueueIsSound, CaptureAssumption
  <2> QED
    BY <1>15, <2>1, <2>2, <2>3 DEF QueueIsSound
<1>17. \A u \in CaptureTxns : CaptureShape(u)' /\ FrameIsSound(u)'
  BY <1>11, <1>12, <1>13
<1> QED
  BY <1>6, <1>8, <1>16, <1>17 DEF CaptureInv

\* A transaction that ends, with whatever it failed of.
LEMMA FinishKeeps ==
  ASSUME CaptureInv, NEW t \in CaptureTxns, NEW out, finish(t, out), out # "registered",
         out = "unchanged" => cap[t].pixels \in capSeen
  PROVE  CaptureInv'
<1> DEFINE r == Ended(t, out)
<1>1. /\ cap' = [cap EXCEPT ![t] = r] /\ capGate' = "nobody" /\ capQueue' = capQueue
      /\ capPage' = capPage /\ capBase' = capBase /\ capSeen' = capSeen
  BY DEF finish, Put
<1>2. /\ DOMAIN r = CaptureFields /\ r.phase = "done" /\ r.ack = "none" /\ r.n = 0 /\ r.tile = 0
      /\ r.pixels \in {0, cap[t].pixels} /\ r.work = "ok" /\ r.out \in {"unchanged", "failed"}
      /\ (r.out = "unchanged" => out = "unchanged" /\ r.pixels = cap[t].pixels)
  BY DEF Ended, NoCapture, CaptureFields
<1> HIDE DEF r
<1>3. cap'[t] = r
  BY <1>1 DEF CaptureInv
<1>4. cap[t].pixels \in 0..MaxPageVersions /\ MaxPageVersions \in Nat \ {0}
  BY CaptureAssumption DEF CaptureInv, CaptureShape, CaptureAssumption
<1>5. CaptureShape(t)'
  BY <1>2, <1>3, <1>4 DEF CaptureShape, Phases, Waits, CaptureWorks, CaptureOuts
<1>6. FrameIsSound(t)'
  BY <1>1, <1>2, <1>3 DEF FrameIsSound, Shot, Thawed
<1>7. FreezePending(t)'
  BY <1>2, <1>3 DEF FreezePending
<1>8. PageIsSound'
  BY <1>1 DEF CaptureInv, PageIsSound
<1>9. "done" \notin Waits
  BY DEF Waits
<1> QED
  BY <1>1, <1>2, <1>5, <1>6, <1>7, <1>8, <1>9, PutKeeps

\* A transaction that goes on with the frame it has.
LEMMA MoveKeeps ==
  ASSUME CaptureInv, NEW t \in CaptureTxns, NEW r, cap' = [cap EXCEPT ![t] = r], capQueue' = capQueue,
         PageIsSound', capPage'.lease = capPage.lease, capSeen \subseteq capSeen',
         DOMAIN r = CaptureFields, r.n = cap[t].n, r.tile = cap[t].tile, r.pixels = cap[t].pixels,
         r.frozen = cap[t].frozen, r.out = cap[t].out,
         r.phase \in Phases \ {"done"}, cap[t].phase # "done",
         r.ack \in {"none", "ok"} \cup Failed, r.work \in CaptureWorks,
         r.phase \in Waits => r.phase = cap[t].phase,
         r.phase \in {"idle", "gate", "settle"} => cap[t].phase \in {"idle", "gate", "settle"},
         r.phase = "native" => cap[t].n # 0,
         r.phase \in {"scroll_home", "restoring"} => r.work = cap[t].work,
         r.phase = "restoring" => r.ack # "ok",
         r.phase \in {"persist", "diff", "commit", "adaptive"} \/ (r.phase = "size_back" /\ r.work = "ok") =>
           Thawed(t),
         r.phase \in {"diff", "commit"} => r.pixels \in capSeen',
         FreezePending(t) => (r.phase = "freezing" /\ r.ack # "ok") \/ (r.phase = "size_back" /\ r.work # "ok")
  PROVE  CaptureInv'
<1>1. cap'[t] = r /\ CaptureShape(t) /\ FrameIsSound(t)
  BY DEF CaptureInv
<1>2. cap[t].out = "none"
  BY <1>1 DEF CaptureShape
<1>3. CaptureShape(t)'
  BY <1>1, <1>2 DEF CaptureShape
<1>4. Shot(t)' => Shot(t)
  BY <1>1 DEF Shot, Waits
<1>5. Thawed(t)' => Thawed(t)
  BY <1>1, <1>2 DEF Thawed
<1>6. FrameIsSound(t)'
  BY <1>1, <1>2, <1>4, <1>5 DEF FrameIsSound
<1>7. FreezePending(t) => FreezePending(t)'
  BY <1>1 DEF FreezePending
<1> QED
  BY <1>3, <1>6, <1>7, PutKeeps

\* The frame of the evidence: it was shot frozen and its page is thawed.
LEMMA RegisterKeeps ==
  ASSUME CaptureInv, NEW t \in CaptureTxns, cap' = [cap EXCEPT ![t] = Ended(t, "registered")],
         capGate' = "nobody", capQueue' = capQueue, capPage' = capPage, capSeen \subseteq capSeen',
         capBase' \in 0..MaxPageVersions, capBase' # 0 => capBase' \in capSeen',
         cap[t].phase \in {"persist", "commit"}
  PROVE  CaptureInv'
<1> DEFINE r == Ended(t, "registered")
<1>1. /\ DOMAIN r = CaptureFields /\ r.phase = "done" /\ r.ack = "none" /\ r.n = 0 /\ r.tile = 0
      /\ r.pixels = cap[t].pixels /\ r.work = "ok" /\ r.out = "registered" /\ r.frozen = cap[t].frozen
      /\ cap' = [cap EXCEPT ![t] = r]
  BY DEF Ended, NoCapture, CaptureFields
<1> HIDE DEF r
<1>2. cap'[t] = r /\ CaptureShape(t) /\ FrameIsSound(t)
  BY <1>1 DEF CaptureInv
<1>3. CaptureShape(t)'
  BY <1>1, <1>2 DEF CaptureShape, Phases, Waits, CaptureWorks, CaptureOuts
<1>4. cap[t].pixels # 0 /\ cap[t].frozen /\ capPage.lease # t
  BY <1>2 DEF FrameIsSound, Thawed
<1>5. FrameIsSound(t)'
  BY <1>1, <1>2, <1>4 DEF FrameIsSound, Shot, Thawed
<1>6. ~FreezePending(t)
  BY DEF FreezePending
<1>7. PageIsSound'
  BY DEF CaptureInv, PageIsSound
<1>8. "done" \notin Waits
  BY DEF Waits
<1> QED
  BY <1>1, <1>3, <1>5, <1>6, <1>7, <1>8, PutKeeps

\* A transaction that asks for the next step of its work, or for its cleanup.
LEMMA AskNextKeeps ==
  ASSUME CaptureInv, NEW t \in CaptureTxns, NEW r, NEW op \in {"tile", "home", "probe", "restore"},
         NEW phase \in Waits, Ask(t, r, op, phase), op = OpOf(phase),
         DOMAIN r = CaptureFields, r.n = cap[t].n, r.tile \in Nat, r.pixels \in 0..MaxPageVersions,
         r.work \in CaptureWorks, r.out = cap[t].out, cap[t].phase \in Waits \cup {"native"},
         cap[t].phase = "freezing" => cap[t].ack = "ok",
         r.work = "ok" /\ phase \in {"scroll_home", "restoring"} =>
           r.pixels # 0 /\ (capPage.lease = t => r.frozen)
  PROVE  CaptureInv'
<1>1. CaptureShape(t)
  BY DEF CaptureInv
<1>2. cap[t].phase \notin {"idle", "gate", "settle", "size_back", "done"}
  BY DEF Waits
<1>3. r.n # 0 /\ r.out = "none" /\ ~FreezePending(t)
  BY <1>1, <1>2 DEF CaptureShape, FreezePending
<1>4. op \in {"freeze", "tile", "home", "probe", "restore"} /\ op # "freeze"
  OBVIOUS
<1> QED
  BY <1>2, <1>3, <1>4, AskKeeps

\* A transaction that fails goes on to restore what it froze.
LEMMA CleanupKeeps ==
  ASSUME CaptureInv, NEW t \in CaptureTxns, NEW why \in CaptureWorks, cleanup(t, why), why # "ok",
         cap[t].phase \in Waits \cup {"native"}, cap[t].phase = "freezing" => cap[t].ack = "ok"
  PROVE  CaptureInv'
<1> DEFINE r == [cap[t] EXCEPT !.work = why]
<1>1. Ask(t, r, "home", "scroll_home") /\ CaptureShape(t)
  BY DEF cleanup, CaptureInv
<1>2. /\ DOMAIN r = CaptureFields /\ r.n = cap[t].n /\ r.tile \in Nat /\ r.pixels \in 0..MaxPageVersions
      /\ r.work = why /\ r.out = cap[t].out
  BY <1>1 DEF CaptureShape, CaptureFields
<1>3. "home" = OpOf("scroll_home") /\ "scroll_home" \in Waits
  BY DEF OpOf, Waits
<1> HIDE DEF r
<1> QED
  BY <1>1, <1>2, <1>3, AskNextKeeps

\* Asking with nothing else of the transaction changed.
LEMMA AskPlainKeeps ==
  ASSUME CaptureInv, NEW t \in CaptureTxns, Ask(t, cap[t], "probe", "tile_probe"),
         cap[t].phase = "scrolling"
  PROVE  CaptureInv'
<1>1. CaptureShape(t) /\ "probe" = OpOf("tile_probe") /\ {"tile_probe", "scrolling"} \subseteq Waits
  BY DEF CaptureInv, OpOf, Waits
<1>2. /\ DOMAIN cap[t] = CaptureFields /\ cap[t].tile \in Nat /\ cap[t].pixels \in 0..MaxPageVersions
      /\ cap[t].work \in CaptureWorks
  BY <1>1 DEF CaptureShape
<1> QED
  BY <1>1, <1>2, AskNextKeeps

\* A transaction is entered, and holds the gate.
LEMMA CaptureEntryKeeps ==
  ASSUME CaptureInv, NEW t \in CaptureTxns,
         capture_target(t) \/ session_capture_gate(t) \/ preflight_failed(t) \/ wait_for_capture_settle(t)
  PROVE  CaptureInv'
<1>1. CaptureShape(t) /\ FrameIsSound(t)
  BY DEF CaptureInv
<1>2. CASE capture_target(t)
  <2>1. PICK k \in CaptureKinds : Put(t, [NoCapture EXCEPT !.kind = k, !.phase = "gate"])
    BY <1>2 DEF capture_target
  <2> DEFINE r == [NoCapture EXCEPT !.kind = k, !.phase = "gate"]
  <2>2. /\ DOMAIN r = CaptureFields /\ r.phase = "gate" /\ r.ack = "none" /\ r.n = 0 /\ r.tile = 0
        /\ r.pixels = 0 /\ r.work = "ok" /\ r.out = "none"
    BY DEF NoCapture, CaptureFields
  <2>3. cap' = [cap EXCEPT ![t] = r]
    BY <2>1 DEF Put
  <2> HIDE DEF r
  <2>4. cap[t].phase = "idle" /\ capQueue' = capQueue /\ capPage' = capPage /\ capSeen' = capSeen
        /\ capGate' = capGate /\ capBase' = capBase
    BY <1>2 DEF capture_target, At, OnlyCap
  <2>5. cap'[t] = r
    BY <2>3 DEF CaptureInv
  <2>6. MaxPageVersions \in Nat
    BY CaptureAssumption DEF CaptureAssumption
  <2>7. CaptureShape(t)'
    BY <2>2, <2>5, <2>6 DEF CaptureShape, Phases, Waits, CaptureWorks, CaptureOuts
  <2>8. FrameIsSound(t)'
    BY <1>1, <2>2, <2>4, <2>5 DEF FrameIsSound, Shot, Thawed
  <2>9. ~FreezePending(t) /\ r.phase \notin Waits /\ r.n = cap[t].n /\ cap[t].phase # "done"
    BY <1>1, <2>2, <2>4 DEF FreezePending, Waits, CaptureShape
  <2>10. PageIsSound'
    BY <2>4 DEF CaptureInv, PageIsSound
  <2> QED
    BY <2>2, <2>3, <2>4, <2>7, <2>8, <2>9, <2>10, PutKeeps
<1>3. CASE session_capture_gate(t)
  <2> DEFINE r == [cap[t] EXCEPT !.phase = "settle"]
  <2>1. /\ cap' = [cap EXCEPT ![t] = r] /\ capQueue' = capQueue /\ capSeen' = capSeen /\ capBase' = capBase
        /\ capGate' = t /\ cap[t].phase = "gate"
        /\ capPage' \in {capPage, [capPage EXCEPT !.size = "preset"]}
    BY <1>3 DEF session_capture_gate, Put, At
  <2>2. /\ DOMAIN r = CaptureFields /\ r.n = cap[t].n /\ r.tile = cap[t].tile /\ r.pixels = cap[t].pixels
        /\ r.frozen = cap[t].frozen /\ r.out = cap[t].out /\ r.ack = cap[t].ack /\ r.work = cap[t].work
        /\ r.phase = "settle"
    BY <1>1 DEF CaptureShape, CaptureFields
  <2> HIDE DEF r
  <2>3. PageIsSound' /\ capPage'.lease = capPage.lease
    BY <2>1 DEF CaptureInv, PageIsSound
  <2>4. r.phase \in Phases \ {"done"} /\ r.phase \notin Waits /\ ~FreezePending(t)
    BY <2>1, <2>2 DEF Phases, Waits, FreezePending
  <2>5. r.ack \in {"none", "ok"} \cup Failed /\ r.work \in CaptureWorks
    BY <1>1, <2>2 DEF CaptureShape
  <2> QED
    BY <2>1, <2>2, <2>3, <2>4, <2>5, MoveKeeps
<1>4. CASE preflight_failed(t)
  BY <1>4, FinishKeeps DEF preflight_failed
<1>5. CASE wait_for_capture_settle(t)
  <2>1. CASE finish(t, "settle_failed")
    BY <2>1, FinishKeeps
  <2>2. CASE Ask(t, cap[t], "freeze", "freezing")
    <3>1. cap[t].phase = "settle"
      BY <1>5 DEF wait_for_capture_settle, At
    <3>2. "freeze" = OpOf("freezing") /\ "freezing" \in Waits
      BY DEF OpOf, Waits
    <3>3. /\ DOMAIN cap[t] = CaptureFields /\ cap[t].tile \in Nat /\ cap[t].pixels \in 0..MaxPageVersions
          /\ cap[t].work \in CaptureWorks /\ cap[t].out = "none"
      BY <1>1, <3>1 DEF CaptureShape
    <3> QED
      BY <2>2, <3>1, <3>2, <3>3, AskKeeps
  <2> QED
    BY <1>5, <2>1, <2>2 DEF wait_for_capture_settle
<1> QED
  BY <1>2, <1>3, <1>4, <1>5

\* A change of phase, of the answer or of the reason alone.
LEMMA PhaseKeeps ==
  ASSUME CaptureInv, NEW t \in CaptureTxns, NEW phase \in Phases \ {"done"}, NEW work \in CaptureWorks,
         NEW r, r \in {[cap[t] EXCEPT !.phase = phase], [cap[t] EXCEPT !.phase = phase, !.work = work]},
         r = [cap[t] EXCEPT !.phase = phase] => work = cap[t].work,
         cap' = [cap EXCEPT ![t] = r], capQueue' = capQueue,
         PageIsSound', capPage'.lease = capPage.lease, capSeen \subseteq capSeen', cap[t].phase # "done",
         phase \notin Waits \cup {"idle", "gate", "settle"},
         phase = "native" => cap[t].n # 0,
         phase \in {"persist", "diff", "commit", "adaptive"} \/ (phase = "size_back" /\ work = "ok") =>
           Thawed(t),
         phase \in {"diff", "commit"} => cap[t].pixels \in capSeen',
         FreezePending(t) => phase = "size_back" /\ work # "ok"
  PROVE  CaptureInv'
<1>1. CaptureShape(t)
  BY DEF CaptureInv
<1>2. /\ DOMAIN r = CaptureFields /\ r.n = cap[t].n /\ r.tile = cap[t].tile /\ r.pixels = cap[t].pixels
      /\ r.frozen = cap[t].frozen /\ r.out = cap[t].out /\ r.ack = cap[t].ack /\ r.phase = phase
  BY <1>1 DEF CaptureShape, CaptureFields
<1>3. r.work = work
  <2>1. CASE r = [cap[t] EXCEPT !.phase = phase]
    BY <1>1, <2>1 DEF CaptureShape, CaptureFields
  <2>2. CASE r = [cap[t] EXCEPT !.phase = phase, !.work = work]
    BY <1>1, <2>2 DEF CaptureShape, CaptureFields
  <2> QED
    BY <2>1, <2>2
<1>4. r.ack \in {"none", "ok"} \cup Failed
  BY <1>1, <1>2 DEF CaptureShape
<1>5. r.phase \notin {"scroll_home", "restoring", "idle", "gate", "settle", "freezing"} /\ r.phase \notin Waits
  BY <1>2 DEF Waits
<1> QED
  BY <1>2, <1>3, <1>4, <1>5, MoveKeeps

\* A sweep that gives its size back.
LEMMA SizeBackKeeps ==
  ASSUME CaptureInv, NEW t \in CaptureTxns, NEW why \in CaptureWorks, give_size_back(t, why),
         cap[t].phase # "done", why = "ok" => Thawed(t) /\ ~FreezePending(t)
  PROVE  CaptureInv'
<1> DEFINE r == [cap[t] EXCEPT !.phase = "size_back", !.work = why]
<1>1. /\ cap' = [cap EXCEPT ![t] = r] /\ capQueue' = capQueue /\ capPage' = capPage /\ capSeen' = capSeen
      /\ capGate' = capGate /\ capBase' = capBase
  BY DEF give_size_back, Put, OnlyCap
<1>2. PageIsSound'
  BY <1>1 DEF CaptureInv, PageIsSound
<1>3. CaptureShape(t)
  BY DEF CaptureInv
<1>4. r = [cap[t] EXCEPT !.phase = "size_back"] => why = cap[t].work
  BY <1>3 DEF CaptureShape, CaptureFields
<1>5. "size_back" \in Phases \ {"done"} /\ "size_back" \notin Waits \cup {"idle", "gate", "settle"}
  BY DEF Phases, Waits
<1>6. r \in {[cap[t] EXCEPT !.phase = "size_back"], [cap[t] EXCEPT !.phase = "size_back", !.work = why]}
  OBVIOUS
<1> HIDE DEF r
<1> QED
  BY <1>1, <1>2, <1>4, <1>5, <1>6, PhaseKeeps

\* A transaction that moves to its next phase.
LEMMA PhaseOnlyKeeps ==
  ASSUME CaptureInv, NEW t \in CaptureTxns, NEW phase \in {"native", "persist", "adaptive", "diff", "commit"},
         Put(t, [cap[t] EXCEPT !.phase = phase]), capQueue' = capQueue, PageIsSound',
         capPage'.lease = capPage.lease, capSeen \subseteq capSeen', cap[t].phase # "done",
         ~FreezePending(t), phase = "native" => cap[t].n # 0, phase # "native" => Thawed(t),
         phase \in {"diff", "commit"} => cap[t].pixels \in capSeen'
  PROVE  CaptureInv'
<1> DEFINE r == [cap[t] EXCEPT !.phase = phase]
<1>1. cap' = [cap EXCEPT ![t] = r]
  BY DEF Put
<1>2. CaptureShape(t)
  BY DEF CaptureInv
<1>3. PICK work \in CaptureWorks : work = cap[t].work
  BY <1>2 DEF CaptureShape
<1>4. phase \in Phases \ {"done"} /\ phase \notin Waits \cup {"idle", "gate", "settle"} /\ phase # "size_back"
  BY DEF Phases, Waits
<1>5. r \in {[cap[t] EXCEPT !.phase = phase], [cap[t] EXCEPT !.phase = phase, !.work = work]}
  OBVIOUS
<1> HIDE DEF r
<1> QED
  BY <1>1, <1>3, <1>4, <1>5, PhaseKeeps

\* What the restore of a frame comes to.
LEMMA RestoredIs ==
  ASSUME CaptureInv, NEW t \in CaptureTxns, cap[t].phase = "restoring"
  PROVE  /\ capture_redacted_viewport_after_gate(t) = "persist" => Thawed(t)
         /\ capture_redacted_viewport_after_gate(t) # "persist" =>
              capture_redacted_viewport_after_gate(t) \in CaptureWorks \ {"ok"}
         /\ ~FreezePending(t)
<1>1. CaptureShape(t)
  BY DEF CaptureInv
<1>2. cap[t].work \in CaptureWorks /\ "persist" \notin CaptureWorks
  BY <1>1 DEF CaptureShape, CaptureWorks
<1> QED
  BY <1>2 DEF capture_redacted_viewport_after_gate, Thawed, FreezePending, CaptureWorks

\* The steps of one frozen viewport.
LEMMA ViewportStepKeeps ==
  ASSUME CaptureInv, NEW t \in CaptureTxns,
         wait_for_action_result(t) \/ freeze_refused(t) \/ frozen_viewport(t) \/ capture_managed_surface(t)
           \/ viewport_restored(t)
  PROVE  CaptureInv'
<1>1. CaptureShape(t) /\ FrameIsSound(t) /\ PageIsSound /\ CaptureTxns \subseteq DOMAIN cap
  BY DEF CaptureInv
<1>2. CASE wait_for_action_result(t)
  <2> DEFINE r == [cap[t] EXCEPT !.ack = "timeout"]
  <2>1. /\ cap' = [cap EXCEPT ![t] = r] /\ capQueue' = capQueue /\ capSeen' = capSeen /\ capBase' = capBase
        /\ capGate' = capGate /\ capPage' = capPage /\ cap[t].phase \in Waits /\ cap[t].ack = "none"
    BY <1>2 DEF wait_for_action_result, Put, At, OnlyCap
  <2>2. /\ DOMAIN r = CaptureFields /\ r.n = cap[t].n /\ r.tile = cap[t].tile /\ r.pixels = cap[t].pixels
        /\ r.frozen = cap[t].frozen /\ r.out = cap[t].out /\ r.ack = "timeout" /\ r.work = cap[t].work
        /\ r.phase = cap[t].phase
    BY <1>1 DEF CaptureShape, CaptureFields
  <2> HIDE DEF r
  <2>3. r.phase \in Phases \ {"done"} /\ r.ack \in {"none", "ok"} \cup Failed /\ r.work \in CaptureWorks
    BY <1>1, <2>1, <2>2 DEF CaptureShape, Waits, Failed
  <2>4. r.phase \notin {"idle", "gate", "settle", "native", "persist", "diff", "commit", "adaptive", "size_back",
                        "done"}
    BY <2>1, <2>2 DEF Waits
  <2>5. PageIsSound'
    BY <1>1, <2>1 DEF PageIsSound
  <2>6. FreezePending(t) => r.phase = "freezing" /\ r.ack # "ok"
    BY <2>2, <2>4 DEF FreezePending
  <2> QED
    BY <2>1, <2>2, <2>3, <2>4, <2>5, <2>6, MoveKeeps
<1>3. CASE freeze_refused(t)
  BY <1>3, FinishKeeps DEF freeze_refused
<1>4. CASE frozen_viewport(t)
  <2>1. /\ cap[t].phase = "freezing" /\ cap[t].ack = "ok" /\ Put(t, [cap[t] EXCEPT !.phase = "native"])
        /\ capQueue' = capQueue /\ capSeen' = capSeen /\ capBase' = capBase
        /\ capGate' = capGate /\ capPage' = capPage
    BY <1>4 DEF frozen_viewport, Answered, At, OnlyCap
  <2>2. cap[t].n # 0 /\ ~FreezePending(t)
    BY <1>1, <2>1 DEF CaptureShape, Waits, FreezePending
  <2>3. PageIsSound'
    BY <1>1, <2>1 DEF PageIsSound
  <2> QED
    BY <2>1, <2>2, <2>3, PhaseOnlyKeeps
<1>5. CASE capture_managed_surface(t)
  <2>1. PICK r \in Snapshot(t) : Ask(t, r, "restore", "restoring")
    BY <1>5 DEF capture_managed_surface
  <2>2. /\ DOMAIN r = CaptureFields /\ r.n = cap[t].n /\ r.tile = cap[t].tile /\ r.out = cap[t].out
        /\ r.pixels \in {cap[t].pixels, capPage.version} /\ r.work \in {cap[t].work, "native_failed"}
        /\ (r.work = "ok" => r.pixels = capPage.version /\ (capPage.lease = t => r.frozen))
    BY <1>1 DEF Snapshot, CaptureShape, CaptureFields
  <2>3. "restore" = OpOf("restoring") /\ "restoring" \in Waits /\ cap[t].phase = "native"
    BY <1>5 DEF OpOf, Waits, capture_managed_surface, At
  <2>4. /\ r.tile \in Nat /\ r.pixels \in 0..MaxPageVersions /\ r.work \in CaptureWorks
        /\ capPage.version # 0
    BY <1>1, <2>2, CaptureAssumption DEF CaptureShape, CaptureWorks, PageIsSound, CaptureAssumption
  <2> QED
    BY <2>1, <2>2, <2>3, <2>4, AskNextKeeps
<1>6. CASE viewport_restored(t)
  <2> DEFINE next == capture_redacted_viewport_after_gate(t)
  <2>1. cap[t].phase = "restoring"
    BY <1>6 DEF viewport_restored, Answered, At
  <2>2. (next = "persist" => Thawed(t)) /\ (next # "persist" => next \in CaptureWorks \ {"ok"}) /\ ~FreezePending(t)
    BY <2>1, RestoredIs
  <2>3. \/ next = "persist" /\ Put(t, [cap[t] EXCEPT !.phase = "persist"]) /\ OnlyCap
        \/ next # "persist" /\ finish(t, next)
        \/ finish(t, "redaction_failed")
    BY <1>6 DEF viewport_restored
  <2> HIDE DEF next
  <2>4. CASE next = "persist" /\ Put(t, [cap[t] EXCEPT !.phase = "persist"]) /\ OnlyCap
    <3>1. PageIsSound' /\ capQueue' = capQueue /\ capPage' = capPage /\ capSeen' = capSeen
      BY <1>1, <2>4 DEF PageIsSound, OnlyCap
    <3> QED
      BY <2>1, <2>2, <2>4, <3>1, PhaseOnlyKeeps
  <2>5. CASE next # "persist" /\ finish(t, next)
    <3>1. next \notin {"registered", "unchanged"}
      BY <2>2, <2>5 DEF CaptureWorks
    <3> QED
      BY <2>5, <3>1, FinishKeeps
  <2>6. CASE finish(t, "redaction_failed")
    BY <2>6, FinishKeeps
  <2> QED
    BY <2>3, <2>4, <2>5, <2>6
<1> QED
  BY <1>2, <1>3, <1>4, <1>5, <1>6

\* The steps of a full page up to its cleanup.
LEMMA TileStepKeeps ==
  ASSUME CaptureInv, NEW t \in CaptureTxns,
         plan_tiles(t) \/ tile_scrolled(t) \/ tile_probed(t) \/ capture_full_page_tile(t)
  PROVE  CaptureInv'
<1>1. CaptureShape(t) /\ FrameIsSound(t) /\ PageIsSound
  BY DEF CaptureInv
<1>2. /\ "tile" = OpOf("scrolling") /\ "home" = OpOf("scroll_home")
      /\ {"scrolling", "scroll_home", "freezing", "tile_probe"} \subseteq Waits
  BY DEF OpOf, Waits
<1>3. CASE plan_tiles(t)
  <2>1. cap[t].phase = "freezing" /\ cap[t].ack = "ok"
    BY <1>3 DEF plan_tiles, full_page_frozen, Answered, At
  <2>2. ASSUME NEW n \in 1..CaptureTiles, Ask(t, [cap[t] EXCEPT !.tiles = n], "tile", "scrolling")
        PROVE  CaptureInv'
    <3> DEFINE r == [cap[t] EXCEPT !.tiles = n]
    <3>1. /\ DOMAIN r = CaptureFields /\ r.n = cap[t].n /\ r.tile \in Nat /\ r.pixels \in 0..MaxPageVersions
          /\ r.work \in CaptureWorks /\ r.out = cap[t].out
      BY <1>1 DEF CaptureShape, CaptureFields
    <3>2. Ask(t, r, "tile", "scrolling")
      BY <2>2
    <3> HIDE DEF r
    <3> QED
      BY <1>2, <2>1, <3>1, <3>2, AskNextKeeps
  <2>3. CASE Ask(t, [cap[t] EXCEPT !.work = "plan_failed"], "home", "scroll_home")
    <3>1. cleanup(t, "plan_failed") /\ "plan_failed" \in CaptureWorks
      BY <2>3 DEF cleanup, CaptureWorks
    <3> QED
      BY <1>2, <2>1, <3>1, CleanupKeeps
  <2> QED
    BY <1>3, <2>2, <2>3 DEF plan_tiles
<1>4. CASE tile_scrolled(t)
  <2>1. cap[t].phase = "scrolling"
    BY <1>4 DEF tile_scrolled, Answered, At
  <2>2. CASE cleanup(t, "scroll_failed")
    <3>1. "scroll_failed" \in CaptureWorks
      BY DEF CaptureWorks
    <3> QED
      BY <1>2, <2>1, <2>2, <3>1, CleanupKeeps
  <2>3. CASE Ask(t, cap[t], "probe", "tile_probe")
    BY <2>1, <2>3, AskPlainKeeps
  <2> QED
    BY <1>4, <2>2, <2>3 DEF tile_scrolled
<1>5. CASE tile_probed(t)
  <2>1. cap[t].phase = "tile_probe"
    BY <1>5 DEF tile_probed, Answered, At
  <2>2. CASE cleanup(t, "probe_failed")
    <3>1. "probe_failed" \in CaptureWorks
      BY DEF CaptureWorks
    <3> QED
      BY <1>2, <2>1, <2>2, <3>1, CleanupKeeps
  <2>3. CASE Put(t, [cap[t] EXCEPT !.phase = "native"]) /\ OnlyCap
    <3>1. PageIsSound' /\ capQueue' = capQueue /\ capPage' = capPage /\ capSeen' = capSeen
      BY <1>1, <2>3 DEF PageIsSound, OnlyCap
    <3>2. cap[t].n # 0 /\ ~FreezePending(t)
      BY <1>1, <2>1 DEF CaptureShape, Waits, FreezePending
    <3> QED
      BY <2>1, <2>3, <3>1, <3>2, PhaseOnlyKeeps
  <2> QED
    BY <1>5, <2>2, <2>3 DEF tile_probed
<1>6. CASE capture_full_page_tile(t)
  <2>1. cap[t].phase = "native"
    BY <1>6 DEF capture_full_page_tile, At
  <2>2. PICK r \in Snapshot(t), drift \in BOOLEAN :
          LET d == [r EXCEPT !.drift = drift /\ cap[t].tile > 0]
          IN IF r.work # "ok" THEN cleanup(t, r.work)
             ELSE IF ~SizeAccepted(t, drift)
               THEN Ask(t, [d EXCEPT !.work = "native_geometry_drift"], "home", "scroll_home")
             ELSE IF cap[t].tile + 1 < cap[t].tiles
               THEN Ask(t, [d EXCEPT !.tile = @ + 1], "tile", "scrolling")
               ELSE Ask(t, d, "home", "scroll_home")
    BY <1>6 DEF capture_full_page_tile
  <2>3. /\ DOMAIN r = CaptureFields /\ r.n = cap[t].n /\ r.tile = cap[t].tile /\ r.out = cap[t].out
        /\ r.pixels \in {cap[t].pixels, capPage.version} /\ r.work \in {cap[t].work, "native_failed"}
        /\ (r.work = "ok" => r.pixels = capPage.version /\ (capPage.lease = t => r.frozen))
    BY <1>1 DEF Snapshot, CaptureShape, CaptureFields
  <2>4. /\ r.tile \in Nat /\ r.pixels \in 0..MaxPageVersions /\ r.work \in CaptureWorks
        /\ capPage.version # 0
    BY <1>1, <2>3, CaptureAssumption DEF CaptureShape, CaptureWorks, PageIsSound, CaptureAssumption
  <2> DEFINE d == [r EXCEPT !.drift = drift /\ cap[t].tile > 0]
             e == [d EXCEPT !.work = "native_geometry_drift"]
             f == [d EXCEPT !.tile = d.tile + 1]
  <2>5. /\ DOMAIN d = CaptureFields /\ d.n = r.n /\ d.tile = r.tile /\ d.pixels = r.pixels /\ d.work = r.work
        /\ d.out = r.out /\ d.frozen = r.frozen
    BY <2>3 DEF CaptureFields
  <2>6. \/ r.work # "ok" /\ cleanup(t, r.work)
        \/ Ask(t, e, "home", "scroll_home")
        \/ Ask(t, f, "tile", "scrolling")
        \/ Ask(t, d, "home", "scroll_home")
    BY <2>2
  <2> HIDE DEF d
  <2>7. /\ DOMAIN e = CaptureFields /\ e.n = d.n /\ e.tile = d.tile /\ e.pixels = d.pixels
        /\ e.work = "native_geometry_drift" /\ e.out = d.out
        /\ DOMAIN f = CaptureFields /\ f.n = d.n /\ f.tile = d.tile + 1 /\ f.pixels = d.pixels
        /\ f.work = d.work /\ f.out = d.out
    BY <2>5 DEF CaptureFields
  <2> HIDE DEF e, f
  <2>8. "native_geometry_drift" \in CaptureWorks
    BY DEF CaptureWorks
  <2>9. CASE r.work # "ok" /\ cleanup(t, r.work)
    BY <2>1, <2>4, <2>9, CleanupKeeps
  <2>10. CASE Ask(t, e, "home", "scroll_home")
    BY <1>2, <2>1, <2>3, <2>4, <2>5, <2>7, <2>8, <2>10, AskNextKeeps
  <2>11. CASE Ask(t, f, "tile", "scrolling")
    BY <1>2, <2>1, <2>3, <2>4, <2>5, <2>7, <2>11, AskNextKeeps
  <2>12. CASE Ask(t, d, "home", "scroll_home")
    BY <1>2, <2>1, <2>3, <2>4, <2>5, <2>12, AskNextKeeps
  <2> QED
    BY <2>6, <2>9, <2>10, <2>11, <2>12
<1> QED
  BY <1>3, <1>4, <1>5, <1>6

\* The cleanup of a full page, and its end.
LEMMA FullPageEndKeeps ==
  ASSUME CaptureInv, NEW t \in CaptureTxns,
         full_page_deadline(t) \/ scroll_restored(t) \/ full_page_restored(t)
  PROVE  CaptureInv'
<1>1. CaptureShape(t) /\ FrameIsSound(t) /\ PageIsSound
  BY DEF CaptureInv
<1>2. CASE full_page_deadline(t)
  <2>1. CASE At(t, {"scrolling", "tile_probe", "native"}) /\ cleanup(t, "transaction_timeout")
    <3>1. cap[t].phase \in Waits \cup {"native"} /\ cap[t].phase # "freezing"
          /\ "transaction_timeout" \in CaptureWorks
      BY <2>1 DEF At, Waits, CaptureWorks
    <3> QED
      BY <2>1, <3>1, CleanupKeeps
  <2>2. CASE finish(t, "transaction_timeout")
    BY <2>2, FinishKeeps
  <2> QED
    BY <1>2, <2>1, <2>2 DEF full_page_deadline
<1>3. CASE scroll_restored(t)
  <2> DEFINE r == [cap[t] EXCEPT !.work = IF cap[t].ack = "ok" THEN cap[t].work ELSE "scroll_restore_failed"]
  <2>1. cap[t].phase = "scroll_home" /\ Ask(t, r, "restore", "restoring")
    BY <1>3 DEF scroll_restored, Answered, At
  <2>2. /\ DOMAIN r = CaptureFields /\ r.n = cap[t].n /\ r.tile = cap[t].tile /\ r.pixels = cap[t].pixels
        /\ r.work \in {cap[t].work, "scroll_restore_failed"} /\ r.out = cap[t].out /\ r.frozen = cap[t].frozen
    BY <1>1 DEF CaptureShape, CaptureFields
  <2> HIDE DEF r
  <2>3. r.tile \in Nat /\ r.pixels \in 0..MaxPageVersions /\ r.work \in CaptureWorks
    BY <1>1, <2>2 DEF CaptureShape, CaptureWorks
  <2>4. r.work = "ok" => r.pixels # 0 /\ (capPage.lease = t => r.frozen)
    BY <1>1, <2>1, <2>2 DEF FrameIsSound, Shot
  <2>5. "restore" = OpOf("restoring") /\ {"restoring", "scroll_home"} \subseteq Waits
    BY DEF OpOf, Waits
  <2> QED
    BY <2>1, <2>2, <2>3, <2>4, <2>5, AskNextKeeps
<1>4. CASE full_page_restored(t)
  <2> DEFINE next == capture_redacted_viewport_after_gate(t)
  <2>1. cap[t].phase = "restoring"
    BY <1>4 DEF full_page_restored, Answered, At
  <2>2. (next = "persist" => Thawed(t)) /\ (next # "persist" => next \in CaptureWorks \ {"ok"}) /\ ~FreezePending(t)
    BY <2>1, RestoredIs
  <2>3. \/ next = "persist" /\ Put(t, [cap[t] EXCEPT !.phase = "persist"]) /\ OnlyCap
        \/ next # "persist" /\ finish(t, next)
        \/ finish(t, "transaction_timeout")
    BY <1>4 DEF full_page_restored
  <2> HIDE DEF next
  <2>4. CASE next = "persist" /\ Put(t, [cap[t] EXCEPT !.phase = "persist"]) /\ OnlyCap
    <3>1. PageIsSound' /\ capQueue' = capQueue /\ capPage' = capPage /\ capSeen' = capSeen
      BY <1>1, <2>4 DEF PageIsSound, OnlyCap
    <3> QED
      BY <2>1, <2>2, <2>4, <3>1, PhaseOnlyKeeps
  <2>5. CASE next # "persist" /\ finish(t, next)
    <3>1. next \notin {"registered", "unchanged"}
      BY <2>2, <2>5 DEF CaptureWorks
    <3> QED
      BY <2>5, <3>1, FinishKeeps
  <2>6. CASE finish(t, "transaction_timeout")
    BY <2>6, FinishKeeps
  <2> QED
    BY <2>3, <2>4, <2>5, <2>6
<1> QED
  BY <1>2, <1>3, <1>4

\* The steps of a responsive sweep up to the return of its size.
LEMMA SweepStepKeeps ==
  ASSUME CaptureInv, NEW t \in CaptureTxns,
         preset_captured(t) \/ probe_width(t) \/ run_live_adaptive_responsive(t) \/ responsive_deadline(t)
  PROVE  CaptureInv'
<1>1. CaptureShape(t) /\ FrameIsSound(t) /\ PageIsSound
  BY DEF CaptureInv
<1>2. {"freeze_failed", "probe_failed", "transaction_timeout", "ok"} \subseteq CaptureWorks
  BY DEF CaptureWorks
<1>3. CASE preset_captured(t)
  <2> DEFINE next == capture_redacted_viewport_after_gate(t)
  <2>1. \/ cap[t].phase = "freezing" /\ give_size_back(t, "freeze_failed")
        \/ cap[t].phase = "restoring" /\ next # "persist" /\ give_size_back(t, next)
        \/ cap[t].phase = "restoring" /\ next = "persist" /\ Put(t, [cap[t] EXCEPT !.phase = "adaptive"])
             /\ OnlyCap
    BY <1>3 DEF preset_captured, Answered, At
  <2>2. cap[t].phase = "restoring" =>
          /\ (next = "persist" => Thawed(t)) /\ (next # "persist" => next \in CaptureWorks \ {"ok"})
          /\ ~FreezePending(t)
    BY RestoredIs
  <2> HIDE DEF next
  <2>3. CASE cap[t].phase = "freezing" /\ give_size_back(t, "freeze_failed")
    BY <1>2, <2>3, SizeBackKeeps
  <2>4. CASE cap[t].phase = "restoring" /\ next # "persist" /\ give_size_back(t, next)
    BY <2>2, <2>4, SizeBackKeeps
  <2>5. CASE cap[t].phase = "restoring" /\ next = "persist" /\ Put(t, [cap[t] EXCEPT !.phase = "adaptive"])
               /\ OnlyCap
    <3>1. PageIsSound' /\ capQueue' = capQueue /\ capPage' = capPage /\ capSeen' = capSeen
      BY <1>1, <2>5 DEF PageIsSound, OnlyCap
    <3> QED
      BY <2>2, <2>5, <3>1, PhaseOnlyKeeps
  <2> QED
    BY <2>1, <2>3, <2>4, <2>5
<1>4. CASE probe_width(t)
  <2>1. cap[t].phase = "adaptive"
    BY <1>4 DEF probe_width, At
  <2>2. Thawed(t) /\ ~FreezePending(t)
    BY <2>1 DEF Thawed, FreezePending
  <2>3. CASE give_size_back(t, "probe_failed")
    BY <1>2, <2>1, <2>3, SizeBackKeeps
  <2>4. CASE Put(t, [cap[t] EXCEPT !.probes = @ + 1]) /\ OnlyCap
    <3> DEFINE r == [cap[t] EXCEPT !.probes = cap[t].probes + 1]
    <3>1. /\ cap' = [cap EXCEPT ![t] = r] /\ capQueue' = capQueue /\ capPage' = capPage /\ capSeen' = capSeen
          /\ PageIsSound'
      BY <1>1, <2>4 DEF Put, OnlyCap, PageIsSound
    <3>2. /\ DOMAIN r = CaptureFields /\ r.n = cap[t].n /\ r.tile = cap[t].tile /\ r.pixels = cap[t].pixels
          /\ r.frozen = cap[t].frozen /\ r.out = cap[t].out /\ r.ack = cap[t].ack /\ r.work = cap[t].work
          /\ r.phase = "adaptive"
      BY <1>1, <2>1 DEF CaptureShape, CaptureFields
    <3> HIDE DEF r
    <3>3. "adaptive" \in Phases \ {"done"} /\ "adaptive" \notin Waits
      BY DEF Phases, Waits
    <3>4. r.ack \in {"none", "ok"} \cup Failed /\ r.work \in CaptureWorks
      BY <1>1, <3>2 DEF CaptureShape
    <3> QED
      BY <2>1, <2>2, <3>1, <3>2, <3>3, <3>4, MoveKeeps
  <2> QED
    BY <1>4, <2>3, <2>4 DEF probe_width
<1>5. CASE run_live_adaptive_responsive(t)
  <2>1. cap[t].phase = "adaptive" /\ give_size_back(t, "ok")
    BY <1>5 DEF run_live_adaptive_responsive, At
  <2>2. Thawed(t) /\ ~FreezePending(t)
    BY <2>1 DEF Thawed, FreezePending
  <2> QED
    BY <1>2, <2>1, <2>2, SizeBackKeeps
<1>6. CASE responsive_deadline(t)
  <2>1. cap[t].phase # "done" /\ give_size_back(t, "transaction_timeout")
    BY <1>6 DEF responsive_deadline, At
  <2> QED
    BY <1>2, <2>1, SizeBackKeeps
<1> QED
  BY <1>3, <1>4, <1>5, <1>6

\* The size is put back, and the sweep goes on to its evidence or ends.
LEMMA SizeRestoredKeeps ==
  ASSUME CaptureInv, NEW t \in CaptureTxns, restore_responsive_preview(t)
  PROVE  CaptureInv'
<1>1. CaptureShape(t) /\ FrameIsSound(t) /\ PageIsSound /\ cap[t].phase = "size_back"
  BY DEF CaptureInv, restore_responsive_preview, At
<1>2. CASE finish(t, "size_restore_failed")
  BY <1>2, FinishKeeps
<1>3. CASE /\ capPage' = [capPage EXCEPT !.size = "original"]
           /\ cap[t].work = "ok" /\ Put(t, [cap[t] EXCEPT !.phase = "persist"]) /\ UNCHANGED capGate
           /\ UNCHANGED <<capQueue, capBase, capSeen>>
  <2>1. PageIsSound' /\ capPage'.lease = capPage.lease
    BY <1>1, <1>3 DEF PageIsSound
  <2>2. Thawed(t) /\ ~FreezePending(t)
    BY <1>1, <1>3 DEF Thawed, FreezePending
  <2> QED
    BY <1>1, <1>3, <2>1, <2>2, PhaseOnlyKeeps
<1>4. CASE /\ capPage' = [capPage EXCEPT !.size = "original"]
           /\ cap[t].work # "ok" /\ Put(t, Ended(t, cap[t].work)) /\ capGate' = "nobody"
           /\ UNCHANGED <<capQueue, capBase, capSeen>>
  <2> DEFINE r == Ended(t, cap[t].work)
  <2>1. cap[t].work \notin {"registered", "unchanged"}
    BY <1>1 DEF CaptureShape, CaptureWorks
  <2>2. /\ DOMAIN r = CaptureFields /\ r.phase = "done" /\ r.ack = "none" /\ r.n = 0 /\ r.tile = 0
        /\ r.pixels = 0 /\ r.work = "ok" /\ r.out = "failed" /\ cap' = [cap EXCEPT ![t] = r]
    BY <1>4, <2>1 DEF Ended, NoCapture, CaptureFields, Put
  <2> HIDE DEF r
  <2>3. cap'[t] = r
    BY <2>2 DEF CaptureInv
  <2>4. MaxPageVersions \in Nat
    BY CaptureAssumption DEF CaptureAssumption
  <2>5. CaptureShape(t)'
    BY <2>2, <2>3, <2>4 DEF CaptureShape, Phases, Waits, CaptureWorks, CaptureOuts
  <2>6. FrameIsSound(t)' /\ FreezePending(t)'
    BY <2>2, <2>3 DEF FrameIsSound, Shot, Thawed, FreezePending
  <2>7. PageIsSound' /\ capPage'.lease = capPage.lease
    BY <1>1, <1>4 DEF PageIsSound
  <2>8. "done" \notin Waits
    BY DEF Waits
  <2> QED
    BY <1>4, <2>2, <2>5, <2>6, <2>7, <2>8, PutKeeps
<1> QED
  BY <1>2, <1>3, <1>4 DEF restore_responsive_preview

\* The evidence of a frame, its diff and the baseline.
LEMMA EvidenceStepKeeps ==
  ASSUME CaptureInv, NEW t \in CaptureTxns,
         \/ \E kind \in CaptureKinds : Register(t, kind)
         \/ emit_changed_capture_plan(t) \/ report_unchanged(t) \/ register_visual_diff_evidence(t)
         \/ commit_changed_baseline(t) \/ compatible_changed_baseline(t)
  PROVE  CaptureInv'
<1>1. CaptureShape(t) /\ FrameIsSound(t) /\ PageIsSound
  BY DEF CaptureInv
<1>2. cap[t].pixels \in 0..MaxPageVersions
  BY <1>1 DEF CaptureShape
<1>3. ASSUME NEW kind \in CaptureKinds, Register(t, kind)
      PROVE  CaptureInv'
  <2>1. CASE finish(t, "persist_failed")
    BY <2>1, FinishKeeps
  <2>2. CASE /\ capSeen' = capSeen \cup {cap[t].pixels} /\ Put(t, Ended(t, "registered"))
             /\ capGate' = "nobody" /\ UNCHANGED <<capQueue, capPage, capBase>>
    <3>1. cap[t].phase = "persist"
      BY <1>3 DEF Register, At
    <3>2. capBase' \in 0..MaxPageVersions /\ (capBase' # 0 => capBase' \in capSeen')
      BY <1>1, <2>2 DEF PageIsSound
    <3> QED
      BY <2>2, <3>1, <3>2, RegisterKeeps DEF Put
  <2> QED
    BY <1>3, <2>1, <2>2 DEF Register
<1>4. CASE emit_changed_capture_plan(t)
  <2>1. CASE finish(t, "persist_failed")
    BY <2>1, FinishKeeps
  <2>2. CASE /\ capSeen' = capSeen \cup {cap[t].pixels} /\ Put(t, [cap[t] EXCEPT !.phase = "diff"])
             /\ UNCHANGED <<capGate, capQueue, capPage, capBase>>
    <3>1. cap[t].phase = "persist"
      BY <1>4 DEF emit_changed_capture_plan, At
    <3>2. Thawed(t) /\ ~FreezePending(t)
      BY <3>1 DEF Thawed, FreezePending
    <3>3. PageIsSound'
      BY <1>1, <2>2 DEF PageIsSound
    <3> QED
      BY <2>2, <3>1, <3>2, <3>3, PhaseOnlyKeeps
  <2> QED
    BY <1>4, <2>1, <2>2 DEF emit_changed_capture_plan
<1>5. CASE report_unchanged(t)
  <2>1. PICK out \in {"unchanged", "persist_failed"} : finish(t, out)
    BY <1>5 DEF report_unchanged
  <2>2. cap[t].pixels = capBase /\ cap[t].pixels # 0
    BY <1>1, <1>5 DEF report_unchanged, Unchanged, At, FrameIsSound, Thawed
  <2>3. cap[t].pixels \in capSeen
    BY <1>1, <2>2 DEF PageIsSound
  <2> QED
    BY <2>1, <2>3, FinishKeeps
<1>6. CASE register_visual_diff_evidence(t)
  <2>1. CASE finish(t, "diff_failed")
    BY <2>1, FinishKeeps
  <2>2. CASE ingest_visual_diff_evidence(t) /\ Put(t, [cap[t] EXCEPT !.phase = "commit"]) /\ OnlyCap
    <3>1. cap[t].phase = "diff"
      BY <1>6 DEF register_visual_diff_evidence, At
    <3>2. Thawed(t) /\ ~FreezePending(t)
      BY <3>1 DEF Thawed, FreezePending
    <3>3. PageIsSound' /\ capQueue' = capQueue /\ capPage' = capPage /\ capSeen' = capSeen
      BY <1>1, <2>2 DEF PageIsSound, OnlyCap
    <3>4. cap[t].pixels \in capSeen'
      BY <2>2, <3>3 DEF ingest_visual_diff_evidence
    <3> QED
      BY <2>2, <3>1, <3>2, <3>3, <3>4, PhaseOnlyKeeps
  <2> QED
    BY <1>6, <2>1, <2>2 DEF register_visual_diff_evidence
<1>7. CASE commit_changed_baseline(t)
  <2>1. /\ cap[t].phase = "commit" /\ capBase' \in {0, capBase, cap[t].pixels} /\ capSeen' = capSeen
        /\ capGate' = "nobody" /\ capQueue' = capQueue /\ capPage' = capPage
        /\ cap' = [cap EXCEPT ![t] = Ended(t, "registered")]
    BY <1>7 DEF commit_changed_baseline, At, Put
  <2>2. cap[t].pixels \in capSeen /\ MaxPageVersions \in Nat
    BY <1>1, <2>1, CaptureAssumption DEF FrameIsSound, CaptureAssumption
  <2>3. capBase' \in 0..MaxPageVersions /\ (capBase' # 0 => capBase' \in capSeen')
    BY <1>1, <1>2, <2>1, <2>2 DEF PageIsSound
  <2> QED
    BY <2>1, <2>3, RegisterKeeps
<1>8. CASE compatible_changed_baseline(t)
  <2>1. /\ capBase' = 0 /\ cap' = cap /\ capGate' = capGate /\ capQueue' = capQueue /\ capPage' = capPage
        /\ capSeen' = capSeen
    BY <1>8 DEF compatible_changed_baseline
  <2>2. PageIsSound'
    BY <1>1, <2>1, CaptureAssumption DEF PageIsSound, CaptureAssumption
  <2> QED
    BY <2>1, <2>2, CapturePageKeeps
<1> QED
  BY <1>3, <1>4, <1>5, <1>6, <1>7, <1>8

\* The page by itself: its lease runs out, its application and its user go on.
LEMMA CapturePageStepKeeps ==
  ASSUME CaptureInv, lease_expires \/ page_lives
  PROVE  CaptureInv'
<1>1. PageIsSound /\ "nobody" \notin CaptureTxns /\ MaxPageVersions \in Nat
  BY CaptureAssumption DEF CaptureInv, CaptureAssumption
<1>2. CASE lease_expires
  <2>1. /\ capPage' = [capPage EXCEPT !.lease = "nobody", !.scroll = capPage.user]
        /\ cap' = cap /\ capGate' = capGate /\ capQueue' = capQueue /\ capBase' = capBase /\ capSeen' = capSeen
    BY <1>2 DEF lease_expires, restoreVisuals
  <2>2. PageIsSound' /\ capPage'.lease = "nobody"
    BY <1>1, <2>1 DEF PageIsSound
  <2> QED
    BY <2>1, <2>2, CapturePageKeeps
<1>3. CASE page_lives
  <2>1. /\ cap' = cap /\ capGate' = capGate /\ capQueue' = capQueue /\ capBase' = capBase /\ capSeen' = capSeen
    BY <1>3 DEF page_lives
  <2>2. CASE capPage.version < MaxPageVersions /\ capPage' = [capPage EXCEPT !.version = @ + 1]
    <3>1. PageIsSound' /\ capPage'.lease = capPage.lease
      BY <1>1, <2>1, <2>2 DEF PageIsSound
    <3> QED
      BY <2>1, <3>1, CapturePageKeeps
  <2>3. ASSUME NEW y, capPage.lease = "nobody", capPage' = [capPage EXCEPT !.scroll = y, !.user = y]
        PROVE  CaptureInv'
    <3>1. PageIsSound' /\ capPage'.lease = capPage.lease
      BY <1>1, <2>1, <2>3 DEF PageIsSound
    <3> QED
      BY <2>1, <3>1, CapturePageKeeps
  <2>4. CASE capPage' = [capPage EXCEPT !.lease = "nobody", !.scroll = 0, !.user = 0]
    <3>1. PageIsSound' /\ capPage'.lease = "nobody"
      BY <1>1, <2>1, <2>4 DEF PageIsSound
    <3> QED
      BY <2>1, <3>1, CapturePageKeeps
  <2> QED
    BY <1>3, <2>2, <2>3, <2>4 DEF page_lives
<1> QED
  BY <1>2, <1>3

\* Every step of a transaction is one of the groups above.
LEMMA CaptureStepKeeps ==
  ASSUME CaptureInv, NEW t \in CaptureTxns, CaptureStep(t)
  PROVE  CaptureInv'
<1>1. \/ capture_target(t) \/ session_capture_gate(t) \/ preflight_failed(t) \/ wait_for_capture_settle(t)
      \/ wait_for_action_result(t) \/ freeze_refused(t) \/ frozen_viewport(t) \/ capture_managed_surface(t)
         \/ viewport_restored(t)
      \/ plan_tiles(t) \/ tile_scrolled(t) \/ tile_probed(t) \/ capture_full_page_tile(t)
      \/ full_page_deadline(t) \/ scroll_restored(t) \/ full_page_restored(t)
      \/ preset_captured(t) \/ probe_width(t) \/ run_live_adaptive_responsive(t) \/ responsive_deadline(t)
      \/ restore_responsive_preview(t)
      \/ persist_and_register(t) \/ persist_full_page_and_register(t)
         \/ persist_responsive_contact_sheet_and_register(t)
      \/ emit_changed_capture_plan(t) \/ report_unchanged(t) \/ register_visual_diff_evidence(t)
         \/ commit_changed_baseline(t) \/ compatible_changed_baseline(t)
  BY DEF CaptureStep
<1>2. persist_and_register(t) \/ persist_full_page_and_register(t)
        \/ persist_responsive_contact_sheet_and_register(t) => \E kind \in CaptureKinds : Register(t, kind)
  BY DEF persist_and_register, persist_full_page_and_register, persist_responsive_contact_sheet_and_register,
         CaptureKinds
<1> QED
  BY <1>1, <1>2, CaptureEntryKeeps, ViewportStepKeeps, TileStepKeeps, FullPageEndKeeps, SweepStepKeeps,
     SizeRestoredKeeps, EvidenceStepKeeps

\* The invariant of the captures, for every session of transactions.
LEMMA CaptureInvariant == CaptureSpec => []CaptureInv
<1>1. CaptureInit => CaptureInv
  <2> SUFFICES ASSUME CaptureInit PROVE CaptureInv
    OBVIOUS
  <2>1. "nobody" \notin CaptureTxns /\ MaxPageVersions \in Nat \ {0} /\ CaptureQueueCapacity \in Nat \ {0}
    BY CaptureAssumption DEF CaptureAssumption
  <2>2. ASSUME NEW t \in CaptureTxns PROVE CaptureShape(t) /\ FrameIsSound(t)
    <3>1. cap[t] = NoCapture /\ capPage.lease = "nobody"
      BY DEF CaptureInit
    <3>2. /\ DOMAIN NoCapture = CaptureFields /\ NoCapture.phase = "idle" /\ NoCapture.ack = "none"
          /\ NoCapture.n = 0 /\ NoCapture.tile = 0 /\ NoCapture.pixels = 0 /\ NoCapture.work = "ok"
          /\ NoCapture.out = "none"
      BY DEF NoCapture, CaptureFields
    <3>3. CaptureShape(t)
      BY <2>1, <3>1, <3>2 DEF CaptureShape, Phases, Waits, CaptureWorks, CaptureOuts
    <3> QED
      BY <2>1, <3>1, <3>2, <3>3 DEF FrameIsSound, Shot, Thawed
  <2>3. QueueIsSound
    BY <2>1 DEF CaptureInit, QueueIsSound
  <2>4. PageIsSound
    BY <2>1 DEF CaptureInit, PageIsSound
  <2>5. DOMAIN cap = CaptureTxns
    BY DEF CaptureInit
  <2> QED
    BY <2>2, <2>3, <2>4, <2>5 DEF CaptureInv
<1>2. CaptureInv /\ [CaptureNext]_capVars => CaptureInv'
  <2> SUFFICES ASSUME CaptureInv, [CaptureNext]_capVars PROVE CaptureInv'
    OBVIOUS
  <2>1. CASE UNCHANGED capVars
    <3>1. /\ cap' = cap /\ capGate' = capGate /\ capQueue' = capQueue /\ capPage' = capPage
          /\ capBase' = capBase /\ capSeen' = capSeen
      BY <2>1 DEF capVars
    <3>2. PageIsSound'
      BY <3>1 DEF CaptureInv, PageIsSound
    <3> QED
      BY <3>1, <3>2, CapturePageKeeps
  <2>2. ASSUME NEW t \in CaptureTxns, CaptureStep(t) PROVE CaptureInv'
    BY <2>2, CaptureStepKeeps
  <2>3. CASE page_runs_capture_action
    BY <2>3, RunActionKeeps
  <2>4. CASE lease_expires \/ page_lives
    BY <2>4, CapturePageStepKeeps
  <2> QED
    BY <2>1, <2>2, <2>3, <2>4 DEF CaptureNext
<1> QED
  BY <1>1, <1>2, PTL DEF CaptureSpec

\* Whatever the transactions, the page and its lease timer interleave: a frame
\* becomes evidence only when its pixels were shot under its own acknowledged
\* freeze and that freeze was over, "unchanged" is said only of a picture the daemon
\* has, and a thawed page is where its user left it (visual_capture.rs).
THEOREM CapturesStaySound == CaptureSpec => [](CapturesAreSound /\ CaptureTypeOK)
<1>1. CaptureInv => CapturesAreSound /\ CaptureTypeOK
  <2> SUFFICES ASSUME CaptureInv PROVE CapturesAreSound /\ CaptureTypeOK
    OBVIOUS
  <2>1. \A t \in CaptureTxns : CaptureShape(t) /\ FrameIsSound(t)
    BY DEF CaptureInv
  <2>2. PageIsSound /\ QueueIsSound
    BY DEF CaptureInv
  <2>3. FramesAreFrozen /\ ChangesAreReported /\ PageGivenBack
    BY <2>1, <2>2 DEF FramesAreFrozen, ChangesAreReported, PageGivenBack, FrameIsSound, Thawed, PageIsSound
  <2>4. CaptureTypeOK
    BY <2>1, <2>2 DEF CaptureTypeOK, CaptureShape, PageIsSound, QueueIsSound
  <2> QED
    BY <2>3, <2>4 DEF CapturesAreSound
<1> QED
  BY <1>1, CaptureInvariant, PTL

-----------------------------------------------------------------------------
(* Content stress: for every set of texts, number of profiles, renders and    *)
(* documents.                                                                 *)

StressTextValues == [version : Nat, stressed : BOOLEAN]
StressEntryPhases == {"none", "PendingApply", "Applied", "PendingRestore", "Restored", "Failed"}
StressRoutes == {"r1", "r2"}
StressScriptSet == [op : {"begin", "restore"}, token : 1..StressProfiles, route : StressRoutes]

\* Shapes of the page, and of the entry, the scripts and the command.
StressPageTyped ==
  /\ stressPage.present \subseteq StressTexts
  /\ stressPage.texts \in [StressTexts -> StressTextValues]
  /\ stressPage.last \in [StressTexts -> Nat]
  /\ stressPage.route \in StressRoutes
  /\ stressPage.state.token \in 0..StressProfiles
  /\ DOMAIN stressPage = {"generation", "route", "texts", "last", "present", "state", "reports"}

StressCommandTyped ==
  /\ stressEntry.token \in 0..StressProfiles /\ stressEntry.route \in StressRoutes
  /\ DOMAIN stressEntry = {"token", "phase", "route", "generation"}
  /\ stressScripts \in Seq(StressScriptSet)
  /\ stressJob.step \in StressWaits \cup Over \cup {"measure", "check"}
  /\ stressJob.profile \in 0..StressProfiles
  /\ DOMAIN stressJob = {"step", "profile", "baseline", "renders"}

\* The runtime's state is of texts that were not stressed; a text that is stressed
\* now is one of them, and says which it was.
StressIsRemembered ==
  /\ stressPage.state.token = 0 => stressPage.state = NoStress
  /\ \A t \in DOMAIN stressPage.state.entries :
       stressPage.state.entries[t] \in StressTextValues /\ ~stressPage.state.entries[t].stressed
  /\ \A t \in stressPage.present : stressPage.texts[t].stressed =>
       /\ t \in DOMAIN stressPage.state.entries
       /\ stressPage.texts[t] = Stressed(stressPage.state.entries[t])

\* A restore of token k is queued behind a position, or the command still has it to send.
Promised(k, from) ==
  \/ \E j \in 1..Len(stressScripts) :
       j > from /\ stressScripts[j].op = "restore" /\ stressScripts[j].token = k
  \/ stressJob.step \in {"apply", "measure"} /\ k = stressJob.profile

\* Every stress, in force or still queued, is followed by its restore.
RestoreIsOwed ==
  /\ stressPage.state.token # 0 => Promised(stressPage.state.token, 0)
  /\ \A i \in 1..Len(stressScripts) :
       stressScripts[i].op = "begin" => Promised(stressScripts[i].token, i)

\* While a profile is under way the entry is of that profile.
EntryIsTheProfiles ==
  stressJob.step \in StressWaits \cup {"measure"} =>
    stressEntry.token = stressJob.profile /\ stressJob.profile # 0

\* Scripts the command has sent by a step.
SentBy(step, profile) ==
  IF profile = 0 THEN 0
  ELSE 3 * (profile - 1) + (IF step \in {"apply", "measure"} THEN 1 ELSE IF step = "restore" THEN 2 ELSE 3)

ScriptsAreFew ==
  /\ Len(stressScripts) <= SentBy(stressJob.step, stressJob.profile)
  /\ stressJob.profile = 0 => stressJob.step = "idle"
  /\ stressJob.step = "idle" => stressJob.profile = 0

StressInv ==
  /\ StressPageTyped /\ StressCommandTyped /\ StressIsRemembered /\ RestoreIsOwed
  /\ EntryIsTheProfiles /\ ScriptsAreFew /\ AppTextsSurvive

\* What the page does by itself: a stress is forgotten at most, nothing is sent.
LEMMA StressPageMoves ==
  ASSUME StressInv, StressPageTyped', StressIsRemembered', AppTextsSurvive',
         stressPage'.state.token \in {stressPage.state.token, 0},
         stressScripts' = stressScripts,
         stressJob'.step = stressJob.step, stressJob'.profile = stressJob.profile,
         DOMAIN stressJob' = DOMAIN stressJob,
         stressEntry'.token = stressEntry.token, stressEntry'.route = stressEntry.route,
         DOMAIN stressEntry' = DOMAIN stressEntry
  PROVE  StressInv'
<1>1. StressCommandTyped'
  BY DEF StressInv, StressCommandTyped
<1>2. RestoreIsOwed'
  BY DEF StressInv, RestoreIsOwed, Promised
<1>3. EntryIsTheProfiles' /\ ScriptsAreFew'
  BY DEF StressInv, EntryIsTheProfiles, ScriptsAreFew, SentBy
<1> QED
  BY <1>1, <1>2, <1>3 DEF StressInv

\* The value of one text, as the application writes it and under a stress.
LEMMA TextsAreValues ==
  ASSUME NEW version \in Nat, NEW text \in StressTextValues
  PROVE  /\ Own(version) \in StressTextValues /\ ~Own(version).stressed
         /\ Own(version).version = version
         /\ Stressed(text) \in StressTextValues /\ Stressed(text).stressed
         /\ Stressed(text).version = text.version
         /\ ~text.stressed => text = Own(text.version)
BY DEF Own, Stressed, StressTextValues

\* The application writes a text, the same or a new one.
LEMMA RenderedTextKeeps ==
  ASSUME StressInv, page_renders_text
  PROVE  StressInv'
<1>1. PICK x \in stressPage.present, version \in Nat :
        /\ stressPage' = [stressPage EXCEPT !.texts[x] = Own(version), !.last[x] = version]
        /\ stressJob' = [stressJob EXCEPT !.renders = @ + 1]
        /\ stressEntry' = stressEntry /\ stressScripts' = stressScripts
  <2>1. PICK x \in stressPage.present : \E version \in stressPage.last[x]..stressPage.last[x] + 1 :
          Rendering([stressPage EXCEPT !.texts[x] = Own(version), !.last[x] = version])
    BY DEF page_renders_text
  <2>2. PICK version \in stressPage.last[x]..stressPage.last[x] + 1 :
          Rendering([stressPage EXCEPT !.texts[x] = Own(version), !.last[x] = version])
    BY <2>1
  <2>3. version \in Nat
    BY <2>1, <2>2 DEF StressInv, StressPageTyped
  <2> QED
    BY <2>1, <2>2, <2>3 DEF Rendering
<1>2. version \in Nat /\ x \in StressTexts
  BY DEF StressInv, StressPageTyped
<1> DEFINE own == Own(version)
<1>3. own \in StressTextValues /\ ~own.stressed
  BY <1>2, TextsAreValues DEF StressTextValues, Own
<1> HIDE DEF own
<1>4. /\ stressPage'.present = stressPage.present /\ stressPage'.state = stressPage.state
      /\ stressPage'.route = stressPage.route /\ DOMAIN stressPage' = DOMAIN stressPage
      /\ stressPage'.texts = [stressPage.texts EXCEPT ![x] = own]
      /\ stressPage'.last = [stressPage.last EXCEPT ![x] = version]
  BY <1>1 DEF StressInv, StressPageTyped, own
<1>5. StressPageTyped' /\ StressIsRemembered'
  BY <1>2, <1>3, <1>4 DEF StressInv, StressPageTyped, StressIsRemembered
<1>6. AppTextsSurvive'
  <2>1. stressPage'.texts[x] = Own(stressPage'.last[x])
    BY <1>2, <1>4 DEF own, StressInv, StressPageTyped
  <2>2. ASSUME NEW t \in StressTexts, t # x
        PROVE  stressPage'.texts[t] = stressPage.texts[t] /\ stressPage'.last[t] = stressPage.last[t]
    BY <1>4, <2>2 DEF StressInv, StressPageTyped
  <2> QED
    BY <2>1, <2>2 DEF StressInv, AppTextsSurvive
<1> QED
  BY <1>1, <1>4, <1>5, <1>6, StressPageMoves DEF StressInv, StressCommandTyped

\* A text leaves the document, or the application changes its route.
LEMMA RemovedTextKeeps ==
  ASSUME StressInv, page_removes_text \/ page_changes_route
  PROVE  StressInv'
<1>1. PICK present \in SUBSET stressPage.present, route \in StressRoutes :
        /\ stressPage' = [stressPage EXCEPT !.present = present] \/ stressPage' = [stressPage EXCEPT !.route = route]
        /\ stressJob' = [stressJob EXCEPT !.renders = @ + 1]
        /\ stressEntry' = stressEntry /\ stressScripts' = stressScripts
  BY DEF page_removes_text, page_changes_route, Rendering, StressRoutes
<1>2. /\ stressPage'.present \subseteq stressPage.present /\ stressPage'.state = stressPage.state
      /\ stressPage'.route \in StressRoutes /\ DOMAIN stressPage' = DOMAIN stressPage
      /\ stressPage'.texts = stressPage.texts /\ stressPage'.last = stressPage.last
  BY <1>1 DEF StressInv, StressPageTyped
<1>3. StressPageTyped' /\ StressIsRemembered' /\ AppTextsSurvive'
  BY <1>2 DEF StressInv, StressPageTyped, StressIsRemembered, AppTextsSurvive
<1> QED
  BY <1>1, <1>2, <1>3, StressPageMoves DEF StressInv, StressCommandTyped

\* A new document.
LEMMA ReloadedDocumentKeeps ==
  ASSUME StressInv, stress_page_reloads
  PROVE  StressInv'
<1>1. /\ stressPage' = StressDocument(stressPage.generation + 1, stressPage.route)
      /\ stressJob' = stressJob /\ stressEntry' = stressEntry /\ stressScripts' = stressScripts
  BY DEF stress_page_reloads
<1> DEFINE own == Own(0)
<1>2. own \in StressTextValues /\ ~own.stressed
  BY DEF own, Own, StressTextValues
<1>3. /\ stressPage'.present = StressTexts /\ stressPage'.state = NoStress
      /\ stressPage'.route = stressPage.route
      /\ DOMAIN stressPage' = {"generation", "route", "texts", "last", "present", "state", "reports"}
      /\ stressPage'.texts = [t \in StressTexts |-> own] /\ stressPage'.last = [t \in StressTexts |-> 0]
  BY <1>1 DEF StressDocument
<1> HIDE DEF own
<1>4. NoStress.token = 0 /\ DOMAIN NoStress.entries = {}
  BY DEF NoStress
<1>5. StressPageTyped'
  BY <1>2, <1>3, <1>4, StressAssumption DEF StressInv, StressPageTyped, StressAssumption
<1>6. StressIsRemembered'
  BY <1>2, <1>3, <1>4 DEF StressIsRemembered
<1>7. AppTextsSurvive'
  BY <1>3 DEF AppTextsSurvive, own
<1> QED
  BY <1>1, <1>3, <1>4, <1>5, <1>6, <1>7, StressPageMoves

\* The bridge takes a report: the entry keeps its token and its route.
LEMMA StressReportKeeps ==
  ASSUME StressInv, stress_reports
  PROVE  StressInv'
<1>1. /\ stressJob' = stressJob /\ stressScripts' = stressScripts
      /\ \E reports : stressPage' = [stressPage EXCEPT !.reports = reports]
  BY DEF stress_reports
<1>2. \/ stressEntry' = stressEntry
      \/ stressEntry' = stress_completed(stressEntry, Head(stressPage.reports), stressPage.generation)
  BY DEF stress_reports
<1>3. /\ stressEntry'.token = stressEntry.token /\ stressEntry'.route = stressEntry.route
      /\ DOMAIN stressEntry' = DOMAIN stressEntry
  BY <1>2 DEF stress_completed, Accepted, StressInv, StressCommandTyped
<1>4. /\ stressPage'.present = stressPage.present /\ stressPage'.state = stressPage.state
      /\ stressPage'.route = stressPage.route /\ DOMAIN stressPage' = DOMAIN stressPage
      /\ stressPage'.texts = stressPage.texts /\ stressPage'.last = stressPage.last
  BY <1>1 DEF StressInv, StressPageTyped
<1>5. StressPageTyped' /\ StressIsRemembered' /\ AppTextsSurvive'
  BY <1>4 DEF StressInv, StressPageTyped, StressIsRemembered, AppTextsSurvive
<1> QED
  BY <1>1, <1>3, <1>4, <1>5, StressPageMoves

\* What a script leaves of the page: the runtime's state and the texts change.
LEMMA StressScriptTypes ==
  ASSUME StressInv, stress_script_runs
  PROVE  LET script == Head(stressScripts) IN
         /\ Len(stressScripts) \in Nat \ {0} /\ stressScripts' = Tail(stressScripts)
         /\ script = stressScripts[1] /\ script \in StressScriptSet
         /\ stressJob' = stressJob /\ stressEntry' = stressEntry
         /\ \/ script.op = "begin" /\ stressPage' = beginContentStress(stressPage, script)
            \/ script.op = "restore" /\ stressPage' = restoreContentStress(stressPage, script)
<1>1. /\ stressScripts \in Seq(StressScriptSet) /\ stressScripts # <<>>
      /\ stressScripts' = Tail(stressScripts) /\ stressJob' = stressJob /\ stressEntry' = stressEntry
      /\ stressPage' = IF Head(stressScripts).op = "begin"
                         THEN beginContentStress(stressPage, Head(stressScripts))
                         ELSE restoreContentStress(stressPage, Head(stressScripts))
  BY DEF stress_script_runs, StressInv, StressCommandTyped
<1>2. /\ Len(stressScripts) \in Nat \ {0} /\ Head(stressScripts) = stressScripts[1]
      /\ stressScripts[1] \in StressScriptSet
  BY <1>1
<1> QED
  BY <1>1, <1>2 DEF StressScriptSet

\* A script that has run: what it owed to the queue is owed by what is left of it.
LEMMA TailKeepsTheDebt ==
  ASSUME StressInv, Len(stressScripts) \in Nat \ {0}, stressScripts' = Tail(stressScripts),
         stressJob' = stressJob,
         stressPage'.state.token # 0 =>
           \/ stressPage'.state.token = stressPage.state.token
              /\ (stressScripts[1].op = "restore" => stressScripts[1].token # stressPage.state.token)
           \/ stressScripts[1].op = "begin" /\ stressScripts[1].token = stressPage'.state.token
  PROVE  RestoreIsOwed' /\ ScriptsAreFew' /\ stressScripts' \in Seq(StressScriptSet)
<1>1. /\ stressScripts \in Seq(StressScriptSet) /\ stressScripts # <<>>
      /\ stressJob.profile \in 0..StressProfiles
  BY DEF StressInv, StressCommandTyped
<1>2. /\ stressScripts' \in Seq(StressScriptSet) /\ Len(stressScripts') = Len(stressScripts) - 1
      /\ \A i \in 1..Len(stressScripts') : stressScripts'[i] = stressScripts[i + 1]
  BY <1>1, HeadTailProperties
<1>3. ASSUME NEW k, NEW from \in 0..Len(stressScripts), Promised(k, from),
             from = 0 => ~(stressScripts[1].op = "restore" /\ stressScripts[1].token = k)
      PROVE  \/ \E j \in 1..Len(stressScripts') :
                  j > from - 1 /\ stressScripts'[j].op = "restore" /\ stressScripts'[j].token = k
             \/ stressJob'.step \in {"apply", "measure"} /\ k = stressJob'.profile
  <2>1. CASE stressJob.step \in {"apply", "measure"} /\ k = stressJob.profile
    BY <2>1
  <2>2. ASSUME NEW j \in 1..Len(stressScripts), j > from, stressScripts[j].op = "restore",
               stressScripts[j].token = k
        PROVE  \E i \in 1..Len(stressScripts') :
                 i > from - 1 /\ stressScripts'[i].op = "restore" /\ stressScripts'[i].token = k
    <3>1. j # 1
      BY <1>3, <2>2
    <3>2. j - 1 \in 1..Len(stressScripts') /\ j - 1 > from - 1 /\ stressScripts'[j - 1] = stressScripts[j]
      <4>1. j - 1 \in 1..Len(stressScripts')
        BY <1>2, <3>1
      <4>2. (j - 1) + 1 = j
        OBVIOUS
      <4> QED
        BY <1>2, <2>2, <4>1, <4>2
    <3> QED
      BY <2>2, <3>2
  <2> QED
    BY <1>3, <2>1, <2>2 DEF Promised
<1>4. ASSUME stressPage'.state.token # 0
      PROVE  \/ \E j \in 1..Len(stressScripts') :
                  j > 0 /\ stressScripts'[j].op = "restore" /\ stressScripts'[j].token = stressPage'.state.token
             \/ stressJob'.step \in {"apply", "measure"} /\ stressPage'.state.token = stressJob'.profile
  <2> DEFINE k == stressPage'.state.token
  <2>1. \E from \in {0, 1} : /\ Promised(k, from)
                             /\ from = 0 => ~(stressScripts[1].op = "restore" /\ stressScripts[1].token = k)
    BY <1>4 DEF StressInv, RestoreIsOwed
  <2>2. PICK from \in {0, 1} : /\ Promised(k, from)
                               /\ from = 0 => ~(stressScripts[1].op = "restore" /\ stressScripts[1].token = k)
    BY <2>1
  <2>3. from \in 0..Len(stressScripts)
    BY <1>1
  <2> HIDE DEF k
  <2>4. \/ \E j \in 1..Len(stressScripts') :
             j > from - 1 /\ stressScripts'[j].op = "restore" /\ stressScripts'[j].token = k
        \/ stressJob'.step \in {"apply", "measure"} /\ k = stressJob'.profile
    BY <1>3, <2>2, <2>3
  <2> QED
    BY <2>4 DEF k
<1>5. ASSUME NEW i \in 1..Len(stressScripts'), stressScripts'[i].op = "begin"
      PROVE  \/ \E j \in 1..Len(stressScripts') :
                  j > i /\ stressScripts'[j].op = "restore" /\ stressScripts'[j].token = stressScripts'[i].token
             \/ stressJob'.step \in {"apply", "measure"} /\ stressScripts'[i].token = stressJob'.profile
  <2>1. /\ i + 1 \in 1..Len(stressScripts) /\ stressScripts'[i] = stressScripts[i + 1]
        /\ i + 1 \in 0..Len(stressScripts) /\ i + 1 # 0 /\ (i + 1) - 1 = i
    BY <1>2
  <2>2. Promised(stressScripts[i + 1].token, i + 1)
    BY <1>5, <2>1 DEF StressInv, RestoreIsOwed
  <2> DEFINE k == stressScripts[i + 1].token
             from == i + 1
  <2>3. Promised(k, from) /\ from \in 0..Len(stressScripts) /\ from # 0 /\ from - 1 = i
    BY <2>1, <2>2
  <2> HIDE DEF k, from
  <2>4. \/ \E j \in 1..Len(stressScripts') :
             j > from - 1 /\ stressScripts'[j].op = "restore" /\ stressScripts'[j].token = k
        \/ stressJob'.step \in {"apply", "measure"} /\ k = stressJob'.profile
    BY <1>3, <2>3
  <2> QED
    BY <2>1, <2>3, <2>4 DEF k
<1>6. RestoreIsOwed'
  BY <1>4, <1>5 DEF RestoreIsOwed, Promised
<1>7. ScriptsAreFew'
  BY <1>1, <1>2, StressAssumption DEF StressInv, ScriptsAreFew, SentBy, StressAssumption
<1> QED
  BY <1>2, <1>6, <1>7

\* Stressing the texts that are there and not yet stressed.
LEMMA BegunStressKeeps ==
  ASSUME StressInv, NEW script \in StressScriptSet, stressPage' = beginContentStress(stressPage, script),
         stressPage' # stressPage
  PROVE  /\ StressPageTyped' /\ StressIsRemembered' /\ AppTextsSurvive'
         /\ stressPage'.state.token = script.token
<1> DEFINE eligible == {t \in stressPage.present : ~stressPage.texts[t].stressed}
           entries == [t \in eligible |-> stressPage.texts[t]]
           texts == [t \in StressTexts |-> IF t \in eligible THEN Stressed(stressPage.texts[t]) ELSE stressPage.texts[t]]
           begun == [stressPage EXCEPT !.state = [token |-> script.token, entries |-> entries], !.texts = texts]
<1>1. stressPage.state = NoStress /\ stressPage' = StressReport(begun, script.token, "applied")
  BY DEF beginContentStress
<1>2. /\ stressPage'.present = stressPage.present /\ stressPage'.last = stressPage.last
      /\ stressPage'.route = stressPage.route /\ DOMAIN stressPage' = DOMAIN stressPage
      /\ stressPage'.texts = texts
      /\ stressPage'.state = [token |-> script.token, entries |-> entries]
  <2> HIDE DEF texts, entries
  <2> QED
    BY <1>1 DEF StressReport, StressInv, StressPageTyped
<1>3. DOMAIN stressPage.state.entries = {}
  BY <1>1 DEF NoStress
<1>4. \A t \in stressPage.present : ~stressPage.texts[t].stressed
  BY <1>3 DEF StressInv, StressIsRemembered
<1>5. eligible = stressPage.present /\ eligible \subseteq StressTexts
  BY <1>4 DEF StressInv, StressPageTyped
<1>6. ASSUME NEW t \in StressTexts
      PROVE  /\ stressPage.texts[t] \in StressTextValues
             /\ stressPage'.texts[t] \in StressTextValues
             /\ stressPage'.texts[t] = IF t \in eligible THEN Stressed(stressPage.texts[t]) ELSE stressPage.texts[t]
  BY <1>2, TextsAreValues DEF StressInv, StressPageTyped
<1>7. /\ stressPage'.state.token = script.token /\ DOMAIN stressPage'.state.entries = stressPage.present
      /\ \A t \in stressPage.present : stressPage'.state.entries[t] = stressPage.texts[t]
  BY <1>2, <1>5
<1>8. script.token \in 1..StressProfiles /\ script.token # 0
  BY StressAssumption DEF StressScriptSet, StressAssumption
<1>9. StressPageTyped'
  BY <1>2, <1>6, <1>7, <1>8, StressAssumption DEF StressInv, StressPageTyped, StressAssumption
<1>10. StressIsRemembered'
  BY <1>2, <1>4, <1>5, <1>6, <1>7, <1>8 DEF StressInv, StressPageTyped, StressIsRemembered
<1>11. AppTextsSurvive'
  <2> SUFFICES ASSUME NEW t \in StressTexts
               PROVE  stressPage'.texts[t] \in {Own(stressPage'.last[t]), Stressed(Own(stressPage'.last[t]))}
    BY DEF AppTextsSurvive
  <2>1. CASE t \in eligible
    <3>1. stressPage.texts[t] = Own(stressPage.last[t]) \/ stressPage.texts[t] = Stressed(Own(stressPage.last[t]))
      BY DEF StressInv, AppTextsSurvive
    <3>2. Stressed(Own(stressPage.last[t])).stressed
      BY TextsAreValues DEF StressInv, StressPageTyped
    <3>3. stressPage.texts[t] = Own(stressPage.last[t])
      BY <2>1, <3>1, <3>2
    <3> QED
      BY <1>2, <1>6, <2>1, <3>3
  <2>2. CASE t \notin eligible
    BY <1>2, <1>6, <2>2 DEF StressInv, AppTextsSurvive
  <2> QED
    BY <2>1, <2>2
<1> QED
  BY <1>7, <1>9, <1>10, <1>11

\* Giving the texts back, those that are still what the runtime made of them.
LEMMA RestoredStressKeeps ==
  ASSUME StressInv, NEW script \in StressScriptSet, stressPage' = restoreContentStress(stressPage, script),
         stressPage' # stressPage
  PROVE  /\ StressPageTyped' /\ StressIsRemembered' /\ AppTextsSurvive'
         /\ stressPage'.state.token = 0
<1> DEFINE texts == Restored(stressPage)
           free == [stressPage EXCEPT !.texts = texts, !.state = NoStress]
<1>1. \E outcome : stressPage' = StressReport(free, script.token, outcome)
  BY DEF restoreContentStress
<1>2. /\ stressPage'.present = stressPage.present /\ stressPage'.last = stressPage.last
      /\ stressPage'.route = stressPage.route /\ DOMAIN stressPage' = DOMAIN stressPage
      /\ stressPage'.texts = texts /\ stressPage'.state = NoStress
  <2> HIDE DEF texts
  <2> QED
    BY <1>1 DEF StressReport, StressInv, StressPageTyped
<1>3. stressPage'.state.token = 0
  BY <1>2 DEF NoStress
<1>4. ASSUME NEW t \in StressTexts
      PROVE  /\ stressPage.texts[t] \in StressTextValues
             /\ stressPage'.texts[t] =
                  IF /\ t \in DOMAIN stressPage.state.entries \cap stressPage.present
                     /\ stressPage.texts[t] = Stressed(stressPage.state.entries[t])
                    THEN stressPage.state.entries[t] ELSE stressPage.texts[t]
             /\ stressPage'.texts[t] \in StressTextValues
  <2>1. /\ stressPage.texts[t] \in StressTextValues
        /\ stressPage'.texts[t] =
                  IF /\ t \in DOMAIN stressPage.state.entries \cap stressPage.present
                     /\ stressPage.texts[t] = Stressed(stressPage.state.entries[t])
                    THEN stressPage.state.entries[t] ELSE stressPage.texts[t]
    BY <1>2 DEF Restored, StressInv, StressPageTyped
  <2>2. t \in DOMAIN stressPage.state.entries => stressPage.state.entries[t] \in StressTextValues
    BY DEF StressInv, StressIsRemembered
  <2> QED
    BY <2>1, <2>2
<1>5. DOMAIN texts = StressTexts
  BY DEF Restored
<1>6. texts = [t \in StressTexts |-> texts[t]]
  BY DEF Restored
<1>7. texts \in [StressTexts -> StressTextValues]
  <2> HIDE DEF texts
  <2> QED
    BY <1>2, <1>4, <1>6
<1>8. StressPageTyped'
  <2> HIDE DEF texts
  <2> QED
    BY <1>2, <1>3, <1>7, StressAssumption DEF StressInv, StressPageTyped, StressAssumption
<1>9. StressIsRemembered'
  <2>1. ASSUME NEW t \in stressPage.present PROVE ~stressPage'.texts[t].stressed
    <3>1. t \in StressTexts
      BY DEF StressInv, StressPageTyped
    <3>2. CASE stressPage.texts[t].stressed
      <4>1. t \in DOMAIN stressPage.state.entries /\ stressPage.texts[t] = Stressed(stressPage.state.entries[t])
        BY <3>2 DEF StressInv, StressIsRemembered
      <4> QED
        BY <1>4, <3>1, <4>1 DEF StressInv, StressIsRemembered
    <3>3. CASE ~stressPage.texts[t].stressed
      BY <1>4, <3>1, <3>3 DEF StressInv, StressIsRemembered
    <3> QED
      BY <3>2, <3>3
  <2>2. DOMAIN NoStress.entries = {}
    BY DEF NoStress
  <2> QED
    BY <1>2, <2>1, <2>2 DEF StressIsRemembered
<1>10. AppTextsSurvive'
  <2> SUFFICES ASSUME NEW t \in StressTexts
               PROVE  stressPage'.texts[t] \in {Own(stressPage'.last[t]), Stressed(Own(stressPage'.last[t]))}
    BY DEF AppTextsSurvive
  <2>1. CASE /\ t \in DOMAIN stressPage.state.entries \cap stressPage.present
             /\ stressPage.texts[t] = Stressed(stressPage.state.entries[t])
    <3> DEFINE entry == stressPage.state.entries[t]
               own == Own(stressPage.last[t])
    <3>1. entry \in StressTextValues /\ ~entry.stressed
      BY <2>1 DEF StressInv, StressIsRemembered
    <3>2. own \in StressTextValues /\ ~own.stressed /\ own = Own(own.version)
      BY TextsAreValues DEF StressInv, StressPageTyped
    <3>3. stressPage.texts[t] = own \/ stressPage.texts[t] = Stressed(own)
      BY DEF StressInv, AppTextsSurvive
    <3>4. stressPage'.texts[t] = entry
      BY <1>4, <2>1
    <3> HIDE DEF entry, own
    <3>5. Stressed(entry).stressed /\ Stressed(entry).version = entry.version
      BY <3>1, TextsAreValues
    <3>6. Stressed(own).version = own.version
      BY <3>2, TextsAreValues
    <3>7. Stressed(entry) = Stressed(own)
      BY <2>1, <3>2, <3>3, <3>5 DEF entry
    <3>8. entry = Own(entry.version) /\ entry.version = own.version
      BY <3>1, <3>5, <3>6, <3>7, TextsAreValues DEF StressTextValues
    <3>9. entry = own
      BY <3>2, <3>8
    <3> QED
      BY <1>2, <3>4, <3>9 DEF own
  <2>2. CASE ~(/\ t \in DOMAIN stressPage.state.entries \cap stressPage.present
               /\ stressPage.texts[t] = Stressed(stressPage.state.entries[t]))
    <3>1. stressPage'.texts[t] = stressPage.texts[t]
      BY <1>4, <2>2
    <3> QED
      BY <1>2, <3>1 DEF StressInv, AppTextsSurvive
  <2> QED
    BY <2>1, <2>2
<1> QED
  BY <1>3, <1>8, <1>9, <1>10

\* The page runs the script at the head of the queue.
LEMMA StressScriptKeeps ==
  ASSUME StressInv, stress_script_runs
  PROVE  StressInv'
<1> DEFINE script == Head(stressScripts)
<1>1. /\ Len(stressScripts) \in Nat \ {0} /\ stressScripts' = Tail(stressScripts)
      /\ script = stressScripts[1] /\ script \in StressScriptSet
      /\ stressJob' = stressJob /\ stressEntry' = stressEntry
      /\ \/ script.op = "begin" /\ stressPage' = beginContentStress(stressPage, script)
         \/ script.op = "restore" /\ stressPage' = restoreContentStress(stressPage, script)
  BY StressScriptTypes
<1> HIDE DEF script
<1>2. /\ StressPageTyped' /\ StressIsRemembered' /\ AppTextsSurvive'
      /\ stressPage'.state.token # 0 =>
           \/ stressPage'.state.token = stressPage.state.token
              /\ (script.op = "restore" => script.token # stressPage.state.token)
           \/ script.op = "begin" /\ script.token = stressPage'.state.token
  <2>1. CASE script.op = "begin" /\ stressPage' # stressPage
    BY <1>1, <2>1, BegunStressKeeps
  <2>2. CASE script.op = "restore" /\ stressPage' # stressPage
    BY <1>1, <2>2, RestoredStressKeeps
  <2>3. CASE stressPage' = stressPage
    <3>1. StressPageTyped' /\ StressIsRemembered' /\ AppTextsSurvive'
      BY <2>3 DEF StressInv, StressPageTyped, StressIsRemembered, AppTextsSurvive
    <3>2. ASSUME script.op = "restore", stressPage.state.token # 0
          PROVE  script.token # stressPage.state.token
      <4>1. stressPage = restoreContentStress(stressPage, script)
        BY <1>1, <2>3, <3>2
      <4>2. SUFFICES ASSUME script.token = stressPage.state.token PROVE FALSE
        OBVIOUS
      <4>3. stressPage.state # NoStress
        BY <3>2 DEF NoStress
      <4>4. stressPage' # stressPage \/ stressPage'.state.token = 0
        <5>1. \E outcome : stressPage' =
                StressReport([stressPage EXCEPT !.texts = Restored(stressPage), !.state = NoStress], script.token, outcome)
          BY <1>1, <3>2, <4>2, <4>3 DEF restoreContentStress
        <5>2. stressPage'.state = NoStress
          BY <5>1 DEF StressReport, StressInv, StressPageTyped
        <5> QED
          BY <5>2 DEF NoStress
      <4> QED
        BY <2>3, <3>2, <4>4
    <3> QED
      BY <1>1, <2>3, <3>1, <3>2
  <2> QED
    BY <1>1, <2>1, <2>2, <2>3
<1>3. RestoreIsOwed' /\ ScriptsAreFew' /\ stressScripts' \in Seq(StressScriptSet)
  BY <1>1, <1>2, TailKeepsTheDebt
<1>4. StressCommandTyped' /\ EntryIsTheProfiles'
  BY <1>1, <1>3 DEF StressInv, StressCommandTyped, EntryIsTheProfiles
<1> QED
  BY <1>2, <1>3, <1>4 DEF StressInv

\* A step of the command that sends one script: what a stress in force, or queued,
\* was owed by the command is in the queue, or still with the command.
LEMMA SentScriptKeepsTheDebt ==
  ASSUME StressInv, NEW script \in StressScriptSet, stressScripts' = Append(stressScripts, script),
         stressPage' = stressPage,
         stressJob.step \in {"apply", "measure"} =>
           script.op = "restore" /\ script.token = stressJob.profile,
         script.op = "begin" => stressJob'.step \in {"apply", "measure"} /\ script.token = stressJob'.profile
  PROVE  /\ RestoreIsOwed' /\ stressScripts' \in Seq(StressScriptSet)
         /\ Len(stressScripts') = Len(stressScripts) + 1
<1>1. stressScripts \in Seq(StressScriptSet)
  BY DEF StressInv, StressCommandTyped
<1>2. /\ stressScripts' \in Seq(StressScriptSet) /\ Len(stressScripts') = Len(stressScripts) + 1
      /\ \A i \in 1..Len(stressScripts) : stressScripts'[i] = stressScripts[i]
      /\ stressScripts'[Len(stressScripts) + 1] = script
      /\ Len(stressScripts) \in Nat
  BY <1>1, AppendProperties
<1>3. ASSUME NEW k, NEW from \in 0..Len(stressScripts), Promised(k, from)
      PROVE  \E j \in 1..Len(stressScripts') :
               j > from /\ stressScripts'[j].op = "restore" /\ stressScripts'[j].token = k
  <2>1. CASE stressJob.step \in {"apply", "measure"} /\ k = stressJob.profile
    <3>1. Len(stressScripts) + 1 \in 1..Len(stressScripts') /\ Len(stressScripts) + 1 > from
      BY <1>2
    <3> QED
      BY <1>2, <2>1, <3>1
  <2>2. ASSUME NEW j \in 1..Len(stressScripts), j > from, stressScripts[j].op = "restore",
               stressScripts[j].token = k
        PROVE  \E i \in 1..Len(stressScripts') :
                 i > from /\ stressScripts'[i].op = "restore" /\ stressScripts'[i].token = k
    <3>1. j \in 1..Len(stressScripts') /\ stressScripts'[j] = stressScripts[j]
      BY <1>2
    <3> QED
      BY <2>2, <3>1
  <2> QED
    BY <1>3, <2>1, <2>2 DEF Promised
<1>4. ASSUME stressPage'.state.token # 0
      PROVE  \E j \in 1..Len(stressScripts') :
               j > 0 /\ stressScripts'[j].op = "restore" /\ stressScripts'[j].token = stressPage'.state.token
  <2> DEFINE k == stressPage.state.token
  <2>1. Promised(k, 0) /\ 0 \in 0..Len(stressScripts)
    BY <1>2, <1>4 DEF StressInv, RestoreIsOwed
  <2> HIDE DEF k
  <2>2. \E j \in 1..Len(stressScripts') :
               j > 0 /\ stressScripts'[j].op = "restore" /\ stressScripts'[j].token = k
    BY <1>3, <2>1
  <2> QED
    BY <2>2 DEF k
<1>5. ASSUME NEW i \in 1..Len(stressScripts'), stressScripts'[i].op = "begin"
      PROVE  \/ \E j \in 1..Len(stressScripts') :
                  j > i /\ stressScripts'[j].op = "restore" /\ stressScripts'[j].token = stressScripts'[i].token
             \/ stressJob'.step \in {"apply", "measure"} /\ stressScripts'[i].token = stressJob'.profile
  <2>1. CASE i = Len(stressScripts) + 1
    BY <1>2, <1>5, <2>1
  <2>2. CASE i # Len(stressScripts) + 1
    <3>1. i \in 1..Len(stressScripts) /\ stressScripts'[i] = stressScripts[i] /\ i \in 0..Len(stressScripts)
      BY <1>2, <2>2
    <3> DEFINE k == stressScripts[i].token
    <3>2. Promised(k, i)
      BY <1>5, <3>1 DEF StressInv, RestoreIsOwed
    <3> HIDE DEF k
    <3>3. \E j \in 1..Len(stressScripts') :
               j > i /\ stressScripts'[j].op = "restore" /\ stressScripts'[j].token = k
      BY <1>3, <3>1, <3>2
    <3> QED
      BY <3>1, <3>3 DEF k
  <2> QED
    BY <2>1, <2>2
<1> QED
  BY <1>2, <1>4, <1>5 DEF RestoreIsOwed, Promised

\* A step of the command that sends no script, or that still owes the restore.
LEMMA SilentStepKeepsTheDebt ==
  ASSUME StressInv, stressScripts' = stressScripts, stressPage' = stressPage,
         stressJob.step \in {"apply", "measure"} =>
           stressJob'.step \in {"apply", "measure"} /\ stressJob'.profile = stressJob.profile
  PROVE  RestoreIsOwed'
BY DEF StressInv, RestoreIsOwed, Promised

\* The page is as it was.
LEMMA SamePageKeeps ==
  ASSUME StressInv, stressPage' = stressPage
  PROVE  StressPageTyped' /\ StressIsRemembered' /\ AppTextsSurvive'
BY DEF StressInv, StressPageTyped, StressIsRemembered, AppTextsSurvive

\* start_profile: the entry and the begin script of a profile that follows the last.
LEMMA StartedProfileKeeps ==
  ASSUME StressInv, NEW profile \in 1..StressProfiles,
         stressJob.step \in {"idle", "check"}, profile = stressJob.profile + 1,
         stressJob'.step = "apply", stressJob'.profile = profile, DOMAIN stressJob' = DOMAIN stressJob,
         start_profile(profile, stressPage.route), stressPage' = stressPage
  PROVE  StressInv'
<1> DEFINE script == [op |-> "begin", token |-> profile, route |-> stressPage.route]
<1>1. stressPage.route \in StressRoutes
  BY DEF StressInv, StressPageTyped
<1>2. /\ stressJob'.step = "apply" /\ stressJob'.profile = profile
      /\ DOMAIN stressJob' = {"step", "profile", "baseline", "renders"}
  BY DEF StressInv, StressCommandTyped
<1>3. /\ stressEntry'.token = profile /\ stressEntry'.route = stressPage.route
      /\ DOMAIN stressEntry' = {"token", "phase", "route", "generation"}
      /\ stressScripts' = Append(stressScripts, [op |-> "begin", token |-> stressEntry'.token, route |-> stressEntry'.route])
  BY DEF start_profile, SendScript, NoStressEntry
<1>4. script \in StressScriptSet /\ script.op = "begin" /\ script.token = profile
  BY <1>1 DEF StressScriptSet
<1>5. stressScripts' = Append(stressScripts, script)
  BY <1>3
<1> HIDE DEF script
<1>6. /\ RestoreIsOwed' /\ stressScripts' \in Seq(StressScriptSet)
      /\ Len(stressScripts') = Len(stressScripts) + 1
  BY <1>2, <1>4, <1>5, SentScriptKeepsTheDebt
<1>7. StressCommandTyped'
  BY <1>1, <1>2, <1>3, <1>6, StressAssumption
  DEF StressCommandTyped, StressWaits, StressAssumption
<1>8. EntryIsTheProfiles' /\ ScriptsAreFew'
  BY <1>2, <1>3, <1>6 DEF EntryIsTheProfiles, ScriptsAreFew, StressInv, StressCommandTyped, SentBy
<1> QED
  BY <1>6, <1>7, <1>8, SamePageKeeps DEF StressInv

\* A restore is sent: a measured profile's, or a rescue's.
LEMMA SentRestoreKeeps ==
  ASSUME StressInv, NEW step \in {"restore", "rescue"},
         stressJob.step \in {"apply", "measure"} \/ (stressJob.step = "restore" /\ step = "rescue"),
         To(step), NEW phase, stressEntry' = [stressEntry EXCEPT !.phase = phase],
         SendScript("restore"), stressPage' = stressPage
  PROVE  StressInv'
<1> DEFINE script == [op |-> "restore", token |-> stressJob.profile, route |-> stressEntry.route]
<1>1. /\ stressEntry.token = stressJob.profile /\ stressJob.profile \in 1..StressProfiles
      /\ stressEntry.route \in StressRoutes
  BY StressAssumption DEF StressInv, EntryIsTheProfiles, StressWaits, StressCommandTyped, StressAssumption
<1>2. /\ stressJob'.step = step /\ stressJob'.profile = stressJob.profile
      /\ DOMAIN stressJob' = {"step", "profile", "baseline", "renders"}
  BY DEF To, StressInv, StressCommandTyped
<1>3. /\ stressEntry'.token = stressJob.profile /\ stressEntry'.route = stressEntry.route
      /\ DOMAIN stressEntry' = {"token", "phase", "route", "generation"}
  BY <1>1 DEF StressInv, StressCommandTyped
<1>4. stressScripts' = Append(stressScripts, script)
  BY <1>3 DEF SendScript
<1>5. script \in StressScriptSet /\ script.op = "restore" /\ script.token = stressJob.profile
  BY <1>1 DEF StressScriptSet
<1> HIDE DEF script
<1>6. /\ RestoreIsOwed' /\ stressScripts' \in Seq(StressScriptSet)
      /\ Len(stressScripts') = Len(stressScripts) + 1
  BY <1>4, <1>5, SentScriptKeepsTheDebt
<1>7. StressCommandTyped'
  BY <1>1, <1>2, <1>3, <1>6 DEF StressCommandTyped, StressWaits
<1>8. EntryIsTheProfiles' /\ ScriptsAreFew'
  BY <1>1, <1>2, <1>3, <1>6 DEF EntryIsTheProfiles, ScriptsAreFew, StressInv, StressCommandTyped, SentBy
<1> QED
  BY <1>6, <1>7, <1>8, SamePageKeeps DEF StressInv

\* The command goes on, or ends, and sends nothing.
LEMMA SilentStepKeeps ==
  ASSUME StressInv, NEW step \in Over \cup {"measure", "check"}, step # "idle",
         stressJob.step \in StressWaits \cup {"check"},
         step = "measure" => stressJob.step = "apply" /\ stressEntry' = stressEntry,
         stressJob.step = "apply" => step = "measure",
         To(step), stressEntry' \in {stressEntry, NoStressEntry}, stressScripts' = stressScripts,
         stressPage' = stressPage
  PROVE  StressInv'
<1>1. /\ stressJob'.step = step /\ stressJob'.profile = stressJob.profile
      /\ DOMAIN stressJob' = {"step", "profile", "baseline", "renders"}
  BY DEF To, StressInv, StressCommandTyped
<1>2. /\ NoStressEntry.token \in 0..StressProfiles /\ NoStressEntry.route \in StressRoutes
      /\ DOMAIN NoStressEntry = {"token", "phase", "route", "generation"}
  BY StressAssumption DEF NoStressEntry, StressRoutes, StressAssumption
<1>3. StressCommandTyped'
  BY <1>1, <1>2 DEF StressInv, StressCommandTyped
<1>4. EntryIsTheProfiles'
  BY <1>1 DEF StressInv, EntryIsTheProfiles, StressWaits, Over
<1>5. ScriptsAreFew'
  BY <1>1 DEF StressInv, ScriptsAreFew, StressCommandTyped, SentBy, StressWaits, Over
<1>6. RestoreIsOwed'
  BY <1>1, SilentStepKeepsTheDebt DEF StressWaits, Over
<1> QED
  BY <1>3, <1>4, <1>5, <1>6, SamePageKeeps DEF StressInv

\* One lemma for the steps of the command.
LEMMA StressCommandKeeps ==
  ASSUME StressInv,
         capture_content_locale_stress \/ applied \/ measured \/ restored \/ rescued \/ validated
  PROVE  StressInv'
<1>1. CASE capture_content_locale_stress
  <2>1. /\ stressJob.step = "idle" /\ stressJob.profile = 0 /\ 1 = stressJob.profile + 1
        /\ 1 \in 1..StressProfiles
    BY <1>1, StressAssumption DEF capture_content_locale_stress, StressInv, ScriptsAreFew, StressAssumption
  <2> DEFINE profile == 1
  <2>2. /\ profile \in 1..StressProfiles /\ profile = stressJob.profile + 1 /\ stressPage' = stressPage
        /\ start_profile(profile, stressPage.route)
        /\ stressJob' = [stressJob EXCEPT !.step = "apply", !.profile = profile, !.baseline = Visible(stressPage)]
    BY <1>1, <2>1 DEF capture_content_locale_stress
  <2> HIDE DEF profile
  <2>3. stressJob'.step = "apply" /\ stressJob'.profile = profile /\ DOMAIN stressJob' = DOMAIN stressJob
    BY <2>2 DEF StressInv, StressCommandTyped
  <2> QED
    BY <2>1, <2>2, <2>3, StartedProfileKeeps
<1>2. CASE applied
  <2>1. stressJob.step = "apply" /\ stressPage' = stressPage
    BY <1>2 DEF applied
  <2>2. CASE Reached("Applied")
    BY <1>2, <2>1, <2>2, SilentStepKeeps DEF applied, StressWaits
  <2>3. CASE ~Reached("Applied")
    <3>1. best_effort_restore
      BY <1>2, <2>3 DEF applied
    <3>2. \E phase : stressEntry' = [stressEntry EXCEPT !.phase = phase]
      BY <3>1 DEF best_effort_restore
    <3> QED
      BY <2>1, <3>1, <3>2, SentRestoreKeeps DEF best_effort_restore
  <2> QED
    BY <2>2, <2>3
<1>3. CASE measured
  <2>1. stressJob.step = "measure" /\ stressPage' = stressPage
    BY <1>3 DEF measured
  <2>2. \E step \in {"restore", "rescue"} : \E phase :
          To(step) /\ SendScript("restore") /\ stressEntry' = [stressEntry EXCEPT !.phase = phase]
    BY <1>3 DEF measured, best_effort_restore
  <2> QED
    BY <2>1, <2>2, SentRestoreKeeps
<1>4. CASE restored
  <2>1. stressJob.step = "restore" /\ stressPage' = stressPage
    BY <1>4 DEF restored
  <2>2. CASE Reached("Restored")
    BY <1>4, <2>1, <2>2, SilentStepKeeps DEF restored, Cleared, StressWaits
  <2>3. CASE ~Reached("Restored")
    <3>1. best_effort_restore
      BY <1>4, <2>3 DEF restored
    <3>2. \E phase : stressEntry' = [stressEntry EXCEPT !.phase = phase]
      BY <3>1 DEF best_effort_restore
    <3> QED
      BY <2>1, <3>1, <3>2, SentRestoreKeeps DEF best_effort_restore
  <2> QED
    BY <2>2, <2>3
<1>5. CASE rescued
  BY <1>5, SilentStepKeeps DEF rescued, Cleared, StressWaits, Over
<1>6. CASE validated
  <2>1. stressJob.step = "check" /\ stressPage' = stressPage
    BY <1>6 DEF validated
  <2>2. CASE /\ stressJob.profile < StressProfiles
             /\ stressJob' = [stressJob EXCEPT !.step = "apply", !.profile = @ + 1]
             /\ start_profile(stressJob.profile + 1, stressPage.route)
    <3> DEFINE profile == stressJob.profile + 1
    <3>1. /\ profile \in 1..StressProfiles /\ profile = stressJob.profile + 1
          /\ start_profile(profile, stressPage.route)
          /\ stressJob'.step = "apply" /\ stressJob'.profile = profile
          /\ DOMAIN stressJob' = DOMAIN stressJob
      BY <2>2, StressAssumption DEF StressInv, StressCommandTyped, StressAssumption
    <3> HIDE DEF profile
    <3> QED
      BY <2>1, <3>1, StartedProfileKeeps
  <2>3. CASE /\ To("receipt") \/ To("error")
             /\ UNCHANGED <<stressEntry, stressScripts>>
    BY <2>1, <2>3, SilentStepKeeps DEF Over
  <2> QED
    BY <1>6, <2>2, <2>3 DEF validated
<1> QED
  BY <1>1, <1>2, <1>3, <1>4, <1>5, <1>6

\* The inductive invariant of the content stress.
LEMMA StressInvariant == StressSpec => []StressInv
<1>1. StressInit => StressInv
  <2> SUFFICES ASSUME StressInit PROVE StressInv
    OBVIOUS
  <2> DEFINE own == Own(0)
  <2>1. /\ stressPage.present = StressTexts /\ stressPage.state = NoStress /\ stressPage.route = "r1"
        /\ DOMAIN stressPage = {"generation", "route", "texts", "last", "present", "state", "reports"}
        /\ stressPage.texts = [t \in StressTexts |-> own] /\ stressPage.last = [t \in StressTexts |-> 0]
    BY DEF StressInit, StressDocument
  <2>2. /\ stressJob.step = "idle" /\ stressJob.profile = 0
        /\ DOMAIN stressJob = {"step", "profile", "baseline", "renders"}
        /\ stressEntry.token = 0 /\ stressEntry.route = "r1"
        /\ DOMAIN stressEntry = {"token", "phase", "route", "generation"}
        /\ stressScripts = <<>>
    BY DEF StressInit, NoStressEntry
  <2>3. NoStress.token = 0 /\ DOMAIN NoStress.entries = {}
    BY DEF NoStress
  <2>4. own \in StressTextValues /\ ~own.stressed
    BY DEF Own, StressTextValues
  <2>5. AppTextsSurvive
    BY <2>1 DEF AppTextsSurvive
  <2> HIDE DEF own
  <2>6. StressPageTyped /\ StressIsRemembered
    BY <2>1, <2>3, <2>4, StressAssumption
    DEF StressPageTyped, StressIsRemembered, StressRoutes, StressAssumption
  <2>7. stressScripts \in Seq(StressScriptSet) /\ Len(stressScripts) = 0
    BY <2>2
  <2>8. StressCommandTyped
    BY <2>2, <2>7, StressAssumption DEF StressCommandTyped, StressRoutes, Over, StressAssumption
  <2>9. RestoreIsOwed /\ EntryIsTheProfiles /\ ScriptsAreFew
    BY <2>1, <2>2, <2>3, <2>7
    DEF RestoreIsOwed, EntryIsTheProfiles, ScriptsAreFew, SentBy, StressWaits
  <2> QED
    BY <2>5, <2>6, <2>8, <2>9 DEF StressInv
<1>2. StressInv /\ [StressNext]_stressVars => StressInv'
  <2> SUFFICES ASSUME StressInv, [StressNext]_stressVars PROVE StressInv'
    OBVIOUS
  <2>1. CASE UNCHANGED stressVars
    BY <2>1 DEF stressVars, StressInv, StressPageTyped, StressCommandTyped, StressIsRemembered,
                RestoreIsOwed, Promised, EntryIsTheProfiles, ScriptsAreFew, SentBy, AppTextsSurvive
  <2>2. CASE stress_script_runs
    BY <2>2, StressScriptKeeps
  <2> QED
    BY <2>1, <2>2, RenderedTextKeeps, RemovedTextKeeps, ReloadedDocumentKeeps, StressReportKeeps,
       StressCommandKeeps DEF StressNext
<1> QED
  BY <1>1, <1>2, PTL DEF StressSpec

\* For every set of texts and every number of profiles, renders and documents: a
\* stress costs the application no text, and once the command is over and the page
\* has run what it was sent, no text is left stressed (content_stress.rs and the
\* content stress functions of instrumentation).
THEOREM StressStaysUndone == StressSpec => [](StressIsUndone /\ StressTypeOK)
<1>1. StressInv => PageTextsGivenBack
  <2> SUFFICES ASSUME StressInv, stressJob.step \in Over, stressScripts = <<>>
               PROVE  /\ stressPage.state = NoStress
                      /\ \A t \in stressPage.present : ~stressPage.texts[t].stressed
    BY DEF PageTextsGivenBack
  <2>1. Len(stressScripts) = 0
    OBVIOUS
  <2>2. stressPage.state.token = 0
    BY <2>1 DEF StressInv, RestoreIsOwed, Promised, Over
  <2>3. stressPage.state = NoStress
    BY <2>2 DEF StressInv, StressIsRemembered
  <2>4. DOMAIN stressPage.state.entries = {}
    BY <2>3 DEF NoStress
  <2> QED
    BY <2>3, <2>4 DEF StressInv, StressIsRemembered
<1>2. StressInv => StressTypeOK
  <2> SUFFICES ASSUME StressInv PROVE StressTypeOK
    OBVIOUS
  <2>1. Len(stressScripts) \in Nat /\ SentBy(stressJob.step, stressJob.profile) <= 3 * StressProfiles
    BY StressAssumption DEF StressInv, StressCommandTyped, SentBy, StressAssumption
  <2>2. SentBy(stressJob.step, stressJob.profile) \in Int
    BY DEF StressInv, StressCommandTyped, SentBy
  <2>3. Len(stressScripts) <= 3 * StressProfiles
    BY <2>1, <2>2, StressAssumption DEF StressInv, ScriptsAreFew, StressAssumption
  <2> QED
    BY <2>3 DEF StressInv, StressPageTyped, StressCommandTyped, StressTypeOK
<1>3. StressInv => AppTextsSurvive
  BY DEF StressInv
<1> QED
  BY <1>1, <1>2, <1>3, StressInvariant, PTL DEF StressIsUndone

-----------------------------------------------------------------------------
(* Point selection: for every set of elements, and every number of requests,  *)
(* documents, waiting scripts and kept reports.                               *)

PointPageFields == {"generation", "route", "pick", "reports"}
PickFields == {"token", "hovered", "down", "failure", "pressed"}
References == {PageReferences[g][e] : g \in 1..MaxPointDocuments, e \in PointElements}
PointReport == [token : Nat, route : PointRoutes, status : {"armed", "selected", "cancelled", "failed"},
                reference : References \cup {Nothing}]
PointScript == [op : {"begin", "probe", "cancel"}, token : Nat, route : PointRoutes]
PointCall == [op : {"begin", "cancel"}, token : Nat, route : {Nothing}]
               \cup [op : {"arm"}, token : Nat, route : PointRoutes]

PageTyped ==
  /\ DOMAIN pointPage = PointPageFields /\ DOMAIN pointPage.pick = PickFields
  /\ pointPage.route \in PointRoutes /\ pointPage.generation \in 1..MaxPointDocuments
  /\ pointPage.pick.token \in 0..pointPanel.token /\ pointPage.pick.hovered \in PointElements \cup {Nothing}
  /\ pointPage.pick.down \in PointElements \cup {Nothing}
  /\ pointPage.reports \in Seq(PointReport) /\ Len(pointPage.reports) <= PointReports

ScriptsTyped ==
  /\ pointScripts \in Seq(PointScript) /\ pointCalls \subseteq PointCall
  /\ \A call \in pointCalls : call.token \in 1..pointPanel.token
  /\ \A i \in 1..Len(pointScripts) : pointScripts[i].token \in 1..pointPanel.token

PanelTyped ==
  /\ DOMAIN pointPanel = {"phase", "token"} /\ pointPanel.token \in Nat
  /\ pointPanel.phase \in {"idle", "opening", "polling"}
  /\ pointPanel.phase # "idle" => pointPanel.token # 0
  /\ DOMAIN pointEntry = {"token", "state", "route", "reference", "generation"}
  /\ pointEntry.state \in PointPhases \cup {Nothing} /\ pointEntry.token \in 0..pointPanel.token
  /\ pointEntry.route \in PointRoutes
  /\ pointEntry.state = Nothing => pointEntry.token = 0
  /\ DOMAIN pointSeen = {"pointed", "disturbed"}

PointTyped == PageTyped /\ ScriptsTyped /\ PanelTyped

\* What the page says was selected, the person pointed at; what the listeners hold
\* as pressed is what was pressed.
PointedIsKept ==
  /\ SelectedWasPointedAt
  /\ \A i \in 1..Len(pointPage.reports) :
       pointPage.reports[i].status = "selected" =>
         <<pointPage.reports[i].token, pointPage.reports[i].reference, pointPage.generation>> \in pointSeen.pointed
  /\ pointPage.pick.down # Nothing => pointPage.pick.pressed = pointPage.pick.down

\* The begins under way are in order: a command not handled is of a token above
\* the entry's, the one handled last is the entry's, and the scripts and the page
\* are behind it, for the page's route.
BeginsAreInOrder ==
  /\ \A call \in pointCalls : call.op = "begin" => call.token > pointEntry.token
  /\ \A call \in pointCalls : call.op = "arm" =>
       /\ call.token = pointEntry.token /\ call.route = pointPage.route
       /\ \A other \in pointCalls : other.op = "arm" => other = call
       /\ pointPage.pick.token < call.token
       /\ \A i \in 1..Len(pointScripts) : pointScripts[i].op = "begin" => pointScripts[i].token < call.token
  /\ \A i \in 1..Len(pointScripts) : pointScripts[i].op = "begin" =>
       /\ pointScripts[i].token <= pointEntry.token /\ pointScripts[i].route = pointPage.route
       /\ pointPage.pick.token < pointScripts[i].token
  /\ \A i, j \in 1..Len(pointScripts) :
       i < j /\ pointScripts[i].op = "begin" /\ pointScripts[j].op = "begin" =>
         pointScripts[i].token < pointScripts[j].token
  /\ pointPage.pick.token <= pointEntry.token
  /\ pointPanel.phase = "polling" => \A call \in pointCalls : call.op # "cancel" => call.token # pointPanel.token

\* Listeners of an earlier request are ended by the begin of the entry's.
Superseded ==
  \/ \E call \in pointCalls : call.op = "arm"
  \/ \E i \in 1..Len(pointScripts) : pointScripts[i].op = "begin" /\ pointScripts[i].token = pointEntry.token
EarlierIsSuperseded ==
  \/ pointPage.pick.token = 0 /\ \A i \in 1..Len(pointScripts) : pointScripts[i].op # "begin"
  \/ pointPage.pick.token = pointEntry.token
  \/ Superseded

\* A begin somebody will end: the panel, or the cancellation it sent.
Ending(token) ==
  \/ pointPanel.phase # "idle" /\ pointPanel.token = token
  \/ \E call \in pointCalls : call.op = "cancel" /\ call.token = token
CancelAfter(k) == \E i \in 1..Len(pointScripts) :
                    i > k /\ pointScripts[i].op = "cancel" /\ pointScripts[i].token = pointEntry.token
BeginAt(k) == pointScripts[k].op = "begin" /\ pointScripts[k].token = pointEntry.token
BeginsAreEnded ==
  /\ \A call \in pointCalls : call.op # "cancel" => Ending(call.token)
  /\ \A k \in 1..Len(pointScripts) : BeginAt(k) => Ending(pointEntry.token) \/ CancelAfter(k)
  /\ pointPage.pick.token # 0 /\ pointPage.pick.token = pointEntry.token =>
       Ending(pointEntry.token) \/ CancelAfter(0)

\* A request that is over has no listeners, or a cancellation for them.
OverStates == {"Selected", "Cancelled"}
OverIsOver ==
  /\ pointEntry.state \in OverStates =>
       /\ \A call \in pointCalls : call.op # "arm"
       /\ \A k \in 1..Len(pointScripts) : BeginAt(k) => CancelAfter(k)
       /\ pointPage.pick.token # 0 /\ pointPage.pick.token = pointEntry.token => CancelAfter(0)
  /\ \A i \in 1..Len(pointPage.reports) :
       pointPage.reports[i].status \in {"selected", "cancelled"} =>
         LET token == pointPage.reports[i].token
         IN /\ 0 < token /\ token <= pointEntry.token /\ token # pointPage.pick.token
            /\ \A call \in pointCalls : call.op = "arm" => token < call.token
            /\ \A k \in 1..Len(pointScripts) : pointScripts[k].op = "begin" => token < pointScripts[k].token

PointInv ==
  /\ PointTyped /\ PointedIsKept
  /\ ~pointSeen.disturbed => BeginsAreInOrder /\ EarlierIsSuperseded /\ BeginsAreEnded /\ OverIsOver

\* The order facts of a run that was not disturbed.
Undisturbed == BeginsAreInOrder /\ EarlierIsSuperseded /\ BeginsAreEnded /\ OverIsOver

\* Every report of a queue is of the queue before, or the given one.
AddedTo(new, old, told) ==
  \A i \in 1..Len(new) : new[i] = told \/ \E j \in 1..Len(old) : new[i] = old[j]

\* A report that is queued leaves the newest of the queue, within its bound.
LEMMA ReportIs ==
  ASSUME NEW queue \in Seq(PointReport), NEW told \in PointReport
  PROVE  /\ Report(queue, told) \in Seq(PointReport) /\ Len(Report(queue, told)) <= PointReports
         /\ AddedTo(Report(queue, told), queue, told)
<1>1. PICK all : all = Append(queue, told)
  OBVIOUS
<1>2. /\ all \in Seq(PointReport) /\ Len(all) = Len(queue) + 1
      /\ \A i \in 1..Len(all) : all[i] = IF i = Len(queue) + 1 THEN told ELSE queue[i]
  BY <1>1, AppendProperties
<1>3. PointReports \in Nat \ {0} /\ Len(queue) \in Nat
  BY PointAssumption DEF PointAssumption
<1>4. PICK m : m = Len(all) - (IF Len(all) > PointReports THEN PointReports ELSE Len(all)) + 1
  OBVIOUS
<1>5. m \in 1..Len(all) /\ Len(all) - m + 1 <= PointReports /\ Len(all) \in Nat
  <2>1. Len(all) \in Nat \ {0}
    BY <1>2, <1>3
  <2>2. CASE Len(all) > PointReports
    <3>1. m = Len(all) - PointReports + 1
      BY <1>4, <2>2
    <3> QED
      BY <1>3, <2>1, <2>2, <3>1
  <2>3. CASE ~(Len(all) > PointReports)
    <3>1. m = Len(all) - Len(all) + 1
      BY <1>4, <2>3
    <3> QED
      BY <1>3, <2>1, <2>3, <3>1
  <2> QED
    BY <2>2, <2>3
<1>6. Report(queue, told) = SubSeq(all, m, Len(all))
  BY <1>1, <1>4 DEF Report
<1>7. PICK left : left = SubSeq(all, m, Len(all))
  OBVIOUS
<1>8. /\ left \in Seq(PointReport) /\ Len(left) = Len(all) - m + 1
      /\ \A i \in 1..Len(left) : left[i] = all[m + i - 1]
  BY <1>2, <1>5, <1>7, SubSeqProperties
<1>9. ASSUME NEW i \in 1..Len(left)
      PROVE  left[i] = told \/ \E j \in 1..Len(queue) : left[i] = queue[j]
  <2>1. m + i - 1 \in 1..Len(all)
    BY <1>5, <1>8
  <2>2. PICK k \in 1..Len(all) : k = m + i - 1
    BY <2>1
  <2>3. left[i] = all[k]
    BY <1>8, <2>2
  <2>4. k # Len(queue) + 1 => k \in 1..Len(queue)
    BY <1>2, <1>3
  <2> QED
    BY <1>2, <2>3, <2>4
<1> QED
  BY <1>5, <1>6, <1>7, <1>8, <1>9 DEF AddedTo

\* A page as the listeners know it.
PageShape(doc, bound) ==
  /\ DOMAIN doc = PointPageFields /\ DOMAIN doc.pick = PickFields
  /\ doc.route \in PointRoutes /\ doc.generation \in 1..MaxPointDocuments
  /\ doc.pick.token \in 0..bound /\ doc.pick.hovered \in PointElements \cup {Nothing}
  /\ doc.pick.down \in PointElements \cup {Nothing}
  /\ doc.reports \in Seq(PointReport) /\ Len(doc.reports) <= PointReports

SameDocument(new, old) == new.generation = old.generation /\ new.route = old.route

\* Ending the listeners: they are gone, and the page reports what became of them.
LEMMA FinishIs ==
  ASSUME NEW doc, NEW bound \in Nat, PageShape(doc, bound),
         NEW outcome \in {"selected", "cancelled", "failed"}, NEW reference \in References \cup {Nothing}
  PROVE  LET new == finishPointSelect(doc, outcome, reference)
         IN /\ PageShape(new, bound) /\ SameDocument(new, doc) /\ new.pick.token = 0
            /\ doc.pick.token = 0 => new = doc
            /\ doc.pick.token # 0 =>
                 /\ new.pick.down = Nothing
                 /\ AddedTo(new.reports, doc.reports, [token |-> doc.pick.token, route |-> doc.route,
                                                        status |-> outcome, reference |-> reference])
<1> DEFINE told == [token |-> doc.pick.token, route |-> doc.route, status |-> outcome, reference |-> reference]
           new == finishPointSelect(doc, outcome, reference)
<1>1. told \in PointReport
  BY DEF PageShape, PointReport
<1> HIDE DEF told
<1>2. PICK queue : queue = Report(doc.reports, told)
  OBVIOUS
<1>3. /\ queue \in Seq(PointReport) /\ Len(queue) <= PointReports /\ AddedTo(queue, doc.reports, told)
  <2>1. doc.reports \in Seq(PointReport)
    BY DEF PageShape
  <2> QED
    BY <1>1, <1>2, <2>1, ReportIs
<1>4. CASE doc.pick.token = 0
  <2>1. new = doc
    BY <1>4 DEF finishPointSelect
  <2> QED
    BY <1>4, <2>1 DEF SameDocument
<1>5. CASE doc.pick.token # 0
  <2>1. new = [doc EXCEPT !.pick = NoPick, !.reports = queue]
    BY <1>2, <1>5 DEF finishPointSelect, told
  <2>2. /\ DOMAIN new = PointPageFields /\ new.pick = NoPick /\ new.reports = queue
        /\ new.generation = doc.generation /\ new.route = doc.route
    BY <2>1 DEF PageShape, PointPageFields
  <2> HIDE DEF new
  <2>3. /\ DOMAIN NoPick = PickFields /\ NoPick.token = 0
        /\ NoPick.hovered = Nothing /\ NoPick.down = Nothing
    BY DEF NoPick, PickFields
  <2> QED
    BY <1>3, <1>5, <2>2, <2>3 DEF PageShape, SameDocument, told, new
<1> QED
  BY <1>4, <1>5

\* A step of the page's own, which no script is behind: its listeners stay or end.
LEMMA PageStepKeeps ==
  ASSUME PointInv, UNCHANGED <<pointPanel, pointCalls, pointEntry, pointScripts>>, PointTyped',
         pointPage'.pick.token \in {0, pointPage.pick.token},
         \A i \in 1..Len(pointPage'.reports) :
           \/ /\ pointPage'.generation = pointPage.generation
              /\ \E j \in 1..Len(pointPage.reports) : pointPage'.reports[i] = pointPage.reports[j]
           \/ /\ pointPage.pick.token # 0 /\ pointPage'.pick.token = 0
              /\ pointPage'.reports[i].token = pointPage.pick.token
              /\ pointPage'.reports[i].status = "selected" =>
                   <<pointPage'.reports[i].token, pointPage'.reports[i].reference, pointPage'.generation>>
                     \in pointSeen'.pointed,
         pointPage'.pick.down # Nothing => pointPage'.pick.pressed = pointPage'.pick.down,
         pointSeen.pointed \subseteq pointSeen'.pointed,
         ~pointSeen'.disturbed =>
           /\ ~pointSeen.disturbed
           /\ \/ pointPage'.route = pointPage.route
              \/ /\ \A call \in pointCalls : call.op # "arm"
                 /\ \A i \in 1..Len(pointScripts) : pointScripts[i].op # "begin"
  PROVE  PointInv'
<1>1. PointedIsKept'
  BY DEF PointInv, PointedIsKept, SelectedWasPointedAt
<1>2. ASSUME ~pointSeen'.disturbed
      PROVE  Undisturbed'
  <2>1. BeginsAreInOrder /\ EarlierIsSuperseded /\ BeginsAreEnded /\ OverIsOver
    BY <1>2 DEF PointInv
  <2>2. /\ pointPanel.token \in Nat /\ pointEntry.token \in Nat /\ pointPage.pick.token \in Nat
        /\ \A call \in pointCalls : call.token \in Nat \ {0}
        /\ \A i \in 1..Len(pointScripts) : pointScripts[i].token \in Nat \ {0}
    BY DEF PointInv, PointTyped, PageTyped, ScriptsTyped, PanelTyped
  <2>3. BeginsAreInOrder'
    BY <1>2, <2>1, <2>2 DEF BeginsAreInOrder
  <2>4. EarlierIsSuperseded'
    <3>1. CASE Superseded
      BY <3>1 DEF EarlierIsSuperseded, Superseded
    <3>2. CASE pointPage.pick.token = 0 /\ \A i \in 1..Len(pointScripts) : pointScripts[i].op # "begin"
      BY <3>2 DEF EarlierIsSuperseded
    <3>3. CASE pointPage.pick.token = pointEntry.token
      <4>1. \A i \in 1..Len(pointScripts) : pointScripts[i].op # "begin"
        BY <2>1, <2>2, <3>3 DEF BeginsAreInOrder
      <4> QED
        BY <3>3, <4>1 DEF EarlierIsSuperseded
    <3> QED
      BY <2>1, <3>1, <3>2, <3>3 DEF EarlierIsSuperseded
  <2>5. BeginsAreEnded'
    BY <2>1 DEF BeginsAreEnded, Ending, CancelAfter, BeginAt
  <2>6. OverIsOver'
    <3>1. pointEntry.state \in OverStates =>
            /\ \A call \in pointCalls : call.op # "arm"
            /\ \A k \in 1..Len(pointScripts) : BeginAt(k) => CancelAfter(k)
            /\ pointPage.pick.token # 0 /\ pointPage.pick.token = pointEntry.token => CancelAfter(0)
      BY <2>1 DEF OverIsOver
    <3>2. ASSUME NEW i \in 1..Len(pointPage'.reports), pointPage'.reports[i].status \in {"selected", "cancelled"}
          PROVE  LET token == pointPage'.reports[i].token
                 IN /\ 0 < token /\ token <= pointEntry.token /\ token # pointPage'.pick.token
                    /\ \A call \in pointCalls : call.op = "arm" => token < call.token
                    /\ \A k \in 1..Len(pointScripts) : pointScripts[k].op = "begin" => token < pointScripts[k].token
      <4>1. CASE \E j \in 1..Len(pointPage.reports) : pointPage'.reports[i] = pointPage.reports[j]
        BY <2>1, <2>2, <3>2, <4>1 DEF OverIsOver
      <4>2. CASE /\ pointPage.pick.token # 0 /\ pointPage'.pick.token = 0
                 /\ pointPage'.reports[i].token = pointPage.pick.token
        BY <2>1, <2>2, <4>2 DEF BeginsAreInOrder
      <4> QED
        BY <4>1, <4>2
    <3> QED
      BY <3>1, <3>2 DEF OverIsOver, BeginAt, CancelAfter
  <2> QED
    BY <2>3, <2>4, <2>5, <2>6 DEF Undisturbed
<1> QED
  BY <1>1, <1>2 DEF PointInv, Undisturbed

\* A page step leaves every other part in its types.
LEMMA TypedByPage ==
  ASSUME PointInv, UNCHANGED <<pointPanel, pointCalls, pointEntry, pointScripts>>,
         PageShape(pointPage', pointPanel.token), DOMAIN pointSeen' = DOMAIN pointSeen
  PROVE  PointTyped'
BY DEF PointInv, PointTyped, PageTyped, ScriptsTyped, PanelTyped, PageShape

\* What the invariant says of the page.
LEMMA PageShapeHolds ==
  ASSUME PointInv
  PROVE  /\ PageShape(pointPage, pointPanel.token) /\ pointPanel.token \in Nat
         /\ DOMAIN pointSeen = {"pointed", "disturbed"}
         /\ pointPage.pick.down # Nothing => pointPage.pick.pressed = pointPage.pick.down
BY DEF PointInv, PointTyped, PageTyped, PanelTyped, PageShape, PointedIsKept

\* The pointer moves, presses, or rests while the page renders: no report, and the
\* listeners stay.
LEMMA PointerKeeps ==
  ASSUME PointInv, UNCHANGED <<pointPanel, pointCalls, pointEntry, pointScripts, pointSeen>>,
         PageShape(pointPage', pointPanel.token), SameDocument(pointPage', pointPage),
         pointPage'.pick.token = pointPage.pick.token, pointPage'.reports = pointPage.reports,
         pointPage'.pick.down # Nothing => pointPage'.pick.pressed = pointPage'.pick.down
  PROVE  PointInv'
<1>1. PointTyped'
  BY TypedByPage
<1>2. \A i \in 1..Len(pointPage'.reports) :
        /\ pointPage'.generation = pointPage.generation
        /\ \E j \in 1..Len(pointPage.reports) : pointPage'.reports[i] = pointPage.reports[j]
  BY DEF SameDocument
<1> QED
  BY <1>1, <1>2, PageStepKeeps DEF SameDocument

\* What highlighting leaves of the listeners.
LEMMA HighlightIs ==
  ASSUME NEW pick, DOMAIN pick = PickFields, NEW target \in PointElements \cup {Nothing},
         NEW shown \in updatePointSelectHighlight(pick, target)
  PROVE  /\ DOMAIN shown = PickFields /\ shown.token = pick.token /\ shown.pressed = pick.pressed
         /\ shown.down = pick.down /\ shown.hovered \in PointElements \cup {Nothing}
BY DEF updatePointSelectHighlight, PickFields

\* A pointer that moves or presses keeps the invariant.
LEMMA PointerStepKeeps ==
  ASSUME PointInv, page_pointed
  PROVE  PointInv'
<1>1. PageShape(pointPage, pointPanel.token) /\ (Pick.down # Nothing => Pick.pressed = Pick.down)
  BY PageShapeHolds DEF Pick
<1>2. /\ DOMAIN Pick = PickFields /\ Pick = pointPage.pick
      /\ Pick.hovered \in PointElements \cup {Nothing} /\ Pick.down \in PointElements \cup {Nothing}
  BY <1>1 DEF PageShape, Pick
<1>3. UNCHANGED <<pointPanel, pointCalls, pointEntry, pointScripts, pointSeen>>
  BY DEF page_pointed
<1>a. PICK now \in PagesRendered : \E pick :
        /\ pick \in onPointerMove(now) \/ pick \in onPointerDown(now)
        /\ pointPage' = [pointPage EXCEPT !.pick = pick]
  BY DEF page_pointed
<1>4. PICK pick :
        /\ pick \in onPointerMove(now) \/ pick \in onPointerDown(now)
        /\ pointPage' = [pointPage EXCEPT !.pick = pick]
  BY <1>a
<1>5. now.target \in PointElements \cup {Nothing}
  BY DEF PagesRendered
<1>6. /\ DOMAIN pick = PickFields /\ pick.token = Pick.token
      /\ pick.hovered \in PointElements \cup {Nothing} /\ pick.down \in PointElements \cup {Nothing}
      /\ pick.down # Nothing => pick.pressed = pick.down
  <2>1. CASE pick \in onPointerMove(now)
    <3> DEFINE base == [Pick EXCEPT !.failure = now.target = Nothing]
               kept == [Pick EXCEPT !.failure = TRUE]
    <3>1. pick = kept \/ pick \in updatePointSelectHighlight(base, now.target)
      BY <2>1 DEF onPointerMove
    <3>2. /\ DOMAIN base = PickFields /\ base.token = Pick.token /\ base.down = Pick.down
          /\ base.pressed = Pick.pressed
          /\ DOMAIN kept = PickFields /\ kept.token = Pick.token /\ kept.down = Pick.down
          /\ kept.pressed = Pick.pressed /\ kept.hovered = Pick.hovered
      BY <1>2 DEF PickFields
    <3> HIDE DEF base, kept
    <3>3. CASE pick = kept
      BY <1>1, <1>2, <3>2, <3>3
    <3>4. CASE pick \in updatePointSelectHighlight(base, now.target)
      <4>1. /\ DOMAIN pick = PickFields /\ pick.token = base.token /\ pick.pressed = base.pressed
            /\ pick.down = base.down /\ pick.hovered \in PointElements \cup {Nothing}
        BY <1>5, <3>2, <3>4, HighlightIs
      <4> QED
        BY <1>1, <1>2, <3>2, <4>1
    <3> QED
      BY <3>1, <3>3, <3>4
  <2>2. CASE pick \in onPointerDown(now)
    <3> DEFINE moved == Pick.hovered # Nothing /\ now.target # Pick.hovered
               pressed == [Pick EXCEPT !.down = now.target, !.pressed = now.target,
                                       !.failure = now.target = Nothing \/ moved]
               forgotten == [Pick EXCEPT !.down = Nothing, !.pressed = Nothing]
    <3>1. pick = forgotten \/ pick = pressed \/ pick \in updatePointSelectHighlight(pressed, now.target)
      BY <2>2 DEF onPointerDown
    <3>2. /\ DOMAIN pressed = PickFields /\ pressed.token = Pick.token /\ pressed.down = now.target
          /\ pressed.pressed = now.target /\ pressed.hovered = Pick.hovered
          /\ DOMAIN forgotten = PickFields /\ forgotten.token = Pick.token /\ forgotten.down = Nothing
          /\ forgotten.hovered = Pick.hovered
      BY <1>2 DEF PickFields
    <3> HIDE DEF pressed, forgotten
    <3>3. CASE pick = forgotten
      BY <1>2, <3>2, <3>3
    <3>4. CASE pick = pressed
      BY <1>2, <1>5, <3>2, <3>4
    <3>5. CASE pick \in updatePointSelectHighlight(pressed, now.target)
      <4>1. /\ DOMAIN pick = PickFields /\ pick.token = pressed.token /\ pick.pressed = pressed.pressed
            /\ pick.down = pressed.down /\ pick.hovered \in PointElements \cup {Nothing}
        BY <1>5, <3>2, <3>5, HighlightIs
      <4> QED
        BY <1>5, <3>2, <4>1
    <3> QED
      BY <3>1, <3>3, <3>4, <3>5
  <2> QED
    BY <1>4, <2>1, <2>2
<1>7. /\ DOMAIN pointPage' = PointPageFields /\ pointPage'.pick = pick /\ pointPage'.reports = pointPage.reports
      /\ pointPage'.route = pointPage.route /\ pointPage'.generation = pointPage.generation
  BY <1>1, <1>4 DEF PageShape, PointPageFields
<1>8. PageShape(pointPage', pointPanel.token) /\ SameDocument(pointPage', pointPage)
  BY <1>1, <1>2, <1>6, <1>7 DEF PageShape, SameDocument
<1> QED
  BY <1>2, <1>3, <1>6, <1>7, <1>8, PointerKeeps

\* The listeners of an armed page end, and one report says how.
LEMMA ListenersEndKeep ==
  ASSUME PointInv, UNCHANGED <<pointPanel, pointCalls, pointEntry, pointScripts>>,
         PageShape(pointPage', pointPanel.token), pointPage'.generation = pointPage.generation,
         Armed, pointPage'.pick.token = 0, pointPage'.pick.down = Nothing,
         NEW told, AddedTo(pointPage'.reports, pointPage.reports, told),
         told.token = pointPage.pick.token, DOMAIN pointSeen' = DOMAIN pointSeen,
         pointSeen.pointed \subseteq pointSeen'.pointed,
         told.status = "selected" => <<told.token, told.reference, pointPage.generation>> \in pointSeen'.pointed,
         ~pointSeen'.disturbed =>
           /\ ~pointSeen.disturbed
           /\ \/ pointPage'.route = pointPage.route
              \/ /\ \A call \in pointCalls : call.op # "arm"
                 /\ \A i \in 1..Len(pointScripts) : pointScripts[i].op # "begin"
  PROVE  PointInv'
<1>1. PointTyped'
  BY TypedByPage
<1>2. pointPage.pick.token # 0
  BY DEF Armed, Pick
<1>3. ASSUME NEW i \in 1..Len(pointPage'.reports)
      PROVE  \/ /\ pointPage'.generation = pointPage.generation
                /\ \E j \in 1..Len(pointPage.reports) : pointPage'.reports[i] = pointPage.reports[j]
             \/ /\ pointPage.pick.token # 0 /\ pointPage'.pick.token = 0
                /\ pointPage'.reports[i].token = pointPage.pick.token
                /\ pointPage'.reports[i].status = "selected" =>
                     <<pointPage'.reports[i].token, pointPage'.reports[i].reference, pointPage'.generation>>
                       \in pointSeen'.pointed
  BY <1>2 DEF AddedTo
<1> QED
  BY <1>1, <1>3, PageStepKeeps

\* A click, a key or a change of route ends the listeners.
LEMMA EndStepKeeps ==
  ASSUME PointInv, page_clicked \/ onKeyDown \/ announceRoute
  PROVE  PointInv'
<1>1. /\ PageShape(pointPage, pointPanel.token) /\ pointPanel.token \in Nat
      /\ DOMAIN pointSeen = {"pointed", "disturbed"}
      /\ pointPage.pick.down # Nothing => pointPage.pick.pressed = pointPage.pick.down
  BY PageShapeHolds
<1>2. CASE page_clicked
  <2>1. PICK now \in PagesRendered : /\ pointPage' = onClick(now)
                                /\ pointSeen' = [pointSeen EXCEPT !.pointed = @ \cup PickedByHand(now)]
    <3>1. PICK click \in {<<onClick(now), PickedByHand(now)>> : now \in PagesRendered} :
            /\ pointPage' = click[1]
            /\ pointSeen' = [pointSeen EXCEPT !.pointed = @ \cup click[2]]
      BY <1>2 DEF page_clicked
    <3>2. PICK now \in PagesRendered : click = <<onClick(now), PickedByHand(now)>>
      OBVIOUS
    <3>3. click[1] = onClick(now) /\ click[2] = PickedByHand(now)
      BY <3>2
    <3> QED
      BY <3>1, <3>3
  <2>2. Armed /\ UNCHANGED <<pointPanel, pointCalls, pointEntry, pointScripts>>
    BY <1>2 DEF page_clicked
  <2>3. PICK outcome \in {"selected", "failed"}, reference \in References \cup {Nothing} :
          /\ pointPage' = finishPointSelect(pointPage, outcome, reference)
          /\ outcome = "selected" =>
               /\ reference = refFor(now.target) /\ Pick.down # Nothing /\ now.target = Pick.down
    <3>1. CASE pointPage' = finishPointSelect(pointPage, "failed", Nothing)
      BY <3>1
    <3>2. CASE /\ pointPage' = finishPointSelect(pointPage, "selected", refFor(now.target))
               /\ Pick.down # Nothing /\ now.target = Pick.down /\ Pick.down \in now.connected
      <4>1. now.target \in PointElements /\ pointPage.generation \in 1..MaxPointDocuments
        BY <1>1, <3>2 DEF PagesRendered, PageShape
      <4>2. refFor(now.target) \in References
        BY <4>1 DEF refFor, References
      <4> QED
        BY <3>2, <4>2
    <3> QED
      BY <2>1, <3>1, <3>2 DEF onClick
  <2> DEFINE told == [token |-> pointPage.pick.token, route |-> pointPage.route, status |-> outcome,
                        reference |-> reference]
  <2>4. /\ PageShape(pointPage', pointPanel.token) /\ SameDocument(pointPage', pointPage)
        /\ pointPage'.pick.token = 0 /\ pointPage'.pick.down = Nothing
        /\ AddedTo(pointPage'.reports, pointPage.reports, told)
    BY <1>1, <2>2, <2>3, FinishIs DEF Armed, Pick
  <2>5. told.token = pointPage.pick.token /\ told.status = outcome /\ told.reference = reference
    OBVIOUS
  <2> HIDE DEF told
  <2>6. /\ DOMAIN pointSeen' = DOMAIN pointSeen /\ pointSeen'.disturbed = pointSeen.disturbed
        /\ pointSeen'.pointed = pointSeen.pointed \cup PickedByHand(now)
    BY <1>1, <2>1
  <2>7. outcome = "selected" => <<told.token, told.reference, pointPage.generation>> \in pointSeen'.pointed
    BY <1>1, <2>3, <2>5, <2>6 DEF Pick, PickedByHand
  <2> QED
    BY <2>2, <2>4, <2>5, <2>6, <2>7, ListenersEndKeep DEF SameDocument
<1>3. CASE onKeyDown
  <2>1. /\ Armed /\ pointPage' = finishPointSelect(pointPage, "cancelled", Nothing)
        /\ UNCHANGED <<pointPanel, pointCalls, pointEntry, pointScripts, pointSeen>>
    BY <1>3 DEF onKeyDown
  <2> DEFINE told == [token |-> pointPage.pick.token, route |-> pointPage.route, status |-> "cancelled",
                        reference |-> Nothing]
  <2>2. /\ PageShape(pointPage', pointPanel.token) /\ SameDocument(pointPage', pointPage)
        /\ pointPage'.pick.token = 0 /\ pointPage'.pick.down = Nothing
        /\ AddedTo(pointPage'.reports, pointPage.reports, told)
    <3>1. Nothing \in References \cup {Nothing}
      OBVIOUS
    <3> QED
      BY <1>1, <2>1, <3>1, FinishIs DEF Armed, Pick
  <2>3. told.token = pointPage.pick.token /\ told.status # "selected"
    OBVIOUS
  <2> HIDE DEF told
  <2> QED
    BY <2>1, <2>2, <2>3, ListenersEndKeep DEF SameDocument
<1>4. CASE announceRoute
  <2>1. PICK route \in PointRoutes :
          pointPage' = finishPointSelect([pointPage EXCEPT !.route = route], "failed", Nothing)
    BY <1>4 DEF announceRoute
  <2>2. /\ pointSeen' = [pointSeen EXCEPT !.disturbed = pointSeen.disturbed
                            \/ (\E c \in pointCalls : c.op = "arm")
                            \/ \E i \in DOMAIN pointScripts : pointScripts[i].op = "begin"]
        /\ UNCHANGED <<pointPanel, pointCalls, pointEntry, pointScripts>>
    BY <1>4 DEF announceRoute
  <2>3. /\ DOMAIN pointSeen' = DOMAIN pointSeen /\ pointSeen'.pointed = pointSeen.pointed
        /\ ~pointSeen'.disturbed =>
             /\ ~pointSeen.disturbed /\ (\A call \in pointCalls : call.op # "arm")
             /\ \A i \in DOMAIN pointScripts : pointScripts[i].op # "begin"
    BY <1>1, <2>2
  <2>4. DOMAIN pointScripts = 1..Len(pointScripts)
    BY DEF PointInv, PointTyped, ScriptsTyped
  <2> DEFINE moved == [pointPage EXCEPT !.route = route]
             told == [token |-> moved.pick.token, route |-> moved.route, status |-> "failed",
                        reference |-> Nothing]
  <2>5. /\ DOMAIN moved = PointPageFields /\ moved.pick = pointPage.pick /\ moved.reports = pointPage.reports
        /\ moved.route = route /\ moved.generation = pointPage.generation
    BY <1>1 DEF PageShape, PointPageFields
  <2>6. pointPage' = finishPointSelect(moved, "failed", Nothing)
    BY <2>1
  <2> HIDE DEF moved
  <2>7. PageShape(moved, pointPanel.token)
    BY <1>1, <2>1, <2>5 DEF PageShape
  <2>8. /\ PageShape(pointPage', pointPanel.token) /\ SameDocument(pointPage', moved)
        /\ pointPage'.pick.token = 0
        /\ moved.pick.token = 0 => pointPage' = moved
        /\ moved.pick.token # 0 => /\ pointPage'.pick.down = Nothing
                                   /\ AddedTo(pointPage'.reports, moved.reports, told)
    <3>1. Nothing \in References \cup {Nothing} /\ "failed" \in {"selected", "cancelled", "failed"}
      OBVIOUS
    <3>2. /\ PageShape(pointPage', pointPanel.token) /\ SameDocument(pointPage', moved)
          /\ pointPage'.pick.token = 0
      BY <1>1, <2>6, <2>7, <3>1, FinishIs
    <3>3. moved.pick.token = 0 => pointPage' = moved
      BY <1>1, <2>6, <2>7, <3>1, FinishIs
    <3>4. moved.pick.token # 0 => /\ pointPage'.pick.down = Nothing
                                  /\ AddedTo(pointPage'.reports, moved.reports, told)
      BY <1>1, <2>6, <2>7, <3>1, FinishIs
    <3> QED
      BY <3>2, <3>3, <3>4
  <2>9. told.token = pointPage.pick.token /\ told.status # "selected"
    BY <2>5
  <2> HIDE DEF told
  <2>10. CASE moved.pick.token # 0
    <3>1. Armed
      BY <2>5, <2>10 DEF Armed, Pick
    <3> QED
      BY <2>2, <2>3, <2>4, <2>5, <2>8, <2>9, <2>10, <3>1, ListenersEndKeep DEF SameDocument
  <2>11. CASE moved.pick.token = 0
    <3>1. PointTyped'
      BY <2>2, <2>3, <2>8, TypedByPage
    <3>2. /\ pointPage'.pick = pointPage.pick /\ pointPage'.reports = pointPage.reports
          /\ pointPage'.generation = pointPage.generation
      BY <2>5, <2>8, <2>11
    <3>3. \A i \in 1..Len(pointPage'.reports) :
            /\ pointPage'.generation = pointPage.generation
            /\ \E j \in 1..Len(pointPage.reports) : pointPage'.reports[i] = pointPage.reports[j]
      BY <3>2
    <3> QED
      BY <1>1, <2>2, <2>3, <2>4, <3>1, <3>2, <3>3, PageStepKeeps
  <2> QED
    BY <2>10, <2>11
<1> QED
  BY <1>2, <1>3, <1>4

\* A new document has no listeners, no reports, and the route of the old one.
LEMMA ReloadKeeps ==
  ASSUME PointInv, page_reloads
  PROVE  PointInv'
<1>1. /\ pointPage' = Document(pointPage.generation + 1, pointPage.route)
      /\ UNCHANGED <<pointPanel, pointCalls, pointEntry, pointScripts, pointSeen>>
  BY DEF page_reloads
<1>2. PageShape(pointPage, pointPanel.token) /\ pointPanel.token \in Nat
  BY PageShapeHolds
<1>3. /\ DOMAIN pointPage' = PointPageFields /\ pointPage'.route = pointPage.route
      /\ pointPage'.pick = NoPick /\ pointPage'.reports = <<>>
      /\ pointPage'.generation = pointPage.generation + 1
  BY <1>1 DEF Document, PointPageFields
<1>4. /\ DOMAIN NoPick = PickFields /\ NoPick.token = 0
      /\ NoPick.hovered = Nothing /\ NoPick.down = Nothing
  BY DEF NoPick, PickFields
<1>5. PageShape(pointPage', pointPanel.token)
  <2>1. pointPage'.generation \in 1..MaxPointDocuments
    BY <1>2, <1>3, PointAssumption DEF PageShape, PointAssumption, page_reloads
  <2> QED
    BY <1>2, <1>3, <1>4, <2>1, PointAssumption DEF PageShape, PointAssumption
<1>6. PointTyped'
  BY <1>1, <1>5, TypedByPage
<1>7. 1..Len(pointPage'.reports) = {}
  BY <1>3
<1> QED
  BY <1>1, <1>3, <1>4, <1>6, <1>7, PageStepKeeps

\* What the queue of scripts is after its oldest has run.
LEMMA ScriptTailIs ==
  ASSUME PointInv, pointScripts # <<>>, pointScripts' = Tail(pointScripts)
  PROVE  /\ pointScripts' \in Seq(PointScript) /\ Len(pointScripts) \in Nat \ {0}
         /\ Len(pointScripts') = Len(pointScripts) - 1
         /\ Head(pointScripts) = pointScripts[1] /\ pointScripts[1] \in PointScript
         /\ \A i \in 1..Len(pointScripts') :
              i + 1 \in 1..Len(pointScripts) /\ pointScripts'[i] = pointScripts[i + 1]
         /\ \A i \in 1..Len(pointScripts) : i # 1 =>
              i - 1 \in 1..Len(pointScripts') /\ pointScripts'[i - 1] = pointScripts[i]
<1>1. pointScripts \in Seq(PointScript) /\ Len(pointScripts) \in Nat \ {0}
  BY DEF PointInv, PointTyped, ScriptsTyped
<1>2. /\ Tail(pointScripts) \in Seq(PointScript) /\ Len(Tail(pointScripts)) = Len(pointScripts) - 1
      /\ \A i \in 1..Len(Tail(pointScripts)) : Tail(pointScripts)[i] = pointScripts[i + 1]
      /\ Head(pointScripts) = pointScripts[1]
  BY <1>1, HeadTailProperties
<1>3. \A i \in 1..Len(pointScripts') : i + 1 \in 1..Len(pointScripts) /\ pointScripts'[i] = pointScripts[i + 1]
  BY <1>1, <1>2
<1>4. ASSUME NEW i \in 1..Len(pointScripts), i # 1
      PROVE  i - 1 \in 1..Len(pointScripts') /\ pointScripts'[i - 1] = pointScripts[i]
  <2> DEFINE j == i - 1
  <2>1. j \in 1..Len(pointScripts') /\ j + 1 = i
    BY <1>1, <1>2, <1>4
  <2> HIDE DEF j
  <2>2. pointScripts'[j] = pointScripts[j + 1]
    BY <1>3, <2>1
  <2> QED
    BY <2>1, <2>2 DEF j
<1>5. pointScripts[1] \in PointScript
  BY <1>1
<1> QED
  BY <1>1, <1>2, <1>3, <1>4, <1>5

\* The page runs the oldest script.
LEMMA ScriptKeeps ==
  ASSUME PointInv, pointScripts # <<>>, pointScripts' = Tail(pointScripts),
         UNCHANGED <<pointPanel, pointCalls, pointEntry, pointSeen>>, NEW h, h = pointScripts[1],
         PageShape(pointPage', pointPanel.token), SameDocument(pointPage', pointPage),
         pointPage'.pick.down # Nothing => pointPage'.pick.pressed = pointPage'.pick.down,
         pointPage'.pick.token \in {0, pointPage.pick.token, h.token},
         h.op # "begin" => pointPage'.pick.token \in {0, pointPage.pick.token},
         h.op = "begin" /\ h.route = pointPage.route => pointPage'.pick.token = h.token,
         h.op = "cancel" /\ pointPage.pick.token = h.token => pointPage'.pick.token = 0,
         \A i \in 1..Len(pointPage'.reports) :
           \/ \E j \in 1..Len(pointPage.reports) : pointPage'.reports[i] = pointPage.reports[j]
           \/ /\ pointPage'.reports[i].status # "selected"
              /\ pointPage'.reports[i].status = "cancelled" =>
                   /\ pointPage.pick.token # 0 /\ pointPage'.reports[i].token = pointPage.pick.token
                   /\ pointPage'.pick.token = 0 \/ h.op = "begin"
  PROVE  PointInv'
<1>1. /\ pointScripts' \in Seq(PointScript) /\ Len(pointScripts) \in Nat \ {0}
      /\ Len(pointScripts') = Len(pointScripts) - 1
      /\ \A i \in 1..Len(pointScripts') :
           i + 1 \in 1..Len(pointScripts) /\ pointScripts'[i] = pointScripts[i + 1]
      /\ \A i \in 1..Len(pointScripts) : i # 1 =>
           i - 1 \in 1..Len(pointScripts') /\ pointScripts'[i - 1] = pointScripts[i]
  BY ScriptTailIs
<1>2. /\ pointPanel.token \in Nat /\ pointEntry.token \in Nat /\ pointPage.pick.token \in Nat
      /\ \A call \in pointCalls : call.token \in Nat \ {0}
      /\ \A i \in 1..Len(pointScripts) : pointScripts[i].token \in Nat \ {0}
      /\ h.token \in Nat \ {0}
  BY <1>1 DEF PointInv, PointTyped, PageTyped, ScriptsTyped, PanelTyped
<1>3. PointTyped'
  <2>1. PageTyped' /\ PanelTyped'
    BY DEF PointInv, PointTyped, PageTyped, PanelTyped, PageShape
  <2>2. \A i \in 1..Len(pointScripts') : pointScripts'[i].token \in 1..pointPanel.token
    BY <1>1 DEF PointInv, PointTyped, ScriptsTyped
  <2>3. ScriptsTyped'
    BY <1>1, <2>2 DEF PointInv, PointTyped, ScriptsTyped
  <2> QED
    BY <2>1, <2>3 DEF PointTyped
<1>4. PointedIsKept'
  BY DEF PointInv, PointedIsKept, SelectedWasPointedAt, SameDocument
<1>5. ASSUME ~pointSeen.disturbed
      PROVE  Undisturbed'
  <2>1. BeginsAreInOrder /\ EarlierIsSuperseded /\ BeginsAreEnded /\ OverIsOver
    BY <1>5 DEF PointInv
  <2>2. h.op = "begin" =>
          /\ h.token <= pointEntry.token /\ pointPage.pick.token < h.token /\ pointPage'.pick.token = h.token
          /\ \A call \in pointCalls : call.op = "arm" => h.token < call.token
    BY <1>1, <2>1 DEF BeginsAreInOrder
  <2>3. \A i \in 1..Len(pointScripts') : pointScripts'[i].op = "begin" =>
          /\ pointScripts'[i].token <= pointEntry.token /\ pointScripts'[i].route = pointPage.route
          /\ pointPage.pick.token < pointScripts'[i].token
          /\ h.op = "begin" => h.token < pointScripts'[i].token
          /\ \A call \in pointCalls : call.op = "arm" => pointScripts'[i].token < call.token
    <3> SUFFICES ASSUME NEW i \in 1..Len(pointScripts'), pointScripts'[i].op = "begin"
                 PROVE  /\ pointScripts'[i].token <= pointEntry.token /\ pointScripts'[i].route = pointPage.route
                        /\ pointPage.pick.token < pointScripts'[i].token
                        /\ h.op = "begin" => h.token < pointScripts'[i].token
                        /\ \A call \in pointCalls : call.op = "arm" => pointScripts'[i].token < call.token
      OBVIOUS
    <3>1. PICK j \in 1..Len(pointScripts) : j = i + 1 /\ 1 < j /\ pointScripts'[i] = pointScripts[j]
      BY <1>1
    <3>2. 1 \in 1..Len(pointScripts)
      BY <1>1
    <3> QED
      BY <2>1, <3>1, <3>2 DEF BeginsAreInOrder
  <2>4. \A i, j \in 1..Len(pointScripts') :
          i < j /\ pointScripts'[i].op = "begin" /\ pointScripts'[j].op = "begin" =>
            pointScripts'[i].token < pointScripts'[j].token
    <3> SUFFICES ASSUME NEW i \in 1..Len(pointScripts'), NEW j \in 1..Len(pointScripts'), i < j,
                        pointScripts'[i].op = "begin", pointScripts'[j].op = "begin"
                 PROVE  pointScripts'[i].token < pointScripts'[j].token
      OBVIOUS
    <3>1. PICK k \in 1..Len(pointScripts) : k = i + 1 /\ pointScripts'[i] = pointScripts[k]
      BY <1>1
    <3>2. PICK l \in 1..Len(pointScripts) : l = j + 1 /\ pointScripts'[j] = pointScripts[l]
      BY <1>1
    <3>3. k < l
      BY <1>1, <3>1, <3>2
    <3> QED
      BY <2>1, <3>1, <3>2, <3>3 DEF BeginsAreInOrder
  <2>5. pointPage'.pick.token <= pointEntry.token
    BY <1>2, <2>1, <2>2 DEF BeginsAreInOrder
  <2>6. \A call \in pointCalls : call.op = "arm" => pointPage'.pick.token < call.token
    BY <1>2, <2>1, <2>2 DEF BeginsAreInOrder
  <2>7. \A i \in 1..Len(pointScripts') : pointScripts'[i].op = "begin" =>
          pointPage'.pick.token < pointScripts'[i].token
    <3> SUFFICES ASSUME NEW i \in 1..Len(pointScripts'), pointScripts'[i].op = "begin"
                 PROVE  pointPage'.pick.token < pointScripts'[i].token
      OBVIOUS
    <3>1. pointScripts'[i].token \in Nat \ {0}
      BY <1>3 DEF PointTyped, ScriptsTyped
    <3> QED
      BY <1>2, <2>2, <2>3, <3>1
  <2>8. BeginsAreInOrder'
    <3>1. pointPage'.route = pointPage.route
      BY DEF SameDocument
    <3>2. \A call \in pointCalls : call.op = "arm" =>
            /\ call.token = pointEntry.token /\ call.route = pointPage.route
            /\ \A other \in pointCalls : other.op = "arm" => other = call
      BY <2>1 DEF BeginsAreInOrder
    <3>3. /\ \A call \in pointCalls : call.op = "begin" => call.token > pointEntry.token
          /\ pointPanel.phase = "polling" =>
               \A call \in pointCalls : call.op # "cancel" => call.token # pointPanel.token
      BY <2>1 DEF BeginsAreInOrder
    <3> QED
      BY <2>3, <2>4, <2>5, <2>6, <2>7, <3>1, <3>2, <3>3 DEF BeginsAreInOrder
  <2>9. EarlierIsSuperseded'
    <3>1. CASE \E call \in pointCalls : call.op = "arm"
      BY <3>1 DEF EarlierIsSuperseded, Superseded
    <3>2. CASE \E i \in 1..Len(pointScripts) : i # 1 /\ BeginAt(i)
      <4>1. PICK i \in 1..Len(pointScripts) : i # 1 /\ BeginAt(i)
        BY <3>2
      <4>2. PICK j \in 1..Len(pointScripts') : pointScripts'[j] = pointScripts[i]
        BY <1>1, <4>1
      <4> QED
        BY <4>1, <4>2 DEF BeginAt, EarlierIsSuperseded, Superseded
    <3>3. CASE BeginAt(1)
      BY <2>2, <3>3 DEF BeginAt, EarlierIsSuperseded
    <3>4. CASE /\ pointPage.pick.token = 0
               /\ \A i \in 1..Len(pointScripts) : pointScripts[i].op # "begin"
      <4>1. h.op # "begin" /\ pointPage'.pick.token = 0
        BY <1>1, <3>4
      <4>2. \A i \in 1..Len(pointScripts') : pointScripts'[i].op # "begin"
        BY <1>1, <3>4
      <4> QED
        BY <4>1, <4>2 DEF EarlierIsSuperseded
    <3>5. CASE pointPage.pick.token = pointEntry.token
      <4>1. h.op # "begin"
        BY <1>2, <2>2, <3>5
      <4>2. \A i \in 1..Len(pointScripts') : pointScripts'[i].op # "begin"
        <5> SUFFICES ASSUME NEW i \in 1..Len(pointScripts'), pointScripts'[i].op = "begin" PROVE FALSE
          OBVIOUS
        <5>1. pointScripts'[i].token \in Nat \ {0}
          BY <1>3 DEF PointTyped, ScriptsTyped
        <5> QED
          BY <1>2, <2>3, <3>5, <5>1
      <4> QED
        BY <3>5, <4>1, <4>2 DEF EarlierIsSuperseded
    <3>6. 1 \in 1..Len(pointScripts)
      BY <1>1
    <3> QED
      BY <2>1, <3>1, <3>2, <3>3, <3>4, <3>5, <3>6 DEF EarlierIsSuperseded, Superseded, BeginAt
  <2>10. ASSUME NEW k \in 1..Len(pointScripts), NEW i \in 1..Len(pointScripts), i > k,
                pointScripts[i].op = "cancel", pointScripts[i].token = pointEntry.token
         PROVE  \E j \in 1..Len(pointScripts') :
                  j > k - 1 /\ pointScripts'[j].op = "cancel" /\ pointScripts'[j].token = pointEntry.token
    <3>1. PICK j \in 1..Len(pointScripts') : j = i - 1 /\ pointScripts'[j] = pointScripts[i]
      BY <1>1, <2>10
    <3>2. j > k - 1
      BY <1>1, <2>10, <3>1
    <3> QED
      BY <2>10, <3>1, <3>2
  <2>11. ASSUME NEW k \in 1..Len(pointScripts'), pointScripts'[k].op = "begin",
                pointScripts'[k].token = pointEntry.token
         PROVE  /\ Ending(pointEntry.token) \/ CancelAfter(k)'
                /\ pointEntry.state \in OverStates => CancelAfter(k)'
    <3>1. PICK l \in 1..Len(pointScripts) : l = k + 1 /\ pointScripts'[k] = pointScripts[l]
      BY <1>1
    <3>2. BeginAt(l)
      BY <2>11, <3>1 DEF BeginAt
    <3>3. CancelAfter(l) => CancelAfter(k)'
      <4>1. l - 1 = k
        BY <1>1, <3>1
      <4> QED
        BY <2>10, <3>1, <4>1 DEF CancelAfter
    <3> QED
      BY <2>1, <3>2, <3>3 DEF BeginsAreEnded, OverIsOver
  <2>12. ASSUME pointPage'.pick.token # 0, pointPage'.pick.token = pointEntry.token
         PROVE  /\ Ending(pointEntry.token) \/ CancelAfter(0)'
                /\ pointEntry.state \in OverStates => CancelAfter(0)'
    <3>1. CASE h.op = "begin"
      <4>1. BeginAt(1) /\ 1 \in 1..Len(pointScripts)
        BY <1>1, <2>2, <2>12, <3>1 DEF BeginAt
      <4>2. CancelAfter(1) => CancelAfter(0)'
        BY <2>10, <4>1 DEF CancelAfter
      <4> QED
        BY <2>1, <4>1, <4>2 DEF BeginsAreEnded, OverIsOver
    <3>2. CASE h.op # "begin"
      <4>1. pointPage.pick.token = pointEntry.token /\ pointPage.pick.token # 0
        BY <2>12, <3>2
      <4>2. ~(h.op = "cancel" /\ h.token = pointEntry.token)
        BY <2>12, <4>1
      <4>3. CancelAfter(0) => CancelAfter(0)'
        <5> SUFFICES ASSUME CancelAfter(0) PROVE CancelAfter(0)'
          OBVIOUS
        <5>1. PICK i \in 1..Len(pointScripts) :
                pointScripts[i].op = "cancel" /\ pointScripts[i].token = pointEntry.token
          BY DEF CancelAfter
        <5>2. i > 1 /\ 1 \in 1..Len(pointScripts)
          BY <1>1, <4>2, <5>1
        <5> QED
          BY <2>10, <5>1, <5>2 DEF CancelAfter
      <4> QED
        BY <2>1, <4>1, <4>3 DEF BeginsAreEnded, OverIsOver
    <3> QED
      BY <3>1, <3>2
  <2>13. BeginsAreEnded'
    BY <2>1, <2>11, <2>12 DEF BeginsAreEnded, BeginAt, Ending
  <2>14. ASSUME NEW i \in 1..Len(pointPage'.reports),
                pointPage'.reports[i].status \in {"selected", "cancelled"}
         PROVE  LET token == pointPage'.reports[i].token
                IN /\ 0 < token /\ token <= pointEntry.token /\ token # pointPage'.pick.token
                   /\ \A call \in pointCalls : call.op = "arm" => token < call.token
                   /\ \A k \in 1..Len(pointScripts') : pointScripts'[k].op = "begin" => token < pointScripts'[k].token
    <3>1. CASE \E j \in 1..Len(pointPage.reports) : pointPage'.reports[i] = pointPage.reports[j]
      <4>1. PICK token : token = pointPage'.reports[i].token
        OBVIOUS
      <4>2. /\ 0 < token /\ token <= pointEntry.token /\ token # pointPage.pick.token
            /\ \A call \in pointCalls : call.op = "arm" => token < call.token
            /\ \A k \in 1..Len(pointScripts) : pointScripts[k].op = "begin" => token < pointScripts[k].token
        BY <2>1, <2>14, <3>1, <4>1 DEF OverIsOver
      <4>3. \A k \in 1..Len(pointScripts') : pointScripts'[k].op = "begin" => token < pointScripts'[k].token
        BY <1>1, <4>2
      <4>4. token \in Nat
        <5>1. pointPage'.reports \in Seq(PointReport)
          BY DEF PageShape
        <5>2. pointPage'.reports[i] \in PointReport
          BY <5>1
        <5> QED
          BY <4>1, <5>2 DEF PointReport
      <4>5. token # pointPage'.pick.token
        <5>1. CASE h.op = "begin"
          <6>1. token < h.token
            BY <1>1, <4>2, <5>1
          <6> QED
            BY <1>2, <2>2, <4>4, <5>1, <6>1
        <5>2. CASE h.op # "begin"
          BY <4>2, <4>4, <5>2
        <5> QED
          BY <5>1, <5>2
      <4> QED
        BY <4>1, <4>2, <4>3, <4>5
    <3>2. CASE /\ pointPage.pick.token # 0 /\ pointPage'.reports[i].token = pointPage.pick.token
               /\ pointPage'.pick.token = 0 \/ h.op = "begin"
      <4>1. pointPage.pick.token # pointPage'.pick.token
        BY <1>2, <2>2, <3>2
      <4>2. pointPage.pick.token <= pointEntry.token
            /\ \A call \in pointCalls : call.op = "arm" => pointPage.pick.token < call.token
        BY <2>1 DEF BeginsAreInOrder
      <4> QED
        BY <1>2, <2>3, <3>2, <4>1, <4>2
    <3> QED
      BY <2>14, <3>1, <3>2
  <2>15. OverIsOver'
    BY <2>1, <2>11, <2>12, <2>14 DEF OverIsOver, BeginAt
  <2> QED
    BY <2>8, <2>9, <2>13, <2>15 DEF Undisturbed
<1> QED
  BY <1>3, <1>4, <1>5 DEF PointInv, Undisturbed

\* A report queued after others is the newest of them.
LEMMA AddedAgain ==
  ASSUME NEW first, NEW second, NEW old, NEW one, NEW two, AddedTo(first, old, one), AddedTo(second, first, two)
  PROVE  \A i \in 1..Len(second) :
           second[i] = two \/ second[i] = one \/ \E j \in 1..Len(old) : second[i] = old[j]
BY DEF AddedTo

\* What running a begin makes of a page of its route.
LEMMA BegunIs ==
  ASSUME NEW doc, NEW bound \in Nat, PageShape(doc, bound), NEW script \in PointScript,
         script.route = doc.route, script.token \in 0..bound
  PROVE  LET new == beginPointSelect(doc, script)
         IN /\ PageShape(new, bound) /\ SameDocument(new, doc) /\ new.pick.down = Nothing
            /\ new.pick.token = script.token
            /\ \A i \in 1..Len(new.reports) :
                 \/ \E j \in 1..Len(doc.reports) : new.reports[i] = doc.reports[j]
                 \/ new.reports[i].status = "armed"
                 \/ doc.pick.token # 0 /\ new.reports[i].token = doc.pick.token
                      /\ new.reports[i].status = "cancelled"
<1> DEFINE free == finishPointSelect(doc, "cancelled", Nothing)
           ended == [token |-> doc.pick.token, route |-> doc.route, status |-> "cancelled", reference |-> Nothing]
           armed == [token |-> script.token, route |-> doc.route, status |-> "armed", reference |-> Nothing]
           picking == [NoPick EXCEPT !.token = script.token]
           queue == Report(free.reports, armed)
           new == beginPointSelect(doc, script)
<1>1. Nothing \in References \cup {Nothing}
  OBVIOUS
<1>2. /\ PageShape(free, bound) /\ SameDocument(free, doc)
      /\ doc.pick.token = 0 => free = doc
      /\ doc.pick.token # 0 => AddedTo(free.reports, doc.reports, ended)
  BY <1>1, FinishIs
<1>3. /\ DOMAIN picking = PickFields /\ picking.token = script.token
      /\ picking.hovered = Nothing /\ picking.down = Nothing
  BY DEF NoPick, PickFields
<1>4. armed \in PointReport /\ armed.status = "armed"
  BY <1>1 DEF PageShape, PointReport
<1>5. ended.token = doc.pick.token /\ ended.status = "cancelled"
  OBVIOUS
<1>6. new = [free EXCEPT !.pick = picking, !.reports = queue]
  BY DEF beginPointSelect
<1> HIDE DEF free, ended, armed, picking, new
<1>7. /\ queue \in Seq(PointReport) /\ Len(queue) <= PointReports /\ AddedTo(queue, free.reports, armed)
  BY <1>2, <1>4, ReportIs DEF PageShape
<1> HIDE DEF queue
<1>8. /\ DOMAIN new = PointPageFields /\ new.pick = picking /\ new.reports = queue
      /\ new.generation = free.generation /\ new.route = free.route
  BY <1>2, <1>6 DEF PageShape, PointPageFields
<1>9. PageShape(new, bound)
  BY <1>2, <1>3, <1>7, <1>8 DEF PageShape
<1>10. ASSUME NEW i \in 1..Len(queue)
       PROVE  \/ \E j \in 1..Len(doc.reports) : queue[i] = doc.reports[j]
              \/ queue[i].status = "armed"
              \/ doc.pick.token # 0 /\ queue[i].token = doc.pick.token /\ queue[i].status = "cancelled"
  <2>1. CASE doc.pick.token = 0
    BY <1>2, <1>4, <1>7, <2>1 DEF AddedTo
  <2>2. CASE doc.pick.token # 0
    BY <1>2, <1>4, <1>5, <1>7, <2>2 DEF AddedTo
  <2> QED
    BY <2>1, <2>2
<1> QED
  BY <1>2, <1>3, <1>8, <1>9, <1>10 DEF SameDocument, new

\* The oldest script the surface has is run by the page.
LEMMA ScriptStepKeeps ==
  ASSUME PointInv, page_runs_script
  PROVE  PointInv'
<1>1. /\ PageShape(pointPage, pointPanel.token) /\ pointPanel.token \in Nat
      /\ pointPage.pick.down # Nothing => pointPage.pick.pressed = pointPage.pick.down
  BY PageShapeHolds
<1>2. /\ pointScripts # <<>> /\ pointScripts' = Tail(pointScripts)
      /\ UNCHANGED <<pointPanel, pointCalls, pointEntry, pointSeen>>
  BY DEF page_runs_script
<1>3. PICK h : h = Head(pointScripts)
  OBVIOUS
<1>4. h = pointScripts[1] /\ h \in PointScript /\ 1 \in 1..Len(pointScripts)
  BY <1>2, <1>3, ScriptTailIs
<1>5. /\ h.op \in {"begin", "probe", "cancel"} /\ h.route \in PointRoutes /\ h.token \in 1..pointPanel.token
      /\ h.token \in Nat \ {0}
  BY <1>1, <1>4 DEF PointInv, PointTyped, ScriptsTyped, PointScript
<1>6. /\ h.op = "begin" => pointPage' = beginPointSelect(pointPage, h)
      /\ h.op = "probe" => pointPage' = probePointSelect(pointPage, h)
      /\ h.op = "cancel" => pointPage' = cancelPointSelect(pointPage, h)
  BY <1>3 DEF page_runs_script
<1>7. CASE pointPage' = pointPage /\ ~(h.op = "begin" /\ h.route = pointPage.route)
              /\ ~(h.op = "cancel" /\ pointPage.pick.token = h.token)
  <2>1. \A i \in 1..Len(pointPage'.reports) : \E j \in 1..Len(pointPage.reports) :
          pointPage'.reports[i] = pointPage.reports[j]
    BY <1>7
  <2>2. PageShape(pointPage', pointPanel.token) /\ SameDocument(pointPage', pointPage)
    BY <1>1, <1>7 DEF SameDocument
  <2> QED
    BY <1>1, <1>2, <1>4, <1>5, <1>7, <2>1, <2>2, ScriptKeeps
<1>8. CASE h.op = "begin" /\ h.route = pointPage.route
  <2>1. pointPage' = beginPointSelect(pointPage, h) /\ h.token \in 0..pointPanel.token
    BY <1>1, <1>5, <1>6, <1>8
  <2>2. /\ PageShape(pointPage', pointPanel.token) /\ SameDocument(pointPage', pointPage)
        /\ pointPage'.pick.down = Nothing /\ pointPage'.pick.token = h.token
    BY <1>1, <1>4, <1>8, <2>1, BegunIs
  <2>3. \A i \in 1..Len(pointPage'.reports) :
                 \/ \E j \in 1..Len(pointPage.reports) : pointPage'.reports[i] = pointPage.reports[j]
                 \/ pointPage'.reports[i].status = "armed"
                 \/ pointPage.pick.token # 0 /\ pointPage'.reports[i].token = pointPage.pick.token
                      /\ pointPage'.reports[i].status = "cancelled"
    BY <1>1, <1>4, <1>8, <2>1, BegunIs
  <2> QED
    BY <1>2, <1>4, <1>8, <2>2, <2>3, ScriptKeeps
<1>9. CASE h.op = "probe"
  <2> DEFINE told == [token |-> h.token, route |-> pointPage.route, reference |-> Nothing,
                        status |-> IF pointPage.pick.token = h.token THEN "armed" ELSE "failed"]
             queue == Report(pointPage.reports, told)
  <2>1. pointPage' = [pointPage EXCEPT !.reports = queue]
    BY <1>6, <1>9 DEF probePointSelect
  <2>2. told \in PointReport /\ told.status \in {"armed", "failed"}
    BY <1>1, <1>5 DEF PageShape, PointReport
  <2> HIDE DEF told
  <2>3. /\ queue \in Seq(PointReport) /\ Len(queue) <= PointReports /\ AddedTo(queue, pointPage.reports, told)
    BY <1>1, <2>2, ReportIs DEF PageShape
  <2> HIDE DEF queue
  <2>4. /\ DOMAIN pointPage' = PointPageFields /\ pointPage'.pick = pointPage.pick /\ pointPage'.reports = queue
        /\ pointPage'.generation = pointPage.generation /\ pointPage'.route = pointPage.route
    BY <1>1, <2>1 DEF PageShape, PointPageFields
  <2>5. PageShape(pointPage', pointPanel.token) /\ SameDocument(pointPage', pointPage)
    BY <1>1, <2>3, <2>4 DEF PageShape, SameDocument
  <2>6. \A i \in 1..Len(pointPage'.reports) :
           \/ \E j \in 1..Len(pointPage.reports) : pointPage'.reports[i] = pointPage.reports[j]
           \/ pointPage'.reports[i].status \in {"armed", "failed"}
    BY <2>2, <2>3, <2>4 DEF AddedTo
  <2> QED
    BY <1>1, <1>2, <1>4, <1>9, <2>4, <2>5, <2>6, ScriptKeeps
<1>10. CASE h.op = "cancel" /\ pointPage.pick.token = h.token
  <2>1. pointPage' = finishPointSelect(pointPage, "cancelled", Nothing)
    BY <1>6, <1>10 DEF cancelPointSelect
  <2> DEFINE told == [token |-> pointPage.pick.token, route |-> pointPage.route, status |-> "cancelled",
                        reference |-> Nothing]
  <2>2. /\ PageShape(pointPage', pointPanel.token) /\ SameDocument(pointPage', pointPage)
        /\ pointPage'.pick.token = 0 /\ pointPage'.pick.down = Nothing
        /\ AddedTo(pointPage'.reports, pointPage.reports, told)
    <3>1. Nothing \in References \cup {Nothing} /\ pointPage.pick.token # 0
      BY <1>5, <1>10
    <3> QED
      BY <1>1, <2>1, <3>1, FinishIs
  <2>3. told.token = pointPage.pick.token /\ told.status = "cancelled" /\ pointPage.pick.token # 0
    BY <1>5, <1>10
  <2> HIDE DEF told
  <2>4. \A i \in 1..Len(pointPage'.reports) :
           \/ \E j \in 1..Len(pointPage.reports) : pointPage'.reports[i] = pointPage.reports[j]
           \/ /\ pointPage'.reports[i].status = "cancelled"
              /\ pointPage.pick.token # 0 /\ pointPage'.reports[i].token = pointPage.pick.token
    BY <2>2, <2>3 DEF AddedTo
  <2> QED
    BY <1>2, <1>4, <1>10, <2>2, <2>4, ScriptKeeps
<1> QED
  <2>1. h.op = "begin" /\ h.route # pointPage.route => pointPage' = pointPage
    BY <1>6 DEF beginPointSelect
  <2>2. h.op = "cancel" /\ pointPage.pick.token # h.token => pointPage' = pointPage
    BY <1>6 DEF cancelPointSelect
  <2> QED
    BY <1>5, <1>7, <1>8, <1>9, <1>10, <2>1, <2>2

\* What a report makes of the desktop's entry: nothing, or, of a pending entry of
\* that request, the state the report is of.
LEMMA CompleteIs ==
  ASSUME NEW entry, DOMAIN entry = {"token", "state", "route", "reference", "generation"},
         NEW told \in PointReport, NEW generation
  PROVE  LET new == complete(entry, told, generation)
         IN \/ new = entry
            \/ /\ DOMAIN new = DOMAIN entry /\ new.token = entry.token /\ new.route = entry.route
               /\ entry.token = told.token /\ entry.state = "Pending"
               /\ \/ new.state \in {"Pending", "Failed"}
                  \/ new.state = "Cancelled" /\ told.status = "cancelled"
                  \/ /\ new.state = "Selected" /\ told.status = "selected"
                     /\ new.reference = told.reference /\ new.generation = generation
<1> DEFINE new == complete(entry, told, generation)
           failed == Fail(entry)
<1>1. /\ DOMAIN failed = DOMAIN entry /\ failed.token = entry.token /\ failed.route = entry.route
      /\ failed.state = "Failed"
  BY DEF Fail
<1>2. told.status \in {"armed", "selected", "cancelled", "failed"}
  BY DEF PointReport
<1>3. CASE entry.token # told.token \/ entry.state # "Pending"
  BY <1>3 DEF complete
<1>4. CASE entry.token = told.token /\ entry.state = "Pending" /\ new = failed
  BY <1>1, <1>4
<1>5. CASE /\ entry.token = told.token /\ entry.state = "Pending" /\ entry.route = told.route
           /\ told.status = "armed" /\ entry.generation \in {0, generation}
  <2>1. new = [entry EXCEPT !.generation = generation]
    BY <1>5 DEF complete
  <2> QED
    BY <1>5, <2>1
<1>6. CASE /\ entry.token = told.token /\ entry.state = "Pending" /\ entry.route = told.route
           /\ told.status # "armed" /\ entry.generation = generation
  <2>1. PICK state : state = CASE told.status = "selected" -> "Selected"
                               [] told.status = "cancelled" -> "Cancelled"
                               [] told.status = "failed" -> "Failed"
    OBVIOUS
  <2>2. new = [entry EXCEPT !.reference = told.reference, !.state = state]
    BY <1>6, <2>1 DEF complete
  <2>3. /\ DOMAIN new = DOMAIN entry /\ new.token = entry.token /\ new.route = entry.route
        /\ new.state = state /\ new.reference = told.reference /\ new.generation = generation
    BY <1>6, <2>2
  <2>4. CASE told.status = "selected"
    BY <1>6, <2>1, <2>3, <2>4
  <2>5. CASE told.status = "cancelled"
    BY <1>6, <2>1, <2>3, <2>5
  <2>6. CASE told.status = "failed"
    BY <1>6, <2>1, <2>3, <2>6
  <2> QED
    BY <1>2, <1>6, <2>4, <2>5, <2>6
<1>7. \/ entry.token # told.token \/ entry.state # "Pending"
      \/ new = failed
      \/ entry.route = told.route /\ told.status = "armed" /\ entry.generation \in {0, generation}
      \/ entry.route = told.route /\ told.status # "armed" /\ entry.generation = generation
  BY DEF complete
<1> QED
  BY <1>3, <1>4, <1>5, <1>6, <1>7

\* The bridge takes the page's reports, and the desktop learns from the oldest.
LEMMA BridgeKeeps ==
  ASSUME PointInv, bridge_reports
  PROVE  PointInv'
<1>1. /\ PageShape(pointPage, pointPanel.token) /\ pointPanel.token \in Nat
      /\ pointPage.pick.down # Nothing => pointPage.pick.pressed = pointPage.pick.down
  BY PageShapeHolds
<1>2. /\ pointPage.reports # <<>> /\ pointPage.reports \in Seq(PointReport)
      /\ UNCHANGED <<pointPanel, pointCalls, pointScripts, pointSeen>>
  BY <1>1 DEF bridge_reports, PageShape
<1>3. PICK told : told = Head(pointPage.reports)
  OBVIOUS
<1>4. PICK rest : rest = Tail(pointPage.reports)
  OBVIOUS
<1>5. /\ told = pointPage.reports[1] /\ 1 \in 1..Len(pointPage.reports) /\ told \in PointReport
      /\ rest \in Seq(PointReport) /\ Len(rest) = Len(pointPage.reports) - 1
      /\ \A i \in 1..Len(rest) : i + 1 \in 1..Len(pointPage.reports) /\ rest[i] = pointPage.reports[i + 1]
  <2>1. Len(pointPage.reports) \in Nat \ {0}
    BY <1>2
  <2>2. /\ Head(pointPage.reports) = pointPage.reports[1]
        /\ Tail(pointPage.reports) \in Seq(PointReport) /\ Len(Tail(pointPage.reports)) = Len(pointPage.reports) - 1
        /\ \A i \in 1..Len(Tail(pointPage.reports)) : Tail(pointPage.reports)[i] = pointPage.reports[i + 1]
    BY <1>2, HeadTailProperties
  <2> QED
    BY <1>2, <1>3, <1>4, <2>1, <2>2
<1>6. \/ /\ pointEntry' = complete(pointEntry, told, pointPage.generation)
         /\ pointPage' = [pointPage EXCEPT !.reports = rest]
      \/ pointPage' = [pointPage EXCEPT !.reports = <<>>] /\ pointEntry' = pointEntry
  BY <1>3, <1>4 DEF bridge_reports
<1>7. PICK left : pointPage' = [pointPage EXCEPT !.reports = left] /\ left \in {rest, <<>>}
  BY <1>6
<1>8. /\ left \in Seq(PointReport) /\ Len(left) <= Len(pointPage.reports)
      /\ \A i \in 1..Len(left) : \E j \in 1..Len(pointPage.reports) : left[i] = pointPage.reports[j]
  <2>1. Len(pointPage.reports) \in Nat
    BY <1>2
  <2>2. CASE left = rest
    BY <1>5, <2>1, <2>2
  <2>3. CASE left = <<>>
    BY <2>1, <2>3
  <2> QED
    BY <1>7, <2>2, <2>3
<1>9. /\ DOMAIN pointPage' = PointPageFields /\ pointPage'.reports = left /\ pointPage'.pick = pointPage.pick
      /\ pointPage'.generation = pointPage.generation /\ pointPage'.route = pointPage.route
  BY <1>1, <1>7 DEF PageShape, PointPageFields
<1>10. PageShape(pointPage', pointPanel.token)
  <2>1. Len(left) <= PointReports
    BY <1>1, <1>2, <1>8, PointAssumption DEF PageShape, PointAssumption
  <2> QED
    BY <1>1, <1>8, <1>9, <2>1 DEF PageShape
<1>11. DOMAIN pointEntry = {"token", "state", "route", "reference", "generation"}
  BY DEF PointInv, PointTyped, PanelTyped
<1>12. \/ pointEntry' = pointEntry
       \/ /\ DOMAIN pointEntry' = DOMAIN pointEntry /\ pointEntry'.token = pointEntry.token
          /\ pointEntry'.route = pointEntry.route
          /\ pointEntry.token = told.token /\ pointEntry.state = "Pending"
          /\ \/ pointEntry'.state \in {"Pending", "Failed"}
             \/ pointEntry'.state = "Cancelled" /\ told.status = "cancelled"
             \/ /\ pointEntry'.state = "Selected" /\ told.status = "selected"
                /\ pointEntry'.reference = told.reference /\ pointEntry'.generation = pointPage.generation
  BY <1>5, <1>6, <1>11, CompleteIs
<1>13. PointTyped'
  <2>1. PageTyped'
    BY <1>2, <1>10 DEF PageTyped, PageShape
  <2>2. PanelTyped'
    BY <1>2, <1>12 DEF PointInv, PointTyped, PanelTyped, PointPhases, Nothing
  <2>3. ScriptsTyped'
    BY <1>2 DEF PointInv, PointTyped, ScriptsTyped
  <2> QED
    BY <2>1, <2>2, <2>3 DEF PointTyped
<1>14. PointedIsKept'
  <2>1. \A i \in 1..Len(pointPage'.reports) :
          pointPage'.reports[i].status = "selected" =>
            <<pointPage'.reports[i].token, pointPage'.reports[i].reference, pointPage'.generation>>
              \in pointSeen'.pointed
    BY <1>2, <1>8, <1>9 DEF PointInv, PointedIsKept
  <2>2. SelectedWasPointedAt'
    <3>1. CASE pointEntry' = pointEntry
      BY <1>2, <3>1 DEF PointInv, PointedIsKept, SelectedWasPointedAt
    <3>2. CASE pointEntry'.state = "Selected" /\ told.status = "selected"
                 /\ pointEntry'.reference = told.reference /\ pointEntry'.generation = pointPage.generation
                 /\ pointEntry'.token = told.token
      BY <1>2, <1>5, <3>2 DEF PointInv, PointedIsKept, SelectedWasPointedAt
    <3>3. CASE pointEntry'.state # "Selected"
      BY <3>3 DEF SelectedWasPointedAt
    <3> QED
      BY <1>12, <3>1, <3>2, <3>3
  <2> QED
    BY <1>1, <1>9, <2>1, <2>2 DEF PointedIsKept
<1>15. ASSUME ~pointSeen.disturbed
       PROVE  Undisturbed'
  <2>1. BeginsAreInOrder /\ EarlierIsSuperseded /\ BeginsAreEnded /\ OverIsOver
    BY <1>15 DEF PointInv
  <2>2. /\ pointEntry'.token = pointEntry.token /\ pointPage'.pick = pointPage.pick
        /\ pointPage'.route = pointPage.route
    BY <1>9, <1>12
  <2>3. BeginsAreInOrder'
    BY <1>2, <2>1, <2>2 DEF BeginsAreInOrder
  <2>4. EarlierIsSuperseded'
    BY <1>2, <2>1, <2>2 DEF EarlierIsSuperseded, Superseded
  <2>5. BeginsAreEnded'
    BY <1>2, <2>1, <2>2 DEF BeginsAreEnded, BeginAt, CancelAfter, Ending
  <2>6. \A i \in 1..Len(left) : left[i].status \in {"selected", "cancelled"} =>
          LET token == left[i].token
          IN /\ 0 < token /\ token <= pointEntry.token /\ token # pointPage.pick.token
             /\ \A call \in pointCalls : call.op = "arm" => token < call.token
             /\ \A k \in 1..Len(pointScripts) : pointScripts[k].op = "begin" => token < pointScripts[k].token
    BY <1>8, <2>1 DEF OverIsOver
  <2>7. ASSUME pointEntry'.state \in OverStates
        PROVE  /\ \A call \in pointCalls : call.op # "arm"
               /\ \A k \in 1..Len(pointScripts) : BeginAt(k) => CancelAfter(k)
               /\ pointPage.pick.token # 0 /\ pointPage.pick.token = pointEntry.token => CancelAfter(0)
    <3>1. CASE pointEntry' = pointEntry
      BY <2>1, <2>7, <3>1 DEF OverIsOver
    <3>2. CASE pointEntry.token = told.token /\ told.status \in {"selected", "cancelled"}
      <4>1. PICK token : token = told.token
        OBVIOUS
      <4>2. /\ token # pointPage.pick.token /\ token = pointEntry.token
            /\ \A call \in pointCalls : call.op = "arm" => token < call.token
            /\ \A k \in 1..Len(pointScripts) : pointScripts[k].op = "begin" => token < pointScripts[k].token
        BY <1>5, <2>1, <3>2, <4>1 DEF OverIsOver
      <4>3. /\ token \in Nat /\ \A call \in pointCalls : call.op = "arm" => call.token = token
        BY <1>5, <2>1, <4>1, <4>2 DEF BeginsAreInOrder, PointReport
      <4>4. \A call \in pointCalls : call.op # "arm"
        BY <4>2, <4>3
      <4>5. \A k \in 1..Len(pointScripts) : ~BeginAt(k)
        BY <4>2, <4>3 DEF BeginAt
      <4> QED
        BY <4>2, <4>4, <4>5
    <3>3. pointEntry'.state \notin {"Pending", "Failed"}
      BY <2>7 DEF OverStates
    <3> QED
      BY <1>12, <3>1, <3>2, <3>3
  <2>8. OverIsOver'
    BY <1>2, <1>9, <2>2, <2>6, <2>7 DEF OverIsOver, BeginAt, CancelAfter
  <2> QED
    BY <2>3, <2>4, <2>5, <2>8 DEF Undisturbed
<1> QED
  BY <1>2, <1>13, <1>14, <1>15 DEF PointInv, Undisturbed

\* The types that a step of the desktop or the panel needs.
LEMMA NumbersAre ==
  ASSUME PointInv
  PROVE  /\ pointPanel.token \in Nat /\ pointEntry.token \in Nat /\ pointPage.pick.token \in Nat
         /\ pointEntry.token <= pointPanel.token
         /\ pointScripts \in Seq(PointScript) /\ Len(pointScripts) \in Nat
         /\ \A call \in pointCalls : call \in PointCall /\ call.token \in 1..pointPanel.token /\ call.token \in Nat \ {0}
         /\ \A i \in 1..Len(pointScripts) : pointScripts[i].token \in Nat \ {0}
         /\ \A i \in 1..Len(pointPage.reports) : pointPage.reports[i].token \in Nat
<1>1. pointPage.reports \in Seq(PointReport)
  BY DEF PointInv, PointTyped, PageTyped
<1>2. ASSUME NEW i \in 1..Len(pointPage.reports)
      PROVE  pointPage.reports[i].token \in Nat
  <2>1. pointPage.reports[i] \in PointReport
    BY <1>1
  <2> QED
    BY <2>1 DEF PointReport
<1> QED
  BY <1>2 DEF PointInv, PointTyped, PageTyped, ScriptsTyped, PanelTyped

\* A script that is sent waits behind those the surface has.
LEMMA SentIs ==
  ASSUME PointInv, NEW script \in PointScript, pointScripts' = Append(pointScripts, script)
  PROVE  /\ pointScripts' \in Seq(PointScript) /\ Len(pointScripts') = Len(pointScripts) + 1
         /\ \A i \in 1..Len(pointScripts) : i \in 1..Len(pointScripts') /\ pointScripts'[i] = pointScripts[i]
         /\ \A i \in 1..Len(pointScripts') : i = Len(pointScripts') \/ i \in 1..Len(pointScripts)
         /\ pointScripts'[Len(pointScripts')] = script
         /\ Len(pointScripts') \in 1..Len(pointScripts') /\ Len(pointScripts') > Len(pointScripts)
BY NumbersAre, AppendProperties

\* A begin is handled: the entry is its, and its script is about to be sent.
LEMMA BeginKeeps ==
  ASSUME PointInv, point_select_begin
  PROVE  PointInv'
<1>1. PICK call \in pointCalls :
        /\ call.op = "begin"
        /\ pointEntry' = [NoEntry EXCEPT !.token = call.token, !.state = "Pending", !.route = pointPage.route]
        /\ pointCalls' = (pointCalls \ {call}) \cup {[op |-> "arm", token |-> call.token, route |-> pointPage.route]}
        /\ Overtake(call.token - 1)
        /\ UNCHANGED <<pointPanel, pointScripts, pointPage>>
  BY DEF point_select_begin
<1> DEFINE arm == [op |-> "arm", token |-> call.token, route |-> pointPage.route]
<1>2. /\ DOMAIN pointEntry' = {"token", "state", "route", "reference", "generation"}
      /\ pointEntry'.token = call.token /\ pointEntry'.state = "Pending" /\ pointEntry'.route = pointPage.route
  BY <1>1 DEF NoEntry
<1>3. /\ pointPanel.token \in Nat /\ pointEntry.token \in Nat /\ pointPage.pick.token \in Nat
      /\ pointEntry.token <= pointPanel.token
      /\ \A other \in pointCalls : other \in PointCall /\ other.token \in 1..pointPanel.token /\ other.token \in Nat \ {0}
      /\ \A i \in 1..Len(pointScripts) : pointScripts[i].token \in Nat \ {0}
      /\ \A i \in 1..Len(pointPage.reports) : pointPage.reports[i].token \in Nat
  BY NumbersAre
<1>4. pointPage.route \in PointRoutes /\ arm \in PointCall /\ arm.op = "arm" /\ arm.token = call.token
      /\ arm.route = pointPage.route
  BY <1>1, <1>3 DEF PointInv, PointTyped, PageTyped, PointCall
<1>5. pointCalls' = (pointCalls \ {call}) \cup {arm}
  BY <1>1
<1> HIDE DEF arm
<1>6. /\ DOMAIN pointSeen = {"pointed", "disturbed"}
      /\ pointSeen' = [pointSeen EXCEPT !.disturbed = pointSeen.disturbed
                         \/ \E c \in pointCalls : c.op # "cancel" /\ c.token <= call.token - 1]
  BY <1>1 DEF Overtake, PointInv, PointTyped, PanelTyped
<1>7. /\ DOMAIN pointSeen' = {"pointed", "disturbed"} /\ pointSeen'.pointed = pointSeen.pointed
      /\ ~pointSeen'.disturbed => /\ ~pointSeen.disturbed
                                  /\ \A c \in pointCalls : c.op # "cancel" => ~(c.token <= call.token - 1)
  BY <1>6
<1>8. PointTyped'
  <2>1. PageTyped'
    BY <1>1 DEF PointInv, PointTyped, PageTyped
  <2>2. ScriptsTyped'
    BY <1>1, <1>3, <1>4, <1>5 DEF PointInv, PointTyped, ScriptsTyped
  <2>3. PanelTyped'
    BY <1>1, <1>2, <1>3, <1>4, <1>7 DEF PointInv, PointTyped, PanelTyped, PointPhases, Nothing
  <2> QED
    BY <2>1, <2>2, <2>3 DEF PointTyped
<1>9. PointedIsKept'
  BY <1>1, <1>2, <1>7 DEF PointInv, PointedIsKept, SelectedWasPointedAt
<1>10. ASSUME ~pointSeen'.disturbed
       PROVE  Undisturbed'
  <2>1. BeginsAreInOrder /\ EarlierIsSuperseded /\ BeginsAreEnded /\ OverIsOver
    BY <1>7, <1>10 DEF PointInv
  <2>2. call.token > pointEntry.token
    BY <1>1, <2>1 DEF BeginsAreInOrder
  <2>3. \A other \in pointCalls : other.op # "arm"
    <3> SUFFICES ASSUME NEW other \in pointCalls, other.op = "arm" PROVE FALSE
      OBVIOUS
    <3>1. other.token = pointEntry.token
      BY <2>1 DEF BeginsAreInOrder
    <3>2. ~(other.token <= call.token - 1)
      BY <1>7, <1>10
    <3> QED
      BY <1>3, <2>2, <3>1, <3>2
  <2>4. \A other \in pointCalls \ {call} : other.op = "begin" => other.token > call.token
    <3> SUFFICES ASSUME NEW other \in pointCalls, other # call, other.op = "begin"
                 PROVE  other.token > call.token
      OBVIOUS
    <3>1. ~(other.token <= call.token - 1)
      BY <1>7, <1>10
    <3>2. other.token # call.token
      BY <1>1, <1>3 DEF PointCall
    <3> QED
      BY <1>3, <3>1, <3>2
  <2>5. /\ pointPage.pick.token < call.token
        /\ \A i \in 1..Len(pointScripts) : pointScripts[i].op = "begin" => pointScripts[i].token < call.token
    BY <1>3, <2>1, <2>2 DEF BeginsAreInOrder
  <2>6. BeginsAreInOrder'
    <3>1. \A other \in pointCalls' : other.op = "begin" => other.token > pointEntry'.token
      BY <1>2, <1>4, <1>5, <2>4
    <3>2. \A other \in pointCalls' : other.op = "arm" => other = arm
      BY <1>5, <2>3
    <3>3. pointPanel.phase = "polling" => \A other \in pointCalls' : other.op # "cancel" => other.token # pointPanel.token
      BY <1>1, <1>4, <1>5, <2>1 DEF BeginsAreInOrder
    <3>4. \A i \in 1..Len(pointScripts) : pointScripts[i].op = "begin" =>
            /\ pointScripts[i].token <= call.token /\ pointScripts[i].route = pointPage.route
            /\ pointPage.pick.token < pointScripts[i].token
      BY <1>3, <2>1, <2>5 DEF BeginsAreInOrder
    <3>5. pointPage.pick.token <= call.token
      BY <1>3, <2>5
    <3>6. \A i, j \in 1..Len(pointScripts) :
            i < j /\ pointScripts[i].op = "begin" /\ pointScripts[j].op = "begin" =>
              pointScripts[i].token < pointScripts[j].token
      BY <2>1 DEF BeginsAreInOrder
    <3> QED
      BY <1>1, <1>2, <1>4, <2>5, <3>1, <3>2, <3>3, <3>4, <3>5, <3>6 DEF BeginsAreInOrder
  <2>7. EarlierIsSuperseded'
    BY <1>4, <1>5 DEF EarlierIsSuperseded, Superseded
  <2>8. BeginsAreEnded'
    <3>1. \A other \in pointCalls : other.op = "cancel" => other \in pointCalls'
      BY <1>1, <1>5
    <3>2. \A other \in pointCalls : other.op # "cancel" => Ending(other.token)'
      BY <1>1, <2>1, <3>1 DEF BeginsAreEnded, Ending
    <3>3. \A other \in pointCalls' : other.op # "cancel" => Ending(other.token)'
      BY <1>1, <1>4, <1>5, <3>2
    <3>4. \A k \in 1..Len(pointScripts') : ~BeginAt(k)'
      BY <1>1, <1>2, <1>3, <2>5 DEF BeginAt
    <3>5. pointPage'.pick.token # pointEntry'.token
      BY <1>1, <1>2, <1>3, <2>5
    <3> QED
      BY <3>3, <3>4, <3>5 DEF BeginsAreEnded
  <2>9. OverIsOver'
    <3> SUFFICES ASSUME NEW i \in 1..Len(pointPage.reports), pointPage.reports[i].status \in {"selected", "cancelled"}
                 PROVE  LET token == pointPage.reports[i].token
                        IN /\ 0 < token /\ token <= call.token /\ token # pointPage.pick.token
                           /\ \A other \in pointCalls' : other.op = "arm" => token < other.token
                           /\ \A k \in 1..Len(pointScripts) : pointScripts[k].op = "begin" => token < pointScripts[k].token
      BY <1>1, <1>2 DEF OverIsOver, OverStates
    <3>1. PICK token \in Nat : token = pointPage.reports[i].token
      BY <1>3
    <3>2. /\ 0 < token /\ token <= pointEntry.token /\ token # pointPage.pick.token
          /\ \A k \in 1..Len(pointScripts) : pointScripts[k].op = "begin" => token < pointScripts[k].token
      BY <2>1, <3>1 DEF OverIsOver
    <3>3. token < call.token
      BY <1>3, <2>2, <3>2
    <3>4. \A other \in pointCalls' : other.op = "arm" => token < other.token
      BY <1>4, <1>5, <2>3, <3>3
    <3>5. token <= call.token
      BY <1>3, <3>3
    <3> QED
      BY <3>1, <3>2, <3>4, <3>5
  <2> QED
    BY <2>6, <2>7, <2>8, <2>9 DEF Undisturbed
<1> QED
  BY <1>8, <1>9, <1>10 DEF PointInv, Undisturbed

\* The begin's script is sent, and the panel polls.
LEMMA BeginScriptKeeps ==
  ASSUME PointInv, begin_script
  PROVE  PointInv'
<1>1. PICK call \in pointCalls :
        /\ call.op = "arm"
        /\ Send("begin", call.token, call.route)
        /\ pointCalls' = pointCalls \ {call}
        /\ pointPanel' = IF pointPanel = [phase |-> "opening", token |-> call.token]
                           THEN [pointPanel EXCEPT !.phase = "polling"] ELSE pointPanel
        /\ UNCHANGED <<pointEntry, pointPage, pointSeen>>
  BY DEF begin_script
<1> DEFINE script == [op |-> "begin", token |-> call.token, route |-> call.route]
<1>2. /\ pointPanel.token \in Nat /\ pointEntry.token \in Nat /\ pointPage.pick.token \in Nat
      /\ pointEntry.token <= pointPanel.token /\ Len(pointScripts) \in Nat
      /\ \A other \in pointCalls : other \in PointCall /\ other.token \in 1..pointPanel.token /\ other.token \in Nat \ {0}
      /\ \A i \in 1..Len(pointScripts) : pointScripts[i].token \in Nat \ {0}
      /\ \A i \in 1..Len(pointPage.reports) : pointPage.reports[i].token \in Nat
  BY NumbersAre
<1>3. script \in PointScript /\ script.op = "begin" /\ script.token = call.token /\ script.route = call.route
  BY <1>1, <1>2 DEF PointScript, PointCall
<1>4. pointScripts' = Append(pointScripts, script)
  BY <1>1 DEF Send
<1> HIDE DEF script
<1>5. /\ pointScripts' \in Seq(PointScript) /\ Len(pointScripts') = Len(pointScripts) + 1
      /\ \A i \in 1..Len(pointScripts) : i \in 1..Len(pointScripts') /\ pointScripts'[i] = pointScripts[i]
      /\ \A i \in 1..Len(pointScripts') : i = Len(pointScripts') \/ i \in 1..Len(pointScripts)
      /\ pointScripts'[Len(pointScripts')] = script
      /\ Len(pointScripts') \in 1..Len(pointScripts') /\ Len(pointScripts') > Len(pointScripts)
  BY <1>3, <1>4, SentIs
<1>6. DOMAIN pointPanel = {"phase", "token"}
  BY DEF PointInv, PointTyped, PanelTyped
<1>7. /\ DOMAIN pointPanel' = {"phase", "token"} /\ pointPanel'.token = pointPanel.token
      /\ pointPanel'.phase = "idle" <=> pointPanel.phase = "idle"
      /\ pointPanel'.phase \in {pointPanel.phase, "polling"}
      /\ pointPanel'.phase # pointPanel.phase => pointPanel.token = call.token
  BY <1>1, <1>6
<1>8. PointTyped'
  <2>1. PageTyped'
    BY <1>1, <1>7 DEF PointInv, PointTyped, PageTyped
  <2>2. \A i \in 1..Len(pointScripts') : pointScripts'[i].token \in 1..pointPanel'.token
    BY <1>2, <1>3, <1>5, <1>7 DEF PointInv, PointTyped, ScriptsTyped
  <2>3. ScriptsTyped'
    BY <1>1, <1>5, <1>7, <2>2 DEF PointInv, PointTyped, ScriptsTyped
  <2>4. PanelTyped'
    BY <1>1, <1>7 DEF PointInv, PointTyped, PanelTyped
  <2> QED
    BY <2>1, <2>3, <2>4 DEF PointTyped
<1>9. PointedIsKept'
  BY <1>1 DEF PointInv, PointedIsKept, SelectedWasPointedAt
<1>10. ASSUME ~pointSeen.disturbed
       PROVE  Undisturbed'
  <2>1. BeginsAreInOrder /\ EarlierIsSuperseded /\ BeginsAreEnded /\ OverIsOver
    BY <1>10 DEF PointInv
  <2>2. /\ call.token = pointEntry.token /\ call.route = pointPage.route /\ pointPage.pick.token < call.token
        /\ \A i \in 1..Len(pointScripts) : pointScripts[i].op = "begin" => pointScripts[i].token < call.token
    BY <1>1, <2>1 DEF BeginsAreInOrder
  <2>3. \A other \in pointCalls' : other \in pointCalls /\ other.op # "arm"
    BY <1>1, <2>1 DEF BeginsAreInOrder
  <2>4. BeginsAreInOrder'
    <3>1. \A i \in 1..Len(pointScripts') : pointScripts'[i].op = "begin" =>
            /\ pointScripts'[i].token <= pointEntry.token /\ pointScripts'[i].route = pointPage.route
            /\ pointPage.pick.token < pointScripts'[i].token
      <4> SUFFICES ASSUME NEW i \in 1..Len(pointScripts'), pointScripts'[i].op = "begin"
                   PROVE  /\ pointScripts'[i].token <= pointEntry.token /\ pointScripts'[i].route = pointPage.route
                          /\ pointPage.pick.token < pointScripts'[i].token
        OBVIOUS
      <4>1. CASE i = Len(pointScripts')
        BY <1>2, <1>3, <1>5, <2>2, <4>1
      <4>2. CASE i \in 1..Len(pointScripts)
        BY <1>5, <2>1, <4>2 DEF BeginsAreInOrder
      <4> QED
        BY <1>5, <4>1, <4>2
    <3>2. \A i, j \in 1..Len(pointScripts') :
            i < j /\ pointScripts'[i].op = "begin" /\ pointScripts'[j].op = "begin" =>
              pointScripts'[i].token < pointScripts'[j].token
      <4> SUFFICES ASSUME NEW i \in 1..Len(pointScripts'), NEW j \in 1..Len(pointScripts'), i < j,
                          pointScripts'[i].op = "begin", pointScripts'[j].op = "begin"
                   PROVE  pointScripts'[i].token < pointScripts'[j].token
        OBVIOUS
      <4>1. i \in 1..Len(pointScripts) /\ pointScripts'[i] = pointScripts[i]
        BY <1>2, <1>5
      <4>2. CASE j = Len(pointScripts')
        BY <1>3, <1>5, <2>2, <4>1, <4>2
      <4>3. CASE j \in 1..Len(pointScripts)
        BY <1>5, <2>1, <4>1, <4>3 DEF BeginsAreInOrder
      <4> QED
        BY <1>5, <4>2, <4>3
    <3>3. \A other \in pointCalls' : other.op = "begin" => other.token > pointEntry.token
      BY <2>1, <2>3 DEF BeginsAreInOrder
    <3>4. pointPanel'.phase = "polling" => \A other \in pointCalls' : other.op # "cancel" => other.token # pointPanel'.token
      <4> SUFFICES ASSUME pointPanel'.phase = "polling", NEW other \in pointCalls', other.op # "cancel"
                   PROVE  other.token # pointPanel.token
        BY <1>7
      <4>1. CASE pointPanel.phase = "polling"
        BY <2>1, <2>3, <4>1 DEF BeginsAreInOrder
      <4>2. CASE pointPanel.phase # "polling"
        <5>1. pointPanel.token = pointEntry.token
          BY <1>7, <2>2, <4>2
        <5>2. other.op = "begin"
          BY <1>2, <2>3 DEF PointCall
        <5>3. other.token > pointEntry.token /\ other.token \in Nat
          BY <1>2, <2>3, <3>3, <5>2
        <5> QED
          BY <1>2, <5>1, <5>3
      <4> QED
        BY <4>1, <4>2
    <3>5. pointPage.pick.token <= pointEntry.token
      BY <2>1 DEF BeginsAreInOrder
    <3> QED
      BY <1>1, <2>3, <3>1, <3>2, <3>3, <3>4, <3>5 DEF BeginsAreInOrder
  <2>5. EarlierIsSuperseded'
    BY <1>1, <1>3, <1>5, <2>2 DEF EarlierIsSuperseded, Superseded
  <2>6. \A other \in pointCalls : other.op = "cancel" => other \in pointCalls'
    BY <1>1
  <2>7. \A other \in pointCalls : other.op # "cancel" => Ending(other.token)'
    BY <1>7, <2>1, <2>6 DEF BeginsAreEnded, Ending
  <2>8. pointPage.pick.token # pointEntry.token
    BY <1>2, <2>2
  <2>9. BeginsAreEnded'
    <3>1. Ending(pointEntry.token)'
      BY <1>1, <2>2, <2>7
    <3>2. \A other \in pointCalls' : other.op # "cancel" => Ending(other.token)'
      BY <2>3, <2>7
    <3> QED
      BY <1>1, <2>8, <3>1, <3>2 DEF BeginsAreEnded
  <2>10. OverIsOver'
    <3>1. pointEntry'.state \notin OverStates
      BY <1>1, <2>1 DEF OverIsOver
    <3> SUFFICES ASSUME NEW i \in 1..Len(pointPage.reports), pointPage.reports[i].status \in {"selected", "cancelled"}
                 PROVE  LET token == pointPage.reports[i].token
                        IN /\ 0 < token /\ token <= pointEntry.token /\ token # pointPage.pick.token
                           /\ \A other \in pointCalls' : other.op = "arm" => token < other.token
                           /\ \A k \in 1..Len(pointScripts') : pointScripts'[k].op = "begin" => token < pointScripts'[k].token
      BY <1>1, <3>1 DEF OverIsOver
    <3>2. PICK token \in Nat : token = pointPage.reports[i].token
      BY <1>2
    <3>3. /\ 0 < token /\ token <= pointEntry.token /\ token # pointPage.pick.token
          /\ token < call.token
          /\ \A k \in 1..Len(pointScripts) : pointScripts[k].op = "begin" => token < pointScripts[k].token
      BY <1>1, <2>1, <3>2 DEF OverIsOver
    <3>4. \A k \in 1..Len(pointScripts') : pointScripts'[k].op = "begin" => token < pointScripts'[k].token
      BY <1>3, <1>5, <3>3
    <3> QED
      BY <2>3, <3>2, <3>3, <3>4
  <2> QED
    BY <2>4, <2>5, <2>9, <2>10 DEF Undisturbed
<1> QED
  BY <1>1, <1>8, <1>9, <1>10 DEF PointInv, Undisturbed

\* A cancellation that goes to the page, or a probe, puts no begin in the queue:
\* what is to be ended by a cancellation of the entry's request still is.
LEMMA QuietScriptKeeps ==
  ASSUME PointInv, NEW script \in PointScript, script.op # "begin", pointScripts' = Append(pointScripts, script),
         pointEntry'.token = pointEntry.token
  PROVE  /\ \A k \in 1..Len(pointScripts') : BeginAt(k)' => k \in 1..Len(pointScripts) /\ BeginAt(k)
         /\ \A k \in 1..Len(pointScripts) : BeginAt(k) => BeginAt(k)'
         /\ \A k \in 0..Len(pointScripts) : CancelAfter(k) => CancelAfter(k)'
         /\ script.op = "cancel" /\ script.token = pointEntry.token =>
              \A k \in 0..Len(pointScripts) : CancelAfter(k)'
         /\ \A k \in 1..Len(pointScripts') : pointScripts'[k].op = "begin" =>
              k \in 1..Len(pointScripts) /\ pointScripts'[k] = pointScripts[k]
<1>1. /\ pointScripts' \in Seq(PointScript) /\ Len(pointScripts') = Len(pointScripts) + 1
      /\ \A i \in 1..Len(pointScripts) : i \in 1..Len(pointScripts') /\ pointScripts'[i] = pointScripts[i]
      /\ \A i \in 1..Len(pointScripts') : i = Len(pointScripts') \/ i \in 1..Len(pointScripts)
      /\ pointScripts'[Len(pointScripts')] = script
      /\ Len(pointScripts') \in 1..Len(pointScripts') /\ Len(pointScripts') > Len(pointScripts)
  BY SentIs
<1>2. \A k \in 1..Len(pointScripts') : pointScripts'[k].op = "begin" =>
        k \in 1..Len(pointScripts) /\ pointScripts'[k] = pointScripts[k]
  BY <1>1
<1>3. \A k \in 0..Len(pointScripts) : CancelAfter(k) => CancelAfter(k)'
  BY <1>1 DEF CancelAfter
<1>4. Len(pointScripts) \in Nat
  BY NumbersAre
<1>5. script.op = "cancel" /\ script.token = pointEntry.token =>
        \A k \in 0..Len(pointScripts) : CancelAfter(k)'
  <2> SUFFICES ASSUME script.op = "cancel", script.token = pointEntry.token, NEW k \in 0..Len(pointScripts)
               PROVE  CancelAfter(k)'
    OBVIOUS
  <2>1. Len(pointScripts') > k
    BY <1>1, <1>4
  <2> QED
    BY <1>1, <2>1 DEF CancelAfter
<1> QED
  BY <1>1, <1>2, <1>3, <1>5 DEF BeginAt

\* A step that sends at most a cancellation or a probe, changes the entry to what
\* it may become, and leaves an end for every begin.
LEMMA QuietStepKeeps ==
  ASSUME PointInv, UNCHANGED pointPage, pointPanel'.token = pointPanel.token, DOMAIN pointPanel' = DOMAIN pointPanel,
         pointPanel'.phase \in {pointPanel.phase, "idle"},
         pointCalls' \subseteq pointCalls, pointSeen'.pointed = pointSeen.pointed, DOMAIN pointSeen' = DOMAIN pointSeen,
         DOMAIN pointEntry' = DOMAIN pointEntry, pointEntry'.token = pointEntry.token, pointEntry'.route = pointEntry.route,
         pointEntry'.state \in PointPhases \cup {Nothing}, pointEntry'.state = Nothing => pointEntry.state = Nothing,
         pointEntry'.state = "Selected" => pointEntry' = pointEntry,
         \/ pointScripts' = pointScripts
         \/ \E script \in PointScript : /\ script.op # "begin" /\ script.token \in 1..pointPanel.token
                                         /\ pointScripts' = Append(pointScripts, script),
         \A call \in pointCalls : call.op = "arm" => call \in pointCalls',
         ~pointSeen'.disturbed =>
           /\ ~pointSeen.disturbed
           /\ \A call \in pointCalls : call.op # "cancel" => Ending(call.token)'
           /\ \A k \in 1..Len(pointScripts) : BeginAt(k) => Ending(pointEntry.token)' \/ CancelAfter(k)'
           /\ pointPage.pick.token # 0 /\ pointPage.pick.token = pointEntry.token =>
                Ending(pointEntry.token)' \/ CancelAfter(0)'
           /\ pointEntry'.state \in OverStates =>
                /\ \A call \in pointCalls : call.op # "arm"
                /\ \A k \in 1..Len(pointScripts) : BeginAt(k) => CancelAfter(k)'
                /\ pointPage.pick.token # 0 /\ pointPage.pick.token = pointEntry.token => CancelAfter(0)'
  PROVE  PointInv'
<1>1. /\ pointPanel.token \in Nat /\ pointEntry.token \in Nat /\ pointPage.pick.token \in Nat
      /\ pointEntry.token <= pointPanel.token /\ Len(pointScripts) \in Nat
  BY NumbersAre
<1>2. /\ pointScripts' \in Seq(PointScript)
      /\ \A i \in 1..Len(pointScripts') : pointScripts'[i].token \in 1..pointPanel.token
      /\ \A k \in 1..Len(pointScripts') : pointScripts'[k].op = "begin" =>
           k \in 1..Len(pointScripts) /\ pointScripts'[k] = pointScripts[k]
      /\ \A k \in 1..Len(pointScripts) : BeginAt(k) => k \in 1..Len(pointScripts') /\ BeginAt(k)'
  <2>1. CASE pointScripts' = pointScripts
    BY <2>1 DEF BeginAt, PointInv, PointTyped, ScriptsTyped
  <2>2. CASE pointScripts' # pointScripts
    <3>1. PICK script \in PointScript : /\ script.op # "begin" /\ script.token \in 1..pointPanel.token
                                         /\ pointScripts' = Append(pointScripts, script)
      BY <2>2
    <3>2. /\ pointScripts' \in Seq(PointScript)
          /\ \A i \in 1..Len(pointScripts) : i \in 1..Len(pointScripts') /\ pointScripts'[i] = pointScripts[i]
          /\ \A i \in 1..Len(pointScripts') : i = Len(pointScripts') \/ i \in 1..Len(pointScripts)
          /\ pointScripts'[Len(pointScripts')] = script
      BY <3>1, SentIs
    <3> QED
      BY <3>1, <3>2 DEF BeginAt, PointInv, PointTyped, ScriptsTyped
  <2> QED
    BY <2>1, <2>2
<1>3. PointTyped'
  <2>1. PageTyped'
    BY DEF PointInv, PointTyped, PageTyped
  <2>2. ScriptsTyped'
    BY <1>2 DEF PointInv, PointTyped, ScriptsTyped
  <2>3. PanelTyped'
    BY DEF PointInv, PointTyped, PanelTyped
  <2> QED
    BY <2>1, <2>2, <2>3 DEF PointTyped
<1>4. PointedIsKept'
  BY DEF PointInv, PointedIsKept, SelectedWasPointedAt
<1>5. ASSUME ~pointSeen'.disturbed
      PROVE  Undisturbed'
  <2>1. BeginsAreInOrder /\ EarlierIsSuperseded /\ BeginsAreEnded /\ OverIsOver
    BY <1>5 DEF PointInv
  <2>2. BeginsAreInOrder'
    <3>1. \A i \in 1..Len(pointScripts') : pointScripts'[i].op = "begin" =>
            /\ pointScripts'[i].token <= pointEntry.token /\ pointScripts'[i].route = pointPage.route
            /\ pointPage.pick.token < pointScripts'[i].token
            /\ \A call \in pointCalls' : call.op = "arm" => pointScripts'[i].token < call.token
      BY <1>2, <2>1 DEF BeginsAreInOrder
    <3>2. \A i, j \in 1..Len(pointScripts') :
            i < j /\ pointScripts'[i].op = "begin" /\ pointScripts'[j].op = "begin" =>
              pointScripts'[i].token < pointScripts'[j].token
      BY <1>2, <2>1 DEF BeginsAreInOrder
    <3>3. pointPanel'.phase = "polling" => pointPanel.phase = "polling"
      OBVIOUS
    <3>4. /\ \A call \in pointCalls' : call.op = "begin" => call.token > pointEntry.token
          /\ \A call \in pointCalls' : call.op = "arm" =>
               /\ call.token = pointEntry.token /\ call.route = pointPage.route
               /\ \A other \in pointCalls' : other.op = "arm" => other = call
               /\ pointPage.pick.token < call.token
          /\ pointPage.pick.token <= pointEntry.token
          /\ pointPanel'.phase = "polling" => \A call \in pointCalls' : call.op # "cancel" => call.token # pointPanel.token
      BY <2>1, <3>3 DEF BeginsAreInOrder
    <3> QED
      BY <3>1, <3>2, <3>4 DEF BeginsAreInOrder
  <2>3. EarlierIsSuperseded'
    <3>1. \A i \in 1..Len(pointScripts) : pointScripts[i].op = "begin" /\ pointScripts[i].token = pointEntry.token =>
            i \in 1..Len(pointScripts') /\ pointScripts'[i].op = "begin" /\ pointScripts'[i].token = pointEntry.token
      BY <1>2 DEF BeginAt
    <3> QED
      BY <1>2, <2>1, <3>1 DEF EarlierIsSuperseded, Superseded
  <2>4. \A k \in 1..Len(pointScripts') : BeginAt(k)' => k \in 1..Len(pointScripts) /\ BeginAt(k)
    BY <1>2 DEF BeginAt
  <2>5. BeginsAreEnded'
    BY <1>5, <2>4 DEF BeginsAreEnded
  <2>6. \A i \in 1..Len(pointPage.reports) : pointPage.reports[i].status \in {"selected", "cancelled"} =>
          LET token == pointPage.reports[i].token
          IN /\ 0 < token /\ token <= pointEntry.token /\ token # pointPage.pick.token
             /\ \A call \in pointCalls' : call.op = "arm" => token < call.token
             /\ \A k \in 1..Len(pointScripts') : pointScripts'[k].op = "begin" => token < pointScripts'[k].token
    BY <1>2, <2>1 DEF OverIsOver
  <2>7. OverIsOver'
    BY <1>5, <2>4, <2>6 DEF OverIsOver
  <2> QED
    BY <2>2, <2>3, <2>5, <2>7 DEF Undisturbed
<1> QED
  BY <1>3, <1>4, <1>5 DEF PointInv, Undisturbed

\* A cancellation reaches the desktop: it ends what the entry's request has of
\* listeners, or is of a request that is not the entry's.
LEMMA CancelKeeps ==
  ASSUME PointInv, point_select_cancel
  PROVE  PointInv'
<1>1. PICK call \in pointCalls :
        /\ call.op = "cancel" /\ pointCalls' = pointCalls \ {call}
        /\ IF pointEntry.token = call.token
             THEN pointEntry' = cancel /\ Send("cancel", call.token, pointEntry.route)
             ELSE UNCHANGED <<pointEntry, pointScripts>>
        /\ Overtake(call.token)
        /\ UNCHANGED <<pointPanel, pointPage>>
  BY DEF point_select_cancel
<1> DEFINE script == [op |-> "cancel", token |-> call.token, route |-> pointEntry.route]
<1>2. /\ pointPanel.token \in Nat /\ pointEntry.token \in Nat /\ Len(pointScripts) \in Nat
      /\ call.token \in 1..pointPanel.token /\ call.token \in Nat
      /\ \A other \in pointCalls : other.token \in Nat
  BY NumbersAre
<1>3. /\ DOMAIN pointSeen = {"pointed", "disturbed"}
      /\ DOMAIN pointEntry = {"token", "state", "route", "reference", "generation"}
      /\ pointEntry.state \in PointPhases \cup {Nothing} /\ pointEntry.route \in PointRoutes
  BY DEF PointInv, PointTyped, PanelTyped
<1>4. script \in PointScript /\ script.op = "cancel" /\ script.token = call.token
  BY <1>2, <1>3 DEF PointScript
<1>5. pointEntry.token = call.token => pointScripts' = Append(pointScripts, script)
  BY <1>1 DEF Send
<1> HIDE DEF script
<1>6. pointSeen' = [pointSeen EXCEPT !.disturbed = pointSeen.disturbed
                      \/ \E c \in pointCalls : c.op # "cancel" /\ c.token <= call.token]
  BY <1>1 DEF Overtake
<1>7. /\ DOMAIN pointSeen' = DOMAIN pointSeen /\ pointSeen'.pointed = pointSeen.pointed
      /\ ~pointSeen'.disturbed => /\ ~pointSeen.disturbed
                                  /\ \A c \in pointCalls : c.op # "cancel" => ~(c.token <= call.token)
  BY <1>3, <1>6
<1>8. \/ pointEntry' = pointEntry
      \/ /\ DOMAIN pointEntry' = DOMAIN pointEntry /\ pointEntry'.token = pointEntry.token
         /\ pointEntry'.route = pointEntry.route /\ pointEntry'.state = "Cancelled"
  <2>1. cancel \in {pointEntry, [pointEntry EXCEPT !.state = "Cancelled"]}
    BY DEF cancel
  <2> QED
    BY <1>1, <1>3, <2>1
<1>9. /\ DOMAIN pointEntry' = DOMAIN pointEntry /\ pointEntry'.token = pointEntry.token
      /\ pointEntry'.route = pointEntry.route /\ pointEntry'.state \in PointPhases \cup {Nothing}
      /\ pointEntry'.state = Nothing => pointEntry.state = Nothing
      /\ pointEntry'.state = "Selected" => pointEntry' = pointEntry
  BY <1>3, <1>8 DEF PointPhases, Nothing
<1>10. ASSUME ~pointSeen'.disturbed
       PROVE  /\ ~pointSeen.disturbed
              /\ \A other \in pointCalls : other.op # "cancel" => Ending(other.token)'
              /\ \A k \in 1..Len(pointScripts) : BeginAt(k) => Ending(pointEntry.token)' \/ CancelAfter(k)'
              /\ pointPage.pick.token # 0 /\ pointPage.pick.token = pointEntry.token =>
                   Ending(pointEntry.token)' \/ CancelAfter(0)'
              /\ pointEntry'.state \in OverStates =>
                   /\ \A other \in pointCalls : other.op # "arm"
                   /\ \A k \in 1..Len(pointScripts) : BeginAt(k) => CancelAfter(k)'
                   /\ pointPage.pick.token # 0 /\ pointPage.pick.token = pointEntry.token => CancelAfter(0)'
  <2>1. BeginsAreInOrder /\ BeginsAreEnded /\ OverIsOver /\ ~pointSeen.disturbed
    BY <1>7, <1>10 DEF PointInv
  <2>2. ASSUME NEW token \in Nat, token # call.token, Ending(token)
        PROVE  Ending(token)'
    BY <1>1, <2>2 DEF Ending
  <2>3. \A other \in pointCalls : other.op # "cancel" => Ending(other.token)'
    <3> SUFFICES ASSUME NEW other \in pointCalls, other.op # "cancel" PROVE Ending(other.token)'
      OBVIOUS
    <3>1. PICK token \in Nat : token = other.token
      BY <1>2
    <3>2. token # call.token
      BY <1>2, <1>7, <1>10, <3>1
    <3>3. Ending(token)
      BY <2>1, <3>1 DEF BeginsAreEnded
    <3>4. Ending(token)'
      BY <2>2, <3>2, <3>3
    <3> QED
      BY <1>1, <3>1, <3>4 DEF Ending
  <2>4. CASE pointEntry.token = call.token
    <3>1. \A k \in 0..Len(pointScripts) : CancelAfter(k)'
      BY <1>4, <1>5, <1>9, <2>4, QuietScriptKeeps
    <3>2. \A other \in pointCalls : other.op # "arm"
      <4> SUFFICES ASSUME NEW other \in pointCalls, other.op = "arm" PROVE FALSE
        OBVIOUS
      <4>1. other.token = call.token
        BY <2>1, <2>4 DEF BeginsAreInOrder
      <4> QED
        BY <1>2, <1>7, <1>10, <4>1
    <3>3. 0 \in 0..Len(pointScripts) /\ \A k \in 1..Len(pointScripts) : k \in 0..Len(pointScripts)
      BY <1>2
    <3> QED
      BY <2>1, <2>3, <3>1, <3>2, <3>3
  <2>5. CASE pointEntry.token # call.token
    <3>1. UNCHANGED <<pointEntry, pointScripts>>
      BY <1>1, <2>5
    <3>2. \A k : CancelAfter(k) => CancelAfter(k)'
      BY <3>1 DEF CancelAfter
    <3>3. Ending(pointEntry.token) => Ending(pointEntry.token)'
      <4>1. PICK token \in Nat : token = pointEntry.token
        BY <1>2
      <4>2. Ending(token) => Ending(token)'
        BY <2>2, <2>5, <4>1
      <4> QED
        BY <3>1, <4>1, <4>2 DEF Ending
    <3> QED
      BY <2>1, <2>3, <3>1, <3>2, <3>3 DEF BeginsAreEnded, OverIsOver
  <2> QED
    BY <2>4, <2>5
<1>11. \/ pointScripts' = pointScripts
       \/ \E sent \in PointScript : /\ sent.op # "begin" /\ sent.token \in 1..pointPanel.token
                                    /\ pointScripts' = Append(pointScripts, sent)
  BY <1>1, <1>2, <1>4, <1>5
<1>12. \A other \in pointCalls : other.op = "arm" => other \in pointCalls'
  BY <1>1
<1>13. /\ pointPanel' = pointPanel /\ pointPage' = pointPage /\ pointCalls' \subseteq pointCalls
  BY <1>1
<1> QED
  BY <1>7, <1>9, <1>10, <1>11, <1>12, <1>13, QuietStepKeeps

\* The panel's poll: it goes idle only over a request that is over, that is not
\* the entry's, or that a cancellation now follows.
LEMMA StatusKeeps ==
  ASSUME PointInv, point_select_status
  PROVE  PointInv'
<1>1. /\ pointPanel.phase = "polling" /\ UNCHANGED <<pointCalls, pointPage, pointSeen>>
      /\ \E expired \in BOOLEAN :
           IF pointEntry.token # pointPanel.token
             THEN pointPanel' = [pointPanel EXCEPT !.phase = "idle"] /\ UNCHANGED <<pointEntry, pointScripts>>
             ELSE /\ pointEntry' = status(expired) /\ status_script(status(expired))
                  /\ pointPanel' = IF status(expired).state = "Pending" THEN pointPanel
                                                                        ELSE [pointPanel EXCEPT !.phase = "idle"]
  BY DEF point_select_status
<1>2. /\ pointPanel.token \in Nat /\ pointEntry.token \in Nat /\ Len(pointScripts) \in Nat
      /\ \A call \in pointCalls : call.token \in Nat \ {0}
      /\ \A i \in 1..Len(pointScripts) : pointScripts[i].token \in Nat \ {0}
  BY NumbersAre
<1>3. /\ DOMAIN pointPanel = {"phase", "token"} /\ pointPanel.token # 0
      /\ DOMAIN pointEntry = {"token", "state", "route", "reference", "generation"}
      /\ pointEntry.state \in PointPhases \cup {Nothing} /\ pointEntry.route \in PointRoutes
      /\ pointEntry.state = Nothing => pointEntry.token = 0
  BY <1>1 DEF PointInv, PointTyped, PanelTyped
<1>4. /\ pointPanel'.token = pointPanel.token /\ DOMAIN pointPanel' = DOMAIN pointPanel
      /\ pointPanel'.phase \in {pointPanel.phase, "idle"}
  BY <1>1, <1>3
<1>5. \A call \in pointCalls : call.op = "arm" => call \in pointCalls'
  BY <1>1
<1>6. ASSUME ~pointSeen.disturbed
      PROVE  /\ BeginsAreInOrder /\ BeginsAreEnded /\ OverIsOver
             /\ \A call \in pointCalls : call.op # "cancel" => Ending(call.token)'
  <2>1. BeginsAreInOrder /\ BeginsAreEnded /\ OverIsOver
    BY <1>6 DEF PointInv
  <2>2. ASSUME NEW call \in pointCalls, call.op # "cancel"
        PROVE  Ending(call.token)'
    <3>1. call.token # pointPanel.token /\ Ending(call.token)
      BY <1>1, <2>1, <2>2 DEF BeginsAreInOrder, BeginsAreEnded
    <3> QED
      BY <1>1, <3>1 DEF Ending
  <2> QED
    BY <2>1, <2>2
<1>7. CASE pointEntry.token # pointPanel.token
  <2>1. UNCHANGED <<pointEntry, pointScripts>> /\ pointPanel'.phase = "idle"
    BY <1>1, <1>3, <1>7
  <2>2. \A k : CancelAfter(k) => CancelAfter(k)'
    BY <2>1 DEF CancelAfter
  <2>3. Ending(pointEntry.token) => Ending(pointEntry.token)'
    BY <1>1, <1>7, <2>1 DEF Ending
  <2>4. ~pointSeen.disturbed =>
          /\ \A k \in 1..Len(pointScripts) : BeginAt(k) => Ending(pointEntry.token)' \/ CancelAfter(k)'
          /\ pointPage.pick.token # 0 /\ pointPage.pick.token = pointEntry.token =>
               Ending(pointEntry.token)' \/ CancelAfter(0)'
          /\ pointEntry'.state \in OverStates =>
               /\ \A call \in pointCalls : call.op # "arm"
               /\ \A k \in 1..Len(pointScripts) : BeginAt(k) => CancelAfter(k)'
               /\ pointPage.pick.token # 0 /\ pointPage.pick.token = pointEntry.token => CancelAfter(0)'
    BY <1>6, <2>1, <2>2, <2>3 DEF BeginsAreEnded, OverIsOver
  <2> QED
    BY <1>1, <1>3, <1>4, <1>5, <1>6, <2>1, <2>4, QuietStepKeeps
<1>8. CASE pointEntry.token = pointPanel.token
  <2>1. PICK expired \in BOOLEAN :
          /\ pointEntry' = status(expired) /\ status_script(status(expired))
          /\ pointPanel' = IF status(expired).state = "Pending" THEN pointPanel
                                                                ELSE [pointPanel EXCEPT !.phase = "idle"]
    BY <1>1, <1>8
  <2>2. pointEntry' = pointEntry \/ pointEntry' = Fail(pointEntry)
    BY <2>1 DEF status
  <2>3. /\ DOMAIN pointEntry' = DOMAIN pointEntry /\ pointEntry'.token = pointEntry.token
        /\ pointEntry'.route = pointEntry.route
        /\ pointEntry' = pointEntry \/ pointEntry'.state = "Failed"
    <3>1. CASE pointEntry' = Fail(pointEntry)
      BY <1>3, <3>1 DEF Fail
    <3> QED
      BY <2>2, <3>1
  <2>4. /\ pointEntry'.state \in PointPhases \cup {Nothing} /\ pointEntry'.state \in PointPhases
        /\ pointEntry'.state = Nothing => pointEntry.state = Nothing
        /\ pointEntry'.state = "Selected" => pointEntry' = pointEntry
    BY <1>3, <1>8, <2>3 DEF PointPhases, Nothing
  <2> DEFINE stop == [op |-> "cancel", token |-> pointEntry'.token, route |-> pointEntry'.route]
             probe == [op |-> "probe", token |-> pointEntry'.token, route |-> pointEntry'.route]
  <2>5. /\ stop \in PointScript /\ stop.op = "cancel" /\ stop.token = pointEntry.token
        /\ probe \in PointScript /\ probe.op = "probe" /\ probe.token = pointEntry.token
        /\ pointEntry.token \in 1..pointPanel.token
    BY <1>2, <1>3, <1>8, <2>3 DEF PointScript
  <2>6. /\ pointEntry'.state = "Failed" => pointScripts' = Append(pointScripts, stop)
        /\ pointEntry'.state = "Pending" => pointScripts' = Append(pointScripts, probe)
        /\ pointEntry'.state \notin {"Failed", "Pending"} => pointScripts' = pointScripts
    BY <2>1 DEF status_script, Send
  <2> HIDE DEF stop, probe
  <2>7. \/ pointScripts' = pointScripts
        \/ \E script \in PointScript : /\ script.op # "begin" /\ script.token \in 1..pointPanel.token
                                        /\ pointScripts' = Append(pointScripts, script)
    BY <2>5, <2>6
  <2>8. 0 \in 0..Len(pointScripts) /\ \A k \in 1..Len(pointScripts) : k \in 0..Len(pointScripts)
    BY <1>2
  <2>9. ASSUME ~pointSeen.disturbed
        PROVE  /\ \A k \in 1..Len(pointScripts) : BeginAt(k) => Ending(pointEntry.token)' \/ CancelAfter(k)'
               /\ pointPage.pick.token # 0 /\ pointPage.pick.token = pointEntry.token =>
                    Ending(pointEntry.token)' \/ CancelAfter(0)'
               /\ pointEntry'.state \in OverStates =>
                    /\ \A call \in pointCalls : call.op # "arm"
                    /\ \A k \in 1..Len(pointScripts) : BeginAt(k) => CancelAfter(k)'
                    /\ pointPage.pick.token # 0 /\ pointPage.pick.token = pointEntry.token => CancelAfter(0)'
    <3>1. CASE pointEntry'.state = "Failed"
      <4>1. \A k \in 0..Len(pointScripts) : CancelAfter(k)'
        BY <2>3, <2>5, <2>6, <3>1, QuietScriptKeeps
      <4> QED
        BY <2>8, <3>1, <4>1 DEF OverStates
    <3>2. CASE pointEntry'.state = "Pending"
      <4>1. pointPanel' = pointPanel
        BY <2>1, <3>2
      <4>2. Ending(pointEntry.token)'
        BY <1>1, <1>8, <2>3, <4>1 DEF Ending
      <4> QED
        BY <3>2, <4>2 DEF OverStates
    <3>3. CASE pointEntry'.state \in OverStates
      <4>1. pointEntry' = pointEntry /\ pointScripts' = pointScripts
        BY <2>3, <2>6, <3>3 DEF OverStates
      <4>2. \A k : CancelAfter(k) => CancelAfter(k)'
        BY <4>1 DEF CancelAfter
      <4> QED
        BY <1>6, <2>9, <3>3, <4>1, <4>2 DEF OverIsOver
    <3> QED
      BY <2>4, <3>1, <3>2, <3>3 DEF PointPhases, OverStates
  <2> QED
    BY <1>1, <1>3, <1>4, <1>5, <1>6, <2>3, <2>4, <2>7, <2>9, QuietStepKeeps
<1> QED
  BY <1>7, <1>8

\* The panel opens a request or stops: the one it owned until now has a
\* cancellation on its way.
LEMMA PanelStepKeeps ==
  ASSUME PointInv, panel_begins \/ panel_cancels
  PROVE  PointInv'
<1> DEFINE stop == [op |-> "cancel", token |-> pointPanel.token, route |-> Nothing]
           begin == [op |-> "begin", token |-> pointPanel.token + 1, route |-> Nothing]
<1>1. UNCHANGED <<pointEntry, pointScripts, pointPage, pointSeen>>
  BY DEF panel_begins, panel_cancels
<1>2. /\ pointPanel.token \in Nat /\ pointEntry.token \in Nat /\ pointPage.pick.token \in Nat
      /\ pointEntry.token <= pointPanel.token
      /\ \A call \in pointCalls : call \in PointCall /\ call.token \in 1..pointPanel.token /\ call.token \in Nat \ {0}
  BY NumbersAre
<1>3. DOMAIN pointPanel = {"phase", "token"} /\ (pointPanel.phase # "idle" => pointPanel.token # 0)
  BY DEF PointInv, PointTyped, PanelTyped
<1>4. /\ stop \in PointCall /\ stop.op = "cancel" /\ stop.token = pointPanel.token
      /\ begin \in PointCall /\ begin.op = "begin" /\ begin.token = pointPanel.token + 1
  BY <1>2 DEF PointCall
<1>5. Owned = IF pointPanel.phase = "idle" THEN {} ELSE {stop}
  BY DEF Owned
<1>6. \/ /\ pointPanel' = [phase |-> "opening", token |-> pointPanel.token + 1]
         /\ pointCalls' = pointCalls \cup Owned \cup {begin}
      \/ /\ pointPanel' = [pointPanel EXCEPT !.phase = "idle"] /\ pointCalls' = pointCalls \cup Owned
  BY DEF panel_begins, panel_cancels
<1> HIDE DEF stop, begin
<1>7. /\ DOMAIN pointPanel' = {"phase", "token"} /\ pointPanel'.token \in Nat
      /\ pointPanel.token <= pointPanel'.token /\ pointPanel'.phase \in {"idle", "opening"}
      /\ pointPanel'.phase # "idle" => pointPanel'.token # 0
  BY <1>2, <1>3, <1>6
<1>8. /\ pointCalls \subseteq pointCalls' /\ pointCalls' \subseteq pointCalls \cup {stop, begin}
      /\ pointPanel.phase # "idle" => stop \in pointCalls'
      /\ stop \in pointCalls' => stop \in pointCalls \/ pointPanel.phase # "idle"
      /\ begin \in pointCalls' => 
           begin \in pointCalls \/ (pointPanel'.phase = "opening" /\ pointPanel'.token = begin.token)
  <2>1. stop # begin
    BY <1>4
  <2>2. CASE pointCalls' = pointCalls \cup Owned \cup {begin} /\ pointPanel' = [phase |-> "opening", token |-> pointPanel.token + 1]
    <3>1. pointPanel'.phase = "opening" /\ pointPanel'.token = begin.token
      BY <1>4, <2>2
    <3> QED
      BY <1>5, <2>1, <2>2, <3>1
  <2>3. CASE pointCalls' = pointCalls \cup Owned
    BY <1>5, <2>1, <2>3
  <2> QED
    BY <1>6, <2>2, <2>3
<1>9. PointTyped'
  <2>1. PageTyped'
    BY <1>1, <1>2, <1>7 DEF PointInv, PointTyped, PageTyped
  <2>2. \A call \in pointCalls' : call \in PointCall /\ call.token \in 1..pointPanel'.token
    <3> SUFFICES ASSUME NEW call \in pointCalls' PROVE call \in PointCall /\ call.token \in 1..pointPanel'.token
      OBVIOUS
    <3>1. CASE call \in pointCalls
      BY <1>2, <1>7, <3>1
    <3>2. CASE call = stop /\ call \notin pointCalls
      BY <1>2, <1>3, <1>4, <1>7, <1>8, <3>2
    <3>3. CASE call = begin /\ call \notin pointCalls
      BY <1>2, <1>4, <1>7, <1>8, <3>3
    <3> QED
      BY <1>8, <3>1, <3>2, <3>3
  <2>3. \A i \in 1..Len(pointScripts) : pointScripts[i].token \in 1..pointPanel'.token
    BY <1>2, <1>7 DEF PointInv, PointTyped, ScriptsTyped
  <2>4. ScriptsTyped'
    BY <1>1, <2>2, <2>3 DEF PointInv, PointTyped, ScriptsTyped
  <2>5. PanelTyped'
    BY <1>1, <1>2, <1>7 DEF PointInv, PointTyped, PanelTyped
  <2> QED
    BY <2>1, <2>4, <2>5 DEF PointTyped
<1>10. PointedIsKept'
  BY <1>1 DEF PointInv, PointedIsKept, SelectedWasPointedAt
<1>11. ASSUME ~pointSeen.disturbed
       PROVE  Undisturbed'
  <2>1. BeginsAreInOrder /\ EarlierIsSuperseded /\ BeginsAreEnded /\ OverIsOver
    BY <1>11 DEF PointInv
  <2>2. \A call \in pointCalls' : call.op = "arm" => call \in pointCalls
    BY <1>4, <1>8
  <2>3. BeginsAreInOrder'
    <3>1. \A call \in pointCalls' : call.op = "begin" => call.token > pointEntry.token
      BY <1>2, <1>4, <1>8, <2>1 DEF BeginsAreInOrder
    <3>2. \A call \in pointCalls' : call.op = "arm" =>
            /\ call.token = pointEntry.token /\ call.route = pointPage.route
            /\ \A other \in pointCalls' : other.op = "arm" => other = call
            /\ pointPage.pick.token < call.token
            /\ \A i \in 1..Len(pointScripts) : pointScripts[i].op = "begin" => pointScripts[i].token < call.token
      BY <2>1, <2>2 DEF BeginsAreInOrder
    <3> QED
      BY <1>1, <1>7, <2>1, <3>1, <3>2 DEF BeginsAreInOrder
  <2>4. EarlierIsSuperseded'
    BY <1>1, <1>8, <2>1 DEF EarlierIsSuperseded, Superseded
  <2>5. \A token : Ending(token) => Ending(token)'
    BY <1>4, <1>8 DEF Ending
  <2>6. \A call \in pointCalls' : call.op # "cancel" => Ending(call.token)'
    <3> SUFFICES ASSUME NEW call \in pointCalls', call.op # "cancel" PROVE Ending(call.token)'
      OBVIOUS
    <3>1. CASE call \in pointCalls
      BY <2>1, <2>5, <3>1 DEF BeginsAreEnded
    <3>2. CASE call = begin /\ call \notin pointCalls
      <4>1. pointPanel'.phase # "idle" /\ pointPanel'.token = call.token
        BY <1>8, <3>2
      <4> QED
        BY <4>1 DEF Ending
    <3> QED
      BY <1>4, <1>8, <3>1, <3>2
  <2>7. BeginsAreEnded'
    <3>1. Ending(pointEntry.token) => Ending(pointEntry.token)'
      <4>1. PICK token : token = pointEntry.token
        OBVIOUS
      <4>2. Ending(token) => Ending(token)'
        BY <2>5
      <4> QED
        BY <1>1, <4>1, <4>2 DEF Ending
    <3> QED
      BY <1>1, <2>1, <2>6, <3>1 DEF BeginsAreEnded, BeginAt, CancelAfter
  <2>8. OverIsOver'
    <3>1. pointEntry.state \in OverStates => \A call \in pointCalls' : call.op # "arm"
      BY <2>1, <2>2 DEF OverIsOver
    <3>2. \A i \in 1..Len(pointPage.reports) : pointPage.reports[i].status \in {"selected", "cancelled"} =>
            LET token == pointPage.reports[i].token
            IN /\ 0 < token /\ token <= pointEntry.token /\ token # pointPage.pick.token
               /\ \A call \in pointCalls' : call.op = "arm" => token < call.token
               /\ \A k \in 1..Len(pointScripts) : pointScripts[k].op = "begin" => token < pointScripts[k].token
      BY <2>1, <2>2 DEF OverIsOver
    <3> QED
      BY <1>1, <2>1, <3>1, <3>2 DEF OverIsOver, BeginAt, CancelAfter
  <2> QED
    BY <2>3, <2>4, <2>7, <2>8 DEF Undisturbed
<1> QED
  BY <1>1, <1>9, <1>10, <1>11 DEF PointInv, Undisturbed

\* Before the first request nothing is under way.
LEMMA PointInitHolds ==
  ASSUME PointInit
  PROVE  PointInv
<1>1. /\ pointPanel = [phase |-> "idle", token |-> 0] /\ pointCalls = {} /\ pointEntry = NoEntry
      /\ pointScripts = <<>> /\ pointPage = Document(1, "r1")
      /\ pointSeen = [pointed |-> {}, disturbed |-> FALSE]
  BY DEF PointInit
<1>2. /\ DOMAIN pointPage = PointPageFields /\ pointPage.route \in PointRoutes
      /\ pointPage.pick = NoPick /\ pointPage.reports = <<>>
      /\ pointPage.generation \in 1..MaxPointDocuments
  BY <1>1, PointAssumption DEF Document, PointPageFields, PointRoutes, PointAssumption
<1>3. /\ DOMAIN NoPick = PickFields /\ NoPick.token = 0
      /\ NoPick.hovered = Nothing /\ NoPick.down = Nothing
  BY DEF NoPick, PickFields
<1>4. /\ DOMAIN pointEntry = {"token", "state", "route", "reference", "generation"}
      /\ pointEntry.token = 0 /\ pointEntry.state = Nothing /\ pointEntry.route \in PointRoutes
  BY <1>1 DEF NoEntry, PointRoutes
<1>5. pointPanel.phase = "idle" /\ pointPanel.token = 0 /\ DOMAIN pointPanel = {"phase", "token"}
  BY <1>1
<1>6. 1..Len(pointScripts) = {} /\ 1..Len(pointPage.reports) = {}
  BY <1>1, <1>2
<1>7. PointTyped
  <2>1. Len(pointPage.reports) <= PointReports
    BY <1>2, PointAssumption DEF PointAssumption
  <2>2. PageTyped
    <3>1. pointPage.pick.token \in 0..pointPanel.token
      BY <1>2, <1>3, <1>5
    <3> QED
      BY <1>2, <1>3, <2>1, <3>1 DEF PageTyped
  <2>3. ScriptsTyped
    BY <1>1, <1>6 DEF ScriptsTyped
  <2>4. PanelTyped
    BY <1>1, <1>4, <1>5 DEF PanelTyped
  <2> QED
    BY <2>2, <2>3, <2>4 DEF PointTyped
<1>8. PointedIsKept
  BY <1>2, <1>3, <1>4, <1>6 DEF PointedIsKept, SelectedWasPointedAt, Nothing
<1>9. BeginsAreInOrder /\ EarlierIsSuperseded /\ BeginsAreEnded /\ OverIsOver
  BY <1>1, <1>2, <1>3, <1>4, <1>5, <1>6
     DEF BeginsAreInOrder, EarlierIsSuperseded, BeginsAreEnded, OverIsOver, OverStates, Nothing
<1> QED
  BY <1>7, <1>8, <1>9 DEF PointInv

\* Every step of a selection keeps the invariant.
LEMMA PointStepKeeps ==
  ASSUME PointInv, [PointNext]_pointVars
  PROVE  PointInv'
<1>1. CASE UNCHANGED pointVars
  BY <1>1 DEF pointVars, PointInv, PointTyped, PageTyped, ScriptsTyped, PanelTyped, PointedIsKept,
     SelectedWasPointedAt, BeginsAreInOrder, EarlierIsSuperseded, Superseded, BeginsAreEnded, Ending,
     CancelAfter, BeginAt, OverIsOver
<1>2. CASE PointNext
  BY <1>2, ScriptStepKeeps, PointerStepKeeps, EndStepKeeps, ReloadKeeps, BridgeKeeps, BeginKeeps,
     BeginScriptKeeps, CancelKeeps, StatusKeeps, PanelStepKeeps DEF PointNext
<1> QED
  BY <1>1, <1>2

\* What the invariant says of a person's selection and of their clicks.
LEMMA PointInvSuffices ==
  ASSUME PointInv
  PROVE  SelectionIsThePersons /\ PointTypeOK
<1>1. SelectedWasPointedAt
  BY DEF PointInv, PointedIsKept
<1>2. ASSUME Settled, ~pointSeen.disturbed, Armed
      PROVE  FALSE
  <2>1. EarlierIsSuperseded /\ BeginsAreEnded
    BY <1>2 DEF PointInv
  <2>2. pointPage.pick.token # 0 /\ pointCalls = {} /\ 1..Len(pointScripts) = {} /\ pointPanel.phase = "idle"
    BY <1>2 DEF Settled, Armed, Pick
  <2>3. pointPage.pick.token = pointEntry.token
    BY <2>1, <2>2 DEF EarlierIsSuperseded, Superseded
  <2> QED
    BY <2>1, <2>2, <2>3 DEF BeginsAreEnded, Ending, CancelAfter
<1>3. ClicksAreGivenBack
  BY <1>2 DEF ClicksAreGivenBack
<1>4. PointTypeOK
  BY DEF PointInv, PointTyped, PageTyped, PanelTyped, PointTypeOK
<1> QED
  BY <1>1, <1>3, <1>4 DEF SelectionIsThePersons

\* A selection the desktop holds is one the person made in that document while
\* that request was armed; and when everything sent has run, in order, the page
\* has its clicks back.
THEOREM SelectionStaysThePersons == PointSpec => [](SelectionIsThePersons /\ PointTypeOK)
<1>1. PointInit => PointInv
  BY PointInitHolds
<1>2. PointInv /\ [PointNext]_pointVars => PointInv'
  BY PointStepKeeps
<1>3. PointInv => SelectionIsThePersons /\ PointTypeOK
  BY PointInvSuffices
<1> QED
  BY <1>1, <1>2, <1>3, PTL DEF PointSpec

-----------------------------------------------------------------------------
(* The responsive search: for every set of page styles, start widths and frame *)
(* heights.                                                                   *)

\* The greatest of a set of numbers, once it is known.
LEMMA MaxIs ==
  ASSUME NEW S \in SUBSET Int, NEW x \in S, \A y \in S : x >= y
  PROVE  Max(S) = x
<1>1. Max(S) \in S /\ \A y \in S : Max(S) >= y
  BY Zenon DEF Max
<1>2. PICK m \in S : m = Max(S) /\ m >= x
  BY <1>1
<1>3. m \in Int /\ x \in Int /\ x >= m
  BY <1>2
<1> QED
  BY <1>2, <1>3

\* The least of a set of numbers, once it is known.
LEMMA MinIs ==
  ASSUME NEW S \in SUBSET Int, NEW x \in S, \A y \in S : x <= y
  PROVE  Min(S) = x
<1>1. Min(S) \in S /\ \A y \in S : Min(S) <= y
  BY Zenon DEF Min
<1>2. PICK m \in S : m = Min(S) /\ m <= x
  BY <1>1
<1>3. m \in Int /\ x \in Int /\ x <= m
  BY <1>2
<1> QED
  BY <1>2, <1>3

-----------------------------------------------------------------------------
(* The verdict on one layout. *)

Body(w)   == Node("body", "none", Box(0, 0, w, ViewHeight), FALSE)
MenuButton      == Node("menu", "body", Box(10, 10, 80, 30), TRUE)
SendButton      == Node("send", "body", Box(110, 10, 80, 30), TRUE)
Pushed(w) == Node("send", "body", Box(w - 40, 10, 80, 30), TRUE)
Stacked   == Node("send", "body", Box(30, 20, 80, 30), TRUE)

\* What makes an observation fail.
Breaks(o) ==
  \E n \in o.nodes :
    \/ OutsideX(n, o.width)
    \/ n.interactive /\ OutsideY(n)
    \/ \E m \in o.nodes : n # m /\ n.interactive /\ m.interactive /\ Collide(n, m)

\* A deterministic issue is found exactly where something breaks
\* (evaluate_responsive_observation).
LEMMA DeterministicIssues ==
  ASSUME NEW o
  PROVE  (\E i \in IssuesOf(o) : i.class = "deterministic") <=> Breaks(o)
<1> DEFINE at(kind, refs, class) == Issue(kind, refs, class, {o.width})
           A == {at("HorizontalOverflow", {n.ref}, "deterministic") :
                   n \in {n \in o.nodes : OutsideX(n, o.width)}}
           B == {at("TextOrControlOutsideViewport", {n.ref}, "deterministic") :
                   n \in {n \in o.nodes : n.interactive /\ (OutsideX(n, o.width) \/ OutsideY(n))}}
           C == {at("Clipping", {n.ref, n.parent}, "suspected") :
                   n \in {n \in o.nodes : \E p \in o.nodes : p.ref = n.parent /\ Exceeds(n, p)}}
           P == {ab \in o.nodes \X o.nodes : /\ ab[1] # ab[2]
                                             /\ ab[1].interactive /\ ab[2].interactive
                                             /\ Collide(ab[1], ab[2])}
           D == {at("ControlCollision", {ab[1].ref, ab[2].ref}, "deterministic") : ab \in P}
<1>1. IssuesOf(o) = A \cup B \cup C \cup D
  BY Zenon DEF IssuesOf
<1>2. \A kind, refs, class : at(kind, refs, class).class = class
  BY DEF Issue
<1>3. (\E i \in A : TRUE) <=> \E n \in o.nodes : OutsideX(n, o.width)
  <2> HIDE DEF at
  <2> QED
    BY Zenon
<1>4. (\E i \in B : TRUE) <=> \E n \in o.nodes : n.interactive /\ (OutsideX(n, o.width) \/ OutsideY(n))
  <2> HIDE DEF at
  <2> QED
    BY Zenon
<1>5. (\E i \in D : TRUE) <=>
        \E n, m \in o.nodes : n # m /\ n.interactive /\ m.interactive /\ Collide(n, m)
  <2>1. ASSUME NEW i \in D
        PROVE  \E n, m \in o.nodes : n # m /\ n.interactive /\ m.interactive /\ Collide(n, m)
    <3>1. PICK ab \in P : TRUE
      BY Zenon
    <3> QED
      BY <3>1
  <2>2. ASSUME NEW n \in o.nodes, NEW m \in o.nodes,
               n # m, n.interactive, m.interactive, Collide(n, m)
        PROVE  \E i \in D : TRUE
    <3>1. <<n, m>> \in P
      BY <2>2
    <3>2. \E i \in D : TRUE
      <4> HIDE DEF at, P
      <4> QED
        BY <3>1, Zenon
    <3> QED
      BY <3>2
  <2> QED
    BY <2>1, <2>2
<1>6. \A i \in A \cup B \cup D : i.class = "deterministic"
  <2>1. \A i \in A : i.class = "deterministic"
    BY DEF Issue
  <2>2. \A i \in B : i.class = "deterministic"
    BY DEF Issue
  <2>3. \A i \in D : i.class = "deterministic"
    BY DEF Issue
  <2> HIDE DEF A, B, D
  <2> QED
    BY <2>1, <2>2, <2>3
<1>7. \A i \in C : i.class = "suspected"
  BY DEF Issue
<1> HIDE DEF A, B, C, D
<1>8. (\E i \in IssuesOf(o) : i.class = "deterministic") <=> \E i \in A \cup B \cup D : TRUE
  BY <1>1, <1>6, <1>7
<1> QED
  BY <1>3, <1>4, <1>5, <1>8 DEF Breaks

\* The greater and the lesser of two numbers.
LEMMA OfTwo ==
  ASSUME NEW a \in Int, NEW b \in Int, a <= b
  PROVE  Max({a, b}) = b /\ Max({b, a}) = b /\ Min({a, b}) = a /\ Min({b, a}) = a
<1>1. {a, b} \in SUBSET Int /\ a \in {a, b} /\ b \in {a, b} /\ {a, b} = {b, a}
  OBVIOUS
<1>2. (\A y \in {a, b} : b >= y) /\ (\A y \in {a, b} : a <= y)
  OBVIOUS
<1>3. PICK S : S = {a, b}
  OBVIOUS
<1>4. Max(S) = b /\ Min(S) = a
  BY <1>1, <1>2, <1>3, MaxIs, MinIs
<1> QED
  BY <1>1, <1>3, <1>4

\* Two controls side by side do not collide, two stacked ones do.
LEMMA Collisions ==
  /\ ~Collide(MenuButton, SendButton) /\ ~Collide(SendButton, MenuButton)
  /\ Collide(MenuButton, Stacked)
<1>1. /\ MenuButton.rect = Box(10, 10, 80, 30) /\ MenuButton.parent = "body" /\ MenuButton.ref = "menu"
      /\ SendButton.rect = Box(110, 10, 80, 30) /\ SendButton.parent = "body" /\ SendButton.ref = "send"
      /\ Stacked.rect = Box(30, 20, 80, 30) /\ Stacked.parent = "body" /\ Stacked.ref = "send"
  BY DEF MenuButton, SendButton, Stacked, Node
<1>2. \A x, y, w, h : /\ Box(x, y, w, h).x = x /\ Box(x, y, w, h).y = y
                      /\ BoxRight(Box(x, y, w, h)) = x + w /\ BoxBottom(Box(x, y, w, h)) = y + h
                      /\ BoxArea(Box(x, y, w, h)) = w * h
  BY DEF Box, BoxRight, BoxBottom, BoxArea
<1>3. /\ BoxRight(MenuButton.rect) = 90 /\ BoxBottom(MenuButton.rect) = 40 /\ BoxArea(MenuButton.rect) = 2400
      /\ MenuButton.rect.x = 10 /\ MenuButton.rect.y = 10
      /\ BoxRight(SendButton.rect) = 190 /\ BoxBottom(SendButton.rect) = 40 /\ BoxArea(SendButton.rect) = 2400
      /\ SendButton.rect.x = 110 /\ SendButton.rect.y = 10
      /\ BoxRight(Stacked.rect) = 110 /\ BoxBottom(Stacked.rect) = 50 /\ BoxArea(Stacked.rect) = 2400
      /\ Stacked.rect.x = 30 /\ Stacked.rect.y = 20
  BY <1>1, <1>2
<1>4. /\ Min({2400, 2400}) = 2400 /\ Min({40, 40}) = 40 /\ Max({10, 10}) = 10
      /\ Max({0, 30}) = 30
  <2>1. Min({2400, 2400}) = 2400
    BY OfTwo, 2400 \in Int
  <2>2. Min({40, 40}) = 40
    BY OfTwo, 40 \in Int
  <2>3. Max({10, 10}) = 10
    BY OfTwo, 10 \in Int
  <2>4. Max({0, 30}) = 30
    BY OfTwo
  <2> QED
    BY <2>1, <2>2, <2>3, <2>4
<1>5. Min({90, 190}) = 90 /\ Max({10, 110}) = 110 /\ Max({0, 90 - 110}) = 0
  BY OfTwo
<1>6. Min({190, 90}) = 90 /\ Max({110, 10}) = 110
  <2>1. Min({190, 90}) = 90
    BY OfTwo
  <2>2. Max({110, 10}) = 110
    BY OfTwo
  <2> QED
    BY <2>1, <2>2
<1>7. Min({90, 110}) = 90 /\ Max({10, 30}) = 30 /\ Max({0, 90 - 30}) = 60
  BY OfTwo
<1>8. Min({40, 50}) = 40 /\ Max({10, 20}) = 20 /\ Max({0, 40 - 20}) = 20
  <2>1. Min({40, 50}) = 40
    BY OfTwo
  <2>2. Max({10, 20}) = 20
    BY OfTwo
  <2>3. Max({0, 40 - 20}) = 20
    BY OfTwo
  <2> QED
    BY <2>1, <2>2, <2>3
<1>9. overlap_area(MenuButton.rect, SendButton.rect) = 0 /\ overlap_area(SendButton.rect, MenuButton.rect) = 0
  <2>1. overlap_area(MenuButton.rect, SendButton.rect) = 0 * 30
    <3>1. Min({BoxRight(MenuButton.rect), BoxRight(SendButton.rect)}) = 90 /\ Max({MenuButton.rect.x, SendButton.rect.x}) = 110
      BY <1>3, <1>5
    <3>2. Min({BoxBottom(MenuButton.rect), BoxBottom(SendButton.rect)}) = 40 /\ Max({MenuButton.rect.y, SendButton.rect.y}) = 10
      BY <1>3, <1>4
    <3>3. Max({0, 90 - 110}) = 0 /\ Max({0, 40 - 10}) = 30
      BY <1>4, <1>5, 40 - 10 = 30
    <3> QED
      BY <3>1, <3>2, <3>3, Zenon DEF overlap_area
  <2>2. overlap_area(SendButton.rect, MenuButton.rect) = 0 * 30
    <3>1. Min({BoxRight(SendButton.rect), BoxRight(MenuButton.rect)}) = 90 /\ Max({SendButton.rect.x, MenuButton.rect.x}) = 110
      BY <1>3, <1>6
    <3>2. Min({BoxBottom(SendButton.rect), BoxBottom(MenuButton.rect)}) = 40 /\ Max({SendButton.rect.y, MenuButton.rect.y}) = 10
      BY <1>3, <1>4
    <3>3. Max({0, 90 - 110}) = 0 /\ Max({0, 40 - 10}) = 30
      BY <1>4, <1>5, 40 - 10 = 30
    <3> QED
      BY <3>1, <3>2, <3>3, Zenon DEF overlap_area
  <2> QED
    BY <2>1, <2>2
<1>10. overlap_area(MenuButton.rect, Stacked.rect) = 1200
  BY <1>3, <1>7, <1>8 DEF overlap_area
<1> QED
  BY <1>1, <1>3, <1>4, <1>9, <1>10 DEF Collide

\* What a probe sees of one state of the page at one width (Probed).
Layout(style, hash, w, st) ==
  [width |-> w, state |-> st, nodes |-> LaidOut(style, w),
   print |-> hash.print[TreeOf(st, style, w)], whole |-> TreeOf(st, style, w) \in hash.whole,
   complete |-> ~ (Broken(style, w) /\ style.shape = "truncated")]

\* A page that is laid out well, or drops a control, shows nothing broken.
LEMMA SoundLayouts ==
  ASSUME NEW w \in MinWidth .. MaxWidth, NEW o, o.width = w,
         o.nodes = {Body(w), MenuButton, SendButton} \/ o.nodes = {Body(w), MenuButton}
  PROVE  ~Breaks(o)
<1>1. w \in Int /\ w >= 320
  BY DEF MinWidth, MaxWidth
<1>2. \A n \in {Body(w), MenuButton, SendButton} : ~OutsideX(n, o.width) /\ ~OutsideY(n)
  BY <1>1 DEF Body, MenuButton, SendButton, Node, Box, OutsideX, OutsideY, BoxRight, BoxBottom, ViewHeight
<1>3. Body(w).interactive = FALSE
  BY DEF Body, Node
<1>4. \A n, m \in {Body(w), MenuButton, SendButton} :
        n # m /\ n.interactive /\ m.interactive => ~Collide(n, m)
  BY <1>3, Collisions
<1> QED
  BY <1>2, <1>4 DEF Breaks

\* One that overflows or lets controls collide does.
LEMMA BrokenLayouts ==
  ASSUME NEW w \in MinWidth .. MaxWidth, NEW o, o.width = w,
         o.nodes = {Body(w), MenuButton, Pushed(w)} \/ o.nodes = {Body(w), MenuButton, Stacked}
  PROVE  Breaks(o)
<1>1. w \in Int
  BY DEF MinWidth, MaxWidth
<1>2. OutsideX(Pushed(w), w)
  BY <1>1 DEF Pushed, Node, Box, OutsideX, BoxRight
<1>3. MenuButton # Stacked /\ MenuButton.interactive /\ Stacked.interactive
  BY DEF MenuButton, Stacked, Node
<1>4. CASE o.nodes = {Body(w), MenuButton, Pushed(w)}
  BY <1>2, <1>4 DEF Breaks
<1>5. CASE o.nodes = {Body(w), MenuButton, Stacked}
  BY <1>3, <1>5, Collisions DEF Breaks
<1> QED
  BY <1>4, <1>5

\* What a style comes to at a width.
Judged(style, w) ==
  IF Broken(style, w) /\ style.shape = "truncated" THEN "inconclusive"
  ELSE IF Broken(style, w) /\ style.shape \in {"overflow", "collision"} THEN "fail" ELSE "pass"

\* The verdict of a probe is that of the page's style at its width
\* (evaluate_responsive_observation).
LEMMA VerdictOfLayout ==
  ASSUME NEW style \in PageStyles, NEW w \in MinWidth .. MaxWidth, NEW st, NEW hash
  PROVE  evaluate_observation(Layout(style, hash, w, st)).state = Judged(style, w)
<1>1. PICK o : o = Layout(style, hash, w, st)
  OBVIOUS
<1>2. /\ o.width = w /\ o.nodes = LaidOut(style, w)
      /\ o.complete = ~(Broken(style, w) /\ style.shape = "truncated")
  BY <1>1 DEF Layout
<1>3. evaluate_observation(o).state =
        IF ~o.complete THEN "inconclusive" ELSE IF Breaks(o) THEN "fail" ELSE "pass"
  BY DeterministicIssues DEF evaluate_observation
<1>4. style.shape \in Shapes
  BY ResponsiveConstants
<1>5. CASE Broken(style, w) /\ style.shape = "truncated"
  BY <1>1, <1>2, <1>3, <1>5 DEF Judged
<1>6. CASE Broken(style, w) /\ style.shape \in {"overflow", "collision"}
  <2>1. LaidOut(style, w) \in {{Body(w), MenuButton, Pushed(w)}, {Body(w), MenuButton, Stacked}}
    BY <1>6 DEF LaidOut, Body, MenuButton, Pushed, Stacked
  <2>2. Breaks(o)
    BY <1>2, <2>1, BrokenLayouts
  <2> QED
    BY <1>1, <1>2, <1>3, <1>6, <2>2 DEF Judged
<1>7. CASE ~(Broken(style, w) /\ style.shape \in {"truncated", "overflow", "collision"})
  <2>1. LaidOut(style, w) \in {{Body(w), MenuButton, SendButton}, {Body(w), MenuButton}}
    BY <1>4, <1>7 DEF LaidOut, Body, MenuButton, SendButton, Shapes
  <2>2. ~Breaks(o)
    BY <1>2, <2>1, SoundLayouts
  <2> QED
    BY <1>1, <1>2, <1>3, <1>7, <2>2 DEF Judged
<1> QED
  BY <1>5, <1>6, <1>7

-----------------------------------------------------------------------------
(* Widths in order. *)

\* The numbers of a set that are below one.
Rank(S, w) == Cardinality({v \in S : v < w})

\* A finite set of widths.
LEMMA RankIs ==
  ASSUME NEW S \in SUBSET Int, IsFiniteSet(S), NEW w \in S
  PROVE  Rank(S, w) \in 0 .. Cardinality(S) - 1
<1>1. PICK B : B = {v \in S : v < w}
  OBVIOUS
<1>2. B \in SUBSET S /\ w \notin B
  BY <1>1
<1>3. IsFiniteSet(B) /\ Cardinality(B) <= Cardinality(S) /\ (Cardinality(S) = Cardinality(B) => S = B)
  BY <1>2, FS_Subset
<1>4. Cardinality(B) \in Nat /\ Cardinality(S) \in Nat
  BY <1>3, FS_CardinalityType
<1>5. Cardinality(B) # Cardinality(S)
  BY <1>2, <1>3
<1>6. Rank(S, w) = Cardinality(B)
  BY <1>1 DEF Rank
<1> QED
  BY <1>3, <1>4, <1>5, <1>6

\* Of two widths the greater has the higher rank.
LEMMA RankGrows ==
  ASSUME NEW S \in SUBSET Int, IsFiniteSet(S), NEW v \in S, NEW w \in S, v < w
  PROVE  Rank(S, v) < Rank(S, w)
<1>1. PICK B, C : B = {u \in S : u < v} /\ C = {u \in S : u < w}
  OBVIOUS
<1>2. B \in SUBSET C /\ v \in C /\ v \notin B /\ C \in SUBSET S
  <2>1. \A u \in S : u < v => u < w
    OBVIOUS
  <2>2. v \in Int /\ ~(v < v)
    OBVIOUS
  <2> QED
    BY <1>1, <2>1, <2>2
<1>3. IsFiniteSet(C)
  BY <1>2, FS_Subset
<1>4. IsFiniteSet(B) /\ Cardinality(B) <= Cardinality(C) /\ (Cardinality(C) = Cardinality(B) => C = B)
  BY <1>2, <1>3, FS_Subset
<1>5. Cardinality(B) \in Nat /\ Cardinality(C) \in Nat
  BY <1>3, <1>4, FS_CardinalityType
<1>6. Cardinality(C) # Cardinality(B)
  BY <1>2, <1>4
<1>7. Rank(S, v) = Cardinality(B) /\ Rank(S, w) = Cardinality(C)
  BY <1>1 DEF Rank
<1> QED
  BY <1>4, <1>5, <1>6, <1>7

\* Every place of a finite set is taken, by one width.
LEMMA RankTaken ==
  ASSUME NEW S \in SUBSET Int, IsFiniteSet(S), NEW k \in 0 .. Cardinality(S) - 1
  PROVE  \E w \in S : Rank(S, w) = k
<1>1. Cardinality(S) \in Nat
  BY FS_CardinalityType
<1>2. PICK T : T = 0 .. Cardinality(S) - 1
  OBVIOUS
<1>3. IsFiniteSet(T) /\ Cardinality(T) = Cardinality(S)
  BY <1>1, <1>2, FS_Interval
<1>4. PICK f : f = [w \in S |-> Rank(S, w)]
  OBVIOUS
<1>5. \A w \in S : f[w] = Rank(S, w)
  BY <1>4
<1>6. f \in [S -> T]
  BY <1>2, <1>4, RankIs
<1>7. \A v, w \in S : f[v] = f[w] => v = w
  <2>1. \A v, w \in S : v < w => f[v] # f[w]
    <3> SUFFICES ASSUME NEW v \in S, NEW w \in S, v < w PROVE f[v] # f[w]
      OBVIOUS
    <3>1. Rank(S, v) < Rank(S, w)
      BY RankGrows
    <3>2. Rank(S, v) \in Int /\ Rank(S, w) \in Int
      BY <1>1, RankIs
    <3> QED
      BY <1>5, <3>1, <3>2
  <2>2. \A v, w \in S : v = w \/ v < w \/ w < v
    OBVIOUS
  <2> QED
    BY <2>1, <2>2, Zenon
<1>8. f \in Injection(S, T)
  BY <1>6, <1>7 DEF Injection, IsInjective
<1>9. f \in Surjection(S, T)
  BY <1>3, <1>8, FS_Injection
<1>10. \E w \in S : f[w] = k
  BY <1>2, <1>9 DEF Surjection
<1> QED
  BY <1>5, <1>10

\* Sorted is the set in order, each width once.
LEMMA SortedIs ==
  ASSUME NEW S \in SUBSET Int, IsFiniteSet(S)
  PROVE  /\ Sorted(S) \in Seq(S) /\ Len(Sorted(S)) = Cardinality(S)
         /\ \A i \in 1 .. Cardinality(S) : Sorted(S)[i] \in S /\ Rank(S, Sorted(S)[i]) = i - 1
         /\ \A w \in S : \E i \in 1 .. Cardinality(S) : Sorted(S)[i] = w
<1>1. PICK n \in Nat : n = Cardinality(S)
  BY FS_CardinalityType
<1>2. Sorted(S) = [i \in 1 .. n |-> CHOOSE w \in S : Rank(S, w) = i - 1]
  BY <1>1 DEF Sorted, Rank
<1>3. \A i \in 1 .. n : Sorted(S)[i] \in S /\ Rank(S, Sorted(S)[i]) = i - 1
  <2> SUFFICES ASSUME NEW i \in 1 .. n PROVE Sorted(S)[i] \in S /\ Rank(S, Sorted(S)[i]) = i - 1
    OBVIOUS
  <2>1. i - 1 \in 0 .. Cardinality(S) - 1
    BY <1>1
  <2>2. \E w \in S : Rank(S, w) = i - 1
    BY <2>1, RankTaken
  <2>3. Sorted(S)[i] = CHOOSE w \in S : Rank(S, w) = i - 1
    BY <1>2
  <2> QED
    BY <2>2, <2>3
<1>4. Sorted(S) \in Seq(S) /\ Len(Sorted(S)) = n
  <2>1. Sorted(S) \in [1 .. n -> S]
    BY <1>2, <1>3
  <2> QED
    BY <2>1
<1>5. ASSUME NEW w \in S PROVE \E i \in 1 .. n : Sorted(S)[i] = w
  <2>1. PICK r \in 0 .. n - 1 : r = Rank(S, w)
    BY <1>1, RankIs
  <2>2. PICK i \in 1 .. n : i = r + 1 /\ i - 1 = r
    <3>1. r + 1 \in 1 .. n /\ (r + 1) - 1 = r
      OBVIOUS
    <3> QED
      BY <3>1
  <2>3. PICK v \in S : v = Sorted(S)[i] /\ Rank(S, v) = r
    BY <1>3, <2>2
  <2>4. ~(v < w) /\ ~(w < v)
    BY <2>1, <2>3, RankGrows
  <2>5. v = w
    BY <2>4
  <2> QED
    BY <2>3, <2>5
<1> QED
  BY <1>1, <1>3, <1>4, <1>5

\* Two neighbours are in order, with nothing of the set between them.
LEMMA NeighboursOf ==
  ASSUME NEW S \in SUBSET Int, IsFiniteSet(S), NEW i \in 1 .. Cardinality(S) - 1
  PROVE  /\ Sorted(S)[i] \in S /\ Sorted(S)[i + 1] \in S /\ Sorted(S)[i] < Sorted(S)[i + 1]
         /\ \A v \in S : v <= Sorted(S)[i] \/ Sorted(S)[i + 1] <= v
<1>1. PICK n \in Nat : n = Cardinality(S)
  BY FS_CardinalityType
<1>2. i \in 1 .. n /\ i + 1 \in 1 .. n
  BY <1>1
<1>3. PICK a \in S, b \in S : /\ a = Sorted(S)[i] /\ b = Sorted(S)[i + 1]
                              /\ Rank(S, a) = i - 1 /\ Rank(S, b) = i
  <2>1. Sorted(S)[i] \in S /\ Rank(S, Sorted(S)[i]) = i - 1
    BY <1>1, <1>2, SortedIs
  <2>2. Sorted(S)[i + 1] \in S /\ Rank(S, Sorted(S)[i + 1]) = (i + 1) - 1
    BY <1>1, <1>2, SortedIs
  <2>3. (i + 1) - 1 = i
    BY <1>2
  <2>4. Rank(S, Sorted(S)[i + 1]) = i
    BY <2>2, <2>3
  <2> QED
    BY <2>1, <2>2, <2>4, Zenon
<1>4. ~(b < a) /\ b # a
  <2>1. b < a => Rank(S, b) < Rank(S, a)
    BY RankGrows
  <2>2. ~(Rank(S, b) < Rank(S, a)) /\ Rank(S, b) # Rank(S, a)
    BY <1>2, <1>3
  <2> QED
    BY <2>1, <2>2
<1>5. ASSUME NEW v \in S PROVE v <= a \/ b <= v
  <2>1. (a < v => Rank(S, a) < Rank(S, v)) /\ (v < b => Rank(S, v) < Rank(S, b))
    BY RankGrows
  <2>2. Rank(S, v) \in Int
    BY <1>1, RankIs
  <2>3. ~(a < v /\ v < b)
    BY <1>2, <1>3, <2>1, <2>2
  <2> QED
    BY <2>3
<1> QED
  BY <1>3, <1>4, <1>5

-----------------------------------------------------------------------------
(* The widths that are probed first. *)

Widths == MinWidth .. MaxWidth
PresetWidths == {320, 390, 768, 1440}

\* Some set of naturals is not empty: it has a least element.
LEMMA LeastWidth ==
  ASSUME NEW T \in SUBSET Nat, T # {}
  PROVE  \E m \in T : \A k \in T : m <= k
<1>1. PICK m \in T : \A y \in T : <<y, m>> \notin OpToRel(<, Nat)
  BY WFMin, NatLessThanWellFounded
<1>2. \A x, y \in Nat : x < y => <<x, y>> \in OpToRel(<, Nat)
  BY SMTT(20) DEF OpToRel
<1>3. \A y \in T : ~(y < m)
  BY <1>1, <1>2
<1> QED
  BY <1>3

\* The least of a set of naturals is one of them.
LEMMA MinOfNaturals ==
  ASSUME NEW T \in SUBSET Nat, T # {}
  PROVE  Min(T) \in T /\ \A k \in T : Min(T) <= k
<1>1. \E m \in T : \A k \in T : m <= k
  BY LeastWidth
<1> QED
  BY <1>1, Zenon DEF Min

\* What lies farthest from the widths selected is one of the candidates.
LEMMA FarthestIsACandidate ==
  ASSUME NEW selected \in SUBSET Widths, selected # {},
         NEW candidates \in SUBSET Widths, candidates # {}
  PROVE  Farthest(selected, candidates) \in candidates
<1> DEFINE near(c) == Min({Distance(c, w) : w \in selected})
<1>1. Widths \subseteq 320 .. 1440
  BY DEF Widths, MinWidth, MaxWidth
<1>2. ASSUME NEW c \in candidates PROVE near(c) \in 0 .. 1120
  <2>1. PICK T : T = {Distance(c, w) : w \in selected}
    OBVIOUS
  <2>2. \A w \in selected : Distance(c, w) \in 0 .. 1120
    BY <1>1 DEF Distance
  <2>3. T \in SUBSET (0 .. 1120) /\ T # {}
    BY <2>1, <2>2
  <2>4. T \in SUBSET Nat
    BY <2>3
  <2>5. Min(T) \in T
    BY <2>3, <2>4, MinOfNaturals
  <2>6. near(c) = Min(T)
    BY <2>1
  <2>7. \A x \in T : x \in 0 .. 1120
    BY <2>3
  <2>8. Min(T) \in 0 .. 1120
    BY <2>5, <2>7, Zenon
  <2> HIDE DEF near
  <2> QED
    BY <2>6, <2>8, Zenon
<1> HIDE DEF near
<1>a. ASSUME NEW c \in candidates PROVE near(c) \in Int
  BY <1>2
<1>3. PICK T : T = {1120 - near(c) : c \in candidates}
  OBVIOUS
<1>4. T \in SUBSET Nat /\ T # {}
  BY <1>2, <1>3
<1>5. PICK m \in T : \A k \in T : m <= k
  BY <1>4, LeastWidth
<1>6. PICK U : U = {c \in candidates : 1120 - near(c) = m}
  OBVIOUS
<1>7. U \in SUBSET Nat /\ U # {}
  <2>1. PICK c \in candidates : 1120 - near(c) = m
    BY <1>3
  <2>2. U \subseteq candidates /\ c \in U
    BY <1>6, <2>1, Zenon
  <2>3. \A w \in Widths : w \in Nat
    BY <1>1
  <2>4. \A u \in U : u \in Nat
    BY <2>2, <2>3, Zenon
  <2> QED
    BY <2>2, <2>4
<1>8. PICK c \in U : \A k \in U : c <= k
  BY <1>7, LeastWidth
<1>9. c \in candidates /\ 1120 - near(c) = m
  BY <1>6, <1>8
<1>10. ASSUME NEW d \in candidates
       PROVE  near(d) < near(c) \/ (near(d) = near(c) /\ c <= d)
  <2>a. c \in candidates
    BY <1>9
  <2>b. near(c) \in Int
    BY <1>a, <2>a, Zenon
  <2>c. near(d) \in Int
    BY <1>a, Zenon
  <2>1. near(c) \in Int /\ near(d) \in Int
    BY <2>b, <2>c
  <2>2. m <= 1120 - near(d)
    BY <1>3, <1>5
  <2>3. near(d) <= near(c)
    BY <1>4, <1>9, <2>1, <2>2
  <2>4. near(d) = near(c) => c <= d
    BY <1>6, <1>8, <1>9
  <2> QED
    BY <2>1, <2>3, <2>4
<1>11. \E x \in candidates : \A d \in candidates :
         near(d) < near(x) \/ (near(d) = near(x) /\ x <= d)
  BY <1>9, <1>10
<1>12. Farthest(selected, candidates) =
         CHOOSE x \in candidates : \A d \in candidates :
           near(d) < near(x) \/ (near(d) = near(x) /\ x <= d)
  BY Zenon DEF Farthest, near
<1> QED
  BY <1>11, <1>12

\* The middle of a gap.
LEMMA HalfIs ==
  ASSUME NEW d \in Nat
  PROVE  d \div 2 \in Nat /\ 2 * (d \div 2) <= d /\ d < 2 * (d \div 2) + 2
  OBVIOUS

\* One more element.
LEMMA OneMore ==
  ASSUME NEW S, IsFiniteSet(S), NEW x
  PROVE  /\ IsFiniteSet(S \cup {x})
         /\ Cardinality(S) \in Nat /\ Cardinality(S \cup {x}) \in Nat
         /\ Cardinality(S \cup {x}) <= Cardinality(S) + 1
<1>1. Cardinality(S) \in Nat
  BY FS_CardinalityType
<1>2. IsFiniteSet(S \cup {x}) /\ Cardinality(S \cup {x}) \in {Cardinality(S), Cardinality(S) + 1}
  BY FS_AddElement
<1> QED
  BY <1>1, <1>2

\* The sweep stays within the widths a preview may have (adaptive_sweep).
LEMMA SweepIsWithin ==
  ASSUME NEW anchors
  PROVE  adaptive_sweep(anchors) \in SUBSET Widths
<1> DEFINE W == {w \in anchors : w \in MinWidth .. MaxWidth} \union {MinWidth, MaxWidth}
           next(w) == Min({v \in W : v > w})
<1>1. W \in SUBSET (320 .. 1440) /\ 1440 \in W
  BY DEF MinWidth, MaxWidth
<1>2. ASSUME NEW w \in W, w < MaxWidth PROVE w + (next(w) - w) \div 2 \in 320 .. 1440
  <2>1. PICK T : T = {v \in W : v > w}
    OBVIOUS
  <2>2. T \in SUBSET Nat /\ 1440 \in T
    <3> HIDE DEF W, next
    <3>1. T \in SUBSET W /\ W \in SUBSET Nat
      BY <1>1, <2>1
    <3>2. PICK x \in W : x = 1440 /\ x > w
      BY <1>1, <1>2 DEF MaxWidth
    <3>3. x \in T
      BY <2>1, <3>2
    <3> QED
      BY <3>1, <3>2, <3>3
  <2>3. Min(T) \in T
    BY <2>2, MinOfNaturals
  <2>4. next(w) = Min(T)
    BY <2>1
  <2> HIDE DEF next, W
  <2>5. PICK v \in W : v = next(w) /\ v > w
    BY <2>1, <2>3, <2>4
  <2>6. w \in 320 .. 1440 /\ v \in 320 .. 1440 /\ v - w \in Nat
    <3>1. w \in 320 .. 1440 /\ v \in 320 .. 1440
      BY <1>1
    <3> QED
      BY <2>5, <3>1
  <2>7. PICK h : h = (v - w) \div 2
    OBVIOUS
  <2>8. h \in Nat /\ 2 * h <= v - w
    BY <2>6, <2>7, HalfIs
  <2>9. w + h \in 320 .. 1440
    BY <2>6, <2>8
  <2> QED
    BY <2>5, <2>7, <2>9, Zenon
<1>3. adaptive_sweep(anchors) =
        W \union {w + (next(w) - w) \div 2 : w \in {w \in W : w < MaxWidth /\ next(w) - w > 160}}
  BY Zenon DEF adaptive_sweep
<1>4. Widths = 320 .. 1440
  BY DEF Widths, MinWidth, MaxWidth
<1> HIDE DEF W, next
<1> DEFINE mid(w) == w + (next(w) - w) \div 2
<1>5. \A w \in W : w < MaxWidth => mid(w) \in 320 .. 1440
  BY <1>2, Zenon
<1>6. adaptive_sweep(anchors) = W \union {mid(w) : w \in {w \in W : w < MaxWidth /\ next(w) - w > 160}}
  BY <1>3, Zenon
<1> HIDE DEF mid
<1>7. \A x \in adaptive_sweep(anchors) : x \in 320 .. 1440
  <2>1. ASSUME NEW w \in W, w < MaxWidth, NEW x, x = mid(w) PROVE x \in 320 .. 1440
    BY <1>5, <2>1
  <2>2. \A x \in adaptive_sweep(anchors) : x \in W \/ \E w \in W : w < MaxWidth /\ x = mid(w)
    BY <1>6, Zenon
  <2>3. \A x \in W : x \in 320 .. 1440
    BY <1>1
  <2> QED
    BY <2>1, <2>2, <2>3
<1> QED
  BY <1>4, <1>7

\* Widths are few.
LEMMA WidthsAreFinite ==
  /\ IsFiniteSet(Widths) /\ Widths \in SUBSET Int
  /\ \A S \in SUBSET Widths : IsFiniteSet(S) /\ Cardinality(S) \in Nat
<1>1. Widths = 320 .. 1440
  BY DEF Widths, MinWidth, MaxWidth
<1>2. IsFiniteSet(Widths)
  <2>1. PICK a \in Int, b \in Int : a = 320 /\ b = 1440
    OBVIOUS
  <2>2. Widths = a .. b
    BY <1>1, <2>1
  <2> QED
    BY <2>2, FS_Interval
<1>3. \A S \in SUBSET Widths : IsFiniteSet(S)
  BY <1>2, FS_Subset
<1>4. \A S \in SUBSET Widths : Cardinality(S) \in Nat
  BY <1>3, FS_CardinalityType
<1> QED
  BY <1>1, <1>2, <1>3, <1>4

\* One more width does not exceed the cap.
LEMMA FilledIsWithin ==
  ASSUME NEW most \in Nat, NEW selected \in SUBSET Widths, selected # {}, Cardinality(selected) <= most,
         NEW candidates \in SUBSET Widths
  PROVE  /\ Filled(selected, candidates, most) \in SUBSET Widths
         /\ selected \subseteq Filled(selected, candidates, most)
         /\ Cardinality(Filled(selected, candidates, most)) <= most
<1>1. CASE Cardinality(selected) >= most \/ candidates \subseteq selected
  BY <1>1 DEF Filled
<1>2. CASE ~(Cardinality(selected) >= most \/ candidates \subseteq selected)
  <2>1. PICK w : w = Farthest(selected, candidates \ selected)
    OBVIOUS
  <2>2. w \in candidates \ selected
    BY <1>2, <2>1, FarthestIsACandidate
  <2>3. Filled(selected, candidates, most) = selected \cup {w}
    BY <1>2, <2>1 DEF Filled
  <2>4. IsFiniteSet(selected) /\ Cardinality(selected) \in Nat
    BY WidthsAreFinite
  <2>5. Cardinality(selected \cup {w}) = Cardinality(selected) + 1
    BY <2>2, <2>4, FS_AddElement
  <2> QED
    BY <1>2, <2>2, <2>3, <2>4, <2>5
<1> QED
  BY <1>1, <1>2

\* The anchors of a search: the presets and one more width.
LEMMA AnchorsAreFew ==
  ASSUME NEW c, NEW W,
         W = {w \in ToSet(Presets) \union {c} : w \in Widths} \union {MinWidth, MaxWidth}
  PROVE  W \in SUBSET Widths /\ PresetWidths \subseteq W /\ Cardinality(W) <= 5
<1>1. ToSet(Presets) = PresetWidths
  BY DEF ToSet, Presets, PresetWidths
<1>2. Widths = 320 .. 1440 /\ MinWidth = 320 /\ MaxWidth = 1440
  BY DEF Widths, MinWidth, MaxWidth
<1>3. W \in SUBSET Widths /\ PresetWidths \subseteq W
  BY <1>1, <1>2 DEF PresetWidths
<1>4. W \subseteq ((({320} \cup {390}) \cup {768}) \cup {1440}) \cup {c}
  BY <1>1, <1>2 DEF PresetWidths
<1>5. PICK A : A = {320}
  OBVIOUS
<1>6. IsFiniteSet(A) /\ Cardinality(A) = 1
  BY <1>5, FS_Singleton
<1>7. PICK B : B = A \cup {390}
  OBVIOUS
<1>8. IsFiniteSet(B) /\ Cardinality(B) \in Nat /\ Cardinality(B) <= 2
  <2>1. /\ IsFiniteSet(A \cup {390}) /\ Cardinality(A \cup {390}) \in Nat
        /\ Cardinality(A \cup {390}) <= Cardinality(A) + 1
    BY <1>6, OneMore
  <2> QED
    BY <1>6, <1>7, <2>1
<1>9. PICK C : C = B \cup {768}
  OBVIOUS
<1>10. IsFiniteSet(C) /\ Cardinality(C) \in Nat /\ Cardinality(C) <= 3
  <2>1. /\ IsFiniteSet(B \cup {768}) /\ Cardinality(B \cup {768}) \in Nat
        /\ Cardinality(B \cup {768}) <= Cardinality(B) + 1
    BY <1>8, OneMore
  <2> QED
    BY <1>8, <1>9, <2>1
<1>11. PICK x : x = 1440
  OBVIOUS
<1> DEFINE E == C \cup {x}
<1> HIDE DEF E
<1>12. IsFiniteSet(E) /\ Cardinality(E) \in Nat /\ Cardinality(E) <= 4
  <2>1. /\ IsFiniteSet(C \cup {x}) /\ Cardinality(C \cup {x}) \in Nat
        /\ Cardinality(C \cup {x}) <= Cardinality(C) + 1
    BY <1>10, OneMore
  <2> QED
    BY <1>10, <2>1 DEF E
<1>13. PICK D : D = E \cup {c} /\ IsFiniteSet(D) /\ Cardinality(D) \in Nat /\ Cardinality(D) <= 5
  <2>1. /\ IsFiniteSet(E \cup {c}) /\ Cardinality(E \cup {c}) \in Nat
        /\ Cardinality(E \cup {c}) <= Cardinality(E) + 1
    BY <1>12, OneMore
  <2> QED
    BY <1>12, <2>1
<1>14. W \in SUBSET D
  BY <1>4, <1>5, <1>7, <1>9, <1>11, <1>13 DEF E
<1>15. Cardinality(W) <= Cardinality(D) /\ Cardinality(W) \in Nat
  BY <1>3, <1>13, <1>14, FS_Subset, WidthsAreFinite
<1> QED
  BY <1>3, <1>13, <1>15

\* What the widths selected are after each of the rounds.
Rounds(f, base, candidates) ==
  f = [k \in 0 .. InitialCap |-> IF k = 0 THEN base ELSE Filled(f[k - 1], candidates, InitialCap)]

\* The six rounds, one after another.
LEMMA RoundsExist ==
  ASSUME NEW base, NEW candidates
  PROVE  \E f : Rounds(f, base, candidates)
<1> DEFINE fill(s) == Filled(s, candidates, InitialCap)
<1>1. PICK s1 : s1 = fill(base)
  OBVIOUS
<1>2. PICK s2 : s2 = fill(s1)
  OBVIOUS
<1>3. PICK s3 : s3 = fill(s2)
  OBVIOUS
<1>4. PICK s4 : s4 = fill(s3)
  OBVIOUS
<1>5. PICK s5 : s5 = fill(s4)
  OBVIOUS
<1>6. PICK s6 : s6 = fill(s5)
  OBVIOUS
<1> HIDE DEF fill
<1> DEFINE F == [k \in 0 .. 6 |-> IF k = 0 THEN base ELSE IF k = 1 THEN s1 ELSE IF k = 2 THEN s2
                                  ELSE IF k = 3 THEN s3 ELSE IF k = 4 THEN s4
                                  ELSE IF k = 5 THEN s5 ELSE s6]
<1>7. /\ F[0] = base /\ F[1] = s1 /\ F[2] = s2 /\ F[3] = s3 /\ F[4] = s4 /\ F[5] = s5 /\ F[6] = s6
  OBVIOUS
<1>8. \A k \in 0 .. 6 : F[k] = IF k = 0 THEN base ELSE fill(F[k - 1])
  <2> SUFFICES ASSUME NEW k \in 0 .. 6 PROVE F[k] = IF k = 0 THEN base ELSE fill(F[k - 1])
    OBVIOUS
  <2> HIDE DEF F
  <2>1. CASE k = 0
    BY <1>7, <2>1
  <2>2. CASE k = 1
    BY <1>1, <1>7, <2>2, k - 1 = 0
  <2>3. CASE k = 2
    BY <1>2, <1>7, <2>3, k - 1 = 1
  <2>4. CASE k = 3
    BY <1>3, <1>7, <2>4, k - 1 = 2
  <2>5. CASE k = 4
    BY <1>4, <1>7, <2>5, k - 1 = 3
  <2>6. CASE k = 5
    BY <1>5, <1>7, <2>6, k - 1 = 4
  <2>7. CASE k = 6
    BY <1>6, <1>7, <2>7, k - 1 = 5
  <2>8. k = 0 \/ k = 1 \/ k = 2 \/ k = 3 \/ k = 4 \/ k = 5 \/ k = 6
    OBVIOUS
  <2> QED
    BY <2>1, <2>2, <2>3, <2>4, <2>5, <2>6, <2>7, <2>8, Zenon
<1>9. F = [k \in 0 .. 6 |-> F[k]]
  OBVIOUS
<1> HIDE DEF F
<1>10. F = [k \in 0 .. 6 |-> IF k = 0 THEN base ELSE fill(F[k - 1])]
  BY <1>8, <1>9
<1> QED
  BY <1>10, Zenon DEF Rounds, InitialCap, fill

\* The rounds stay within the widths and the cap, and lose nothing.
LEMMA RoundsAreWithin ==
  ASSUME NEW f, NEW base \in SUBSET Widths, base # {}, Cardinality(base) <= 6,
         NEW candidates \in SUBSET Widths, Rounds(f, base, candidates)
  PROVE  f[6] \in SUBSET Widths /\ base \subseteq f[6] /\ Cardinality(f[6]) <= 6
<1> DEFINE Ok(s) == s \in SUBSET Widths /\ base \subseteq s /\ Cardinality(s) <= 6
<1>1. f[0] = base /\ \A k \in 1 .. 6 : f[k] = Filled(f[k - 1], candidates, 6)
  BY DEF Rounds, InitialCap
<1>2. ASSUME NEW s, Ok(s), NEW t, t = Filled(s, candidates, 6) PROVE Ok(t)
  <2>1. s # {}
    BY <1>2
  <2>2. PICK most \in Nat : most = 6
    OBVIOUS
  <2>3. /\ Filled(s, candidates, most) \in SUBSET Widths
        /\ s \subseteq Filled(s, candidates, most)
        /\ Cardinality(Filled(s, candidates, most)) <= most
    BY <1>2, <2>1, <2>2, FilledIsWithin
  <2> QED
    BY <1>2, <2>2, <2>3
<1>3. ASSUME NEW k \in 1 .. 6, NEW j \in 0 .. 5, k = j + 1, Ok(f[j]) PROVE Ok(f[k])
  <2>1. f[k] = Filled(f[j], candidates, 6)
    BY <1>1, <1>3, k - 1 = j
  <2> HIDE DEF Ok
  <2> QED
    BY <1>2, <1>3, <2>1
<1>4. Ok(f[0])
  BY <1>1
<1> HIDE DEF Ok
<1>5. Ok(f[1])
  BY <1>3, <1>4
<1>6. Ok(f[2])
  BY <1>3, <1>5
<1>7. Ok(f[3])
  BY <1>3, <1>6
<1>8. Ok(f[4])
  BY <1>3, <1>7
<1>9. Ok(f[5])
  BY <1>3, <1>8
<1>10. Ok(f[6])
  BY <1>3, <1>9
<1> QED
  BY <1>10 DEF Ok

\* A search starts with at most six widths, the presets among them
\* (bounded_adaptive_sweep).
LEMMA FirstWidths ==
  ASSUME NEW c, NEW S, S = bounded_adaptive_sweep(ToSet(Presets) \union {c}, InitialCap)
  PROVE  S \in SUBSET Widths /\ PresetWidths \subseteq S /\ Cardinality(S) <= 6
<1>1. PICK A : A = ToSet(Presets) \union {c}
  OBVIOUS
<1> DEFINE W == {w \in A : w \in MinWidth .. MaxWidth} \union {MinWidth, MaxWidth}
           T == {Sorted(W)[((slot * (Cardinality(W) - 1)) \div (InitialCap - 1)) + 1] :
                   slot \in 0 .. InitialCap - 1}
           B == IF Cardinality(W) > InitialCap THEN T ELSE W
           F == CHOOSE f : f = [k \in 0 .. InitialCap |->
                  IF k = 0 THEN B ELSE Filled(f[k - 1], adaptive_sweep(A), InitialCap)]
<1>2. S = F[InitialCap]
  <2>1. S = bounded_adaptive_sweep(A, InitialCap)
    BY <1>1
  <2> QED
    BY <2>1 DEF bounded_adaptive_sweep
<1>3. W \in SUBSET Widths /\ PresetWidths \subseteq W /\ Cardinality(W) <= 5
  BY <1>1, AnchorsAreFew DEF Widths
<1>4. B = W
  <2> HIDE DEF W, T
  <2>1. Cardinality(W) \in Nat
    BY <1>3, WidthsAreFinite
  <2> QED
    BY <1>3, <2>1 DEF InitialCap
<1> HIDE DEF W, T, B
<1>5. Rounds(F, B, adaptive_sweep(A))
  <2>1. \E f : f = [k \in 0 .. InitialCap |->
                     IF k = 0 THEN B ELSE Filled(f[k - 1], adaptive_sweep(A), InitialCap)]
    <3>1. \E f : Rounds(f, B, adaptive_sweep(A))
      BY RoundsExist
    <3> QED
      BY <3>1, Zenon DEF Rounds
  <2> QED
    BY <2>1, Zenon DEF Rounds
<1> HIDE DEF F
<1>6. adaptive_sweep(A) \in SUBSET Widths
  BY SweepIsWithin
<1>7. Cardinality(B) \in Nat /\ Cardinality(B) <= 6 /\ B # {} /\ B \in SUBSET Widths
  BY <1>3, <1>4, WidthsAreFinite DEF PresetWidths
<1>8. F[6] \in SUBSET Widths /\ B \subseteq F[6] /\ Cardinality(F[6]) <= 6
  BY <1>5, <1>6, <1>7, RoundsAreWithin
<1> QED
  BY <1>2, <1>3, <1>4, <1>8 DEF InitialCap

-----------------------------------------------------------------------------
(* The contact sheet. *)

\* Where the frames of a sheet begin.
Tops(f, heights) ==
  f = [i \in DOMAIN heights |-> IF i = 1 THEN 0 ELSE f[i - 1] + heights[i - 1] + Gutter]

\* Four places, one after another.
LEMMA TopsExist ==
  ASSUME NEW n \in 1 .. 4, NEW heights \in [1 .. n -> Nat]
  PROVE  \E f : Tops(f, heights)
<1>1. PICK t2 : t2 = 0 + heights[1] + Gutter
  OBVIOUS
<1>2. PICK t3 : t3 = t2 + heights[2] + Gutter
  OBVIOUS
<1>3. PICK t4 : t4 = t3 + heights[3] + Gutter
  OBVIOUS
<1> DEFINE F == [i \in 1 .. n |-> IF i = 1 THEN 0 ELSE IF i = 2 THEN t2 ELSE IF i = 3 THEN t3 ELSE t4]
<1>4. \A i \in 1 .. n : F[i] = IF i = 1 THEN 0 ELSE F[i - 1] + heights[i - 1] + Gutter
  <2> SUFFICES ASSUME NEW i \in 1 .. n PROVE F[i] = IF i = 1 THEN 0 ELSE F[i - 1] + heights[i - 1] + Gutter
    OBVIOUS
  <2>1. CASE i = 1
    BY <2>1
  <2>2. CASE i = 2
    BY <1>1, <2>2, i - 1 = 1
  <2>3. CASE i = 3
    BY <1>2, <2>3, i - 1 = 2
  <2>4. CASE i = 4
    BY <1>3, <2>4, i - 1 = 3
  <2>5. i = 1 \/ i = 2 \/ i = 3 \/ i = 4
    OBVIOUS
  <2> QED
    BY <2>1, <2>2, <2>3, <2>4, <2>5, Zenon
<1>5. F = [i \in 1 .. n |-> F[i]]
  OBVIOUS
<1>6. DOMAIN heights = 1 .. n
  OBVIOUS
<1> HIDE DEF F
<1>7. F = [i \in 1 .. n |-> IF i = 1 THEN 0 ELSE F[i - 1] + heights[i - 1] + Gutter]
  BY <1>4, <1>5
<1> QED
  BY <1>6, <1>7, Zenon DEF Tops

\* The projection is such places (project_contact_sheet).
LEMMA ProjectionIs ==
  ASSUME NEW n \in 1 .. 4, NEW heights \in [1 .. n -> Nat]
  PROVE  Tops(project_contact_sheet(heights), heights)
<1> DEFINE F == CHOOSE f : f = [i \in DOMAIN heights |->
                  IF i = 1 THEN 0 ELSE f[i - 1] + heights[i - 1] + Gutter]
<1>1. project_contact_sheet(heights) = F
  BY Zenon DEF project_contact_sheet
<1>2. \E f : Tops(f, heights)
  BY TopsExist
<1>3. Tops(F, heights)
  BY <1>2, Zenon DEF Tops
<1> QED
  BY <1>1, <1>3

\* Frames follow one another.
LEMMA FramesFollow ==
  ASSUME NEW n \in 1 .. 4, NEW heights \in [1 .. n -> Nat], NEW f, Tops(f, heights)
  PROVE  /\ \A i \in 1 .. n : f[i] \in Nat /\ f[i] + heights[i] <= f[n] + heights[n]
         /\ \A i, j \in 1 .. n : i < j => f[i] + heights[i] <= f[j]
<1>1. DOMAIN heights = 1 .. n /\ \A i \in 1 .. n : heights[i] \in Nat
  OBVIOUS
<1>2. /\ f[1] = 0
      /\ n >= 2 => f[2] = f[1] + heights[1] + 16
      /\ n >= 3 => f[3] = f[2] + heights[2] + 16
      /\ n >= 4 => f[4] = f[3] + heights[3] + 16
  BY <1>1 DEF Tops, Gutter
<1>3. CASE n = 1
  BY <1>1, <1>2, <1>3
<1>4. CASE n = 2
  <2>1. heights[1] \in Nat /\ heights[2] \in Nat
    BY <1>1, <1>4
  <2>2. 1 .. n = {1, 2}
    BY <1>4
  <2> QED
    BY <1>2, <1>4, <2>1, <2>2
<1>5. CASE n = 3
  <2>1. heights[1] \in Nat /\ heights[2] \in Nat /\ heights[3] \in Nat
    BY <1>1, <1>5
  <2>2. 1 .. n = {1, 2, 3}
    BY <1>5
  <2> QED
    BY <1>2, <1>5, <2>1, <2>2
<1>6. CASE n = 4
  <2>1. heights[1] \in Nat /\ heights[2] \in Nat /\ heights[3] \in Nat /\ heights[4] \in Nat
    BY <1>1, <1>6
  <2>2. 1 .. n = {1, 2, 3, 4}
    BY <1>6
  <2> QED
    BY <1>2, <1>6, <2>1, <2>2
<1> QED
  BY <1>3, <1>4, <1>5, <1>6

\* Every frame of a picture is there as high as it was.
FramesKept(painted, heights) ==
  \A i \in DOMAIN heights : Cardinality({row \in DOMAIN painted : painted[row] = i}) = heights[i]

\* A frame of the sheet is where its rows are, and nowhere else
\* (build_responsive_contact_sheet).
LEMMA FramesAreKept ==
  ASSUME NEW n \in 1 .. 4, NEW heights \in [1 .. n -> Nat], NEW f, Tops(f, heights),
         NEW rows, rows = f[n] + heights[n],
         NEW painted, painted = [row \in 0 .. rows - 1 |-> Painted(f, heights, row)]
  PROVE  FramesKept(painted, heights)
<1> SUFFICES ASSUME NEW i \in 1 .. n
             PROVE  Cardinality({row \in DOMAIN painted : painted[row] = i}) = heights[i]
  BY DEF FramesKept
<1>1. /\ \A j \in 1 .. n : f[j] \in Nat /\ heights[j] \in Nat /\ f[j] + heights[j] <= rows
      /\ \A j, k \in 1 .. n : j < k => f[j] + heights[j] <= f[k]
      /\ rows \in Nat
  <2>1. n \in 1 .. n /\ \A j \in 1 .. n : heights[j] \in Nat
    OBVIOUS
  <2>2. \A j \in 1 .. n : f[j] \in Nat /\ f[j] + heights[j] <= rows
    BY FramesFollow
  <2>3. \A j, k \in 1 .. n : j < k => f[j] + heights[j] <= f[k]
    BY FramesFollow
  <2>4. rows \in Nat
    BY <2>1, <2>2
  <2> QED
    BY <2>1, <2>2, <2>3, <2>4
<1>2. DOMAIN heights = 1 .. n /\ i \in Int /\ 0 \notin 1 .. n
  OBVIOUS
<1>3. ASSUME NEW row \in 0 .. rows - 1 PROVE Painted(f, heights, row) = i <=> row \in f[i] .. f[i] + heights[i] - 1
  <2>1. PICK on : on = {j \in 1 .. n : row \in f[j] .. f[j] + heights[j] - 1}
    OBVIOUS
  <2>2. Painted(f, heights, row) = IF on = {} THEN 0 ELSE Max(on)
    BY <1>2, <2>1 DEF Painted
  <2>3. ASSUME NEW j \in on, NEW k \in on PROVE ~(j < k)
    <3>1. /\ j \in 1 .. n /\ row \in f[j] .. f[j] + heights[j] - 1
          /\ k \in 1 .. n /\ row \in f[k] .. f[k] + heights[k] - 1
      BY <2>1
    <3>2. f[j] \in Nat /\ heights[j] \in Nat /\ f[k] \in Nat /\ heights[k] \in Nat
      BY <1>1, <3>1
    <3>3. j < k => f[j] + heights[j] <= f[k]
      BY <1>1, <3>1
    <3>4. row < f[j] + heights[j] /\ f[k] <= row
      BY <3>1, <3>2
    <3> QED
      BY <3>2, <3>3, <3>4
  <2>4. ASSUME NEW j \in on PROVE Max(on) = j
    <3>1. on \in SUBSET Int
      BY <2>1
    <3>2. \A k \in on : j >= k
      BY <2>3, <3>1
    <3> QED
      BY <3>1, <3>2, MaxIs
  <2>5. CASE i \in on
    BY <2>1, <2>2, <2>4, <2>5
  <2>6. CASE i \notin on
    <3>1. on # {} => Max(on) # i
      BY <2>4, <2>6
    <3> QED
      BY <1>2, <2>1, <2>2, <2>6, <3>1
  <2> QED
    BY <2>5, <2>6
<1>4. f[i] \in Nat /\ heights[i] \in Nat /\ f[i] + heights[i] <= rows
  BY <1>1
<1>5. f[i] .. f[i] + heights[i] - 1 \subseteq 0 .. rows - 1
  BY <1>1, <1>4
<1>6. {row \in DOMAIN painted : painted[row] = i} = f[i] .. f[i] + heights[i] - 1
  <2>1. DOMAIN painted = 0 .. rows - 1 /\ \A row \in 0 .. rows - 1 : painted[row] = Painted(f, heights, row)
    OBVIOUS
  <2> QED
    BY <1>3, <1>5, <2>1
<1>7. PICK a \in Int, b \in Int : a = f[i] /\ b = f[i] + heights[i] - 1
  BY <1>4
<1>8. Cardinality(a .. b) = heights[i]
  <2>1. Cardinality(a .. b) = IF a > b THEN 0 ELSE b - a + 1
    BY FS_Interval
  <2>2. PICK h \in Nat : h = heights[i] /\ b = a + h - 1
    BY <1>4, <1>7
  <2>3. IF a > b THEN h = 0 ELSE b - a + 1 = h
    BY <2>2
  <2> QED
    BY <2>1, <2>2, <2>3
<1> QED
  BY <1>6, <1>7, <1>8

\* Presets are asked for.
LEMMA RequestedAreFew ==
  ASSUME NEW requested \in (SUBSET (1 .. 4)) \ {{}}
  PROVE  Cardinality(requested) \in 1 .. 4
<1>1. PICK a \in Int, b \in Int : a = 1 /\ b = 4
  OBVIOUS
<1>2. PICK T : T = a .. b
  OBVIOUS
<1>3. IsFiniteSet(T) /\ Cardinality(T) = 4
  <2>1. IsFiniteSet(a .. b) /\ Cardinality(a .. b) = IF a > b THEN 0 ELSE b - a + 1
    BY FS_Interval
  <2> QED
    BY <1>1, <1>2, <2>1
<1>4. IsFiniteSet(requested) /\ Cardinality(requested) <= Cardinality(T)
  BY <1>1, <1>2, <1>3, FS_Subset
<1>5. Cardinality(requested) \in Nat /\ Cardinality(requested) # 0
  BY <1>4, FS_CardinalityType, FS_EmptySet
<1> QED
  BY <1>3, <1>4, <1>5

\* A sheet that is built keeps every frame.
LEMMA SheetIsKept ==
  ASSUME build_responsive_contact_sheet
  PROVE  SheetKeepsEveryFrame' /\ \E s : sheet' = {s}
<1>1. PICK requested \in (SUBSET (1 .. 4)) \ {{}} :
        \E heights \in [1 .. Cardinality(requested) -> FrameHeights] :
          LET tops == project_contact_sheet(heights)
              last == Len(heights)
              rows == tops[last] + heights[last]
          IN sheet' = {[presets |-> Sorted(requested), heights |-> heights,
                        rows |-> [row \in 0 .. rows - 1 |-> Painted(tops, heights, row)]]}
  BY Zenon DEF build_responsive_contact_sheet
<1>2. PICK n \in 1 .. 4 : n = Cardinality(requested)
  BY RequestedAreFew
<1>3. PICK heights \in [1 .. n -> FrameHeights] : \E f, rows, painted :
        /\ f = project_contact_sheet(heights) /\ rows = f[Len(heights)] + heights[Len(heights)]
        /\ painted = [row \in 0 .. rows - 1 |-> Painted(f, heights, row)]
        /\ sheet' = {[presets |-> Sorted(requested), heights |-> heights, rows |-> painted]}
  BY <1>1, <1>2, Zenon
<1>4. PICK f, rows, painted :
        /\ f = project_contact_sheet(heights) /\ rows = f[Len(heights)] + heights[Len(heights)]
        /\ painted = [row \in 0 .. rows - 1 |-> Painted(f, heights, row)]
        /\ sheet' = {[presets |-> Sorted(requested), heights |-> heights, rows |-> painted]}
  BY <1>3
<1>5. heights \in [1 .. n -> Nat] /\ Len(heights) = n /\ DOMAIN heights = 1 .. n
  <2>1. FrameHeights \subseteq Nat
    BY ResponsiveConstants
  <2>2. heights \in [1 .. n -> Nat]
    BY <2>1
  <2> QED
    BY <2>2
<1>6. Tops(f, heights)
  BY <1>4, <1>5, ProjectionIs
<1>7. FramesKept(painted, heights)
  <2>1. rows = f[n] + heights[n] /\ painted = [row \in 0 .. rows - 1 |-> Painted(f, heights, row)]
    BY <1>4, <1>5
  <2>2. heights \in [1 .. n -> Nat]
    BY <1>5
  <2> QED
    BY <1>6, <2>1, <2>2, FramesAreKept
<1> DEFINE s == [presets |-> Sorted(requested), heights |-> heights, rows |-> painted]
<1>8. sheet' = {s} /\ s.heights = heights /\ s.rows = painted
  BY <1>4
<1> HIDE DEF s
<1> QED
  BY <1>7, <1>8 DEF SheetKeepsEveryFrame, FramesKept

-----------------------------------------------------------------------------
(* The search. *)

\* A probe is of one of the page's states, with its verdict.
ProbeOk(p, styles, hash, w) ==
  \E s \in 1 .. 2 : p = [seen |-> Layout(styles[s], hash, w, s),
                         verdict |-> evaluate_observation(Layout(styles[s], hash, w, s))]

\* So many probes were spent on a bracket of so many widths.
Fits(spent, gap) ==
  \/ spent <= 6 /\ gap <= 672
  \/ spent <= 7 /\ gap <= 336
  \/ spent <= 8 /\ gap <= 168
  \/ spent <= 9 /\ gap <= 84
  \/ spent <= 10 /\ gap <= 42
  \/ spent <= 11 /\ gap <= 21
  \/ spent <= 12 /\ gap <= 16

Spent == Cardinality(DOMAIN probes)

Pages == [state : 1 .. 2, styles : {<<>>} \cup (PageStyles \X PageStyles),
          hash : {<<>>} \cup Fingerprints]

SearchTypes ==
  /\ page \in Pages
  /\ search \in [phase : {"idle", "sweep", "bisect", "resolve", "done", "failed"},
                 left : Seq(Widths), low : 0 .. MaxWidth, high : 0 .. MaxWidth,
                 low_fails : BOOLEAN, failure : {"none", "responsive_settle_failed"}]
  /\ DOMAIN probes \in SUBSET Widths

ProbesAreTrue ==
  /\ search.phase = "idle" => DOMAIN probes = {}
  /\ search.phase # "idle" => page.styles \in PageStyles \X PageStyles
  /\ \A w \in DOMAIN probes : ProbeOk(probes[w], page.styles, page.hash, w)

\* While the first widths are probed, every preset is probed or still to be; what
\* is spent on a bracket fits its width.
SearchIsBounded ==
  /\ Spent <= MaxProbes
  /\ search.phase = "idle" => search.failure = "none"
  /\ search.phase = "sweep" =>
       /\ search.failure = "none" /\ Spent + Len(search.left) <= 6
       /\ \A v \in PresetWidths : v \in DOMAIN probes \/ \E i \in 1 .. Len(search.left) : search.left[i] = v
  /\ search.phase = "bisect" =>
       /\ search.low \in Widths /\ search.high \in Widths /\ search.low <= search.high
       /\ Fits(Spent, search.high - search.low)

ResponsiveInv ==
  /\ SearchTypes /\ ProbesAreTrue /\ SearchIsBounded
  /\ receipt = {} \/ (search.phase = "done" /\ \E r \in receipt : receipt = {r})
  /\ sheet = {} \/ \E s \in sheet : sheet = {s}
  /\ TransitionIsReal /\ IssuesAreOfOnePrint /\ SheetKeepsEveryFrame

-----------------------------------------------------------------------------

\* The state a probe saw, and its verdict.
LEMMA ProbeIs ==
  ASSUME ResponsiveInv, NEW w \in DOMAIN probes
  PROVE  \E s \in 1 .. 2 : /\ page.styles[s] \in PageStyles /\ w \in Widths
                           /\ probes[w].seen.state = s /\ probes[w].seen.width = w
                           /\ probes[w].seen.print = page.hash.print[TreeSeen(w)]
                           /\ probes[w].seen.whole <=> TreeSeen(w) \in page.hash.whole
                           /\ probes[w].verdict.state = Judged(page.styles[s], w)
                           /\ probes[w].verdict.issues = IssuesOf(probes[w].seen)
<1>1. PICK s \in 1 .. 2 :
        probes[w] = [seen |-> Layout(page.styles[s], page.hash, w, s),
                     verdict |-> evaluate_observation(Layout(page.styles[s], page.hash, w, s))]
  BY DEF ResponsiveInv, ProbesAreTrue, ProbeOk
<1>2. page.styles[s] \in PageStyles /\ w \in Widths
  <2>1. page.styles \in PageStyles \X PageStyles /\ DOMAIN probes \in SUBSET Widths
    BY DEF ResponsiveInv, ProbesAreTrue, SearchTypes
  <2> QED
    BY <2>1
<1>3. PICK o : o = Layout(page.styles[s], page.hash, w, s)
  OBVIOUS
<1>4. probes[w].seen = o /\ probes[w].verdict = evaluate_observation(o)
  BY <1>1, <1>3
<1>5. /\ o.state = s /\ o.width = w
      /\ o.print = page.hash.print[TreeOf(s, page.styles[s], w)]
      /\ o.whole <=> TreeOf(s, page.styles[s], w) \in page.hash.whole
  BY <1>3 DEF Layout
<1>6. evaluate_observation(o).state = Judged(page.styles[s], w)
  BY <1>2, <1>3, VerdictOfLayout DEF Widths
<1>7. evaluate_observation(o).issues = IssuesOf(o)
  BY DEF evaluate_observation
<1>8. TreeSeen(w) = TreeOf(s, page.styles[s], w)
  BY <1>4, <1>5 DEF TreeSeen
<1> QED
  BY <1>2, <1>4, <1>5, <1>6, <1>7, <1>8

\* Probes with one whole fingerprint are of trees that it does not tell apart.
LEMMA AlikeIs ==
  ASSUME ResponsiveInv, NEW v \in DOMAIN probes, NEW w \in DOMAIN probes,
         probes[v].seen.whole, probes[w].seen.whole, probes[v].seen.print = probes[w].seen.print
  PROVE  SeenAlike(v, w)
<1>1. /\ probes[v].seen.print = page.hash.print[TreeSeen(v)]
      /\ probes[w].seen.print = page.hash.print[TreeSeen(w)]
  BY ProbeIs
<1>2. TreeSeen(v) \in page.hash.whole /\ TreeSeen(w) \in page.hash.whole
  BY ProbeIs
<1> QED
  BY <1>1, <1>2 DEF SeenAlike

\* The widths probed, in order.
LEMMA ProbedAre ==
  ASSUME ResponsiveInv
  PROVE  /\ Spent \in Nat /\ Len(ProbedWidths) = Spent /\ IsFiniteSet(DOMAIN probes)
         /\ \A i \in 1 .. Spent - 1 :
              /\ ProbedWidths[i] \in DOMAIN probes /\ ProbedWidths[i + 1] \in DOMAIN probes
              /\ ProbedWidths[i] < ProbedWidths[i + 1]
              /\ \A v \in DOMAIN probes : v <= ProbedWidths[i] \/ ProbedWidths[i + 1] <= v
         /\ \A i \in 1 .. Spent : ProbedWidths[i] \in DOMAIN probes
<1>1. PICK S : S = DOMAIN probes
  OBVIOUS
<1>2. S \in SUBSET Widths /\ S \in SUBSET Int /\ IsFiniteSet(S) /\ Cardinality(S) \in Nat
  BY <1>1, WidthsAreFinite DEF ResponsiveInv, SearchTypes
<1>3. Len(Sorted(S)) = Cardinality(S) /\ \A i \in 1 .. Cardinality(S) : Sorted(S)[i] \in S
  BY <1>2, SortedIs
<1>4. \A i \in 1 .. Cardinality(S) - 1 :
        /\ Sorted(S)[i] \in S /\ Sorted(S)[i + 1] \in S /\ Sorted(S)[i] < Sorted(S)[i + 1]
        /\ \A v \in S : v <= Sorted(S)[i] \/ Sorted(S)[i + 1] <= v
  BY <1>2, NeighboursOf
<1> QED
  BY <1>1, <1>2, <1>3, <1>4 DEF ProbedWidths, Spent

\* One of the places where the verdict changes.
LEMMA FirstTransition ==
  ASSUME ResponsiveInv, Transitions # {}
  PROVE  /\ Min(Transitions) \in 1 .. Spent - 1
         /\ probes[ProbedWidths[Min(Transitions)]].verdict.state
              # probes[ProbedWidths[Min(Transitions) + 1]].verdict.state
<1>1. Len(ProbedWidths) = Spent /\ Spent \in Nat
  BY ProbedAre
<1>2. Transitions \in SUBSET Nat
  BY <1>1 DEF Transitions
<1>3. Min(Transitions) \in Transitions
  BY <1>2, MinOfNaturals
<1> QED
  BY <1>1, <1>3 DEF Transitions

\* What is reported as resolved is so (resolve_observed_transition).
LEMMA ResolvedIsReal ==
  ASSUME ResponsiveInv, NEW t, t = transition_of_the_search, t.kind = "resolved"
  PROVE  TransitionHolds(t)
<1>1. WholePrints /\ OnePrint /\ t = resolve_observed_transition
  BY DEF transition_of_the_search, Unresolved
<1>2. /\ Concrete /\ Transitions # {}
      /\ t.lower = ProbedWidths[Min(Transitions)] /\ t.upper = ProbedWidths[Min(Transitions) + 1]
  BY <1>1 DEF resolve_observed_transition, Unresolved
<1>3. PICK v, w : v = t.lower /\ w = t.upper
  OBVIOUS
<1>4. /\ v \in DOMAIN probes /\ w \in DOMAIN probes /\ v < w
      /\ probes[v].verdict.state # probes[w].verdict.state
  <2>1. PICK i : i = Min(Transitions)
    OBVIOUS
  <2>2. i \in 1 .. Spent - 1 /\ probes[ProbedWidths[i]].verdict.state # probes[ProbedWidths[i + 1]].verdict.state
    BY <1>2, <2>1, FirstTransition
  <2>3. ProbedWidths[i] \in DOMAIN probes /\ ProbedWidths[i + 1] \in DOMAIN probes /\ ProbedWidths[i] < ProbedWidths[i + 1]
    BY <2>2, ProbedAre
  <2> QED
    BY <1>2, <1>3, <2>1, <2>2, <2>3
<1>5. PICK s \in 1 .. 2 : /\ page.styles[s] \in PageStyles /\ v \in Widths
                          /\ probes[v].seen.state = s
                          /\ probes[v].verdict.state = Judged(page.styles[s], v)
  BY <1>4, ProbeIs
<1>6. PICK z \in 1 .. 2 : /\ page.styles[z] \in PageStyles /\ w \in Widths
                          /\ probes[w].seen.state = z
                          /\ probes[w].verdict.state = Judged(page.styles[z], w)
  BY <1>4, ProbeIs
<1>7. \A x, y \in DOMAIN probes : SeenAlike(x, y)
  BY <1>1, AlikeIs DEF WholePrints, OnePrint
<1>8. PICK old \in PageStyles, new \in PageStyles : old = page.styles[s] /\ new = page.styles[z]
  BY <1>5, <1>6
<1>9. /\ Judged(old, v) # "inconclusive" /\ Judged(new, w) # "inconclusive"
      /\ Judged(old, v) # Judged(new, w)
  BY <1>2, <1>4, <1>5, <1>6, <1>8 DEF Concrete
<1>10. /\ Judged(old, v) = "fail" <=> Fails(s, v)
       /\ Judged(new, w) = "fail" <=> Fails(z, w)
       /\ Judged(old, v) \in {"fail", "pass"} /\ Judged(new, w) \in {"fail", "pass"}
  BY <1>8, <1>9 DEF Judged, Fails
<1>11. Fails(s, v) <=> ~ Fails(z, w)
  BY <1>9, <1>10
<1>12. s = z => page.styles[s].at \in v + 1 .. w
  <2>1. old.at \in Nat /\ old.wide \in BOOLEAN /\ v \in Nat /\ w \in Nat
    <3>1. Widths \subseteq Nat
      BY DEF Widths, MinWidth, MaxWidth
    <3> QED
      BY <1>5, <1>6, <3>1, ResponsiveConstants
  <2>2. s = z => (Broken(old, v) <=> ~ Broken(old, w))
    BY <1>8, <1>11 DEF Fails
  <2>3. CASE old.wide
    BY <1>4, <1>8, <2>1, <2>2, <2>3 DEF Broken
  <2>4. CASE ~old.wide
    BY <1>4, <1>8, <2>1, <2>2, <2>4 DEF Broken
  <2> QED
    BY <2>3, <2>4
<1> QED
  BY <1>3, <1>5, <1>6, <1>7, <1>11, <1>12 DEF TransitionHolds

\* The widths an issue compares were all probed on trees of one fingerprint.
OfOnePrint(i) == \A v, w \in i.widths : v # w => SeenAlike(v, w)

\* An issue of one layout is of one width.
LEMMA IssuesAreAt ==
  ASSUME NEW o, NEW i \in IssuesOf(o)
  PROVE  i.widths = {o.width}
<1> DEFINE at(kind, refs, class) == Issue(kind, refs, class, {o.width})
<1>1. \A kind, refs, class : at(kind, refs, class).widths = {o.width}
  BY DEF Issue
<1>2. \E kind, refs, class : i = at(kind, refs, class)
  <2> HIDE DEF at
  <2>1. IssuesOf(o) =
          {at("HorizontalOverflow", {n.ref}, "deterministic") :
             n \in {n \in o.nodes : OutsideX(n, o.width)}}
          \union {at("TextOrControlOutsideViewport", {n.ref}, "deterministic") :
             n \in {n \in o.nodes : n.interactive /\ (OutsideX(n, o.width) \/ OutsideY(n))}}
          \union {at("Clipping", {n.ref, n.parent}, "suspected") :
             n \in {n \in o.nodes : \E p \in o.nodes : p.ref = n.parent /\ Exceeds(n, p)}}
          \union {at("ControlCollision", {ab[1].ref, ab[2].ref}, "deterministic") :
             ab \in {ab \in o.nodes \X o.nodes : /\ ab[1] # ab[2]
                                                 /\ ab[1].interactive /\ ab[2].interactive
                                                 /\ Collide(ab[1], ab[2])}}
    BY Zenon DEF IssuesOf, at
  <2> QED
    BY <2>1, Zenon
<1> HIDE DEF at
<1> QED
  BY <1>1, <1>2

\* An issue of two neighbouring widths is one of two probes with one fingerprint.
LEMMA NearbyAreOfOnePrint ==
  ASSUME NEW o, NEW p, NEW i \in nearby_issues(o, p)
  PROVE  SamePrint(o, p) /\ i.widths = {o.width, p.width}
<1>1. SamePrint(o, p)
  BY DEF nearby_issues
<1> DEFINE one(ref) == Issue("UnexpectedDisappearance", {ref}, "suspected", {o.width, p.width})
           two(n) == Issue("DramaticLayoutJump", {n.ref}, "deterministic", {o.width, p.width})
<1>2. \A x : one(x).widths = {o.width, p.width} /\ two(x).widths = {o.width, p.width}
  BY DEF Issue
<1>3. \E x : i = one(x) \/ i = two(x)
  <2> HIDE DEF one, two
  <2>1. i \in {one(ref) :
                 ref \in (RefsOf(Controls(o)) \ RefsOf(p.nodes))
                           \union (RefsOf(Controls(p)) \ RefsOf(o.nodes))}
              \union {two(n) : n \in {n \in p.nodes : \E m \in o.nodes :
                                         m.ref = n.ref /\ Jumped(n, m, p, o)}}
    BY Zenon DEF nearby_issues, one, two
  <2> QED
    BY <2>1, Zenon
<1> HIDE DEF one, two
<1> QED
  BY <1>1, <1>2, <1>3

\* So is one of three.
LEMMA LocalAreOfOnePrint ==
  ASSUME ResponsiveInv, NEW a \in DOMAIN probes, NEW b \in DOMAIN probes, NEW c \in DOMAIN probes,
         NEW i \in local_issues(a, b, c)
  PROVE  OfOnePrint(i)
<1>1. SamePrint(probes[a].seen, probes[b].seen) /\ SamePrint(probes[b].seen, probes[c].seen)
  BY DEF local_issues
<1>2. i.widths = {a, b, c}
  <2>1. \A kind, class : Issue(kind, {}, class, {a, b, c}).widths = {a, b, c}
    BY DEF Issue
  <2>2. \E kind, class : i = Issue(kind, {}, class, {a, b, c})
    BY Zenon DEF local_issues
  <2> QED
    BY <2>1, <2>2
<1>3. \A v, w \in {a, b, c} : SeenAlike(v, w)
  BY <1>1, AlikeIs DEF SamePrint
<1> QED
  BY <1>2, <1>3 DEF OfOnePrint

\* Every issue of the series is (analyze_responsive_series).
LEMMA SeriesIsOfOnePrint ==
  ASSUME ResponsiveInv, NEW i \in analyze_responsive_series
  PROVE  OfOnePrint(i)
<1>1. PICK n \in Nat : n = Len(ProbedWidths)
  BY ProbedAre
<1>2. \/ \E k \in 1 .. n - 1 : i \in nearby_issues(probes[ProbedWidths[k]].seen, probes[ProbedWidths[k + 1]].seen)
      \/ \E k \in 1 .. n - 2 : i \in local_issues(ProbedWidths[k], ProbedWidths[k + 1], ProbedWidths[k + 2])
  <2> DEFINE near(k) == nearby_issues(probes[ProbedWidths[k]].seen, probes[ProbedWidths[k + 1]].seen)
             mid(k) == local_issues(ProbedWidths[k], ProbedWidths[k + 1], ProbedWidths[k + 2])
  <2>1. analyze_responsive_series =
          (UNION {near(k) : k \in 1 .. Len(ProbedWidths) - 1})
            \union (UNION {mid(k) : k \in 1 .. Len(ProbedWidths) - 2})
    BY DEF analyze_responsive_series
  <2> HIDE DEF near, mid
  <2>2. \/ \E k \in 1 .. n - 1 : i \in near(k)
        \/ \E k \in 1 .. n - 2 : i \in mid(k)
    BY <1>1, <2>1
  <2> QED
    BY <2>2 DEF near, mid
<1>3. ASSUME NEW k \in 1 .. n - 1,
             i \in nearby_issues(probes[ProbedWidths[k]].seen, probes[ProbedWidths[k + 1]].seen)
      PROVE  OfOnePrint(i)
  <2>1. PICK v \in DOMAIN probes, w \in DOMAIN probes : v = ProbedWidths[k] /\ w = ProbedWidths[k + 1]
    BY <1>1, ProbedAre
  <2>2. probes[v].seen.width = v /\ probes[w].seen.width = w
    BY ProbeIs
  <2>3. PICK o, p : o = probes[v].seen /\ p = probes[w].seen
    OBVIOUS
  <2>4. SamePrint(o, p) /\ i.widths = {o.width, p.width}
    BY <1>3, <2>1, <2>3, NearbyAreOfOnePrint
  <2>5. SeenAlike(v, w) /\ SeenAlike(w, v)
    BY <2>3, <2>4, AlikeIs DEF SamePrint
  <2> QED
    BY <2>2, <2>3, <2>4, <2>5 DEF OfOnePrint
<1>4. ASSUME NEW k \in 1 .. n - 2,
             i \in local_issues(ProbedWidths[k], ProbedWidths[k + 1], ProbedWidths[k + 2])
      PROVE  OfOnePrint(i)
  <2>1. k \in 1 .. Spent /\ k + 1 \in 1 .. Spent /\ k + 2 \in 1 .. Spent
    BY <1>1, ProbedAre
  <2>2. PICK a \in DOMAIN probes, b \in DOMAIN probes, c \in DOMAIN probes :
          a = ProbedWidths[k] /\ b = ProbedWidths[k + 1] /\ c = ProbedWidths[k + 2]
    BY <2>1, ProbedAre
  <2> QED
    BY <1>4, <2>2, LocalAreOfOnePrint
<1> QED
  BY <1>2, <1>3, <1>4

\* So is every issue of the report.
LEMMA IssuesAreOfOne ==
  ASSUME ResponsiveInv,
         NEW i \in (UNION {probes[w].verdict.issues : w \in DOMAIN probes}) \union analyze_responsive_series
  PROVE  OfOnePrint(i)
<1>1. CASE i \in analyze_responsive_series
  BY <1>1, SeriesIsOfOnePrint
<1>2. ASSUME NEW w \in DOMAIN probes, i \in probes[w].verdict.issues
      PROVE  OfOnePrint(i)
  <2>1. probes[w].seen.width = w /\ probes[w].verdict.issues = IssuesOf(probes[w].seen)
    BY ProbeIs
  <2>2. i.widths = {w}
    BY <1>2, <2>1, IssuesAreAt
  <2> QED
    BY <2>2 DEF OfOnePrint
<1>3. \/ i \in analyze_responsive_series
      \/ \E w \in DOMAIN probes : i \in probes[w].verdict.issues
  OBVIOUS
<1> QED
  BY <1>1, <1>2, <1>3

\* A probe adds at most its own width, with what the page's present state shows
\* there (probe_width).
LEMMA ProbeStep ==
  ASSUME ResponsiveInv, search.phase # "idle", NEW width \in Widths,
         NEW outcome \in {"ok", "responsive_settle_failed"}, Probe(width, outcome)
  PROVE  /\ DOMAIN probes \subseteq DOMAIN probes' /\ DOMAIN probes' \subseteq DOMAIN probes \cup {width}
         /\ DOMAIN probes' \in SUBSET Widths
         /\ Spent \in Nat /\ Spent' \in Nat /\ Spent' <= Spent + 1 /\ Spent' <= MaxProbes
         /\ \A w \in DOMAIN probes' : ProbeOk(probes'[w], page.styles, page.hash, w)
<1>1. DOMAIN probes \in SUBSET Widths /\ IsFiniteSet(DOMAIN probes) /\ Spent \in Nat /\ Spent <= MaxProbes
  BY ProbedAre DEF ResponsiveInv, SearchTypes, SearchIsBounded
<1>2. \A w \in DOMAIN probes : ProbeOk(probes[w], page.styles, page.hash, w)
  BY DEF ResponsiveInv, ProbesAreTrue
<1>3. CASE probes' = probes
  BY <1>1, <1>2, <1>3 DEF Spent
<1>4. CASE probes' # probes
  <2>1. Cardinality(DOMAIN probes) < MaxProbes
    BY <1>4 DEF Probe
  <2>2. PICK p : p = [seen |-> Probed(width), verdict |-> evaluate_observation(Probed(width))]
    OBVIOUS
  <2>3. probes' = [w \in DOMAIN probes \union {width} |-> IF w = width THEN p ELSE probes[w]]
    BY <1>4, <2>2, Zenon DEF Probe
  <2>4. ProbeOk(p, page.styles, page.hash, width)
    <3>1. page.state \in 1 .. 2
      BY DEF ResponsiveInv, SearchTypes, Pages
    <3>2. Probed(width) = Layout(page.styles[page.state], page.hash, width, page.state)
      BY DEF Probed, Layout
    <3> QED
      BY <2>2, <3>1, <3>2 DEF ProbeOk
  <2>5. /\ DOMAIN probes' = DOMAIN probes \cup {width}
        /\ \A w \in DOMAIN probes' : probes'[w] = IF w = width THEN p ELSE probes[w]
    BY <2>3
  <2>6. \A w \in DOMAIN probes' : ProbeOk(probes'[w], page.styles, page.hash, w)
    BY <1>2, <2>4, <2>5
  <2>7. Spent' \in Nat /\ Spent' <= Spent + 1
    BY <1>1, <2>5, OneMore DEF Spent
  <2> QED
    BY <1>1, <2>1, <2>5, <2>6, <2>7 DEF Spent, MaxProbes
<1> QED
  BY <1>3, <1>4

\* Whether a search that could afford the probe goes on.
LEMMA FailureIs ==
  ASSUME ResponsiveInv, Spent <= 11, NEW width,
         NEW outcome \in {"ok", "responsive_settle_failed"}, Probe(width, outcome)
  PROVE  /\ FailureAfter(width, outcome) \in {"none", "responsive_settle_failed"}
         /\ FailureAfter(width, outcome) = "none" => width \in DOMAIN probes'
<1>1. search.failure \in {"none", "responsive_settle_failed"}
  BY DEF ResponsiveInv, SearchTypes
<1>2. Spent \in Nat /\ ~(Cardinality(DOMAIN probes) >= MaxProbes) /\ Cardinality(DOMAIN probes) < MaxProbes
  BY ProbedAre DEF Spent, MaxProbes
<1>3. CASE width \in DOMAIN probes \/ search.failure # "none"
  BY <1>1, <1>3 DEF FailureAfter, Probe
<1>4. CASE ~(width \in DOMAIN probes \/ search.failure # "none")
  <2>1. FailureAfter(width, outcome) = IF outcome = "ok" THEN "none" ELSE outcome
    BY <1>2, <1>4 DEF FailureAfter
  <2>2. outcome = "ok" => DOMAIN probes' = DOMAIN probes \cup {width}
    BY <1>2, <1>4 DEF Probe
  <2> QED
    BY <2>1, <2>2
<1> QED
  BY <1>3, <1>4

\* While there is no receipt there is nothing to be wrong in it.
LEMMA NoReceiptYet ==
  ASSUME ResponsiveInv, search.phase # "done", receipt' = receipt
  PROVE  receipt = {} /\ receipt' = {} /\ TransitionIsReal' /\ IssuesAreOfOnePrint'
<1>1. receipt = {}
  BY DEF ResponsiveInv
<1> QED
  BY <1>1 DEF TransitionIsReal, IssuesAreOfOnePrint

\* A sheet that is not touched stays what it is.
LEMMA SheetStays ==
  ASSUME ResponsiveInv, sheet' = sheet
  PROVE  SheetKeepsEveryFrame' /\ (sheet' = {} \/ \E s \in sheet' : sheet' = {s})
BY DEF ResponsiveInv, SheetKeepsEveryFrame

-----------------------------------------------------------------------------

\* The first widths (plan_search).
LEMMA PlanStep ==
  ASSUME ResponsiveInv, NEW width \in StartWidths, plan_search(width)
  PROVE  ResponsiveInv'
<1>1. search.phase = "idle" /\ sheet = {} /\ UNCHANGED <<probes, receipt, sheet>>
  BY DEF plan_search, NoSearch
<1>2. PICK S : S = bounded_adaptive_sweep(ToSet(Presets) \union {clamped(width)}, InitialCap)
  OBVIOUS
<1>3. S \in SUBSET Widths /\ PresetWidths \subseteq S /\ Cardinality(S) <= 6
  BY <1>2, FirstWidths
<1>4. S \in SUBSET Int /\ IsFiniteSet(S) /\ Cardinality(S) \in Nat
  BY <1>3, WidthsAreFinite
<1>5. PICK left : left = Sorted(S)
  OBVIOUS
<1>6. /\ left \in Seq(Widths) /\ Len(left) = Cardinality(S)
      /\ \A v \in PresetWidths : \E i \in 1 .. Len(left) : left[i] = v
  <2>1. /\ left \in Seq(S) /\ Len(left) = Cardinality(S)
        /\ \A v \in S : \E i \in 1 .. Cardinality(S) : left[i] = v
    BY <1>4, <1>5, SortedIs
  <2>2. left \in Seq(Widths)
    BY <1>3, <2>1
  <2> QED
    BY <1>3, <2>1, <2>2
<1>7. search' = [search EXCEPT !.phase = "sweep", !.left = left]
  BY <1>2, <1>5, Zenon DEF plan_search
<1>8. \E now, later \in PageStyles, hash \in Fingerprints :
        page' = [page EXCEPT !.styles = <<now, later>>, !.hash = hash]
  BY DEF plan_search
<1>9. PICK styles \in PageStyles \X PageStyles, hash \in Fingerprints :
        page' = [page EXCEPT !.styles = styles, !.hash = hash]
  <2>1. PICK now \in PageStyles, later \in PageStyles, hash \in Fingerprints :
          page' = [page EXCEPT !.styles = <<now, later>>, !.hash = hash]
    BY <1>8
  <2>2. <<now, later>> \in PageStyles \X PageStyles
    OBVIOUS
  <2> QED
    BY <2>1, <2>2
<1>10. SearchTypes
  BY DEF ResponsiveInv
<1>11. search.failure = "none" /\ DOMAIN probes = {} /\ Spent = 0
  <2>1. search.failure = "none" /\ DOMAIN probes = {}
    BY <1>1 DEF ResponsiveInv, ProbesAreTrue, SearchIsBounded
  <2> QED
    BY <2>1, FS_EmptySet DEF Spent
<1>12. /\ search'.phase = "sweep" /\ search'.left = left /\ search'.failure = "none"
       /\ page'.styles = styles
  BY <1>7, <1>9, <1>10, <1>11 DEF SearchTypes, Pages
<1>13. SearchTypes'
  <2>1. page' \in Pages
    BY <1>9, <1>10 DEF SearchTypes, Pages
  <2>2. search' \in [phase : {"idle", "sweep", "bisect", "resolve", "done", "failed"},
                     left : Seq(Widths), low : 0 .. MaxWidth, high : 0 .. MaxWidth,
                     low_fails : BOOLEAN, failure : {"none", "responsive_settle_failed"}]
    BY <1>6, <1>7, <1>10 DEF SearchTypes
  <2> QED
    BY <1>1, <1>11, <2>1, <2>2 DEF SearchTypes
<1>14. ProbesAreTrue'
  BY <1>1, <1>11, <1>12 DEF ProbesAreTrue
<1>15. SearchIsBounded'
  <2>1. Spent' = 0
    BY <1>1, <1>11 DEF Spent
  <2>2. Len(left) \in Nat /\ Len(left) <= 6
    BY <1>3, <1>4, <1>6
  <2> QED
    BY <1>6, <1>12, <2>1, <2>2 DEF SearchIsBounded, MaxProbes
<1>16. receipt' = {} /\ TransitionIsReal' /\ IssuesAreOfOnePrint'
  BY <1>1, NoReceiptYet
<1>17. SheetKeepsEveryFrame' /\ (sheet' = {} \/ \E s \in sheet' : sheet' = {s})
  BY <1>1, SheetStays
<1> QED
  BY <1>13, <1>14, <1>15, <1>16, <1>17 DEF ResponsiveInv

\* One of the first widths (probe_width, over the initial widths).
LEMMA InitialStep ==
  ASSUME ResponsiveInv, NEW outcome \in {"ok", "responsive_settle_failed"}, probe_initial(outcome)
  PROVE  ResponsiveInv'
<1>1. search.phase = "sweep" /\ search.left # <<>> /\ UNCHANGED <<page, receipt, sheet>>
  BY DEF probe_initial
<1>2. PICK left, width, failure :
        left = search.left /\ width = Head(left) /\ failure = FailureAfter(width, outcome)
  OBVIOUS
<1>3. /\ Probe(width, outcome)
      /\ search' = [search EXCEPT !.left = Tail(search.left), !.failure = failure,
                                  !.phase = IF failure = "none" THEN search.phase ELSE "failed"]
  BY <1>2 DEF probe_initial
<1>4. SearchTypes
  BY DEF ResponsiveInv
<1>5. left \in Seq(Widths) /\ left # <<>>
  BY <1>1, <1>2, <1>4 DEF SearchTypes
<1>6. /\ width \in Widths /\ width = left[1] /\ Tail(left) \in Seq(Widths)
      /\ Len(left) \in Nat /\ Len(left) >= 1 /\ Len(Tail(left)) = Len(left) - 1
      /\ \A i \in 1 .. Len(left) : i = 1 \/ (i - 1 \in 1 .. Len(Tail(left)) /\ Tail(left)[i - 1] = left[i])
  BY <1>2, <1>5
<1>7. Spent + Len(left) <= 6 /\ Spent \in Nat
  BY <1>1, <1>2, ProbedAre DEF ResponsiveInv, SearchIsBounded
<1>8. /\ DOMAIN probes \subseteq DOMAIN probes' /\ DOMAIN probes' \in SUBSET Widths
      /\ Spent' \in Nat /\ Spent' <= Spent + 1 /\ Spent' <= MaxProbes
      /\ \A w \in DOMAIN probes' : ProbeOk(probes'[w], page.styles, page.hash, w)
  BY <1>1, <1>3, <1>6, ProbeStep
<1>9. /\ failure \in {"none", "responsive_settle_failed"}
      /\ failure = "none" => width \in DOMAIN probes'
  <2>1. Spent <= 11
    BY <1>6, <1>7
  <2> QED
    BY <1>2, <1>3, <2>1, FailureIs
<1>10. /\ search'.left = Tail(left) /\ search'.failure = failure
       /\ search'.phase = IF failure = "none" THEN "sweep" ELSE "failed"
  BY <1>1, <1>2, <1>3, <1>4 DEF SearchTypes
<1>11. SearchTypes'
  <2>1. search' \in [phase : {"idle", "sweep", "bisect", "resolve", "done", "failed"},
                     left : Seq(Widths), low : 0 .. MaxWidth, high : 0 .. MaxWidth,
                     low_fails : BOOLEAN, failure : {"none", "responsive_settle_failed"}]
    BY <1>2, <1>3, <1>4, <1>6, <1>9 DEF SearchTypes
  <2> QED
    BY <1>1, <1>4, <1>8, <2>1 DEF SearchTypes
<1>12. ProbesAreTrue'
  BY <1>1, <1>8, <1>10 DEF ProbesAreTrue, ResponsiveInv
<1>13. ASSUME failure = "none"
       PROVE  \A v \in PresetWidths : \/ v \in DOMAIN probes'
                                      \/ \E i \in 1 .. Len(search'.left) : search'.left[i] = v
  <2> SUFFICES ASSUME NEW v \in PresetWidths, v \notin DOMAIN probes'
               PROVE  \E i \in 1 .. Len(Tail(left)) : Tail(left)[i] = v
    BY <1>10
  <2>1. PICK i \in 1 .. Len(left) : left[i] = v
    BY <1>1, <1>2, <1>8 DEF ResponsiveInv, SearchIsBounded
  <2>2. i # 1
    BY <1>6, <1>9, <1>13, <2>1
  <2> QED
    BY <1>6, <2>1, <2>2
<1>14. SearchIsBounded'
  <2>1. Spent' + Len(Tail(left)) <= 6
    BY <1>6, <1>7, <1>8
  <2> QED
    BY <1>8, <1>10, <1>13, <2>1 DEF SearchIsBounded
<1>15. receipt' = {} /\ TransitionIsReal' /\ IssuesAreOfOnePrint'
  BY <1>1, NoReceiptYet
<1>16. SheetKeepsEveryFrame' /\ (sheet' = {} \/ \E s \in sheet' : sheet' = {s})
  BY <1>1, SheetStays
<1> QED
  BY <1>11, <1>12, <1>14, <1>15, <1>16 DEF ResponsiveInv

\* Nothing but the phase and the bracket of the search changes.
LEMMA SearchOnly ==
  ASSUME ResponsiveInv, UNCHANGED <<page, probes, sheet>>, search.phase # "idle",
         search'.phase # "idle"
  PROVE  /\ ProbesAreTrue' /\ DOMAIN probes' \in SUBSET Widths
         /\ page' \in Pages
         /\ Spent' = Spent /\ Spent' <= MaxProbes
         /\ SheetKeepsEveryFrame' /\ (sheet' = {} \/ \E s \in sheet' : sheet' = {s})
<1>1. ProbesAreTrue' /\ DOMAIN probes' \in SUBSET Widths /\ page' \in Pages
  <2>1. page.styles \in PageStyles \X PageStyles /\ \A w \in DOMAIN probes : ProbeOk(probes[w], page.styles, page.hash, w)
    BY DEF ResponsiveInv, ProbesAreTrue
  <2>2. DOMAIN probes \in SUBSET Widths /\ page \in Pages
    BY DEF ResponsiveInv, SearchTypes
  <2> QED
    BY <2>1, <2>2 DEF ProbesAreTrue
<1>2. Spent' = Spent /\ Spent' <= MaxProbes
  BY DEF ResponsiveInv, SearchIsBounded, Spent
<1> QED
  BY <1>1, <1>2, SheetStays

\* A width a preview may have.
LEMMA WidthIs ==
  /\ \A v : v \in Widths <=> v \in Int /\ 320 <= v /\ v <= 1440
  /\ \A v \in Widths : v \in 0 .. MaxWidth
<1>1. Widths = 320 .. 1440 /\ MaxWidth = 1440
  BY DEF Widths, MinWidth, MaxWidth
<1> QED
  BY <1>1

\* Between two neighbours among widths that hold the presets there are never
\* more than 672.
LEMMA PresetsBoundGaps ==
  ASSUME NEW S \in SUBSET Widths, PresetWidths \subseteq S, NEW v \in S, NEW w \in S, v < w,
         \A u \in S : u <= v \/ w <= u
  PROVE  w - v \in Nat /\ w - v <= 672
<1>1. PICK a \in Int, b \in Int : a = v /\ b = w /\ 320 <= a /\ a < b /\ b <= 1440
  BY DEF Widths, MinWidth, MaxWidth
<1>2. (390 <= a \/ b <= 390) /\ (768 <= a \/ b <= 768)
  BY <1>1 DEF PresetWidths
<1> QED
  BY <1>1, <1>2

\* What is bisected is the one place where the verdict changes.
LEMMA ChooseStep ==
  ASSUME ResponsiveInv, choose_bracket
  PROVE  ResponsiveInv'
<1>1. /\ search.phase = "sweep" /\ search.left = <<>> /\ UNCHANGED <<page, probes, receipt, sheet>>
  BY DEF choose_bracket
<1>2. SearchTypes /\ Spent \in Nat /\ search.failure = "none" /\ Spent <= 6 /\ PresetWidths \subseteq DOMAIN probes
  <2>1. SearchTypes /\ Spent \in Nat
    BY ProbedAre DEF ResponsiveInv
  <2>2. /\ search.failure = "none" /\ Spent + Len(search.left) <= 6
        /\ \A v \in PresetWidths : v \in DOMAIN probes \/ \E i \in 1 .. Len(search.left) : search.left[i] = v
    BY <1>1 DEF ResponsiveInv, SearchIsBounded
  <2>3. Len(search.left) = 0 /\ 1 .. 0 = {}
    BY <1>1
  <2> QED
    BY <2>1, <2>2, <2>3
<1>3. CASE search' = [search EXCEPT !.phase = "resolve"]
  <2>1. search'.phase = "resolve"
    BY <1>2, <1>3 DEF SearchTypes
  <2>2. search' \in [phase : {"idle", "sweep", "bisect", "resolve", "done", "failed"},
                     left : Seq(Widths), low : 0 .. MaxWidth, high : 0 .. MaxWidth,
                     low_fails : BOOLEAN, failure : {"none", "responsive_settle_failed"}]
    BY <1>2, <1>3 DEF SearchTypes
  <2>3. /\ ProbesAreTrue' /\ SearchTypes'
        /\ Spent' = Spent /\ Spent' <= MaxProbes
        /\ SheetKeepsEveryFrame' /\ (sheet' = {} \/ \E s \in sheet' : sheet' = {s})
    BY <1>1, <2>1, <2>2, SearchOnly DEF SearchTypes
  <2>4. SearchIsBounded'
    BY <2>1, <2>3 DEF SearchIsBounded
  <2>5. receipt' = {} /\ TransitionIsReal' /\ IssuesAreOfOnePrint'
    BY <1>1, NoReceiptYet
  <2> QED
    BY <2>3, <2>4, <2>5 DEF ResponsiveInv
<1>4. CASE ~(search' = [search EXCEPT !.phase = "resolve"])
  <2>1. Cardinality(Transitions) = 1
    BY <1>4 DEF choose_bracket
  <2>2. Transitions # {}
    BY <2>1, FS_EmptySet
  <2>3. PICK i, v, w, b : /\ i = Min(Transitions) /\ v = ProbedWidths[i] /\ w = ProbedWidths[i + 1]
                          /\ b = (probes[v].verdict.state = "fail")
    OBVIOUS
  <2>4. search' = [search EXCEPT !.phase = "bisect", !.low = v, !.high = w, !.low_fails = b]
    BY <1>4, <2>3, Zenon DEF choose_bracket
  <2>5. i \in 1 .. Spent - 1
    BY <2>2, <2>3, FirstTransition
  <2>6. /\ v \in DOMAIN probes /\ w \in DOMAIN probes /\ v < w
        /\ \A u \in DOMAIN probes : u <= v \/ w <= u
    BY <2>3, <2>5, ProbedAre
  <2>7. PICK D \in SUBSET Widths : D = DOMAIN probes
    BY <1>2 DEF SearchTypes
  <2>8. w - v \in Nat /\ w - v <= 672 /\ v \in Widths /\ w \in Widths
    BY <1>2, <2>6, <2>7, PresetsBoundGaps
  <2>9. v \in 0 .. MaxWidth /\ w \in 0 .. MaxWidth /\ v <= w
    <3>1. v \in Int /\ w \in Int
      BY <2>8, WidthIs
    <3> QED
      BY <2>6, <2>8, <3>1, WidthIs
  <2>10. b \in BOOLEAN
    BY <2>3
  <2>11. search' \in [phase : {"idle", "sweep", "bisect", "resolve", "done", "failed"},
                      left : Seq(Widths), low : 0 .. MaxWidth, high : 0 .. MaxWidth,
                      low_fails : BOOLEAN, failure : {"none", "responsive_settle_failed"}]
    BY <1>2, <2>4, <2>9, <2>10 DEF SearchTypes
  <2>12. search'.phase = "bisect" /\ search'.low = v /\ search'.high = w
    BY <1>2, <2>4 DEF SearchTypes
  <2>13. /\ ProbesAreTrue' /\ SearchTypes'
         /\ Spent' = Spent /\ Spent' <= MaxProbes
         /\ SheetKeepsEveryFrame' /\ (sheet' = {} \/ \E s \in sheet' : sheet' = {s})
    BY <1>1, <2>11, <2>12, SearchOnly DEF SearchTypes
  <2>14. Fits(Spent, w - v)
    BY <1>2, <2>8 DEF Fits
  <2>15. SearchIsBounded'
    BY <2>8, <2>9, <2>12, <2>13, <2>14 DEF SearchIsBounded
  <2>16. receipt' = {} /\ TransitionIsReal' /\ IssuesAreOfOnePrint'
    BY <1>1, NoReceiptYet
  <2> QED
    BY <2>13, <2>15, <2>16 DEF ResponsiveInv
<1> QED
  BY <1>3, <1>4

\* Half of a bracket, and one more probe spent.
LEMMA FitsHalves ==
  ASSUME NEW n \in Nat, NEW m \in Nat, NEW gap \in Nat, NEW half \in Nat,
         Fits(n, gap), gap > 16, m <= n + 1, 2 * half <= gap + 1
  PROVE  n <= 11 /\ Fits(m, half)
BY DEF Fits

\* A probe of the middle (discover_breakpoint).
LEMMA BisectStep ==
  ASSUME ResponsiveInv, NEW outcome \in {"ok", "responsive_settle_failed"}, discover_breakpoint(outcome)
  PROVE  ResponsiveInv'
<1>1. search.phase = "bisect" /\ ~narrow_enough /\ UNCHANGED <<page, receipt, sheet>>
  BY DEF discover_breakpoint
<1>2. SearchTypes
  BY DEF ResponsiveInv
<1>3. /\ search.low \in Widths /\ search.high \in Widths /\ search.low <= search.high
      /\ Fits(Spent, search.high - search.low) /\ ~(search.high - search.low <= 16)
  BY <1>1 DEF ResponsiveInv, SearchIsBounded, narrow_enough, Tolerance
<1>4. PICK low \in Int, high \in Int :
        /\ low = search.low /\ high = search.high /\ low <= high
        /\ low \in Widths /\ high \in Widths
        /\ 320 <= low /\ high <= 1440 /\ high - low \in Nat /\ high - low > 16 /\ Fits(Spent, high - low)
  <2>1. PICK low \in Int, high \in Int :
          /\ low = search.low /\ high = search.high /\ low <= high
          /\ 320 <= low /\ high <= 1440 /\ low \in Widths /\ high \in Widths
    BY <1>3, WidthIs
  <2>2. high - low \in Nat /\ high - low > 16 /\ Fits(Spent, high - low)
    BY <1>3, <2>1
  <2> QED
    BY <2>1, <2>2
<1>5. PICK h, mid, failure :
        h = (high - low) \div 2 /\ mid = low + h /\ failure = FailureAfter(mid, outcome)
  OBVIOUS
<1>6. h \in Nat /\ 2 * h <= high - low /\ high - low < 2 * h + 2
  <2>1. PICK d \in Nat : d = high - low
    BY <1>4, <1>5
  <2>2. d \div 2 \in Nat /\ 2 * (d \div 2) <= d /\ d < 2 * (d \div 2) + 2
    BY HalfIs
  <2> QED
    BY <1>4, <1>5, <2>1, <2>2
<1>7. mid \in Int /\ low <= mid /\ mid <= high /\ mid \in Widths
  BY <1>4, <1>5, <1>6, WidthIs
<1>8. Probe(mid, outcome)
  BY <1>4, <1>5 DEF discover_breakpoint
<1>9. PICK new_low, new_high :
        /\ search' = [search EXCEPT !.failure = failure, !.low = new_low, !.high = new_high]
        /\ (new_low = mid /\ new_high = high) \/ (new_low = low /\ new_high = mid)
  <2>1. PICK same : same = (fails_at(mid) = search.low_fails)
    OBVIOUS
  <2>2. search' = [search EXCEPT !.failure = failure, !.low = IF same THEN mid ELSE low,
                                 !.high = IF same THEN high ELSE mid]
    BY <1>4, <1>5, <2>1 DEF discover_breakpoint
  <2> QED
    BY <2>2
<1>10. /\ new_low \in Widths /\ new_high \in Widths /\ new_low \in Int /\ new_high \in Int
       /\ new_low <= new_high /\ new_high - new_low \in Nat /\ 2 * (new_high - new_low) <= (high - low) + 1
  <2>1. CASE new_low = mid /\ new_high = high
    BY <1>4, <1>5, <1>6, <1>7, <2>1
  <2>2. CASE new_low = low /\ new_high = mid
    BY <1>4, <1>5, <1>6, <1>7, <2>2
  <2> QED
    BY <1>9, <2>1, <2>2
<1>11. /\ DOMAIN probes' \in SUBSET Widths /\ Spent \in Nat
       /\ Spent' \in Nat /\ Spent' <= Spent + 1 /\ Spent' <= MaxProbes
       /\ \A w \in DOMAIN probes' : ProbeOk(probes'[w], page.styles, page.hash, w)
  BY <1>1, <1>7, <1>8, ProbeStep
<1>12. Spent <= 11 /\ Fits(Spent', new_high - new_low)
  <2>1. PICK n \in Nat, m \in Nat, gap \in Nat, half \in Nat :
          n = Spent /\ m = Spent' /\ gap = high - low /\ half = new_high - new_low
    BY <1>4, <1>5, <1>10, <1>11
  <2>2. Fits(n, gap) /\ gap > 16 /\ m <= n + 1 /\ 2 * half <= gap + 1
    BY <1>4, <1>5, <1>10, <1>11, <2>1
  <2>3. n <= 11 /\ Fits(m, half)
    BY <2>2, FitsHalves
  <2> QED
    BY <2>1, <2>3
<1>13. failure \in {"none", "responsive_settle_failed"}
  BY <1>4, <1>5, <1>8, <1>12, FailureIs
<1>14. search'.phase = "bisect" /\ search'.low = new_low /\ search'.high = new_high
  BY <1>1, <1>2, <1>9 DEF SearchTypes
<1>15. SearchTypes'
  <2>1. new_low \in 0 .. MaxWidth /\ new_high \in 0 .. MaxWidth
    BY <1>10, WidthIs
  <2>2. search' \in [phase : {"idle", "sweep", "bisect", "resolve", "done", "failed"},
                     left : Seq(Widths), low : 0 .. MaxWidth, high : 0 .. MaxWidth,
                     low_fails : BOOLEAN, failure : {"none", "responsive_settle_failed"}]
    BY <1>2, <1>9, <1>13, <2>1 DEF SearchTypes
  <2> QED
    BY <1>1, <1>2, <1>11, <2>2 DEF SearchTypes
<1>16. ProbesAreTrue'
  BY <1>1, <1>11, <1>14 DEF ProbesAreTrue, ResponsiveInv
<1>17. SearchIsBounded'
  BY <1>10, <1>11, <1>12, <1>14 DEF SearchIsBounded
<1>18. receipt' = {} /\ TransitionIsReal' /\ IssuesAreOfOnePrint'
  BY <1>1, NoReceiptYet
<1>19. SheetKeepsEveryFrame' /\ (sheet' = {} \/ \E s \in sheet' : sheet' = {s})
  BY <1>1, SheetStays
<1> QED
  BY <1>15, <1>16, <1>17, <1>18, <1>19 DEF ResponsiveInv

\* Every other step of a search leaves what was probed alone.
LEMMA PhaseStep ==
  ASSUME ResponsiveInv, search.phase # "idle", UNCHANGED <<page, probes, sheet>>,
         NEW phase \in {"resolve", "failed", "done"}, search' = [search EXCEPT !.phase = phase]
  PROVE  /\ SearchTypes' /\ ProbesAreTrue' /\ SearchIsBounded' /\ search'.phase = phase
         /\ SheetKeepsEveryFrame' /\ (sheet' = {} \/ \E s \in sheet' : sheet' = {s})
<1>1. SearchTypes
  BY DEF ResponsiveInv
<1>2. search'.phase = phase
  BY <1>1 DEF SearchTypes
<1>3. search' \in [phase : {"idle", "sweep", "bisect", "resolve", "done", "failed"},
                   left : Seq(Widths), low : 0 .. MaxWidth, high : 0 .. MaxWidth,
                   low_fails : BOOLEAN, failure : {"none", "responsive_settle_failed"}]
  BY <1>1 DEF SearchTypes
<1>4. /\ ProbesAreTrue' /\ SearchTypes'
      /\ Spent' = Spent /\ Spent' <= MaxProbes
      /\ SheetKeepsEveryFrame' /\ (sheet' = {} \/ \E s \in sheet' : sheet' = {s})
  BY <1>2, <1>3, SearchOnly DEF SearchTypes
<1>5. SearchIsBounded'
  BY <1>2, <1>4 DEF SearchIsBounded
<1> QED
  BY <1>2, <1>4, <1>5

\* The bisection is over.
LEMMA FoundStep ==
  ASSUME ResponsiveInv, bracket_found
  PROVE  ResponsiveInv'
<1>1. search.phase = "bisect" /\ UNCHANGED <<page, probes, receipt, sheet>>
  BY DEF bracket_found
<1>2. PICK phase \in {"resolve", "failed"} : search' = [search EXCEPT !.phase = phase]
  BY DEF bracket_found
<1>3. /\ SearchTypes' /\ ProbesAreTrue' /\ SearchIsBounded'
      /\ SheetKeepsEveryFrame' /\ (sheet' = {} \/ \E s \in sheet' : sheet' = {s})
  BY <1>1, <1>2, PhaseStep
<1>4. receipt' = {} /\ TransitionIsReal' /\ IssuesAreOfOnePrint'
  BY <1>1, NoReceiptYet
<1> QED
  BY <1>3, <1>4 DEF ResponsiveInv

\* What was probed of the page stays so while neither changes.
LEMMA HoldsStays ==
  ASSUME UNCHANGED <<page, probes>>
  PROVE  /\ \A t : TransitionHolds(t)' <=> TransitionHolds(t)
         /\ \A v, w : SeenAlike(v, w)' <=> SeenAlike(v, w)
<1>1. \A w : TreeSeen(w)' = TreeSeen(w)
  BY DEF TreeSeen
<1>2. \A v, w : SeenAlike(v, w)' <=> SeenAlike(v, w)
  BY <1>1, Zenon DEF SeenAlike
<1>3. \A state, width : Fails(state, width)' <=> Fails(state, width)
  BY Zenon DEF Fails
<1>4. \A t : TransitionHolds(t)' <=> TransitionHolds(t)
  BY <1>2, <1>3, Zenon DEF TransitionHolds
<1> QED
  BY <1>2, <1>4

\* The receipt says what is so (run_live_adaptive_responsive).
LEMMA ReportStep ==
  ASSUME ResponsiveInv, report
  PROVE  ResponsiveInv'
<1>1. search.phase = "resolve" /\ UNCHANGED <<page, probes, sheet>> /\ search' = [search EXCEPT !.phase = "done"]
  BY DEF report
<1>2. PICK r : /\ r.transition = transition_of_the_search
               /\ r.issues = (UNION {probes[w].verdict.issues : w \in DOMAIN probes})
                               \union analyze_responsive_series
               /\ receipt' = {r}
  <2>1. PICK t, is : /\ t = transition_of_the_search
                     /\ is = (UNION {probes[w].verdict.issues : w \in DOMAIN probes})
                               \union analyze_responsive_series
    OBVIOUS
  <2>2. receipt' = {[transition |-> t, issues |-> is]}
    BY <2>1 DEF report
  <2> QED
    BY <2>1, <2>2
<1>3. /\ SearchTypes' /\ ProbesAreTrue' /\ SearchIsBounded' /\ search'.phase = "done"
      /\ SheetKeepsEveryFrame' /\ (sheet' = {} \/ \E s \in sheet' : sheet' = {s})
  BY <1>1, PhaseStep
<1>4. TransitionIsReal'
  <2>1. PICK t : t = r.transition /\ t = transition_of_the_search
    BY <1>2
  <2>2. t.kind = "resolved" =>
          TransitionHolds(t)
    BY <2>1, ResolvedIsReal
  <2>3. t.kind = "resolved" => TransitionHolds(t)'
    BY <1>1, <2>2, HoldsStays
  <2> QED
    BY <1>2, <2>1, <2>3 DEF TransitionIsReal
<1>5. IssuesAreOfOnePrint'
  <2>1. \A i \in r.issues : OfOnePrint(i)
    BY <1>2, IssuesAreOfOne
  <2> QED
    BY <1>1, <1>2, <2>1, HoldsStays DEF IssuesAreOfOnePrint, OfOnePrint
<1> QED
  BY <1>2, <1>3, <1>4, <1>5 DEF ResponsiveInv

\* A page that turns into its other state changes nothing that was probed.
LEMMA DriftStep ==
  ASSUME ResponsiveInv, page_drifts
  PROVE  ResponsiveInv'
<1>1. /\ search.phase \in {"sweep", "bisect"} /\ page' = [page EXCEPT !.state = 2]
      /\ UNCHANGED <<search, probes, receipt, sheet>>
  BY DEF page_drifts
<1>2. SearchTypes' /\ page'.styles = page.styles /\ page'.hash = page.hash
  <2>1. page \in Pages
    BY DEF ResponsiveInv, SearchTypes
  <2>2. page' \in Pages /\ page'.styles = page.styles /\ page'.hash = page.hash
    BY <1>1, <2>1 DEF Pages
  <2> QED
    BY <1>1, <2>2 DEF ResponsiveInv, SearchTypes
<1>3. ProbesAreTrue'
  BY <1>1, <1>2 DEF ResponsiveInv, ProbesAreTrue
<1>4. SearchIsBounded'
  BY <1>1 DEF ResponsiveInv, SearchIsBounded, Spent
<1>5. receipt' = {} /\ TransitionIsReal' /\ IssuesAreOfOnePrint'
  BY <1>1, NoReceiptYet
<1>6. SheetKeepsEveryFrame' /\ (sheet' = {} \/ \E s \in sheet' : sheet' = {s})
  BY <1>1, SheetStays
<1> QED
  BY <1>2, <1>3, <1>4, <1>5, <1>6 DEF ResponsiveInv

\* A contact sheet is built while there is no search.
LEMMA SheetStep ==
  ASSUME ResponsiveInv, build_responsive_contact_sheet
  PROVE  ResponsiveInv'
<1>1. search.phase = "idle" /\ UNCHANGED <<page, search, probes, receipt>>
  BY Zenon DEF build_responsive_contact_sheet, NoSearch
<1>2. SheetKeepsEveryFrame' /\ \E s : sheet' = {s}
  BY SheetIsKept
<1>3. SearchTypes' /\ ProbesAreTrue' /\ SearchIsBounded'
  BY <1>1 DEF ResponsiveInv, SearchTypes, ProbesAreTrue, SearchIsBounded, Spent
<1>4. receipt' = {} /\ TransitionIsReal' /\ IssuesAreOfOnePrint'
  BY <1>1, NoReceiptYet
<1> QED
  BY <1>2, <1>3, <1>4 DEF ResponsiveInv

\* Every step keeps the invariant.
LEMMA ResponsiveStep ==
  ASSUME ResponsiveInv, [ResponsiveNext]_respVars
  PROVE  ResponsiveInv'
<1>1. CASE UNCHANGED respVars
  <2>1. UNCHANGED <<page, search, probes, receipt, sheet>>
    BY <1>1 DEF respVars
  <2>2. SearchTypes' /\ ProbesAreTrue' /\ SearchIsBounded'
    BY <2>1 DEF ResponsiveInv, SearchTypes, ProbesAreTrue, SearchIsBounded, Spent
  <2>3. TransitionIsReal' /\ IssuesAreOfOnePrint' /\ SheetKeepsEveryFrame'
    <3>1. \A r \in receipt : r.transition.kind = "resolved" => TransitionHolds(r.transition)
      BY DEF ResponsiveInv, TransitionIsReal
    <3>2. \A r \in receipt : \A i \in r.issues : \A v, w \in i.widths : v # w => SeenAlike(v, w)
      BY DEF ResponsiveInv, IssuesAreOfOnePrint
    <3>3. TransitionIsReal'
      BY <2>1, <3>1, HoldsStays DEF TransitionIsReal
    <3>4. IssuesAreOfOnePrint'
      BY <2>1, <3>2, HoldsStays DEF IssuesAreOfOnePrint
    <3> QED
      BY <2>1, <3>3, <3>4 DEF ResponsiveInv, SheetKeepsEveryFrame
  <2> QED
    BY <2>1, <2>2, <2>3 DEF ResponsiveInv
<1>2. ASSUME NEW width \in StartWidths, plan_search(width) PROVE ResponsiveInv'
  BY <1>2, PlanStep
<1>3. ASSUME NEW outcome \in {"ok", "responsive_settle_failed"}, probe_initial(outcome)
      PROVE  ResponsiveInv'
  BY <1>3, InitialStep
<1>4. ASSUME NEW outcome \in {"ok", "responsive_settle_failed"}, discover_breakpoint(outcome)
      PROVE  ResponsiveInv'
  BY <1>4, BisectStep
<1>5. CASE choose_bracket
  BY <1>5, ChooseStep
<1>6. CASE bracket_found
  BY <1>6, FoundStep
<1>7. CASE report
  BY <1>7, ReportStep
<1>8. CASE page_drifts
  BY <1>8, DriftStep
<1>9. CASE build_responsive_contact_sheet
  BY <1>9, SheetStep
<1> QED
  BY <1>1, <1>2, <1>3, <1>4, <1>5, <1>6, <1>7, <1>8, <1>9, Zenon DEF ResponsiveNext

\* It holds before anything is asked for.
LEMMA ResponsiveStart ==
  ASSUME ResponsiveInit
  PROVE  ResponsiveInv
<1>1. DOMAIN probes = {} /\ receipt = {} /\ sheet = {}
  BY DEF ResponsiveInit
<1>2. search.phase = "idle" /\ search.failure = "none" /\ Spent = 0
  BY <1>1, FS_EmptySet DEF ResponsiveInit, Spent
<1>3. SearchTypes
  BY <1>1 DEF ResponsiveInit, SearchTypes, Pages, MaxWidth
<1>4. ProbesAreTrue /\ SearchIsBounded
  BY <1>1, <1>2 DEF ProbesAreTrue, SearchIsBounded, MaxProbes
<1> QED
  BY <1>1, <1>3, <1>4 DEF ResponsiveInv, TransitionIsReal, IssuesAreOfOnePrint, SheetKeepsEveryFrame

\* What the invariant says of types and of the report.
LEMMA ResponsiveSays ==
  ASSUME ResponsiveInv
  PROVE  ResponsiveTypeOK /\ ResponsiveReportIsSound
<1>1. Cardinality(receipt) <= 1 /\ Cardinality(sheet) <= 1
  <2>1. (receipt = {} \/ \E r \in receipt : receipt = {r}) /\ (sheet = {} \/ \E s \in sheet : sheet = {s})
    BY DEF ResponsiveInv
  <2>2. ASSUME NEW S, S = {} \/ \E x \in S : S = {x} PROVE Cardinality(S) \in 0 .. 1
    <3>1. CASE S = {}
      BY <3>1, FS_EmptySet
    <3>2. CASE \E x \in S : S = {x}
      <4>1. PICK x : S = {x}
        BY <3>2
      <4>2. Cardinality(S) = 1
        BY <4>1, FS_Singleton
      <4> QED
        BY <4>2
    <3> QED
      BY <2>2, <3>1, <3>2
  <2>3. Cardinality(receipt) \in 0 .. 1 /\ Cardinality(sheet) \in 0 .. 1
    BY <2>1, <2>2
  <2> QED
    BY <2>3
<1>2. ResponsiveTypeOK
  BY <1>1 DEF ResponsiveInv, SearchTypes, Pages, ResponsiveTypeOK, Widths
<1>3. SearchFitsTheCap
  BY DEF ResponsiveInv, SearchTypes, SearchIsBounded, SearchFitsTheCap, Spent
<1> QED
  BY <1>2, <1>3 DEF ResponsiveInv, ResponsiveReportIsSound

\* What the responsive report says of the page is so, as far as the fingerprint of
\* the page's semantic tree tells its states apart: between the probes behind a
\* transition it resolves, or behind an issue that compares widths, nothing the
\* fingerprint reads has changed, the page failed at one end of the transition and
\* not at the other, and in a single state it starts or stops failing between
\* them; the cap on probes never ends a search, and the contact sheet keeps every
\* frame whole.  For every style of page, width, frame height and fingerprint,
\* those included that states share or that cover a tree in part.
THEOREM ResponsiveReportStaysSound ==
  ResponsiveSpec => [](ResponsiveTypeOK /\ ResponsiveReportIsSound)
<1>1. ResponsiveInit => ResponsiveInv
  BY ResponsiveStart
<1>2. ResponsiveInv /\ [ResponsiveNext]_respVars => ResponsiveInv'
  BY ResponsiveStep
<1>3. ResponsiveInv => ResponsiveTypeOK /\ ResponsiveReportIsSound
  BY ResponsiveSays
<1> QED
  BY <1>1, <1>2, <1>3, PTL DEF ResponsiveSpec
=============================================================================
