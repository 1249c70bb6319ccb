--------------------------- MODULE BoundedQueues ---------------------------
(***************************************************************************)
(* What the queues of crates/live-bridge/src have in common: push_bounded, *)
(* and the tombstones of the two cancellation authorities, which follow    *)
(* the same rules for public actions and for native work.                  *)
(***************************************************************************)
EXTENDS Integers, Sequences, FiniteSets, SequencesExt

\* The lesser of two bounds.
Least(m, n) == IF m < n THEN m ELSE n

\* push_bounded: the oldest elements give way without a word.
Bounded(s, n) == IF Len(s) <= n THEN s ELSE SubSeq(s, Len(s) - n + 1, Len(s))

\* retain: s without the elements of a set, the others in their order.
Without(s, gone) ==
  LET kept[i \in 0..Len(s)] ==
        IF i = 0 THEN <<>>
        ELSE IF s[i] \in gone THEN kept[i - 1] ELSE Append(kept[i - 1], s[i])
  IN  kept[Len(s)]

\* record_enqueued: a pending entry that the bound pushed out is forgotten; a
\* cancelled one keeps its tombstone.
Evicted(life, kept) ==
  [x \in DOMAIN life |-> IF life[x] = "pending" /\ ~Contains(kept, x) THEN "none" ELSE life[x]]

\* prune_cancelled_tombstones: the oldest tombstones beyond the bound, but
\* never one that is still queued: the queue would deliver it.
Pruned(order, queued, bound) ==
  LET loose == Without(order, ToSet(queued))
      over  == Len(order) - bound
  IN  ToSet(SubSeq(loose, 1, IF over < 0 THEN 0 ELSE Least(over, Len(loose))))

\* What the pruning leaves of the lifecycle entries.
LifeWithout(life, gone) ==
  [x \in DOMAIN life |-> IF x \in gone /\ life[x] = "cancelled" THEN "none" ELSE life[x]]

=============================================================================
