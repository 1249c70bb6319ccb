----------------------------- MODULE QueueProofs -----------------------------
(***************************************************************************)
(* Proofs about the queues of live-bridge and their cancellations: native  *)
(* work (NativeExecutor) and public actions (PublicActions).  Both rest on *)
(* what the operations of BoundedQueues do to a sequence.                  *)
(***************************************************************************)
EXTENDS NativeExecutor, PublicActions, FiniteSetTheorems, TLAPS

-----------------------------------------------------------------------------
(* Bounded queues.                                                         *)

\* Without as a function of the position: what is kept of the first i elements.
Step(f, s, gone, i) ==
  IF i = 0 THEN <<>>
  ELSE IF s[i] \in gone THEN f[i - 1] ELSE Append(f[i - 1], s[i])

\* f is that function, up to position n.
Steps(f, s, gone, n) == f = [i \in 0..n |-> Step(f, s, gone, i)]

\* A set of naturals has a least element.
LEMMA LeastOfNaturals ==
  ASSUME NEW T \in SUBSET Nat, T # {}
  PROVE  \E m \in T : \A k \in T : m <= k
<1>1. PICK m \in T : \A y \in T : <<y, m>> \notin OpToRel(<, Nat)
  BY WFMin, NatLessThanWellFounded
<1>2. \A x, y \in Nat : x < y => <<x, y>> \in OpToRel(<, Nat)
  BY SMTT(20) DEF OpToRel
<1>3. \A y \in T : ~(y < m)
  BY <1>1, <1>2
<1> QED
  BY <1>3

\* The recursion of Without defines a function, whatever the length.
LEMMA StepsExist ==
  ASSUME NEW s, NEW gone, NEW n \in Nat
  PROVE  \E f : Steps(f, s, gone, n)
<1> DEFINE T == {k \in Nat : ~ \E f : Steps(f, s, gone, k)}
<1> SUFFICES ASSUME T # {} PROVE FALSE
  OBVIOUS
<1>1. PICK m \in T : \A k \in T : m <= k
  <2> HIDE DEF T
  <2>1. T \in SUBSET Nat
    BY DEF T
  <2> QED
    BY <2>1, LeastOfNaturals
<1>2. CASE m = 0
  <2> DEFINE f == [i \in 0..0 |-> <<>>]
  <2>1. Steps(f, s, gone, 0)
    BY DEF Steps, Step
  <2> HIDE DEF f
  <2> QED
    BY <1>1, <1>2, <2>1
<1>3. CASE m # 0
  <2>1. m \in Nat /\ m - 1 \in Nat /\ m - 1 \notin T
    BY <1>1, <1>3
  <2>2. PICK f : Steps(f, s, gone, m - 1)
    BY <2>1
  <2> DEFINE g == [i \in 0..m |-> IF i = m THEN Step(f, s, gone, m) ELSE f[i]]
  <2>3. ASSUME NEW i \in 0..m
        PROVE  g[i] = Step(g, s, gone, i)
    <3>1. CASE i = m
      BY <1>3, <2>1, <3>1 DEF Step
    <3>2. CASE i # m
      <4>1. i \in 0..(m - 1) /\ g[i] = f[i]
        BY <2>1, <3>2
      <4>2. f[i] = Step(f, s, gone, i)
        BY <2>2, <4>1, Zenon DEF Steps
      <4>3. i # 0 => g[i - 1] = f[i - 1]
        BY <2>1, <4>1
      <4> QED
        BY <4>1, <4>2, <4>3 DEF Step
    <3> QED
      BY <3>1, <3>2
  <2>4. g = [i \in 0..m |-> g[i]]
    OBVIOUS
  <2> HIDE DEF g
  <2>5. Steps(g, s, gone, m)
    BY <2>3, <2>4 DEF Steps
  <2> QED
    BY <1>1, <2>5
<1> QED
  BY <1>2, <1>3

\* Without is the last value of that function.
LEMMA WithoutIs ==
  ASSUME NEW s, Len(s) \in Nat, NEW gone
  PROVE  \E f : Steps(f, s, gone, Len(s)) /\ Without(s, gone) = f[Len(s)]
<1>1. \E f : f = [i \in 0..Len(s) |->
                   IF i = 0 THEN <<>>
                   ELSE IF s[i] \in gone THEN f[i - 1] ELSE Append(f[i - 1], s[i])]
  <2>1. \E f : Steps(f, s, gone, Len(s))
    BY StepsExist
  <2> QED
    BY <2>1, Zenon DEF Steps, Step
<1> DEFINE F == CHOOSE f : f = [i \in 0..Len(s) |->
                   IF i = 0 THEN <<>>
                   ELSE IF s[i] \in gone THEN f[i - 1] ELSE Append(f[i - 1], s[i])]
<1>2. F = [i \in 0..Len(s) |->
                   IF i = 0 THEN <<>>
                   ELSE IF s[i] \in gone THEN F[i - 1] ELSE Append(F[i - 1], s[i])]
  BY <1>1, Zenon
<1>3. Without(s, gone) = F[Len(s)]
  BY Zenon DEF Without
<1> HIDE DEF F
<1>4. Steps(F, s, gone, Len(s))
  BY <1>2, Zenon DEF Steps, Step
<1> QED
  BY <1>3, <1>4

\* What an appended element adds.
LEMMA AppendMembers ==
  ASSUME NEW X, NEW s \in Seq(X), NEW x \in X
  PROVE  ToSet(Append(s, x)) = ToSet(s) \cup {x}
<1>1. /\ DOMAIN Append(s, x) = DOMAIN s \cup {Len(s) + 1}
      /\ \A i \in DOMAIN s : Append(s, x)[i] = s[i]
      /\ Append(s, x)[Len(s) + 1] = x
  OBVIOUS
<1> HIDE DEF Append
<1> QED
  BY <1>1, Zenon DEF ToSet

\* The elements that are kept, and no more of them.
LEMMA WithoutMembers ==
  ASSUME NEW X, NEW s \in Seq(X), NEW gone
  PROVE  /\ Without(s, gone) \in Seq(X)
         /\ Len(Without(s, gone)) <= Len(s)
         /\ ToSet(Without(s, gone)) = ToSet(s) \ gone
<1> DEFINE n == Len(s)
<1>1. n \in Nat /\ DOMAIN s = 1..n /\ \A i \in 1..n : s[i] \in X
  OBVIOUS
<1>2. PICK f : Steps(f, s, gone, n) /\ Without(s, gone) = f[n]
  BY WithoutIs, <1>1
<1> DEFINE Good(i) == /\ f[i] \in Seq(X) /\ Len(f[i]) <= i
                      /\ \A x : x \in ToSet(f[i]) <=> \E j \in 1..i : s[j] = x /\ x \notin gone
           Bad == {i \in 0..n : ~Good(i)}
<1> HIDE DEF n
<1>3. ASSUME NEW i \in 0..n PROVE f[i] = Step(f, s, gone, i)
  BY <1>2, Zenon DEF Steps
<1>4. Good(0)
  <2>1. f[0] = <<>>
    BY <1>1, <1>3 DEF Step
  <2>2. ToSet(f[0]) = {}
    BY <2>1 DEF ToSet
  <2> QED
    BY <2>1, <2>2
<1>5. ASSUME NEW i \in 1..n, Good(i - 1) PROVE Good(i)
  <2> DEFINE t == f[i - 1]
  <2>1. i \in Nat /\ i - 1 \in 0..n /\ f[i] = IF s[i] \in gone THEN t ELSE Append(t, s[i])
    BY <1>1, <1>3 DEF Step
  <2>2. /\ t \in Seq(X) /\ Len(t) <= i - 1 /\ s[i] \in X
        /\ \A x : x \in ToSet(t) <=> \E j \in 1..(i - 1) : s[j] = x /\ x \notin gone
    BY <1>1, <1>5
  <2>3. 1..i = (1..(i - 1)) \cup {i}
    BY <2>1
  <2> HIDE DEF t
  <2>4. ToSet(Append(t, s[i])) = ToSet(t) \cup {s[i]}
    BY <2>2, AppendMembers
  <2>5. f[i] \in Seq(X) /\ Len(f[i]) <= i
    BY <2>1, <2>2
  <2>6. \A x : x \in ToSet(f[i]) <=> \E j \in 1..i : s[j] = x /\ x \notin gone
    BY <2>1, <2>2, <2>3, <2>4, Zenon
  <2> QED
    BY <2>5, <2>6
<1>6. Bad = {}
  <2> SUFFICES ASSUME Bad # {} PROVE FALSE
    OBVIOUS
  <2>1. PICK m \in Bad : \A k \in Bad : m <= k
    <3> HIDE DEF Good
    <3>1. Bad \in SUBSET Nat
      BY <1>1
    <3> HIDE DEF Bad
    <3> QED
      BY <3>1, LeastOfNaturals
  <2> HIDE DEF Good
  <2>2. m \in 0..n /\ ~Good(m)
    BY <2>1
  <2>3. m # 0
    BY <1>4, <2>2
  <2>4. m \in 1..n /\ m - 1 \in 0..n /\ ~(m <= m - 1)
    BY <1>1, <2>2, <2>3
  <2>5. Good(m - 1)
    BY <2>1, <2>4
  <2> QED
    BY <1>5, <2>2, <2>4, <2>5, Zenon
<1>7. Good(n)
  <2>1. n \in 0..n
    BY <1>1
  <2> HIDE DEF Good
  <2> QED
    BY <1>6, <2>1
<1>8. ToSet(s) = {x \in X : \E j \in 1..n : s[j] = x}
  BY <1>1 DEF ToSet
<1> QED
  BY <1>1, <1>2, <1>7, <1>8 DEF n

\* The elements of a sequence, by position.
LEMMA MembersAreOfSet ==
  ASSUME NEW X, NEW s \in Seq(X)
  PROVE  ToSet(s) \subseteq X /\ \A x : x \in ToSet(s) <=> \E i \in 1..Len(s) : s[i] = x
<1>1. DOMAIN s = 1..Len(s) /\ \A i \in 1..Len(s) : s[i] \in X
  OBVIOUS
<1> QED
  BY <1>1, Zenon DEF ToSet

\* A suffix of a sequence.
LEMMA SuffixShape ==
  ASSUME NEW X, NEW s \in Seq(X), NEW d \in 0..Len(s)
  PROVE  LET t == SubSeq(s, d + 1, Len(s))
         IN  /\ t \in Seq(X) /\ Len(t) = Len(s) - d
             /\ \A i \in DOMAIN t : i + d \in DOMAIN s /\ t[i] = s[i + d]
             /\ ToSet(t) \subseteq ToSet(s)
<1> DEFINE t == SubSeq(s, d + 1, Len(s))
<1>1. t \in Seq(X) /\ Len(t) = Len(s) - d
  OBVIOUS
<1>2. \A i \in DOMAIN t : i + d \in DOMAIN s /\ t[i] = s[i + d]
  OBVIOUS
<1> HIDE DEF t
<1>3. ToSet(t) \subseteq ToSet(s)
  BY <1>2 DEF ToSet
<1> QED
  BY <1>1, <1>2, <1>3 DEF t

\* A prefix of a sequence.
LEMMA PrefixShape ==
  ASSUME NEW X, NEW s \in Seq(X), NEW c \in 0..Len(s)
  PROVE  LET t == SubSeq(s, 1, c)
         IN  /\ t \in Seq(X) /\ Len(t) = c
             /\ \A i \in 1..c : i \in DOMAIN s /\ t[i] = s[i]
             /\ ToSet(t) = {s[i] : i \in 1..c}
             /\ ToSet(t) \subseteq ToSet(s)
<1> DEFINE t == SubSeq(s, 1, c)
<1>1. t \in Seq(X) /\ Len(t) = c /\ DOMAIN t = 1..c
  OBVIOUS
<1>2. \A i \in 1..c : i \in DOMAIN s /\ t[i] = s[i]
  OBVIOUS
<1> HIDE DEF t
<1>3. ToSet(t) = {s[i] : i \in 1..c} /\ ToSet(t) \subseteq ToSet(s)
  BY <1>1, <1>2 DEF ToSet
<1> QED
  BY <1>1, <1>2, <1>3 DEF t

\* What a bounded queue keeps is a suffix of it.
LEMMA BoundedIsSuffix ==
  ASSUME NEW X, NEW s \in Seq(X), NEW n \in Nat
  PROVE  /\ \E d \in 0..Len(s) : Bounded(s, n) = SubSeq(s, d + 1, Len(s))
         /\ Len(Bounded(s, n)) <= n
<1>1. CASE Len(s) <= n
  <2>1. SubSeq(s, 0 + 1, Len(s)) = s
    OBVIOUS
  <2>2. 0 \in 0..Len(s)
    OBVIOUS
  <2>3. Bounded(s, n) = s
    BY <1>1 DEF Bounded
  <2> QED
    BY <1>1, <2>1, <2>2, <2>3, Zenon
<1>2. CASE ~(Len(s) <= n)
  <2>1. Len(s) - n \in 0..Len(s)
    BY <1>2
  <2>2. Bounded(s, n) = SubSeq(s, Len(s) - n + 1, Len(s))
    BY <1>2 DEF Bounded
  <2>3. Len(SubSeq(s, Len(s) - n + 1, Len(s))) <= n
    BY <1>2, <2>1
  <2> QED
    BY <2>1, <2>2, <2>3, Zenon
<1> QED
  BY <1>1, <1>2

\* push_bounded: a sequence within the bound, of what there was.
LEMMA BoundedShape ==
  ASSUME NEW X, NEW s \in Seq(X), NEW n \in Nat
  PROVE  /\ Bounded(s, n) \in Seq(X) /\ Len(Bounded(s, n)) <= n
         /\ ToSet(Bounded(s, n)) \subseteq ToSet(s)
<1>1. PICK d \in 0..Len(s) : Bounded(s, n) = SubSeq(s, d + 1, Len(s))
  BY BoundedIsSuffix
<1> QED
  BY <1>1, SuffixShape, BoundedIsSuffix

\* A prefix that goes leaves the suffix behind it.
LEMMA WithoutPrefix ==
  ASSUME NEW X, NEW s \in Seq(X), NEW gone, NEW c \in 0..Len(s),
         \A i \in 1..c : s[i] \in gone,
         \A i \in (c + 1)..Len(s) : s[i] \notin gone
  PROVE  Without(s, gone) = SubSeq(s, c + 1, Len(s))
<1> DEFINE n == Len(s)
<1>1. n \in Nat /\ c \in Nat /\ c <= n /\ DOMAIN s = 1..n
  OBVIOUS
<1>2. PICK f : Steps(f, s, gone, n) /\ Without(s, gone) = f[n]
  BY WithoutIs, <1>1
<1> HIDE DEF n
<1>3. ASSUME NEW i \in 0..n PROVE f[i] = Step(f, s, gone, i)
  BY <1>2, Zenon DEF Steps
<1> DEFINE Good(i) == f[i] = SubSeq(s, c + 1, i)
           Bad == {i \in 0..n : ~Good(i)}
<1>4. Good(0)
  <2>1. f[0] = <<>>
    BY <1>1, <1>3 DEF Step
  <2>2. SubSeq(s, c + 1, 0) = <<>>
    BY <1>1
  <2> QED
    BY <2>1, <2>2
<1>5. ASSUME NEW i \in 1..n, Good(i - 1) PROVE Good(i)
  <2>1. i \in Nat /\ i - 1 \in 0..n /\ i \in 0..n
        /\ f[i] = IF s[i] \in gone THEN f[i - 1] ELSE Append(f[i - 1], s[i])
    BY <1>1, <1>3 DEF Step
  <2>2. CASE i <= c
    <3>1. s[i] \in gone
      BY <1>1, <2>1, <2>2
    <3>2. SubSeq(s, c + 1, i - 1) = <<>> /\ SubSeq(s, c + 1, i) = <<>>
      BY <1>1, <2>1, <2>2
    <3> QED
      BY <1>5, <2>1, <3>1, <3>2
  <2>3. CASE ~(i <= c)
    <3>1. s[i] \notin gone
      BY <1>1, <2>1, <2>3 DEF n
    <3>2. SubSeq(s, c + 1, i) = Append(SubSeq(s, c + 1, i - 1), s[i])
      BY <1>1, <2>1, <2>3 DEF n
    <3> QED
      BY <1>5, <2>1, <3>1, <3>2
  <2> QED
    BY <2>2, <2>3
<1>6. Bad = {}
  <2> SUFFICES ASSUME Bad # {} PROVE FALSE
    OBVIOUS
  <2>1. PICK m \in Bad : \A k \in Bad : m <= k
    <3> HIDE DEF Good
    <3>1. Bad \in SUBSET Nat
      BY <1>1
    <3> HIDE DEF Bad
    <3> QED
      BY <3>1, LeastOfNaturals
  <2> HIDE DEF Good
  <2>2. m \in 0..n /\ ~Good(m)
    BY <2>1
  <2>3. m # 0
    BY <1>4, <2>2
  <2>4. m \in 1..n /\ m - 1 \in 0..n /\ ~(m <= m - 1)
    BY <1>1, <2>2, <2>3
  <2>5. Good(m - 1)
    BY <2>1, <2>4
  <2> QED
    BY <1>5, <2>2, <2>4, <2>5, Zenon
<1>7. Good(n)
  <2>1. n \in 0..n
    BY <1>1
  <2> HIDE DEF Good
  <2> QED
    BY <1>6, <2>1
<1> QED
  BY <1>2, <1>7 DEF n

\* What has not been there does not go.
LEMMA WithoutNone ==
  ASSUME NEW X, NEW s \in Seq(X), NEW gone, ToSet(s) \cap gone = {}
  PROVE  Without(s, gone) = s
<1>1. 0 \in 0..Len(s) /\ SubSeq(s, 0 + 1, Len(s)) = s
  OBVIOUS
<1>2. \A i \in (0 + 1)..Len(s) : s[i] \notin gone
  BY DEF ToSet
<1>3. \A i \in 1..0 : s[i] \in gone
  OBVIOUS
<1> QED
  BY <1>1, <1>2, <1>3, WithoutPrefix

\* A queue that has nothing twice loses what was taken from its head.
LEMMA WithoutTaken ==
  ASSUME NEW X, NEW s \in Seq(X), IsInjective(s),
         NEW c \in 0..Len(s)
  PROVE  Without(s, ToSet(SubSeq(s, 1, c))) = SubSeq(s, c + 1, Len(s))
<1> DEFINE gone == ToSet(SubSeq(s, 1, c))
<1>1. gone = {s[i] : i \in 1..c}
  BY PrefixShape
<1> HIDE DEF gone
<1>2. \A i \in 1..c : s[i] \in gone
  BY <1>1
<1>3. \A i \in (c + 1)..Len(s) : s[i] \notin gone
  BY <1>1 DEF IsInjective
<1> QED
  BY <1>2, <1>3, WithoutPrefix DEF gone

\* A suffix of a queue has nothing twice if the queue has not.
LEMMA SuffixIsInjective ==
  ASSUME NEW X, NEW s \in Seq(X), IsInjective(s), NEW d \in 0..Len(s)
  PROVE  IsInjective(SubSeq(s, d + 1, Len(s)))
<1> DEFINE t == SubSeq(s, d + 1, Len(s))
<1>1. t \in Seq(X) /\ \A i \in DOMAIN t : i + d \in DOMAIN s /\ t[i] = s[i + d]
  BY SuffixShape
<1> HIDE DEF t
<1>2. DOMAIN t \subseteq Nat
  BY <1>1
<1> QED
  BY <1>1, <1>2 DEF IsInjective, t

\* A new request joins the end of a bounded queue.
LEMMA BoundedAppend ==
  ASSUME NEW X, NEW s \in Seq(X), IsInjective(s), NEW x \in X, x \notin ToSet(s),
         NEW n \in Nat \ {0}
  PROVE  LET t == Bounded(Append(s, x), n)
         IN  /\ t \in Seq(X) /\ Len(t) <= n /\ IsInjective(t)
             /\ ToSet(t) \subseteq ToSet(s) \cup {x} /\ x \in ToSet(t)
<1> DEFINE a == Append(s, x)
           t == Bounded(a, n)
<1>1. /\ a \in Seq(X) /\ Len(a) = Len(s) + 1 /\ a[Len(s) + 1] = x
      /\ \A i \in 1..Len(s) : a[i] = s[i]
  OBVIOUS
<1>2. ToSet(a) = ToSet(s) \cup {x}
  BY AppendMembers
<1>3. IsInjective(a)
  <2>1. \A i \in 1..Len(s) : s[i] # x
    BY DEF ToSet
  <2>2. DOMAIN a = 1..(Len(s) + 1) /\ DOMAIN s = 1..Len(s)
    BY <1>1
  <2> HIDE DEF a
  <2> QED
    BY <1>1, <2>1, <2>2 DEF IsInjective
<1> HIDE DEF a
<1>4. t \in Seq(X) /\ Len(t) <= n /\ ToSet(t) \subseteq ToSet(a)
  BY <1>1, BoundedShape
<1>5. PICK d \in 0..Len(a) : t = SubSeq(a, d + 1, Len(a))
  BY <1>1, BoundedIsSuffix
<1>6. IsInjective(t)
  BY <1>1, <1>3, <1>5, SuffixIsInjective
<1>7. x \in ToSet(t)
  <2>1. CASE Len(a) <= n
    BY <1>1, <1>2, <2>1 DEF Bounded
  <2>2. CASE ~(Len(a) <= n)
    <3>1. t = SubSeq(a, Len(a) - n + 1, Len(a))
      BY <2>2 DEF Bounded
    <3>2. n \in DOMAIN t /\ t[n] = x
      BY <1>1, <2>2, <3>1
    <3> HIDE DEF t
    <3> QED
      BY <3>2 DEF ToSet
  <2> QED
    BY <2>1, <2>2
<1> QED
  BY <1>2, <1>4, <1>6, <1>7 DEF a

\* The elements of two sequences, one behind the other.
LEMMA ConcatMembers ==
  ASSUME NEW X, NEW s \in Seq(X), NEW t \in Seq(X)
  PROVE  s \o t \in Seq(X) /\ ToSet(s \o t) = ToSet(s) \cup ToSet(t)
<1> DEFINE u == s \o t
           m == Len(s)
           n == Len(t)
<1>1. u \in Seq(X) /\ DOMAIN u = 1..(m + n)
  OBVIOUS
<1>2. \A i \in 1..(m + n) : u[i] = IF i <= m THEN s[i] ELSE t[i - m]
  OBVIOUS
<1>3. m \in Nat /\ n \in Nat /\ DOMAIN s = 1..m /\ DOMAIN t = 1..n
  OBVIOUS
<1> HIDE DEF u, m, n
<1>4. ASSUME NEW x \in ToSet(u) PROVE x \in ToSet(s) \cup ToSet(t)
  <2>1. PICK i \in 1..(m + n) : x = u[i]
    BY <1>1, <1>4 DEF ToSet
  <2>2. CASE i <= m
    BY <1>2, <1>3, <2>1, <2>2 DEF ToSet
  <2>3. CASE ~(i <= m)
    <3>1. i - m \in 1..n /\ x = t[i - m]
      BY <1>2, <1>3, <2>1, <2>3
    <3> QED
      BY <1>3, <3>1 DEF ToSet
  <2> QED
    BY <2>2, <2>3
<1>5. ASSUME NEW i \in 1..m PROVE s[i] \in ToSet(u)
  <2>1. i \in 1..(m + n) /\ u[i] = s[i]
    BY <1>2, <1>3
  <2> QED
    BY <1>1, <2>1 DEF ToSet
<1>6. ASSUME NEW i \in 1..n PROVE t[i] \in ToSet(u)
  <2>1. m + i \in 1..(m + n) /\ u[m + i] = t[i]
    BY <1>2, <1>3
  <2> QED
    BY <1>1, <2>1 DEF ToSet
<1> QED
  BY <1>1, <1>3, <1>4, <1>5, <1>6 DEF u, ToSet

\* prune_cancelled_tombstones leaves what is still queued.
LEMMA PrunedIsNotQueued ==
  ASSUME NEW X, NEW order \in Seq(X), NEW queued \in Seq(X), NEW bound \in Nat
  PROVE  Pruned(order, queued, bound) \cap ToSet(queued) = {}
<1> DEFINE loose == Without(order, ToSet(queued))
           over  == Len(order) - bound
           c     == IF over < 0 THEN 0 ELSE Least(over, Len(loose))
<1>1. loose \in Seq(X) /\ ToSet(loose) = ToSet(order) \ ToSet(queued)
  BY WithoutMembers
<1>2. Len(loose) \in Nat /\ Len(order) \in Nat
  BY <1>1
<1> HIDE DEF loose
<1>3. c \in 0..Len(loose)
  BY <1>2 DEF Least
<1>4. Pruned(order, queued, bound) = ToSet(SubSeq(loose, 1, c))
  BY Zenon DEF Pruned, loose
<1> HIDE DEF c
<1>5. ToSet(SubSeq(loose, 1, c)) \subseteq ToSet(loose)
  BY <1>1, <1>3, PrefixShape
<1> QED
  BY <1>1, <1>4, <1>5

\* As many elements as positions, at most.
LEMMA MembersAreFewer ==
  ASSUME NEW X, NEW s \in Seq(X)
  PROVE  IsFiniteSet(ToSet(s)) /\ Cardinality(ToSet(s)) <= Len(s)
<1>1. Len(s) \in Nat /\ s \in Surjection(1..Len(s), ToSet(s))
  BY DEF Surjection, ToSet
<1>2. IsFiniteSet(1..Len(s)) /\ Cardinality(1..Len(s)) = Len(s)
  <2> DEFINE n == Len(s)
  <2>1. 1 \in Int /\ n \in Int /\ (1 > n => n = 0) /\ n - 1 + 1 = n
    BY <1>1
  <2> HIDE DEF n
  <2>2. IsFiniteSet(1..n) /\ Cardinality(1..n) = n
    BY <2>1, FS_Interval
  <2> QED
    BY <2>2 DEF n
<1> QED
  BY <1>1, <1>2, FS_Surjection

-----------------------------------------------------------------------------
(* Native work: for every set of requests and every bound of the queues.   *)

\* The entries of the authority, and the states of the worker.
NativeLifes == {"none", "pending", "inflight", "cancellation_requested", "cancelled"}

NativeWorkerSteps == {"poll", "take", "check", "recheck", "work", "acknowledge", "post", "complete"}

NativeWorkerShape ==
  /\ nWorker \in [step : NativeWorkerSteps, batch : Seq(NativeRequests), attempt : 1..NativeAttempts]
  /\ nWorker.step \notin {"poll", "take"} => nWorker.batch # <<>>

\* A request is queued once, and what is queued can still be cancelled or is.
NativeQueuedOnce ==
  /\ IsInjective(nQueue)
  /\ \A r \in ToSet(nQueue) : nLife[r] \in {"pending", "cancelled"}

\* Only a request that has a caller has left a trace.
NativeCallersWait ==
  \A r \in NativeRequests :
    r \in ToSet(nQueue) \/ nLife[r] # "none" \/ nAsked[r] # "none" => nWaiter[r] # "none"

\* A cancellation that was answered is not taken back.
NativeAskedStays ==
  \A r \in NativeRequests :
    /\ nAsked[r] = "cancelled" => nLife[r] \in {"cancelled", "none"}
    /\ nAsked[r] = "requested" => nLife[r] \in {"cancellation_requested", "cancelled", "none"}

\* A success is the end of its request.
NativeSuccessIsFinal ==
  \A o \in ToSet(nResults) :
    o.ok => /\ nLife[o.request] = "none" /\ nAsked[o.request] = "none"
            /\ nWaiter[o.request] # "none"

NativeInv ==
  /\ NativeTypeOK
  /\ NativeWorkerShape
  /\ NativeRecordsAgree
  /\ IsFiniteSet(NativeActive)
  /\ NativeQueuedOnce
  /\ NativeCallersWait
  /\ NativeAskedStays
  /\ NativeSuccessIsFinal

\* What NativeAuthority leaves: only tombstones of what is not queued go.
LEMMA NativeAuthorityShape ==
  ASSUME NEW life \in [NativeRequests -> NativeLifes], NEW queued \in Seq(NativeRequests),
         NEW order \in Seq(NativeRequests), NativeAuthority(life, queued, order)
  PROVE  /\ nQueued' = queued
         /\ nCancelled' \in Seq(NativeRequests)
         /\ nLife' \in [NativeRequests -> NativeLifes]
         /\ \A r \in NativeRequests :
              \/ nLife'[r] = life[r]
              \/ life[r] = "cancelled" /\ nLife'[r] = "none" /\ r \notin ToSet(queued)
<1> DEFINE gone == Pruned(order, queued, NativeTombstones)
<1>1. gone \cap ToSet(queued) = {}
  BY PrunedIsNotQueued, NativeConstants
<1>2. nQueued' = queued /\ nCancelled' = Without(order, gone) /\ nLife' = LifeWithout(life, gone)
  BY Zenon DEF NativeAuthority
<1> HIDE DEF gone
<1>3. nCancelled' \in Seq(NativeRequests)
  BY <1>2, WithoutMembers
<1>4. nLife' = [x \in NativeRequests |->
                  IF x \in gone /\ life[x] = "cancelled" THEN "none" ELSE life[x]]
  BY <1>2 DEF LifeWithout
<1> QED
  BY <1>1, <1>2, <1>3, <1>4 DEF NativeLifes

\* The list of outcomes, once one more is stored.
LEMMA NativeSettledShape ==
  ASSUME NativeInv, NEW r \in NativeRequests, NEW ok \in BOOLEAN, nResults' = NativeSettled(r, ok)
  PROVE  /\ nResults' \in Seq([request : NativeRequests, ok : BOOLEAN])
         /\ Len(nResults') <= NativeCapacity
         /\ \A o \in ToSet(nResults') : o \in ToSet(nResults) \/ o = [request |-> r, ok |-> ok]
<1> DEFINE new == [request |-> r, ok |-> ok]
           Outcomes == [request : NativeRequests, ok : BOOLEAN]
<1>1. nResults \in Seq(Outcomes) /\ new \in Outcomes
  BY DEF NativeInv, NativeTypeOK
<1>2. nResults' = Bounded(Append(nResults, new), NativeCapacity)
  BY DEF NativeSettled
<1> HIDE DEF new, Outcomes
<1>3. ToSet(Append(nResults, new)) = ToSet(nResults) \cup {new}
  BY <1>1, AppendMembers
<1>4. Append(nResults, new) \in Seq(Outcomes)
  BY <1>1
<1>5. /\ nResults' \in Seq(Outcomes) /\ Len(nResults') <= NativeCapacity
      /\ ToSet(nResults') \subseteq ToSet(nResults) \cup {new}
  <2> DEFINE s == Append(nResults, new)
             t == Bounded(s, NativeCapacity)
  <2>1. s \in Seq(Outcomes) /\ NativeCapacity \in Nat
    BY <1>4, NativeConstants
  <2> HIDE DEF s
  <2>2. t \in Seq(Outcomes) /\ Len(t) <= NativeCapacity /\ ToSet(t) \subseteq ToSet(s)
    BY <2>1, BoundedShape
  <2> HIDE DEF t
  <2> QED
    BY <1>2, <1>3, <2>2, Zenon DEF s, t
<1> QED
  BY <1>5 DEF new, Outcomes

\* The entry of a request only goes on: to the worker, to its cancellation,
\* or out of the authority.
NativeLifeGoesOn ==
  \A r \in NativeRequests :
    \/ nLife'[r] \in {nLife[r], "none"}
    \/ nLife[r] = "pending" /\ nLife'[r] = "inflight"
    \/ nLife[r] = "cancellation_requested" /\ nLife'[r] = "cancelled"

\* A success is one that was there, or the end of a request nobody cancelled.
NativeSuccessIsKnown ==
  \A o \in ToSet(nResults') :
    o.ok => \/ o \in ToSet(nResults)
            \/ /\ nLife'[o.request] = "none" /\ nAsked[o.request] = "none"
               /\ nWaiter[o.request] # "none"

\* A step of the bridge or of the worker, without a caller.
LEMMA NativeStepKeeps ==
  ASSUME NativeInv, nWaiter' = nWaiter, nAsked' = nAsked,
         ToSet(nQueue') \subseteq ToSet(nQueue),
         nResults' \in Seq([request : NativeRequests, ok : BOOLEAN]),
         NativeLifeGoesOn, NativeSuccessIsKnown
  PROVE  NativeCallersWait' /\ NativeAskedStays' /\ NativeSuccessIsFinal'
<1>1. NativeCallersWait'
  BY Zenon DEF NativeInv, NativeCallersWait, NativeLifeGoesOn
<1>2. NativeAskedStays'
  BY Zenon DEF NativeInv, NativeAskedStays, NativeLifeGoesOn
<1>3. NativeSuccessIsFinal'
  <2>1. \A o \in ToSet(nResults') : o.request \in NativeRequests
    <3> DEFINE Outcomes == [request : NativeRequests, ok : BOOLEAN]
    <3>1. \A o \in Outcomes : o.request \in NativeRequests
      OBVIOUS
    <3> HIDE DEF Outcomes
    <3>2. ToSet(nResults') \subseteq Outcomes
      BY MembersAreOfSet DEF Outcomes
    <3> QED
      BY <3>1, <3>2
  <2>2. ASSUME NEW o \in ToSet(nResults'), o.ok
        PROVE  nLife'[o.request] = "none" /\ nAsked'[o.request] = "none" /\ nWaiter'[o.request] # "none"
    <3>1. CASE o \in ToSet(nResults)
      <4>1. /\ nLife[o.request] = "none" /\ nAsked[o.request] = "none"
            /\ nWaiter[o.request] # "none"
        BY <2>2, <3>1 DEF NativeInv, NativeSuccessIsFinal
      <4>2. nLife'[o.request] = "none"
        BY <2>1, <2>2, <4>1 DEF NativeLifeGoesOn
      <4> QED
        BY <4>1, <4>2
    <3> QED
      BY <2>2, <3>1 DEF NativeSuccessIsKnown
  <2> QED
    BY <2>2 DEF NativeSuccessIsFinal
<1> QED
  BY <1>1, <1>2, <1>3

\* The worker's next request, or none.
LEMMA NativeWorkerGoesOn ==
  ASSUME NativeInv, nWorker.step \notin {"poll", "take"}
  PROVE  /\ NativeHandled \in NativeRequests
         /\ nWorker' = NativeIdle => NativeWorkerShape'
         /\ nWorker' = NativeNextOfBatch => NativeWorkerShape'
<1>1. /\ nWorker \in [step : NativeWorkerSteps, batch : Seq(NativeRequests), attempt : 1..NativeAttempts]
      /\ nWorker.batch \in Seq(NativeRequests) /\ nWorker.batch # <<>>
  BY DEF NativeInv, NativeWorkerShape
<1>2. NativeHandled \in NativeRequests
  BY <1>1 DEF NativeHandled
<1>3. nWorker' = NativeIdle => NativeWorkerShape'
  BY NativeConstants DEF NativeIdle, NativeWorkerShape, NativeWorkerSteps
<1>4. ASSUME nWorker' = NativeNextOfBatch PROVE NativeWorkerShape'
  <2>1. CASE Len(nWorker.batch) = 1
    BY <1>3, <1>4, <2>1 DEF NativeNextOfBatch
  <2>2. CASE Len(nWorker.batch) # 1
    <3>1. Tail(nWorker.batch) \in Seq(NativeRequests) /\ Tail(nWorker.batch) # <<>>
      <4> DEFINE b == nWorker.batch
      <4>1. b \in Seq(NativeRequests) /\ b # <<>> /\ Len(b) # 1
        BY <1>1, <2>2
      <4> HIDE DEF b
      <4>2. Tail(b) \in Seq(NativeRequests) /\ Len(Tail(b)) = Len(b) - 1 /\ Len(b) \in Nat
        BY <4>1
      <4>3. Len(b) # 0 /\ Len(Tail(b)) # 0
        BY <4>1, <4>2
      <4>4. Len(<<>>) = 0
        OBVIOUS
      <4>5. Tail(b) # <<>>
        BY <4>3, <4>4, Zenon
      <4> QED
        BY <4>2, <4>5 DEF b
    <3>2. nWorker' = [step |-> "check", batch |-> Tail(nWorker.batch), attempt |-> 1]
      BY <1>4, <2>2 DEF NativeNextOfBatch, NativeIdle
    <3> QED
      BY <3>1, <3>2, NativeConstants DEF NativeWorkerShape, NativeWorkerSteps
  <2> QED
    BY <2>1, <2>2
<1> QED
  BY <1>2, <1>3, <1>4

\* A step of the worker that leaves the bridge alone.
LEMMA NativeWorkerAlone ==
  ASSUME NativeInv, UNCHANGED <<nStore, nAuthority, nWaiter, nAsked>>,
         nOld' \subseteq NativeRequests, NativeWorkerShape'
  PROVE  NativeInv'
<1>1. /\ UNCHANGED <<nQueue, nInflight, nClaimed, nResults, nLife, nQueued, nCancelled, nWaiter, nAsked>>
      /\ NativeActive' = NativeActive
  BY DEF nStore, nAuthority, NativeActive
<1>2. NativeTypeOK'
  BY <1>1 DEF NativeInv, NativeTypeOK, NativeWorkerShape, NativeWorkerSteps
<1>3. NativeRecordsAgree' /\ IsFiniteSet(NativeActive')
  BY <1>1 DEF NativeInv, NativeRecordsAgree
<1>4. NativeQueuedOnce' /\ NativeCallersWait' /\ NativeAskedStays' /\ NativeSuccessIsFinal'
  BY <1>1 DEF NativeInv, NativeQueuedOnce, NativeCallersWait, NativeAskedStays, NativeSuccessIsFinal
<1> QED
  BY <1>2, <1>3, <1>4 DEF NativeInv

\* The worker asks whether it is to cancel.
LEMMA CancellationRequestedKeeps ==
  ASSUME NativeInv, cancellation_requested
  PROVE  NativeInv'
<1>1. /\ UNCHANGED <<nStore, nAuthority, nWaiter, nAsked>> /\ nOld' = nOld
      /\ nWorker.step \in {"check", "recheck"}
  BY DEF cancellation_requested
<1>2. NativeWorkerShape'
  <2>1. CASE nWorker' = NativeIdle \/ nWorker' = NativeNextOfBatch
    BY <1>1, <2>1, NativeWorkerGoesOn
  <2>2. CASE \E step \in {"acknowledge", "work", "post"} : nWorker' = [nWorker EXCEPT !.step = step]
    BY <1>1, <2>2 DEF NativeInv, NativeWorkerShape, NativeWorkerSteps
  <2> QED
    BY <2>1, <2>2 DEF cancellation_requested
<1> QED
  BY <1>1, <1>2, NativeWorkerAlone DEF NativeInv, NativeTypeOK

\* The worker executes.
LEMMA ExecutePacketKeeps ==
  ASSUME NativeInv, execute_native_visual_packet
  PROVE  NativeInv'
<1>1. /\ UNCHANGED <<nStore, nAuthority, nWaiter, nAsked>> /\ nOld' = nOld
  BY DEF execute_native_visual_packet
<1>2. NativeWorkerShape'
  BY DEF execute_native_visual_packet, NativeInv, NativeWorkerShape, NativeWorkerSteps
<1> QED
  BY <1>1, <1>2, NativeWorkerAlone DEF NativeInv, NativeTypeOK

\* The result goes to the bridge, again if need be.
LEMMA PostResultKeeps ==
  ASSUME NativeInv, post_result
  PROVE  NativeInv'
<1>1. /\ UNCHANGED <<nStore, nAuthority, nWaiter, nAsked>> /\ nOld' = nOld
      /\ nWorker.step \in {"post", "complete"}
  BY DEF post_result
<1>2. NativeWorkerShape'
  <2>1. CASE nWorker' = NativeNextOfBatch
    BY <1>1, <2>1, NativeWorkerGoesOn
  <2>2. CASE /\ nWorker.attempt < NativeAttempts
             /\ nWorker' = [nWorker EXCEPT !.step = "post", !.attempt = @ + 1]
    <3> DEFINE n == nWorker.attempt
    <3>1. /\ nWorker \in [step : NativeWorkerSteps, batch : Seq(NativeRequests),
                          attempt : 1..NativeAttempts]
          /\ nWorker.batch # <<>> /\ n \in 1..NativeAttempts /\ n < NativeAttempts
      BY <1>1, <2>2 DEF NativeInv, NativeWorkerShape
    <3>2. n + 1 \in 1..NativeAttempts
      BY <3>1, NativeConstants
    <3> HIDE DEF n
    <3>3. nWorker' = [step |-> "post", batch |-> nWorker.batch, attempt |-> n + 1]
      BY <2>2, <3>1 DEF n
    <3> QED
      BY <3>1, <3>2, <3>3 DEF NativeWorkerShape, NativeWorkerSteps
  <2> QED
    BY <2>1, <2>2 DEF post_result
<1> QED
  BY <1>1, <1>2, NativeWorkerAlone DEF NativeInv, NativeTypeOK

\* Time passes for a request in flight.
LEMMA NativeLeasePassesKeeps ==
  ASSUME NativeInv, NEW r \in NativeRequests, native_lease_passes(r)
  PROVE  NativeInv'
<1>1. /\ UNCHANGED <<nStore, nAuthority, nWaiter, nAsked>> /\ nWorker' = nWorker
      /\ nOld' = nOld \cup {r}
  BY DEF native_lease_passes
<1>2. nOld' \subseteq NativeRequests
  BY <1>1 DEF NativeInv, NativeTypeOK
<1>3. NativeWorkerShape'
  BY <1>1 DEF NativeInv, NativeWorkerShape
<1> QED
  BY <1>1, <1>2, <1>3, NativeWorkerAlone

\* An active request that ends leaves room.
LEMMA ActiveLeaves ==
  ASSUME NEW S, IsFiniteSet(S), NEW T, T \subseteq S, NEW n \in Nat, Cardinality(S) <= n
  PROVE  IsFiniteSet(T) /\ Cardinality(T) <= n
<1>1. IsFiniteSet(T) /\ Cardinality(T) <= Cardinality(S)
  BY FS_Subset
<1>2. Cardinality(S) \in Nat /\ Cardinality(T) \in Nat
  BY <1>1, FS_CardinalityType
<1> QED
  BY <1>1, <1>2

\* A stored outcome names a request.
LEMMA OutcomesAreOfRequests ==
  ASSUME NativeInv
  PROVE  \A o \in ToSet(nResults) : o.request \in NativeRequests
<1> DEFINE Outcomes == [request : NativeRequests, ok : BOOLEAN]
<1>1. \A o \in Outcomes : o.request \in NativeRequests
  OBVIOUS
<1>2. nResults \in Seq(Outcomes)
  BY DEF NativeInv, NativeTypeOK
<1> HIDE DEF Outcomes
<1> QED
  BY <1>1, <1>2, MembersAreOfSet

\* expire_native_executor_requests.
LEMMA ExpireKeeps ==
  ASSUME NativeInv, expire_native_executor_active_before
  PROVE  NativeInv'
<1>1. /\ nInflight' = nInflight \ nOld /\ nClaimed' = nClaimed \ nOld
      /\ UNCHANGED <<nQueue, nResults, nQueued, nCancelled, nOld, nWaiter, nAsked>>
  BY DEF expire_native_executor_active_before
<1>2. /\ nQueue \in Seq(NativeRequests) /\ nLife \in [NativeRequests -> NativeLifes]
      /\ nResults \in Seq([request : NativeRequests, ok : BOOLEAN])
      /\ \A r \in NativeRequests :
           r \in NativeActive <=> nLife[r] \in {"inflight", "cancellation_requested"}
  BY DEF NativeInv, NativeTypeOK, NativeRecordsAgree, NativeLifes
<1>3. /\ nLife' \in [NativeRequests -> NativeLifes]
      /\ \A r \in NativeRequests :
           nLife'[r] = IF r \in nOld /\ nLife[r] \in {"inflight", "cancellation_requested"}
                         THEN "none" ELSE nLife[r]
  <2>1. CASE NativeActive \cap nOld = {}
    BY <1>2, <2>1 DEF expire_native_executor_active_before
  <2>2. CASE NativeActive \cap nOld # {}
    BY <1>2, <2>2 DEF expire_native_executor_active_before, NativeLifes
  <2> QED
    BY <2>1, <2>2
<1>4. NativeActive' = NativeActive \ nOld
  BY <1>1 DEF NativeActive
<1>5. NativeWorkerShape'
  BY DEF expire_native_executor_active_before, NativeInv, NativeWorkerShape, NativeWorkerSteps
<1>6. NativeTypeOK'
  BY <1>1, <1>3, <1>5 DEF NativeInv, NativeTypeOK, NativeWorkerShape, NativeWorkerSteps, NativeLifes
<1>7. IsFiniteSet(NativeActive') /\ Cardinality(NativeActive') <= NativeCapacity
  BY <1>4, ActiveLeaves, NativeConstants DEF NativeInv, NativeRecordsAgree
<1>8. NativeRecordsAgree'
  BY <1>1, <1>2, <1>3, <1>4, <1>7 DEF NativeInv, NativeRecordsAgree
<1>9. NativeQueuedOnce'
  BY <1>1, <1>2, <1>3, MembersAreOfSet DEF NativeInv, NativeQueuedOnce
<1>10. NativeCallersWait' /\ NativeAskedStays' /\ NativeSuccessIsFinal'
  <2>1. NativeLifeGoesOn
    BY <1>3 DEF NativeLifeGoesOn
  <2>2. NativeSuccessIsKnown
    BY <1>1 DEF NativeSuccessIsKnown
  <2> QED
    BY <1>1, <1>2, <2>1, <2>2, NativeStepKeeps
<1> QED
  BY <1>5, <1>6, <1>7, <1>8, <1>9, <1>10 DEF NativeInv

\* acknowledge_native_executor_cancellation.
LEMMA AcknowledgeKeeps ==
  ASSUME NativeInv, acknowledge_native_executor_cancellation
  PROVE  NativeInv'
<1> DEFINE r == NativeHandled
<1>1. /\ r \in NativeRequests /\ nWorker.step = "acknowledge"
      /\ UNCHANGED <<nQueue, nOld, nWaiter, nAsked>>
      /\ nWorker' = NativeIdle \/ nWorker' = NativeNextOfBatch
  BY NativeWorkerGoesOn DEF acknowledge_native_executor_cancellation
<1>2. NativeWorkerShape'
  BY <1>1, NativeWorkerGoesOn
<1>3. CASE UNCHANGED <<nInflight, nClaimed, nResults, nAuthority>>
  <2>1. UNCHANGED <<nStore, nAuthority, nWaiter, nAsked>> /\ nOld' \subseteq NativeRequests
    BY <1>1, <1>3 DEF nStore, NativeInv, NativeTypeOK
  <2> QED
    BY <1>2, <2>1, NativeWorkerAlone
<1>4. CASE /\ nLife[r] = "cancellation_requested" /\ r \in NativeActive
           /\ nInflight' = nInflight \ {r} /\ nClaimed' = nClaimed \ {r}
           /\ nResults' = NativeSettled(r, FALSE)
           /\ NativeAuthority([nLife EXCEPT ![r] = "cancelled"], nQueued, Append(nCancelled, r))
  <2> HIDE DEF r
  <2> DEFINE life == [nLife EXCEPT ![r] = "cancelled"]
  <2>1. /\ nQueue \in Seq(NativeRequests) /\ nLife \in [NativeRequests -> NativeLifes]
        /\ nQueued \in Seq(NativeRequests) /\ nCancelled \in Seq(NativeRequests)
        /\ nQueued = nQueue
        /\ \A x \in NativeRequests :
             x \in NativeActive <=> nLife[x] \in {"inflight", "cancellation_requested"}
    BY DEF NativeInv, NativeTypeOK, NativeRecordsAgree, NativeLifes
  <2>2. /\ life \in [NativeRequests -> NativeLifes]
        /\ \A x \in NativeRequests : life[x] = IF x = r THEN "cancelled" ELSE nLife[x]
    BY <1>1, <2>1 DEF NativeLifes
  <2>3. Append(nCancelled, r) \in Seq(NativeRequests)
    BY <1>1, <2>1
  <2> HIDE DEF life
  <2>4. /\ nQueued' = nQueued
        /\ nCancelled' \in Seq(NativeRequests)
        /\ nLife' \in [NativeRequests -> NativeLifes]
        /\ \A x \in NativeRequests :
             \/ nLife'[x] = life[x]
             \/ life[x] = "cancelled" /\ nLife'[x] = "none" /\ x \notin ToSet(nQueued)
    <3>1. NativeAuthority(life, nQueued, Append(nCancelled, r))
      BY <1>4 DEF life
    <3> QED
      BY <2>1, <2>2, <2>3, <3>1, NativeAuthorityShape, Zenon
  <2>5. /\ nResults' \in Seq([request : NativeRequests, ok : BOOLEAN])
        /\ Len(nResults') <= NativeCapacity
        /\ \A o \in ToSet(nResults') : o \in ToSet(nResults) \/ o = [request |-> r, ok |-> FALSE]
    BY <1>1, <1>4, NativeSettledShape
  <2>6. NativeActive' = NativeActive \ {r}
    BY <1>4 DEF NativeActive
  <2>7. NativeTypeOK'
    BY <1>1, <1>2, <1>4, <2>1, <2>4, <2>5
    DEF NativeInv, NativeTypeOK, NativeWorkerShape, NativeWorkerSteps, NativeLifes
  <2>8. IsFiniteSet(NativeActive') /\ Cardinality(NativeActive') <= NativeCapacity
    BY <2>6, ActiveLeaves, NativeConstants DEF NativeInv, NativeRecordsAgree
  <2>9. NativeRecordsAgree'
    BY <1>1, <1>4, <2>1, <2>2, <2>4, <2>6, <2>8 DEF NativeInv, NativeRecordsAgree
  <2>10. NativeQueuedOnce'
    <3>1. ToSet(nQueue) \subseteq NativeRequests
      BY <2>1, MembersAreOfSet
    <3> QED
      BY <1>1, <1>4, <2>1, <2>2, <2>4, <3>1 DEF NativeInv, NativeQueuedOnce
  <2>11. NativeLifeGoesOn
    BY <1>4, <2>2, <2>4 DEF NativeLifeGoesOn
  <2>12. NativeSuccessIsKnown
    BY <2>5 DEF NativeSuccessIsKnown
  <2>13. NativeCallersWait' /\ NativeAskedStays' /\ NativeSuccessIsFinal'
    BY <1>1, <2>5, <2>11, <2>12, NativeStepKeeps
  <2> QED
    BY <1>2, <2>7, <2>8, <2>9, <2>10, <2>13 DEF NativeInv
<1> QED
  BY <1>3, <1>4 DEF acknowledge_native_executor_cancellation

\* claim_native_executor.
LEMMA ClaimKeeps ==
  ASSUME NativeInv, claim_native_executor
  PROVE  NativeInv'
<1> DEFINE r == NativeHandled
<1>1. /\ r \in NativeRequests /\ nWorker.step = "post"
      /\ UNCHANGED <<nQueue, nResults, nAuthority, nOld, nWaiter, nAsked>>
  BY NativeWorkerGoesOn DEF claim_native_executor
<1>2. CASE nWorker' = NativeNextOfBatch /\ UNCHANGED <<nInflight, nClaimed>>
  <2>1. UNCHANGED <<nStore, nAuthority, nWaiter, nAsked>> /\ nOld' \subseteq NativeRequests
    BY <1>1, <1>2 DEF nStore, NativeInv, NativeTypeOK
  <2>2. NativeWorkerShape'
    BY <1>1, <1>2, NativeWorkerGoesOn
  <2> QED
    BY <2>1, <2>2, NativeWorkerAlone
<1>3. CASE /\ r \in nInflight
           /\ nInflight' = nInflight \ {r} /\ nClaimed' = nClaimed \cup {r}
           /\ nWorker' = [nWorker EXCEPT !.step = "complete"]
  <2> HIDE DEF r
  <2>1. NativeActive' = NativeActive /\ UNCHANGED <<nLife, nQueued, nCancelled>>
    BY <1>1, <1>3 DEF NativeActive, nAuthority
  <2>2. NativeWorkerShape'
    BY <1>1, <1>3 DEF NativeInv, NativeWorkerShape, NativeWorkerSteps
  <2>3. NativeTypeOK'
    BY <1>1, <1>3, <2>1, <2>2 DEF NativeInv, NativeTypeOK, NativeWorkerShape, NativeWorkerSteps
  <2>4. NativeRecordsAgree' /\ IsFiniteSet(NativeActive')
    BY <1>1, <1>3, <2>1 DEF NativeInv, NativeRecordsAgree
  <2>5. NativeQueuedOnce' /\ NativeCallersWait' /\ NativeAskedStays' /\ NativeSuccessIsFinal'
    BY <1>1, <2>1 DEF NativeInv, NativeQueuedOnce, NativeCallersWait, NativeAskedStays, NativeSuccessIsFinal
  <2> QED
    BY <2>2, <2>3, <2>4, <2>5 DEF NativeInv
<1> QED
  BY <1>2, <1>3 DEF claim_native_executor

\* complete_native_executor.
LEMMA CompleteKeepsNative ==
  ASSUME NativeInv, complete_native_executor
  PROVE  NativeInv'
<1> DEFINE r == NativeHandled
<1>1. /\ r \in NativeRequests /\ nWorker.step = "complete"
      /\ UNCHANGED <<nQueue, nInflight, nCancelled, nOld, nWaiter, nAsked>>
      /\ nWorker' = NativeNextOfBatch
  BY NativeWorkerGoesOn DEF complete_native_executor
<1>2. NativeWorkerShape'
  BY <1>1, NativeWorkerGoesOn
<1>3. CASE UNCHANGED <<nClaimed, nResults, nLife, nQueued>>
  <2>1. UNCHANGED <<nStore, nAuthority, nWaiter, nAsked>> /\ nOld' \subseteq NativeRequests
    BY <1>1, <1>3 DEF nStore, nAuthority, NativeInv, NativeTypeOK
  <2> QED
    BY <1>2, <2>1, NativeWorkerAlone
<1>4. CASE /\ nLife[r] \in {"pending", "inflight"} /\ r \in nClaimed
           /\ nClaimed' = nClaimed \ {r}
           /\ \E ok \in native_result_evidence_correlated : nResults' = NativeSettled(r, ok)
           /\ nLife' = [nLife EXCEPT ![r] = "none"]
           /\ nQueued' = Without(nQueued, {r})
  <2> HIDE DEF r
  <2>1. /\ nQueue \in Seq(NativeRequests) /\ nLife \in [NativeRequests -> NativeLifes]
        /\ nQueued \in Seq(NativeRequests) /\ nQueued = nQueue
        /\ nInflight \cap nClaimed = {}
        /\ \A x \in NativeRequests :
             x \in NativeActive <=> nLife[x] \in {"inflight", "cancellation_requested"}
        /\ \A x \in ToSet(nQueue) : nLife[x] \in {"pending", "cancelled"}
    BY DEF NativeInv, NativeTypeOK, NativeRecordsAgree, NativeQueuedOnce, NativeLifes
  <2>2. r \in NativeActive /\ nLife[r] = "inflight" /\ r \notin ToSet(nQueue) /\ r \notin nInflight
    BY <1>1, <1>4, <2>1 DEF NativeActive
  <2>3. nQueued' = nQueued
    <3>1. ToSet(nQueued) \cap {r} = {}
      BY <2>1, <2>2
    <3> QED
      BY <1>4, <2>1, <3>1, WithoutNone
  <2>4. /\ nLife' \in [NativeRequests -> NativeLifes]
        /\ \A x \in NativeRequests : nLife'[x] = IF x = r THEN "none" ELSE nLife[x]
    BY <1>1, <1>4, <2>1 DEF NativeLifes
  <2>5. PICK ok \in BOOLEAN : nResults' = NativeSettled(r, ok)
    BY <1>4 DEF native_result_evidence_correlated
  <2>6. /\ nResults' \in Seq([request : NativeRequests, ok : BOOLEAN])
        /\ Len(nResults') <= NativeCapacity
        /\ \A o \in ToSet(nResults') : o \in ToSet(nResults) \/ o = [request |-> r, ok |-> ok]
    BY <1>1, <2>5, NativeSettledShape
  <2>7. NativeActive' = NativeActive \ {r}
    BY <1>1, <1>4, <2>2 DEF NativeActive
  <2>8. NativeTypeOK'
    BY <1>1, <1>2, <1>4, <2>1, <2>3, <2>4, <2>6
    DEF NativeInv, NativeTypeOK, NativeWorkerShape, NativeWorkerSteps, NativeLifes
  <2>9. IsFiniteSet(NativeActive') /\ Cardinality(NativeActive') <= NativeCapacity
    BY <2>7, ActiveLeaves, NativeConstants DEF NativeInv, NativeRecordsAgree
  <2>10. NativeRecordsAgree'
    BY <1>1, <1>4, <2>1, <2>3, <2>4, <2>7, <2>9 DEF NativeRecordsAgree
  <2>11. NativeQueuedOnce'
    <3>1. ToSet(nQueue) \subseteq NativeRequests
      BY <2>1, MembersAreOfSet
    <3> QED
      BY <1>1, <2>2, <2>4, <3>1 DEF NativeInv, NativeQueuedOnce
  <2>12. NativeLifeGoesOn
    BY <2>4 DEF NativeLifeGoesOn
  <2>13. NativeSuccessIsKnown
    <3>1. nAsked[r] = "none" /\ nWaiter[r] # "none"
      BY <1>1, <2>2 DEF NativeInv, NativeTypeOK, NativeAskedStays, NativeCallersWait
    <3> QED
      BY <1>1, <2>4, <2>6, <3>1 DEF NativeSuccessIsKnown
  <2>14. NativeCallersWait' /\ NativeAskedStays' /\ NativeSuccessIsFinal'
    BY <1>1, <2>6, <2>12, <2>13, NativeStepKeeps
  <2> QED
    BY <1>2, <2>8, <2>9, <2>10, <2>11, <2>14 DEF NativeInv
<1> QED
  BY <1>3, <1>4 DEF complete_native_executor

\* The session is released.
LEMMA ReleaseKeepsNative ==
  ASSUME NativeInv, native_release_session
  PROVE  NativeInv'
<1>1. /\ nQueue' = <<>> /\ nInflight' = {} /\ nClaimed' = {} /\ nResults' = <<>>
      /\ nLife' = [r \in NativeRequests |-> "none"]
      /\ nQueued' = <<>> /\ nCancelled' = <<>>
      /\ UNCHANGED <<nOld, nWaiter, nWorker, nAsked>>
  BY DEF native_release_session
<1>2. NativeActive' = {} /\ ToSet(<<>>) = {} /\ Cardinality({}) = 0 /\ IsFiniteSet({})
  BY <1>1, FS_EmptySet DEF NativeActive, ToSet
<1>3. NativeWorkerShape'
  BY <1>1 DEF NativeInv, NativeWorkerShape
<1>4. NativeTypeOK'
  BY <1>1, <1>3, NativeConstants DEF NativeInv, NativeTypeOK, NativeWorkerShape, NativeWorkerSteps
<1>5. NativeRecordsAgree'
  BY <1>1, <1>2, NativeConstants DEF NativeRecordsAgree
<1>6. NativeQueuedOnce' /\ NativeCallersWait' /\ NativeAskedStays' /\ NativeSuccessIsFinal'
  BY <1>1, <1>2
  DEF NativeInv, NativeQueuedOnce, NativeCallersWait, NativeAskedStays, NativeSuccessIsFinal, IsInjective
<1> QED
  BY <1>2, <1>3, <1>4, <1>5, <1>6 DEF NativeInv

\* enqueue_native_executor.
LEMMA EnqueueKeeps ==
  ASSUME NativeInv, NEW r \in NativeRequests, enqueue_native_executor(r)
  PROVE  NativeInv'
<1> DEFINE kept == Bounded(Append(nQueued, r), NativeCapacity)
           life == Evicted([nLife EXCEPT ![r] = "pending"], kept)
<1>1. /\ nWaiter[r] = "none"
      /\ nQueue' = Bounded(Append(nQueue, r), NativeCapacity)
      /\ NativeAuthority(life, kept, nCancelled)
      /\ nWaiter' = [nWaiter EXCEPT ![r] = "waiting"]
      /\ UNCHANGED <<nInflight, nClaimed, nResults, nOld, nWorker, nAsked>>
  BY Zenon DEF enqueue_native_executor
<1>2. /\ nQueue \in Seq(NativeRequests) /\ nLife \in [NativeRequests -> NativeLifes]
      /\ nCancelled \in Seq(NativeRequests) /\ nQueued = nQueue
      /\ nWaiter \in [NativeRequests -> {"none", "waiting", "done"}]
      /\ nAsked \in [NativeRequests -> {"none", "cancelled", "requested"}]
      /\ NativeCapacity \in Nat \ {0}
      /\ IsInjective(nQueue)
      /\ \A x \in NativeRequests :
           x \in NativeActive <=> nLife[x] \in {"inflight", "cancellation_requested"}
      /\ \A x \in ToSet(nQueue) : nLife[x] \in {"pending", "cancelled"}
  BY NativeConstants DEF NativeInv, NativeTypeOK, NativeRecordsAgree, NativeQueuedOnce, NativeLifes
<1>3. r \notin ToSet(nQueue) /\ nLife[r] = "none" /\ nAsked[r] = "none" /\ r \notin NativeActive
  BY <1>1, <1>2 DEF NativeInv, NativeCallersWait
<1>4. /\ kept \in Seq(NativeRequests) /\ Len(kept) <= NativeCapacity /\ IsInjective(kept)
      /\ ToSet(kept) \subseteq ToSet(nQueue) \cup {r} /\ r \in ToSet(kept)
      /\ nQueue' = kept
  BY <1>1, <1>2, <1>3, BoundedAppend
<1> HIDE DEF kept
<1>5. /\ life \in [NativeRequests -> NativeLifes]
      /\ \A x \in NativeRequests :
           life[x] = IF x \notin ToSet(kept) /\ (x = r \/ nLife[x] = "pending") THEN "none"
                     ELSE IF x = r THEN "pending" ELSE nLife[x]
  <2>1. \A x : Contains(kept, x) <=> x \in ToSet(kept)
    BY <1>4, MembersAreOfSet DEF Contains
  <2>2. life = [x \in NativeRequests |->
                  IF [nLife EXCEPT ![r] = "pending"][x] = "pending" /\ ~Contains(kept, x)
                    THEN "none" ELSE [nLife EXCEPT ![r] = "pending"][x]]
    BY <1>2 DEF Evicted
  <2> QED
    BY <1>2, <2>1, <2>2 DEF NativeLifes
<1> HIDE DEF life
<1>6. /\ nQueued' = kept
      /\ nCancelled' \in Seq(NativeRequests)
      /\ nLife' \in [NativeRequests -> NativeLifes]
      /\ \A x \in NativeRequests :
           \/ nLife'[x] = life[x]
           \/ life[x] = "cancelled" /\ nLife'[x] = "none" /\ x \notin ToSet(kept)
  BY <1>1, <1>2, <1>4, <1>5, NativeAuthorityShape, Zenon
<1>7. ToSet(kept) \subseteq NativeRequests /\ ToSet(nQueue) \subseteq NativeRequests
  BY <1>2, <1>4, MembersAreOfSet
<1>8. NativeActive' = NativeActive
  BY <1>1 DEF NativeActive
<1>9. NativeWorkerShape'
  BY <1>1 DEF NativeInv, NativeWorkerShape
<1>10. NativeTypeOK'
  BY <1>1, <1>2, <1>4, <1>6, <1>9
  DEF NativeInv, NativeTypeOK, NativeWorkerShape, NativeWorkerSteps, NativeLifes
<1>11. NativeRecordsAgree' /\ IsFiniteSet(NativeActive')
  <2>1. ASSUME NEW x \in NativeRequests
        PROVE  x \in NativeActive <=> nLife'[x] \in {"inflight", "cancellation_requested"}
    BY <1>2, <1>3, <1>5, <1>6
  <2> QED
    BY <1>1, <1>4, <1>6, <1>8, <2>1 DEF NativeInv, NativeRecordsAgree
<1>12. NativeQueuedOnce'
  <2>1. ASSUME NEW x \in ToSet(kept)
        PROVE  nLife'[x] \in {"pending", "cancelled"}
    BY <1>2, <1>4, <1>5, <1>6, <1>7
  <2> QED
    BY <1>4, <2>1 DEF NativeQueuedOnce
<1>13. NativeCallersWait'
  <2>1. ASSUME NEW x \in NativeRequests, x # r, x \in ToSet(kept) \/ nLife'[x] # "none" \/ nAsked[x] # "none"
        PROVE  nWaiter[x] # "none"
    BY <1>4, <1>5, <1>6, <2>1 DEF NativeInv, NativeCallersWait
  <2> QED
    BY <1>1, <1>2, <1>4, <2>1 DEF NativeCallersWait
<1>14. NativeAskedStays'
  BY <1>1, <1>3, <1>5, <1>6 DEF NativeInv, NativeAskedStays
<1>15. NativeSuccessIsFinal'
  <2>1. \A o \in ToSet(nResults) : o.request \in NativeRequests
    BY OutcomesAreOfRequests
  <2>2. ASSUME NEW o \in ToSet(nResults), o.ok
        PROVE  nLife'[o.request] = "none" /\ nAsked[o.request] = "none" /\ nWaiter'[o.request] # "none"
    <3>1. /\ nLife[o.request] = "none" /\ nAsked[o.request] = "none" /\ nWaiter[o.request] # "none"
          /\ o.request \in NativeRequests
      BY <2>1, <2>2 DEF NativeInv, NativeSuccessIsFinal
    <3> QED
      BY <1>1, <1>2, <1>5, <1>6, <3>1
  <2> QED
    BY <1>1, <2>2 DEF NativeSuccessIsFinal
<1> QED
  BY <1>9, <1>10, <1>11, <1>12, <1>13, <1>14, <1>15 DEF NativeInv

\* What a cancellation does to the records.
LEMMA RequestCancellationKeeps ==
  ASSUME NativeInv, NEW r \in NativeRequests, nWaiter[r] # "none",
         request_native_executor_cancellation(r),
         nWaiter' \in [NativeRequests -> {"none", "waiting", "done"}],
         \A x \in NativeRequests : nWaiter[x] # "none" => nWaiter'[x] # "none"
  PROVE  NativeInv'
<1>1. /\ UNCHANGED <<nQueue, nInflight, nClaimed, nResults, nOld, nWorker>>
      /\ NativeActive' = NativeActive
  BY DEF request_native_executor_cancellation, nStore, NativeActive
<1>2. /\ nQueue \in Seq(NativeRequests) /\ nLife \in [NativeRequests -> NativeLifes]
      /\ nQueued \in Seq(NativeRequests) /\ nCancelled \in Seq(NativeRequests) /\ nQueued = nQueue
      /\ nAsked \in [NativeRequests -> {"none", "cancelled", "requested"}]
      /\ \A x \in NativeRequests :
           x \in NativeActive <=> nLife[x] \in {"inflight", "cancellation_requested"}
      /\ \A x \in ToSet(nQueue) : nLife[x] \in {"pending", "cancelled"}
      /\ ToSet(nQueue) \subseteq NativeRequests
  BY MembersAreOfSet DEF NativeInv, NativeTypeOK, NativeRecordsAgree, NativeQueuedOnce, NativeLifes
\* The entry goes on, and the answer is what the entry says.
<1>3. /\ nQueued' = nQueued /\ nCancelled' \in Seq(NativeRequests)
      /\ nLife' \in [NativeRequests -> NativeLifes]
      /\ \A x \in NativeRequests :
           \/ nLife'[x] = nLife[x]
           \/ x = r /\ nLife[x] = "inflight" /\ nLife'[x] = "cancellation_requested"
           \/ x = r /\ nLife[x] = "pending" /\ nLife'[x] \in {"cancelled", "none"}
              /\ (x \in ToSet(nQueue) => nLife'[x] = "cancelled")
           \/ nLife[x] = "cancelled" /\ nLife'[x] = "none" /\ x \notin ToSet(nQueue)
      /\ nLife[r] = "pending" => nLife'[r] \in {"cancelled", "none"}
      /\ nLife[r] = "inflight" => nLife'[r] = "cancellation_requested"
  <2>1. CASE nLife[r] = "pending"
    <3> DEFINE life == [nLife EXCEPT ![r] = "cancelled"]
    <3>1. NativeAuthority(life, nQueued, Append(nCancelled, r))
      BY <2>1 DEF request_native_executor_cancellation
    <3>2. /\ life \in [NativeRequests -> NativeLifes]
          /\ \A x \in NativeRequests : life[x] = IF x = r THEN "cancelled" ELSE nLife[x]
      BY <1>2 DEF NativeLifes
    <3>3. Append(nCancelled, r) \in Seq(NativeRequests)
      BY <1>2
    <3> HIDE DEF life
    <3>4. /\ nQueued' = nQueued
          /\ nCancelled' \in Seq(NativeRequests)
          /\ nLife' \in [NativeRequests -> NativeLifes]
          /\ \A x \in NativeRequests :
               \/ nLife'[x] = life[x]
               \/ life[x] = "cancelled" /\ nLife'[x] = "none" /\ x \notin ToSet(nQueued)
      BY <1>2, <3>1, <3>2, <3>3, NativeAuthorityShape, Zenon
    <3> QED
      BY <1>2, <2>1, <3>2, <3>4
  <2>2. CASE nLife[r] = "inflight"
    <3>1. /\ nLife' = [nLife EXCEPT ![r] = "cancellation_requested"]
          /\ UNCHANGED <<nQueued, nCancelled>>
      BY <2>2 DEF request_native_executor_cancellation
    <3> QED
      BY <1>2, <2>2, <3>1 DEF NativeLifes
  <2>3. CASE nLife[r] \notin {"pending", "inflight"}
    <3>1. UNCHANGED <<nLife, nQueued, nCancelled>>
      BY <2>3 DEF request_native_executor_cancellation, nAuthority
    <3> QED
      BY <1>2, <2>3, <3>1
  <2> QED
    BY <2>1, <2>2, <2>3
<1>4. /\ nAsked' \in [NativeRequests -> {"none", "cancelled", "requested"}]
      /\ \A x \in NativeRequests : x # r => nAsked'[x] = nAsked[x]
      /\ nLife[r] = "none" => nAsked'[r] = nAsked[r]
      /\ nLife[r] \in {"pending", "cancelled"} => nAsked'[r] = "cancelled"
      /\ nLife[r] \in {"inflight", "cancellation_requested"} => nAsked'[r] = "requested"
  <2>1. CASE nLife[r] = "none"
    BY <1>2, <2>1 DEF request_native_executor_cancellation
  <2>2. CASE nLife[r] \in {"pending", "cancelled"}
    BY <1>2, <2>2 DEF request_native_executor_cancellation
  <2>3. CASE nLife[r] \in {"inflight", "cancellation_requested"}
    BY <1>2, <2>3 DEF request_native_executor_cancellation
  <2> QED
    BY <1>2, <2>1, <2>2, <2>3 DEF NativeLifes
<1>5. NativeWorkerShape'
  BY <1>1 DEF NativeInv, NativeWorkerShape
<1>6. NativeTypeOK'
  BY <1>1, <1>2, <1>3, <1>4, <1>5
  DEF NativeInv, NativeTypeOK, NativeWorkerShape, NativeWorkerSteps, NativeLifes
<1>7. NativeRecordsAgree' /\ IsFiniteSet(NativeActive')
  <2>1. ASSUME NEW x \in NativeRequests
        PROVE  x \in NativeActive <=> nLife'[x] \in {"inflight", "cancellation_requested"}
    BY <1>2, <1>3
  <2> QED
    BY <1>1, <1>3, <2>1 DEF NativeInv, NativeRecordsAgree
<1>8. NativeQueuedOnce'
  <2>1. ASSUME NEW x \in ToSet(nQueue)
        PROVE  nLife'[x] \in {"pending", "cancelled"}
    BY <1>2, <1>3
  <2> QED
    BY <1>1, <2>1 DEF NativeInv, NativeQueuedOnce
<1>9. NativeCallersWait'
  <2>1. ASSUME NEW x \in NativeRequests, x \in ToSet(nQueue) \/ nLife'[x] # "none" \/ nAsked'[x] # "none"
        PROVE  nWaiter[x] # "none"
    BY <1>3, <1>4, <2>1 DEF NativeInv, NativeCallersWait
  <2> QED
    BY <1>1, <2>1 DEF NativeCallersWait
<1>10. NativeAskedStays'
  <2>1. ASSUME NEW x \in NativeRequests
        PROVE  /\ nAsked'[x] = "cancelled" => nLife'[x] \in {"cancelled", "none"}
               /\ nAsked'[x] = "requested" => nLife'[x] \in {"cancellation_requested", "cancelled", "none"}
    <3>1. CASE x = r
      BY <1>2, <1>3, <1>4, <3>1 DEF NativeInv, NativeAskedStays, NativeLifes
    <3>2. CASE x # r
      BY <1>3, <1>4, <3>2 DEF NativeInv, NativeAskedStays
    <3> QED
      BY <3>1, <3>2
  <2> QED
    BY <2>1 DEF NativeAskedStays
<1>11. NativeSuccessIsFinal'
  <2>1. ASSUME NEW o \in ToSet(nResults), o.ok
        PROVE  nLife'[o.request] = "none" /\ nAsked'[o.request] = "none" /\ nWaiter'[o.request] # "none"
    <3>1. /\ nLife[o.request] = "none" /\ nAsked[o.request] = "none" /\ nWaiter[o.request] # "none"
          /\ o.request \in NativeRequests
      BY <2>1, OutcomesAreOfRequests DEF NativeInv, NativeSuccessIsFinal
    <3> QED
      BY <1>3, <1>4, <3>1
  <2> QED
    BY <1>1, <2>1 DEF NativeSuccessIsFinal
<1> QED
  BY <1>5, <1>6, <1>7, <1>8, <1>9, <1>10, <1>11 DEF NativeInv

\* cancel_native_executor.
LEMMA CancelKeepsNative ==
  ASSUME NativeInv, NEW r \in NativeRequests, cancel_native_executor(r)
  PROVE  NativeInv'
<1>1. /\ nLife[r] \in {"pending", "inflight"} /\ request_native_executor_cancellation(r)
      /\ nWaiter' = nWaiter
  BY DEF cancel_native_executor
<1>2. nWaiter[r] # "none" /\ nWaiter \in [NativeRequests -> {"none", "waiting", "done"}]
  BY <1>1 DEF NativeInv, NativeCallersWait, NativeTypeOK
<1> QED
  BY <1>1, <1>2, RequestCancellationKeeps

\* The caller stops waiting.
LEMMA WaitKeepsNative ==
  ASSUME NativeInv, NEW r \in NativeRequests, wait_for_native_executor_result_with_timeout(r)
  PROVE  NativeInv'
<1>1. /\ nWaiter[r] = "waiting" /\ nWaiter' = [nWaiter EXCEPT ![r] = "done"]
      /\ nWaiter \in [NativeRequests -> {"none", "waiting", "done"}]
  BY DEF wait_for_native_executor_result_with_timeout, NativeInv, NativeTypeOK
<1>2. /\ nWaiter' \in [NativeRequests -> {"none", "waiting", "done"}]
      /\ \A x \in NativeRequests : nWaiter[x] # "none" => nWaiter'[x] # "none"
      /\ nWaiter[r] # "none"
  BY <1>1
<1>3. CASE UNCHANGED <<nStore, nAuthority, nOld, nWorker, nAsked>>
  <2>1. /\ UNCHANGED <<nQueue, nInflight, nClaimed, nResults, nLife, nQueued, nCancelled>>
        /\ UNCHANGED <<nOld, nWorker, nAsked>>
        /\ NativeActive' = NativeActive
    BY <1>3 DEF nStore, nAuthority, NativeActive
  <2>2. NativeTypeOK' /\ NativeWorkerShape'
    BY <1>2, <2>1 DEF NativeInv, NativeTypeOK, NativeWorkerShape
  <2>3. NativeRecordsAgree' /\ IsFiniteSet(NativeActive')
    BY <2>1 DEF NativeInv, NativeRecordsAgree
  <2>4. NativeQueuedOnce' /\ NativeAskedStays'
    BY <2>1 DEF NativeInv, NativeQueuedOnce, NativeAskedStays
  <2>5. NativeCallersWait'
    BY <1>2, <2>1 DEF NativeInv, NativeCallersWait
  <2>6. NativeSuccessIsFinal'
    BY <1>2, <2>1, OutcomesAreOfRequests DEF NativeInv, NativeSuccessIsFinal
  <2> QED
    BY <2>2, <2>3, <2>4, <2>5, <2>6 DEF NativeInv
<1>4. CASE request_native_executor_cancellation(r)
  BY <1>2, <1>4, RequestCancellationKeeps
<1> QED
  BY <1>3, <1>4 DEF wait_for_native_executor_result_with_timeout

\* What is added to a set within a bound, when there is room for it.
LEMMA UnionIsBounded ==
  ASSUME NEW S, NEW T, IsFiniteSet(S), IsFiniteSet(T), NEW m \in Nat, NEW n \in Nat,
         Cardinality(S) + m <= n, Cardinality(T) <= m
  PROVE  IsFiniteSet(S \cup T) /\ Cardinality(S \cup T) <= n
<1>1. /\ IsFiniteSet(S \cup T)
      /\ Cardinality(S \cup T) = Cardinality(S) + Cardinality(T) - Cardinality(S \cap T)
  BY FS_Union
<1>2. IsFiniteSet(S \cap T)
  BY FS_Subset
<1>3. Cardinality(S) \in Nat /\ Cardinality(T) \in Nat /\ Cardinality(S \cap T) \in Nat
  BY <1>2, FS_CardinalityType
<1> QED
  BY <1>1, <1>3

\* take_native_executor_requests: a batch within the room, the cancelled settled.
LEMMA TakeKeepsNative ==
  ASSUME NativeInv, take_native_executor_requests
  PROVE  NativeInv'
<1> DEFINE room   == NativeCapacity - Cardinality(NativeActive)
           count  == Least(Least(NativeBatch, room), Len(nQueue))
           taken  == SubSeq(nQueue, 1, count)
           gone   == {r \in NativeRequests : nLife[r] = "cancelled"}
           settle == Without(taken, NativeRequests \ gone)
           handed == Without(taken, gone)
           failed == [k \in DOMAIN settle |-> [request |-> settle[k], ok |-> FALSE]]
           life   == [r \in NativeRequests |->
                        IF Contains(handed, r) THEN "inflight" ELSE nLife[r]]
           Outcomes == [request : NativeRequests, ok : BOOLEAN]
<1>1. /\ nQueue' = SubSeq(nQueue, count + 1, Len(nQueue))
      /\ nInflight' = nInflight \cup ToSet(handed)
      /\ nResults' = Bounded(nResults \o failed, NativeCapacity)
      /\ NativeAuthority(life, Without(nQueued, ToSet(taken)), nCancelled)
      /\ nWorker' = [nWorker EXCEPT !.step = IF handed = <<>> THEN "poll" ELSE "check",
                                    !.batch = handed]
      /\ UNCHANGED <<nClaimed, nOld, nWaiter, nAsked>>
  BY Zenon DEF take_native_executor_requests
<1>2. /\ nQueue \in Seq(NativeRequests) /\ nLife \in [NativeRequests -> NativeLifes]
      /\ nCancelled \in Seq(NativeRequests) /\ nQueued = nQueue /\ nResults \in Seq(Outcomes)
      /\ NativeCapacity \in Nat \ {0} /\ NativeBatch \in Nat \ {0}
      /\ IsInjective(nQueue)
      /\ \A x \in NativeRequests :
           x \in NativeActive <=> nLife[x] \in {"inflight", "cancellation_requested"}
      /\ \A x \in ToSet(nQueue) : nLife[x] \in {"pending", "cancelled"}
      /\ ToSet(nQueue) \subseteq NativeRequests
      /\ IsFiniteSet(NativeActive) /\ Cardinality(NativeActive) <= NativeCapacity
      /\ nInflight \cap nClaimed = {}
      /\ Len(nQueue) <= NativeCapacity /\ NativeActive = nInflight \cup nClaimed
  BY NativeConstants, MembersAreOfSet
  DEF NativeInv, NativeTypeOK, NativeRecordsAgree, NativeQueuedOnce, NativeLifes, NativeActive
<1>3. room \in Nat /\ count \in 0..Len(nQueue) /\ count <= room
      /\ Cardinality(NativeActive) + room <= NativeCapacity
  <2>1. Cardinality(NativeActive) \in Nat /\ Len(nQueue) \in Nat
    BY <1>2, FS_CardinalityType
  <2> QED
    BY <1>2, <2>1 DEF Least
<1> HIDE DEF room, count
<1>4. /\ taken \in Seq(NativeRequests) /\ Len(taken) = count
      /\ ToSet(taken) = {nQueue[i] : i \in 1..count} /\ ToSet(taken) \subseteq ToSet(nQueue)
  BY <1>2, <1>3, PrefixShape
<1>5. Without(nQueued, ToSet(taken)) = SubSeq(nQueue, count + 1, Len(nQueue))
  BY <1>2, <1>3, WithoutTaken
<1> HIDE DEF taken
<1>6. /\ nQueue' \in Seq(NativeRequests) /\ Len(nQueue') <= NativeCapacity
      /\ IsInjective(nQueue') /\ ToSet(nQueue') \subseteq ToSet(nQueue)
      /\ ToSet(nQueue') \cap ToSet(taken) = {}
  <2>1. /\ nQueue' \in Seq(NativeRequests) /\ Len(nQueue') = Len(nQueue) - count
        /\ ToSet(nQueue') \subseteq ToSet(nQueue)
    BY <1>1, <1>2, <1>3, SuffixShape
  <2>2. IsInjective(nQueue')
    BY <1>1, <1>2, <1>3, SuffixIsInjective
  <2>3. ToSet(nQueue') = ToSet(nQueue) \ ToSet(taken)
    BY <1>1, <1>2, <1>5, WithoutMembers
  <2> QED
    BY <1>2, <1>3, <2>1, <2>2, <2>3
<1>7. /\ handed \in Seq(NativeRequests) /\ Len(handed) <= count
      /\ ToSet(handed) = ToSet(taken) \ gone
      /\ settle \in Seq(NativeRequests)
  BY <1>4, WithoutMembers
<1>8. IsFiniteSet(ToSet(handed)) /\ Cardinality(ToSet(handed)) <= room
  <2>1. IsFiniteSet(ToSet(handed)) /\ Cardinality(ToSet(handed)) <= Len(handed) /\ Len(handed) \in Nat
    BY <1>7, MembersAreFewer
  <2>2. Cardinality(ToSet(handed)) \in Nat
    BY <2>1, FS_CardinalityType
  <2> QED
    BY <1>3, <1>7, <2>1, <2>2
<1>9. /\ \A x \in ToSet(handed) : x \in NativeRequests /\ x \in ToSet(nQueue) /\ nLife[x] = "pending"
      /\ \A x \in ToSet(handed) : x \in ToSet(taken)
  BY <1>2, <1>4, <1>7
<1> HIDE DEF settle, handed
<1>10. /\ failed \in Seq(Outcomes) /\ \A o \in ToSet(failed) : ~o.ok
  <2>1. DOMAIN settle = 1..Len(settle) /\ Len(settle) \in Nat
        /\ \A k \in DOMAIN settle : settle[k] \in NativeRequests
    BY <1>7
  <2>2. failed = [k \in 1..Len(settle) |-> [request |-> settle[k], ok |-> FALSE]]
    BY <2>1
  <2>3. failed \in [1..Len(settle) -> Outcomes]
    BY <2>1, <2>2
  <2>4. failed \in Seq(Outcomes)
    <3> HIDE DEF failed, Outcomes
    <3> QED
      BY <2>1, <2>3
  <2>5. \A k \in DOMAIN failed : ~failed[k].ok
    BY <2>2
  <2> HIDE DEF failed
  <2> QED
    BY <2>4, <2>5 DEF ToSet
<1> HIDE DEF failed
<1>11. /\ nResults' \in Seq(Outcomes) /\ Len(nResults') <= NativeCapacity
       /\ ToSet(nResults') \subseteq ToSet(nResults) \cup ToSet(failed)
  <2> HIDE DEF Outcomes
  <2> DEFINE s == nResults \o failed
  <2>1. s \in Seq(Outcomes) /\ ToSet(s) = ToSet(nResults) \cup ToSet(failed)
    BY <1>2, <1>10, ConcatMembers
  <2> HIDE DEF s
  <2>2. /\ Bounded(s, NativeCapacity) \in Seq(Outcomes) /\ Len(Bounded(s, NativeCapacity)) <= NativeCapacity
        /\ ToSet(Bounded(s, NativeCapacity)) \subseteq ToSet(s)
    BY <1>2, <2>1, BoundedShape
  <2> QED
    BY <1>1, <2>1, <2>2, Zenon DEF s
<1>12. /\ life \in [NativeRequests -> NativeLifes]
       /\ \A x \in NativeRequests : life[x] = IF x \in ToSet(handed) THEN "inflight" ELSE nLife[x]
  <2>1. \A x : Contains(handed, x) <=> x \in ToSet(handed)
    BY <1>7, MembersAreOfSet DEF Contains
  <2> QED
    BY <1>2, <2>1 DEF NativeLifes
<1> HIDE DEF life
<1>13. /\ nQueued' = nQueue'
       /\ nCancelled' \in Seq(NativeRequests)
       /\ nLife' \in [NativeRequests -> NativeLifes]
       /\ \A x \in NativeRequests :
            \/ nLife'[x] = life[x]
            \/ life[x] = "cancelled" /\ nLife'[x] = "none" /\ x \notin ToSet(nQueue')
  <2> DEFINE rest == SubSeq(nQueue, count + 1, Len(nQueue))
  <2>1. NativeAuthority(life, rest, nCancelled) /\ rest = nQueue'
    BY <1>1, <1>5
  <2> HIDE DEF rest
  <2>2. rest \in Seq(NativeRequests)
    BY <1>6, <2>1
  <2>3. /\ nQueued' = rest
        /\ nCancelled' \in Seq(NativeRequests)
        /\ nLife' \in [NativeRequests -> NativeLifes]
        /\ \A x \in NativeRequests :
             \/ nLife'[x] = life[x]
             \/ life[x] = "cancelled" /\ nLife'[x] = "none" /\ x \notin ToSet(rest)
    BY <1>2, <1>12, <2>1, <2>2, NativeAuthorityShape, Zenon
  <2> QED
    BY <2>1, <2>3, Zenon
<1>14. NativeActive' = NativeActive \cup ToSet(handed)
  BY <1>1 DEF NativeActive
<1>15. IsFiniteSet(NativeActive') /\ Cardinality(NativeActive') <= NativeCapacity
  BY <1>2, <1>3, <1>8, <1>14, UnionIsBounded
<1>16. NativeWorkerShape'
  <2>1. nWorker' = [step |-> IF handed = <<>> THEN "poll" ELSE "check", batch |-> handed,
                    attempt |-> nWorker.attempt]
    BY <1>1 DEF NativeInv, NativeWorkerShape
  <2>2. nWorker.attempt \in 1..NativeAttempts
    BY DEF NativeInv, NativeWorkerShape
  <2> QED
    BY <1>7, <2>1, <2>2 DEF NativeWorkerShape, NativeWorkerSteps
<1>17. NativeTypeOK'
  <2>1. nInflight' \cup nClaimed' \cup nOld' \subseteq NativeRequests
    BY <1>1, <1>9 DEF NativeInv, NativeTypeOK
  <2> QED
    BY <1>1, <1>6, <1>11, <1>13, <1>16, <2>1
    DEF NativeInv, NativeTypeOK, NativeWorkerShape, NativeWorkerSteps, NativeLifes
<1>18. NativeRecordsAgree'
  <2>1. ASSUME NEW x \in NativeRequests
        PROVE  x \in NativeActive' <=> nLife'[x] \in {"inflight", "cancellation_requested"}
    BY <1>2, <1>12, <1>13, <1>14
  <2>2. nInflight' \cap nClaimed' = {}
    BY <1>1, <1>2, <1>9
  <2> QED
    BY <1>13, <1>15, <2>1, <2>2 DEF NativeRecordsAgree
<1>19. NativeQueuedOnce'
  <2>1. ASSUME NEW x \in ToSet(nQueue')
        PROVE  nLife'[x] \in {"pending", "cancelled"}
    BY <1>2, <1>6, <1>9, <1>12, <1>13
  <2> QED
    BY <1>6, <2>1 DEF NativeQueuedOnce
<1>20. NativeCallersWait' /\ NativeAskedStays' /\ NativeSuccessIsFinal'
  <2>1. NativeLifeGoesOn
    BY <1>9, <1>12, <1>13 DEF NativeLifeGoesOn
  <2>2. NativeSuccessIsKnown
    BY <1>10, <1>11 DEF NativeSuccessIsKnown
  <2> QED
    BY <1>1, <1>6, <1>11, <2>1, <2>2, NativeStepKeeps
<1> QED
  BY <1>15, <1>16, <1>17, <1>18, <1>19, <1>20 DEF NativeInv

\* The invariant holds at the start.
LEMMA NativeInitKeeps == NativeInit => NativeInv
<1> SUFFICES ASSUME NativeInit PROVE NativeInv
  OBVIOUS
<1>1. NativeActive = {} /\ ToSet(<<>>) = {} /\ Cardinality({}) = 0 /\ IsFiniteSet({})
  BY FS_EmptySet DEF NativeInit, NativeActive, ToSet
<1>2. NativeWorkerShape
  BY NativeConstants DEF NativeInit, NativeIdle, NativeWorkerShape, NativeWorkerSteps
<1>3. NativeTypeOK
  BY <1>2, NativeConstants DEF NativeInit, NativeTypeOK, NativeWorkerShape, NativeWorkerSteps, NativeIdle
<1>4. NativeRecordsAgree
  BY <1>1, NativeConstants DEF NativeInit, NativeRecordsAgree
<1>5. NativeQueuedOnce /\ NativeCallersWait /\ NativeAskedStays /\ NativeSuccessIsFinal
  BY <1>1
  DEF NativeInit, NativeQueuedOnce, NativeCallersWait, NativeAskedStays, NativeSuccessIsFinal, IsInjective
<1> QED
  BY <1>1, <1>2, <1>3, <1>4, <1>5 DEF NativeInv

\* Every step of native work keeps the invariant.
LEMMA NativeNextKeeps == NativeInv /\ [NativeNext]_nativeVars => NativeInv'
<1> SUFFICES ASSUME NativeInv, [NativeNext]_nativeVars PROVE NativeInv'
  OBVIOUS
<1>1. CASE UNCHANGED nativeVars
  <2>1. UNCHANGED <<nStore, nAuthority, nWaiter, nAsked>> /\ UNCHANGED <<nOld, nWorker>>
    BY <1>1 DEF nativeVars
  <2>2. nOld' \subseteq NativeRequests /\ NativeWorkerShape'
    BY <2>1 DEF NativeInv, NativeTypeOK, NativeWorkerShape
  <2> QED
    BY <2>1, <2>2, NativeWorkerAlone
<1>2. CASE NativeWorkerStep
  BY <1>2, ExpireKeeps, TakeKeepsNative, CancellationRequestedKeeps, ExecutePacketKeeps,
     AcknowledgeKeeps, ClaimKeeps, CompleteKeepsNative, PostResultKeeps DEF NativeWorkerStep
<1>3. CASE native_release_session
  BY <1>3, ReleaseKeepsNative
<1>4. ASSUME NEW r \in NativeRequests,
             \/ enqueue_native_executor(r) \/ cancel_native_executor(r)
             \/ wait_for_native_executor_result_with_timeout(r) \/ native_lease_passes(r)
      PROVE  NativeInv'
  BY <1>4, EnqueueKeeps, CancelKeepsNative, WaitKeepsNative, NativeLeasePassesKeeps
<1> QED
  BY <1>1, <1>2, <1>3, <1>4 DEF NativeNext

\* The inductive invariant of native work.
LEMMA NativeInvariant == NativeSpec => []NativeInv
<1> QED
  BY NativeInitKeeps, NativeNextKeeps, PTL DEF NativeSpec

\* A caller that was told of a cancellation of native work never finds a
\* success, and a request told to be cancelled is not handed to the worker
\* afterwards (request_native_executor_cancellation against take, claim,
\* complete, expiry, eviction and the pruning of tombstones).
THEOREM NativeCancellationHolds == NativeSpec => []CancelledStaysCancelled
<1>1. NativeInv => CancelledStaysCancelled
  <2> SUFFICES ASSUME NativeInv PROVE CancelledNeverSucceeds /\ CancelledNeverHandedOut
    BY DEF CancelledStaysCancelled
  <2>1. CancelledNeverSucceeds
    <3>1. \A k \in DOMAIN nResults : nResults[k] \in ToSet(nResults)
      BY DEF ToSet
    <3> QED
      BY <3>1 DEF NativeInv, NativeSuccessIsFinal, CancelledNeverSucceeds
  <2>2. CancelledNeverHandedOut
    BY DEF NativeInv, NativeRecordsAgree, NativeAskedStays, CancelledNeverHandedOut
  <2> QED
    BY <2>1, <2>2
<1> QED
  BY <1>1, NativeInvariant, PTL

\* The queues and the cancellation authority hold the same requests, and no
\* more of them are active than action_capacity allows.
THEOREM NativeRecordsStayInStep == NativeSpec => [](NativeTypeOK /\ NativeRecordsAgree)
<1>1. NativeInv => NativeTypeOK /\ NativeRecordsAgree
  BY DEF NativeInv
<1> QED
  BY <1>1, NativeInvariant, PTL

-----------------------------------------------------------------------------
(* Public actions: for every set of actions and every bound of the queues. *)

PublicLifes == {"none", "pending", "inflight", "cancellation_requested", "cancelled"}

PublicOutcomes == [id : PublicIds, ok : BOOLEAN]

\* PublicTypeOK, variable by variable.
PublicShape ==
  /\ aQueue \in Seq(PublicIds) /\ Len(aQueue) <= PublicCapacity
  /\ aInflight \in Seq(PublicIds) /\ Len(aInflight) <= PublicCapacity
  /\ aClaimed \in Seq(PublicIds) /\ Len(aClaimed) <= PublicCapacity
  /\ aQueued \in Seq(PublicIds) /\ aCancelled \in Seq(PublicIds)
  /\ aResults \in Seq(PublicOutcomes) /\ Len(aResults) <= PublicCapacity
  /\ aStarted \subseteq PublicIds /\ aHandler \subseteq PublicIds /\ aRan \subseteq PublicIds
  /\ aLife \in [PublicIds -> PublicLifes]
  /\ aPage \in Seq(PublicIds)
  /\ aStep \in {"taken", "running", "executed", "cancellationSeen", "reporting"}
  /\ aStep # "taken" => aPage # <<>>
  /\ aWaiter \in [PublicIds -> {"none", "waiting", "done"}]
  /\ aAsked \in [PublicIds -> {"none", "cancelled", "requested"}]

Reported(r) == \E o \in ToSet(aResults) : o.id = r

\* What a public action leaves behind once it was handed out.
Traces(r) == r \in aRan \cup aHandler \cup ToSet(aPage) \/ Reported(r)

\* An action is queued once, before all else; what is pending is queued.
PublicQueuedFirst ==
  /\ IsInjective(aQueue)
  /\ \A r \in ToSet(aQueue) : aLife[r] \in {"pending", "cancelled"} /\ ~Traces(r)
  /\ \A r \in PublicIds : aLife[r] = "pending" => r \in ToSet(aQueue)

\* What is claimed has a handler, and what can still be cancelled has none.
PublicClaimsAreHandled ==
  /\ ToSet(aClaimed) \subseteq aHandler
  /\ \A r \in PublicIds :
       aLife[r] \in {"inflight", "cancellation_requested"} => r \notin aHandler /\ ~Reported(r)

\* Only an action that has a caller has left a trace.
PublicCallersWait ==
  \A r \in PublicIds :
    r \in ToSet(aQueue) \/ aLife[r] # "none" \/ aAsked[r] # "none" \/ Traces(r) => aWaiter[r] # "none"

\* A cancellation that was answered is not taken back.
PublicAskedStays ==
  \A r \in PublicIds :
    /\ aAsked[r] = "cancelled" => aLife[r] \in {"cancelled", "none"} /\ ~Traces(r)
    /\ aAsked[r] = "requested" =>
         /\ aLife[r] \in {"cancellation_requested", "cancelled", "none"}
         /\ r \notin aHandler /\ ~Reported(r)

PublicInv ==
  /\ PublicShape
  /\ PublicRecordsAgree
  /\ PublicQueuedFirst
  /\ PublicClaimsAreHandled
  /\ PublicCallersWait
  /\ PublicAskedStays

\* What PublicAuthority leaves: only tombstones of what is not queued go.
LEMMA PublicAuthorityShape ==
  ASSUME NEW life \in [PublicIds -> PublicLifes], NEW queued \in Seq(PublicIds),
         NEW order \in Seq(PublicIds), PublicAuthority(life, queued, order)
  PROVE  /\ aQueued' = queued
         /\ aCancelled' \in Seq(PublicIds)
         /\ aLife' \in [PublicIds -> PublicLifes]
         /\ \A r \in PublicIds :
              \/ aLife'[r] = life[r]
              \/ life[r] = "cancelled" /\ aLife'[r] = "none" /\ r \notin ToSet(queued)
<1> DEFINE gone == Pruned(order, queued, PublicTombstones)
<1>1. gone \cap ToSet(queued) = {}
  BY PrunedIsNotQueued, PublicConstants
<1>2. aQueued' = queued /\ aCancelled' = Without(order, gone) /\ aLife' = LifeWithout(life, gone)
  BY Zenon DEF PublicAuthority
<1> HIDE DEF gone
<1>3. aCancelled' \in Seq(PublicIds)
  BY <1>2, WithoutMembers
<1>4. aLife' = [x \in PublicIds |->
                  IF x \in gone /\ life[x] = "cancelled" THEN "none" ELSE life[x]]
  BY <1>2 DEF LifeWithout
<1> QED
  BY <1>1, <1>2, <1>3, <1>4 DEF PublicLifes

\* The action the worker of the page is at.
LEMMA PublicHeadShape ==
  ASSUME PublicInv, aPage # <<>>
  PROVE  /\ PublicHead \in PublicIds /\ PublicHead \in ToSet(aPage)
         /\ Tail(aPage) \in Seq(PublicIds) /\ ToSet(Tail(aPage)) \subseteq ToSet(aPage)
<1>1. aPage \in Seq(PublicIds)
  BY DEF PublicInv, PublicShape
<1> DEFINE p == aPage
<1>2. p \in Seq(PublicIds) /\ p # <<>>
  BY <1>1
<1> HIDE DEF p
<1>3. /\ 1 \in 1..Len(p) /\ Head(p) = p[1] /\ Tail(p) \in Seq(PublicIds)
      /\ \A i \in 1..Len(Tail(p)) : i + 1 \in 1..Len(p) /\ Tail(p)[i] = p[i + 1]
  BY <1>2
<1>4. Head(p) \in ToSet(p) /\ Head(p) \in PublicIds
  BY <1>2, <1>3, MembersAreOfSet
<1>5. ToSet(Tail(p)) \subseteq ToSet(p)
  <2>1. ASSUME NEW x \in ToSet(Tail(p)) PROVE x \in ToSet(p)
    <3>1. PICK i \in 1..Len(Tail(p)) : Tail(p)[i] = x
      BY <1>3, MembersAreOfSet
    <3> QED
      BY <1>2, <1>3, <3>1, MembersAreOfSet
  <2> QED
    BY <2>1
<1> QED
  BY <1>3, <1>4, <1>5 DEF p, PublicHead

\* What the client of the page does leaves store and authority alone.
LEMMA PublicStoreAlone ==
  ASSUME PublicInv, UNCHANGED <<aStore, aAuthority, aHandler, aAsked>>,
         aPage' \in Seq(PublicIds), ToSet(aPage') \subseteq ToSet(aPage),
         aRan' \subseteq aRan \cup ToSet(aPage),
         aStep' \in {"taken", "running", "executed", "cancellationSeen", "reporting"},
         aStep' # "taken" => aPage' # <<>>,
         aWaiter' \in [PublicIds -> {"none", "waiting", "done"}],
         \A r \in PublicIds : aWaiter[r] # "none" => aWaiter'[r] # "none"
  PROVE  PublicInv'
<1>1. /\ UNCHANGED <<aQueue, aInflight, aClaimed, aResults, aStarted, aLife, aQueued, aCancelled>>
      /\ UNCHANGED <<aHandler, aAsked>>
  BY DEF aStore, aAuthority
<1>2. \A r : Reported(r)' <=> Reported(r)
  BY <1>1 DEF Reported
<1>3. \A r : Traces(r)' => Traces(r)
  BY <1>1, <1>2 DEF Traces
<1>4. PublicShape'
  <2>1. ToSet(aPage) \subseteq PublicIds
    BY MembersAreOfSet DEF PublicInv, PublicShape
  <2> QED
    BY <1>1, <2>1 DEF PublicInv, PublicShape
<1>5. PublicRecordsAgree' /\ PublicClaimsAreHandled'
  BY <1>1, <1>2 DEF PublicInv, PublicRecordsAgree, PublicClaimsAreHandled
<1>6. PublicQueuedFirst'
  BY <1>1, <1>3 DEF PublicInv, PublicQueuedFirst
<1>7. PublicCallersWait'
  BY <1>1, <1>3 DEF PublicInv, PublicCallersWait
<1>8. PublicAskedStays'
  BY <1>1, <1>2, <1>3 DEF PublicInv, PublicAskedStays
<1> QED
  BY <1>4, <1>5, <1>6, <1>7, <1>8 DEF PublicInv

\* The page checks, executes, or is reloaded.
LEMMA PublicPageKeeps ==
  ASSUME PublicInv, cancellation_check \/ execute_action \/ page_reload
  PROVE  PublicInv'
<1>1. /\ UNCHANGED <<aStore, aAuthority, aHandler, aWaiter, aAsked>>
      /\ aStep' \in {"taken", "running", "executed", "cancellationSeen", "reporting"}
  BY DEF cancellation_check, execute_action, page_reload
<1>2. /\ aPage \in Seq(PublicIds) /\ (aStep # "taken" => aPage # <<>>)
      /\ aWaiter \in [PublicIds -> {"none", "waiting", "done"}]
  BY DEF PublicInv, PublicShape
<1>3. /\ aPage' \in Seq(PublicIds) /\ ToSet(aPage') \subseteq ToSet(aPage)
      /\ aStep' # "taken" => aPage' # <<>>
  <2>1. CASE page_reload
    BY <2>1 DEF page_reload, ToSet
  <2>2. CASE cancellation_check \/ execute_action
    BY <1>2, <2>2 DEF cancellation_check, execute_action
  <2> QED
    BY <2>1, <2>2
<1>4. aRan' \subseteq aRan \cup ToSet(aPage)
  <2>1. CASE execute_action
    BY <1>2, <2>1, PublicHeadShape DEF execute_action
  <2>2. CASE cancellation_check \/ page_reload
    BY <2>2 DEF cancellation_check, page_reload
  <2> QED
    BY <2>1, <2>2
<1> QED
  BY <1>1, <1>2, <1>3, <1>4, PublicStoreAlone

\* The caller stops waiting.
LEMMA PublicWaitKeeps ==
  ASSUME PublicInv, NEW r \in PublicIds, wait_for_matching_result(r)
  PROVE  PublicInv'
<1>1. /\ UNCHANGED <<aStore, aAuthority, aPage, aStep, aHandler, aAsked, aRan>>
      /\ aWaiter' = [aWaiter EXCEPT ![r] = "done"]
  BY DEF wait_for_matching_result
<1>2. /\ aPage \in Seq(PublicIds) /\ (aStep # "taken" => aPage # <<>>)
      /\ aStep \in {"taken", "running", "executed", "cancellationSeen", "reporting"}
      /\ aWaiter \in [PublicIds -> {"none", "waiting", "done"}]
  BY DEF PublicInv, PublicShape
<1>3. /\ aWaiter' \in [PublicIds -> {"none", "waiting", "done"}]
      /\ \A x \in PublicIds : aWaiter[x] # "none" => aWaiter'[x] # "none"
  BY <1>1, <1>2
<1> QED
  BY <1>1, <1>2, <1>3, PublicStoreAlone

\* What the sets of the invariant are, for the steps that follow.
LEMMA PublicFacts ==
  ASSUME PublicInv
  PROVE  /\ aQueued = aQueue /\ IsInjective(aQueue)
         /\ \A r \in ToSet(aQueue) : aLife[r] \in {"pending", "cancelled"} /\ ~Traces(r)
         /\ \A r \in PublicIds : aLife[r] = "pending" => r \in ToSet(aQueue)
         /\ \A r \in ToSet(aInflight) : aLife[r] \in {"inflight", "cancellation_requested"}
         /\ ToSet(aInflight) \cap ToSet(aClaimed) = {} /\ ToSet(aClaimed) \subseteq aHandler
         /\ ToSet(aQueue) \subseteq PublicIds /\ ToSet(aInflight) \subseteq PublicIds
         /\ ToSet(aPage) \subseteq PublicIds
         /\ \A o \in ToSet(aResults) : o.id \in PublicIds
<1>1. \A o \in PublicOutcomes : o.id \in PublicIds
  BY DEF PublicOutcomes
<1>2. ToSet(aResults) \subseteq PublicOutcomes
  BY MembersAreOfSet DEF PublicInv, PublicShape
<1>3. /\ ToSet(aQueue) \subseteq PublicIds /\ ToSet(aInflight) \subseteq PublicIds
      /\ ToSet(aPage) \subseteq PublicIds
  BY MembersAreOfSet DEF PublicInv, PublicShape
<1> QED
  BY <1>1, <1>2, <1>3
  DEF PublicInv, PublicRecordsAgree, PublicQueuedFirst, PublicClaimsAreHandled

\* An action that the bridge and its callers do not know is put into the queue.
LEMMA PublicEnqueued ==
  ASSUME PublicInv, NEW r \in PublicIds, aWaiter[r] = "none",
         aQueue' \in Seq(PublicIds), Len(aQueue') <= PublicCapacity, IsInjective(aQueue'),
         ToSet(aQueue') \subseteq ToSet(aQueue) \cup {r}, r \in ToSet(aQueue'),
         NEW life \in [PublicIds -> PublicLifes],
         \A x \in PublicIds :
           life[x] = IF x = r THEN "pending"
                     ELSE IF x \notin ToSet(aQueue') /\ aLife[x] = "pending" THEN "none" ELSE aLife[x],
         PublicAuthority(life, aQueue', aCancelled),
         aWaiter' = [aWaiter EXCEPT ![r] = "waiting"],
         UNCHANGED <<aInflight, aClaimed, aResults, aStarted, aPage, aStep, aHandler, aAsked, aRan>>
  PROVE  PublicInv'
<1>1. /\ aQueued' = aQueue'
      /\ aCancelled' \in Seq(PublicIds)
      /\ aLife' \in [PublicIds -> PublicLifes]
      /\ \A x \in PublicIds :
           \/ aLife'[x] = life[x]
           \/ life[x] = "cancelled" /\ aLife'[x] = "none" /\ x \notin ToSet(aQueue')
  <2>1. aCancelled \in Seq(PublicIds)
    BY DEF PublicInv, PublicShape
  <2> QED
    BY <2>1, PublicAuthorityShape, Zenon
<1>2. /\ r \notin ToSet(aQueue) /\ aLife[r] = "none" /\ aAsked[r] = "none" /\ ~Traces(r)
  BY DEF PublicInv, PublicCallersWait
<1>3. \A x : (Reported(x)' <=> Reported(x)) /\ (Traces(x)' <=> Traces(x))
  BY DEF Reported, Traces
<1>4. PublicShape'
  BY <1>1 DEF PublicInv, PublicShape
<1>5. PublicRecordsAgree'
  <2>1. ASSUME NEW x \in ToSet(aInflight)
        PROVE  aLife'[x] \in {"inflight", "cancellation_requested"}
    BY <1>1, <1>2, PublicFacts
  <2> QED
    BY <1>1, <2>1, PublicFacts DEF PublicRecordsAgree
<1>6. PublicQueuedFirst'
  <2>1. ASSUME NEW x \in ToSet(aQueue')
        PROVE  aLife'[x] \in {"pending", "cancelled"} /\ ~Traces(x)
    BY <1>1, <1>2, PublicFacts
  <2>2. ASSUME NEW x \in PublicIds, aLife'[x] = "pending"
        PROVE  x \in ToSet(aQueue')
    BY <1>1, <2>2
  <2> QED
    BY <1>3, <2>1, <2>2 DEF PublicQueuedFirst
<1>7. PublicClaimsAreHandled'
  <2>1. ASSUME NEW x \in PublicIds, aLife'[x] \in {"inflight", "cancellation_requested"}
        PROVE  x \notin aHandler /\ ~Reported(x)
    BY <1>1, <2>1 DEF PublicInv, PublicClaimsAreHandled
  <2> QED
    BY <1>3, <2>1, PublicFacts DEF PublicClaimsAreHandled
<1>8. PublicCallersWait'
  <2>1. aWaiter \in [PublicIds -> {"none", "waiting", "done"}]
    BY DEF PublicInv, PublicShape
  <2>2. ASSUME NEW x \in PublicIds, x # r,
               x \in ToSet(aQueue') \/ aLife'[x] # "none" \/ aAsked[x] # "none" \/ Traces(x)
        PROVE  aWaiter[x] # "none"
    BY <1>1, <2>2 DEF PublicInv, PublicCallersWait
  <2> QED
    BY <1>3, <2>1, <2>2 DEF PublicCallersWait
<1>9. PublicAskedStays'
  <2>1. ASSUME NEW x \in PublicIds
        PROVE  /\ aAsked[x] = "cancelled" => aLife'[x] \in {"cancelled", "none"} /\ ~Traces(x)
               /\ aAsked[x] = "requested" =>
                    /\ aLife'[x] \in {"cancellation_requested", "cancelled", "none"}
                    /\ x \notin aHandler /\ ~Reported(x)
    BY <1>1, <1>2 DEF PublicInv, PublicAskedStays
  <2> QED
    BY <1>3, <2>1 DEF PublicAskedStays
<1> QED
  BY <1>4, <1>5, <1>6, <1>7, <1>8, <1>9 DEF PublicInv

\* enqueue_action: the oldest gives way.
LEMMA PublicEnqueueKeeps ==
  ASSUME PublicInv, NEW r \in PublicIds, enqueue_action(r)
  PROVE  PublicInv'
<1> DEFINE kept == Bounded(Append(aQueued, r), PublicCapacity)
           life == Evicted([aLife EXCEPT ![r] = "pending"], kept)
<1>1. /\ aWaiter[r] = "none"
      /\ aQueue' = Bounded(Append(aQueue, r), PublicCapacity)
      /\ PublicAuthority(life, kept, aCancelled)
      /\ aWaiter' = [aWaiter EXCEPT ![r] = "waiting"]
      /\ UNCHANGED <<aInflight, aClaimed, aResults, aStarted, aPage, aStep, aHandler, aAsked, aRan>>
  BY Zenon DEF enqueue_action
<1>2. /\ aQueue \in Seq(PublicIds) /\ aQueued = aQueue /\ IsInjective(aQueue)
      /\ aLife \in [PublicIds -> PublicLifes] /\ PublicCapacity \in Nat \ {0}
  BY PublicConstants, PublicFacts DEF PublicInv, PublicShape
<1>3. r \notin ToSet(aQueue)
  BY <1>1 DEF PublicInv, PublicCallersWait
<1>4. /\ kept \in Seq(PublicIds) /\ Len(kept) <= PublicCapacity /\ IsInjective(kept)
      /\ ToSet(kept) \subseteq ToSet(aQueue) \cup {r} /\ r \in ToSet(kept)
      /\ aQueue' = kept
  BY <1>1, <1>2, <1>3, BoundedAppend
<1> HIDE DEF kept
<1>5. /\ life \in [PublicIds -> PublicLifes]
      /\ \A x \in PublicIds :
           life[x] = IF x = r THEN "pending"
                     ELSE IF x \notin ToSet(kept) /\ aLife[x] = "pending" THEN "none" ELSE aLife[x]
  <2>1. \A x : Contains(kept, x) <=> x \in ToSet(kept)
    BY <1>4, MembersAreOfSet DEF Contains
  <2>2. life = [x \in PublicIds |->
                  IF [aLife EXCEPT ![r] = "pending"][x] = "pending" /\ ~Contains(kept, x)
                    THEN "none" ELSE [aLife EXCEPT ![r] = "pending"][x]]
    BY <1>2 DEF Evicted
  <2> QED
    BY <1>2, <1>4, <2>1, <2>2 DEF PublicLifes
<1> HIDE DEF life
<1>6. /\ aQueue' \in Seq(PublicIds) /\ Len(aQueue') <= PublicCapacity /\ IsInjective(aQueue')
      /\ ToSet(aQueue') \subseteq ToSet(aQueue) \cup {r} /\ r \in ToSet(aQueue')
      /\ PublicAuthority(life, aQueue', aCancelled)
      /\ \A x \in PublicIds :
           life[x] = IF x = r THEN "pending"
                     ELSE IF x \notin ToSet(aQueue') /\ aLife[x] = "pending" THEN "none" ELSE aLife[x]
  BY <1>1, <1>4, <1>5
<1> QED
  BY <1>1, <1>5, <1>6, PublicEnqueued

\* enqueue_prebound_public_action.
LEMMA PublicPreboundKeeps ==
  ASSUME PublicInv, NEW r \in PublicIds, enqueue_prebound_public_action(r)
  PROVE  PublicInv'
<1> DEFINE kept == Append(aQueue, r)
           life == [aLife EXCEPT ![r] = "pending"]
<1>1. /\ aQueue \in Seq(PublicIds) /\ aQueued = aQueue /\ IsInjective(aQueue)
      /\ aLife \in [PublicIds -> PublicLifes] /\ PublicCapacity \in Nat \ {0}
  BY PublicConstants, PublicFacts DEF PublicInv, PublicShape
<1>2. /\ aWaiter[r] = "none" /\ Len(aQueue) < PublicCapacity
      /\ aQueue' = kept
      /\ PublicAuthority(life, kept, aCancelled)
      /\ aWaiter' = [aWaiter EXCEPT ![r] = "waiting"]
      /\ UNCHANGED <<aInflight, aClaimed, aResults, aStarted, aPage, aStep, aHandler, aAsked, aRan>>
  BY <1>1, Zenon DEF enqueue_prebound_public_action
<1>3. r \notin ToSet(aQueue)
  BY <1>2 DEF PublicInv, PublicCallersWait
<1>4. /\ kept \in Seq(PublicIds) /\ Len(kept) <= PublicCapacity /\ IsInjective(kept)
      /\ ToSet(kept) = ToSet(aQueue) \cup {r}
  <2>1. kept \in Seq(PublicIds) /\ Len(kept) <= PublicCapacity
    BY <1>1, <1>2
  <2>2. ToSet(kept) = ToSet(aQueue) \cup {r}
    BY <1>1, AppendMembers
  <2>3. Bounded(kept, PublicCapacity) = kept
    BY <2>1 DEF Bounded
  <2>4. IsInjective(Bounded(kept, PublicCapacity))
    BY <1>1, <1>3, BoundedAppend
  <2> QED
    BY <2>1, <2>2, <2>3, <2>4, Zenon
<1> HIDE DEF kept
<1>5. /\ life \in [PublicIds -> PublicLifes]
      /\ \A x \in PublicIds :
           life[x] = IF x = r THEN "pending"
                     ELSE IF x \notin ToSet(kept) /\ aLife[x] = "pending" THEN "none" ELSE aLife[x]
  <2>1. \A x \in PublicIds : aLife[x] = "pending" => x \in ToSet(kept)
    BY <1>4, PublicFacts
  <2> QED
    BY <1>1, <2>1 DEF PublicLifes
<1> HIDE DEF life
<1>6. /\ aQueue' \in Seq(PublicIds) /\ Len(aQueue') <= PublicCapacity /\ IsInjective(aQueue')
      /\ ToSet(aQueue') \subseteq ToSet(aQueue) \cup {r} /\ r \in ToSet(aQueue')
      /\ PublicAuthority(life, aQueue', aCancelled)
      /\ \A x \in PublicIds :
           life[x] = IF x = r THEN "pending"
                     ELSE IF x \notin ToSet(aQueue') /\ aLife[x] = "pending" THEN "none" ELSE aLife[x]
  BY <1>2, <1>4, <1>5
<1> QED
  BY <1>2, <1>5, <1>6, PublicEnqueued

\* The entry of an action only goes on: to the page, to its cancellation, or
\* out of the authority.
PublicLifeGoesOn ==
  \A r \in PublicIds :
    \/ aLife'[r] \in {aLife[r], "none"}
    \/ aLife[r] = "pending" /\ aLife'[r] = "inflight"
    \/ aLife[r] = "cancellation_requested" /\ aLife'[r] = "cancelled"

\* Only what was pending leaves its first trace, and a result is claimed only
\* for an action that nobody cancelled.
PublicTracesGoOn ==
  \A r \in PublicIds :
    /\ Traces(r)' => Traces(r) \/ aLife[r] = "pending" \/ (aLife[r] = "inflight" /\ aAsked[r] = "none")
    /\ r \in aHandler' \/ Reported(r)' =>
         \/ r \in aHandler \/ Reported(r)
         \/ aLife[r] = "inflight" /\ aLife'[r] = "none" /\ aAsked[r] = "none"

\* A step of the bridge or of the page, without a caller.
LEMMA PublicStepKeeps ==
  ASSUME PublicInv, aWaiter' = aWaiter, aAsked' = aAsked,
         ToSet(aQueue') \subseteq ToSet(aQueue), PublicLifeGoesOn, PublicTracesGoOn
  PROVE  PublicCallersWait' /\ PublicAskedStays'
<1>1. PublicCallersWait'
  <2>1. ASSUME NEW x \in PublicIds,
               x \in ToSet(aQueue') \/ aLife'[x] # "none" \/ aAsked[x] # "none" \/ Traces(x)'
        PROVE  aWaiter[x] # "none"
    <3>1. x \in ToSet(aQueue) \/ aLife[x] # "none" \/ aAsked[x] # "none" \/ Traces(x)
      BY <2>1 DEF PublicLifeGoesOn, PublicTracesGoOn
    <3> QED
      BY <3>1 DEF PublicInv, PublicCallersWait
  <2> QED
    BY <2>1 DEF PublicCallersWait
<1>2. PublicAskedStays'
  <2>1. ASSUME NEW x \in PublicIds, aAsked[x] = "cancelled"
        PROVE  aLife'[x] \in {"cancelled", "none"} /\ ~Traces(x)'
    BY <2>1 DEF PublicInv, PublicAskedStays, PublicLifeGoesOn, PublicTracesGoOn
  <2>2. ASSUME NEW x \in PublicIds, aAsked[x] = "requested"
        PROVE  /\ aLife'[x] \in {"cancellation_requested", "cancelled", "none"}
               /\ x \notin aHandler' /\ ~Reported(x)'
    BY <2>2 DEF PublicInv, PublicAskedStays, PublicLifeGoesOn, PublicTracesGoOn
  <2> QED
    BY <2>1, <2>2 DEF PublicAskedStays
<1> QED
  BY <1>1, <1>2

\* What page_done leaves of the page.
LEMMA PublicPageGoesOn ==
  ASSUME PublicInv, aPage # <<>>, page_done \/ UNCHANGED <<aPage, aStep>>
  PROVE  /\ aPage' \in Seq(PublicIds) /\ ToSet(aPage') \subseteq ToSet(aPage)
         /\ aStep' \in {"taken", "running", "executed", "cancellationSeen", "reporting"}
         /\ aStep' # "taken" => aPage' # <<>>
<1>1. CASE page_done
  BY <1>1, PublicHeadShape DEF page_done
<1>2. CASE UNCHANGED <<aPage, aStep>>
  BY <1>2 DEF PublicInv, PublicShape
<1> QED
  BY <1>1, <1>2

\* acknowledge_action_cancellation.
LEMMA PublicAcknowledgeKeeps ==
  ASSUME PublicInv, acknowledge_action_cancellation
  PROVE  PublicInv'
<1> DEFINE r == PublicHead
<1>1. /\ aStep = "cancellationSeen" /\ aPage # <<>>
      /\ UNCHANGED <<aQueue, aResults, aClaimed, aHandler, aWaiter, aAsked, aRan>>
  BY DEF acknowledge_action_cancellation, PublicInv, PublicShape
<1>2. r \in PublicIds /\ r \in ToSet(aPage)
  BY <1>1, PublicHeadShape
<1>3. page_done \/ UNCHANGED <<aPage, aStep>>
  BY DEF acknowledge_action_cancellation
<1>4. /\ aPage' \in Seq(PublicIds) /\ ToSet(aPage') \subseteq ToSet(aPage)
      /\ aStep' \in {"taken", "running", "executed", "cancellationSeen", "reporting"}
      /\ aStep' # "taken" => aPage' # <<>>
  BY <1>1, <1>3, PublicPageGoesOn
<1>5. CASE UNCHANGED <<aInflight, aStarted, aAuthority>>
  <2>1. /\ UNCHANGED <<aStore, aAuthority, aHandler, aAsked>>
        /\ aRan' \subseteq aRan \cup ToSet(aPage)
        /\ aWaiter' \in [PublicIds -> {"none", "waiting", "done"}]
        /\ \A x \in PublicIds : aWaiter[x] # "none" => aWaiter'[x] # "none"
    BY <1>1, <1>5 DEF aStore, PublicInv, PublicShape
  <2> QED
    BY <1>4, <2>1, PublicStoreAlone
<1>6. CASE /\ aLife[r] = "cancellation_requested"
           /\ aInflight' = Without(aInflight, {r})
           /\ aStarted' = IF Contains(aInflight, r) THEN aStarted \ {r} ELSE aStarted
           /\ PublicAuthority([aLife EXCEPT ![r] = "cancelled"], aQueued, Append(aCancelled, r))
  <2> HIDE DEF r
  <2> DEFINE life == [aLife EXCEPT ![r] = "cancelled"]
  <2>1. /\ aLife \in [PublicIds -> PublicLifes] /\ aQueued \in Seq(PublicIds)
        /\ aCancelled \in Seq(PublicIds) /\ aInflight \in Seq(PublicIds)
        /\ Len(aInflight) <= PublicCapacity /\ PublicCapacity \in Nat
    BY PublicConstants DEF PublicInv, PublicShape
  <2>2. /\ life \in [PublicIds -> PublicLifes]
        /\ \A x \in PublicIds : life[x] = IF x = r THEN "cancelled" ELSE aLife[x]
    BY <1>2, <2>1 DEF PublicLifes
  <2>3. Append(aCancelled, r) \in Seq(PublicIds) /\ PublicAuthority(life, aQueued, Append(aCancelled, r))
    BY <1>2, <1>6, <2>1
  <2> HIDE DEF life
  <2>4. /\ aQueued' = aQueued
        /\ aCancelled' \in Seq(PublicIds)
        /\ aLife' \in [PublicIds -> PublicLifes]
        /\ \A x \in PublicIds :
             \/ aLife'[x] = life[x]
             \/ life[x] = "cancelled" /\ aLife'[x] = "none" /\ x \notin ToSet(aQueued)
    BY <2>1, <2>2, <2>3, PublicAuthorityShape, Zenon
  <2>5. /\ aInflight' \in Seq(PublicIds) /\ Len(aInflight') <= Len(aInflight)
        /\ ToSet(aInflight') = ToSet(aInflight) \ {r}
    BY <1>6, <2>1, WithoutMembers
  <2>6. Len(aInflight') <= PublicCapacity
    BY <2>1, <2>5
  <2>7. PublicShape'
    BY <1>1, <1>4, <1>6, <2>4, <2>5, <2>6 DEF PublicInv, PublicShape
  <2>8. \A x : (Reported(x)' <=> Reported(x)) /\ (Traces(x)' => Traces(x))
    BY <1>1, <1>4 DEF Reported, Traces
  <2>9. PublicRecordsAgree'
    BY <1>1, <2>2, <2>4, <2>5, PublicFacts DEF PublicRecordsAgree
  <2>10. PublicQueuedFirst'
    <3>1. ASSUME NEW x \in ToSet(aQueue)
          PROVE  aLife'[x] \in {"pending", "cancelled"} /\ ~Traces(x)'
      BY <2>2, <2>4, <2>8, PublicFacts
    <3>2. ASSUME NEW x \in PublicIds, aLife'[x] = "pending"
          PROVE  x \in ToSet(aQueue)
      BY <2>2, <2>4, <3>2, PublicFacts
    <3> QED
      BY <1>1, <3>1, <3>2, PublicFacts DEF PublicQueuedFirst
  <2>11. PublicClaimsAreHandled'
    BY <1>1, <2>2, <2>4, <2>8 DEF PublicInv, PublicClaimsAreHandled
  <2>12. PublicLifeGoesOn
    <3>1. ASSUME NEW x \in PublicIds
          PROVE  \/ aLife'[x] \in {aLife[x], "none"}
                 \/ aLife[x] = "cancellation_requested" /\ aLife'[x] = "cancelled"
      BY <1>6, <2>2, <2>4
    <3> QED
      BY <3>1 DEF PublicLifeGoesOn
  <2>13. PublicTracesGoOn
    <3>1. ASSUME NEW x \in PublicIds
          PROVE  /\ Traces(x)' => Traces(x)
                 /\ x \in aHandler' \/ Reported(x)' => x \in aHandler \/ Reported(x)
      <4>1. aHandler' = aHandler
        BY <1>1
      <4> QED
        BY <2>8, <4>1, Zenon
    <3> QED
      BY <3>1, Zenon DEF PublicTracesGoOn
  <2> QED
    BY <1>1, <2>7, <2>9, <2>10, <2>11, <2>12, <2>13, PublicStepKeeps DEF PublicInv
<1> QED
  BY <1>5, <1>6 DEF acknowledge_action_cancellation

\* claim_action: what it claims was not cancelled.
LEMMA PublicClaimKeeps ==
  ASSUME PublicInv, claim_action
  PROVE  PublicInv'
<1> DEFINE r == PublicHead
<1>1. /\ aStep = "reporting" /\ aPage # <<>>
      /\ UNCHANGED <<aQueue, aResults, aStarted, aCancelled, aWaiter, aAsked, aRan>>
  BY DEF claim_action, PublicInv, PublicShape
<1>2. r \in PublicIds /\ r \in ToSet(aPage)
  BY <1>1, PublicHeadShape
<1>3. page_done \/ UNCHANGED <<aPage, aStep>>
  BY DEF claim_action
<1>4. /\ aPage' \in Seq(PublicIds) /\ ToSet(aPage') \subseteq ToSet(aPage)
      /\ aStep' \in {"taken", "running", "executed", "cancellationSeen", "reporting"}
      /\ aStep' # "taken" => aPage' # <<>>
  BY <1>1, <1>3, PublicPageGoesOn
<1>5. CASE UNCHANGED <<aClaimed, aInflight, aLife, aQueued, aHandler>>
  <2>1. /\ UNCHANGED <<aStore, aAuthority, aHandler, aAsked>>
        /\ aRan' \subseteq aRan \cup ToSet(aPage)
        /\ aWaiter' \in [PublicIds -> {"none", "waiting", "done"}]
        /\ \A x \in PublicIds : aWaiter[x] # "none" => aWaiter'[x] # "none"
    BY <1>1, <1>5 DEF aStore, aAuthority, PublicInv, PublicShape
  <2> QED
    BY <1>4, <2>1, PublicStoreAlone
<1>6. CASE /\ aLife[r] \in {"inflight", "none"} /\ Contains(aInflight, r)
           /\ aInflight' = Without(aInflight, {r})
           /\ aClaimed' = Bounded(Append(aClaimed, r), PublicCapacity)
           /\ aLife' = [aLife EXCEPT ![r] = "none"]
           /\ aQueued' = Without(aQueued, {r})
           /\ aHandler' = aHandler \cup {r}
  <2> HIDE DEF r
  <2>1. /\ aLife \in [PublicIds -> PublicLifes] /\ aQueued \in Seq(PublicIds)
        /\ aInflight \in Seq(PublicIds) /\ aClaimed \in Seq(PublicIds)
        /\ Len(aInflight) <= PublicCapacity /\ PublicCapacity \in Nat
    BY PublicConstants DEF PublicInv, PublicShape
  <2>2. r \in ToSet(aInflight) /\ aLife[r] = "inflight" /\ r \notin ToSet(aQueue)
    <3>1. r \in ToSet(aInflight)
      BY <1>6, <2>1, MembersAreOfSet DEF Contains
    <3> QED
      BY <1>6, <3>1, PublicFacts
  <2>3. aQueued' = aQueued
    <3>1. ToSet(aQueued) \cap {r} = {}
      BY <2>2, PublicFacts
    <3> QED
      BY <1>6, <2>1, <3>1, WithoutNone
  <2>4. /\ aInflight' \in Seq(PublicIds) /\ Len(aInflight') <= Len(aInflight)
        /\ ToSet(aInflight') = ToSet(aInflight) \ {r}
    BY <1>6, <2>1, WithoutMembers
  <2>5. Len(aInflight') <= PublicCapacity
    BY <2>1, <2>4
  <2>6. /\ aClaimed' \in Seq(PublicIds) /\ Len(aClaimed') <= PublicCapacity
        /\ ToSet(aClaimed') \subseteq ToSet(aClaimed) \cup {r}
    <3> DEFINE s == Append(aClaimed, r)
    <3>1. s \in Seq(PublicIds) /\ ToSet(s) = ToSet(aClaimed) \cup {r}
      BY <1>2, <2>1, AppendMembers
    <3>2. aClaimed' = Bounded(s, PublicCapacity)
      BY <1>6
    <3> HIDE DEF s
    <3> QED
      BY <2>1, <3>1, <3>2, BoundedShape
  <2>7. /\ aLife' \in [PublicIds -> PublicLifes]
        /\ \A x \in PublicIds : aLife'[x] = IF x = r THEN "none" ELSE aLife[x]
    BY <1>2, <1>6, <2>1 DEF PublicLifes
  <2>8. PublicShape'
    BY <1>1, <1>2, <1>4, <1>6, <2>3, <2>4, <2>5, <2>6, <2>7 DEF PublicInv, PublicShape
  <2>9. /\ \A x : Reported(x)' <=> Reported(x)
        /\ \A x : Traces(x)' => Traces(x) \/ x = r
    BY <1>1, <1>4, <1>6 DEF Reported, Traces
  <2>10. PublicRecordsAgree'
    <3>1. ASSUME NEW x \in ToSet(aInflight')
          PROVE  aLife'[x] \in {"inflight", "cancellation_requested"}
      BY <2>4, <2>7, PublicFacts
    <3> QED
      BY <1>1, <2>3, <2>4, <2>6, <3>1, PublicFacts DEF PublicRecordsAgree
  <2>11. PublicQueuedFirst'
    <3>1. ASSUME NEW x \in ToSet(aQueue)
          PROVE  aLife'[x] \in {"pending", "cancelled"} /\ ~Traces(x)'
      BY <2>2, <2>7, <2>9, PublicFacts
    <3>2. ASSUME NEW x \in PublicIds, aLife'[x] = "pending"
          PROVE  x \in ToSet(aQueue)
      BY <2>7, <3>2, PublicFacts
    <3> QED
      BY <1>1, <3>1, <3>2, PublicFacts DEF PublicQueuedFirst
  <2>12. PublicClaimsAreHandled'
    <3>1. ASSUME NEW x \in PublicIds, aLife'[x] \in {"inflight", "cancellation_requested"}
          PROVE  x \notin aHandler' /\ ~Reported(x)'
      BY <1>6, <2>7, <2>9, <3>1 DEF PublicInv, PublicClaimsAreHandled
    <3>2. ToSet(aClaimed') \subseteq aHandler'
      BY <1>6, <2>6, PublicFacts
    <3> QED
      BY <3>1, <3>2 DEF PublicClaimsAreHandled
  <2>13. aAsked[r] = "none"
    BY <1>2, <2>2 DEF PublicInv, PublicShape, PublicAskedStays
  <2>14. PublicLifeGoesOn
    BY <2>7 DEF PublicLifeGoesOn
  <2>15. PublicTracesGoOn
    <3>1. ASSUME NEW x \in PublicIds, Traces(x)'
          PROVE  Traces(x) \/ (aLife[x] = "inflight" /\ aAsked[x] = "none")
      <4>1. Traces(x) \/ x = r
        BY <2>9, <3>1, Zenon
      <4> QED
        BY <2>2, <2>13, <4>1
    <3>2. ASSUME NEW x \in PublicIds, x \in aHandler' \/ Reported(x)'
          PROVE  \/ x \in aHandler \/ Reported(x)
                 \/ aLife[x] = "inflight" /\ aLife'[x] = "none" /\ aAsked[x] = "none"
      BY <1>6, <2>2, <2>7, <2>9, <2>13, <3>2
    <3> QED
      BY <3>1, <3>2 DEF PublicTracesGoOn
  <2> QED
    BY <1>1, <2>8, <2>10, <2>11, <2>12, <2>14, <2>15, PublicStepKeeps DEF PublicInv
<1> QED
  BY <1>5, <1>6 DEF claim_action

\* complete_action: the result of a claim that its handler holds.
LEMMA PublicCompleteKeeps ==
  ASSUME PublicInv, NEW r \in PublicIds, complete_action(r)
  PROVE  PublicInv'
<1>1. PICK ok \in BOOLEAN :
        aResults' = Bounded(Append(aResults, [id |-> r, ok |-> ok]), PublicCapacity)
  BY DEF complete_action, sanitize_result_for_storage
<1>2. /\ r \in aHandler
      /\ aClaimed' = Without(aClaimed, {r})
      /\ aStarted' = IF Contains(aClaimed, r) THEN aStarted \ {r} ELSE aStarted
      /\ aHandler' = aHandler \ {r}
      /\ UNCHANGED <<aQueue, aInflight, aLife, aQueued, aCancelled, aPage, aStep, aWaiter, aAsked, aRan>>
  BY DEF complete_action, aAuthority
<1>3. /\ aClaimed \in Seq(PublicIds) /\ Len(aClaimed) <= PublicCapacity
      /\ aResults \in Seq(PublicOutcomes) /\ PublicCapacity \in Nat
  BY PublicConstants DEF PublicInv, PublicShape
<1>4. /\ aClaimed' \in Seq(PublicIds) /\ Len(aClaimed') <= Len(aClaimed)
      /\ ToSet(aClaimed') = ToSet(aClaimed) \ {r}
  BY <1>2, <1>3, WithoutMembers
<1>5. Len(aClaimed') <= PublicCapacity
  BY <1>3, <1>4
<1>6. /\ aResults' \in Seq(PublicOutcomes) /\ Len(aResults') <= PublicCapacity
      /\ \A o \in ToSet(aResults') : o \in ToSet(aResults) \/ o.id = r
  <2> DEFINE o == [id |-> r, ok |-> ok]
             s == Append(aResults, o)
  <2>1. o \in PublicOutcomes /\ o.id = r
    BY DEF PublicOutcomes
  <2> HIDE DEF o
  <2>2. s \in Seq(PublicOutcomes) /\ ToSet(s) = ToSet(aResults) \cup {o}
    BY <1>3, <2>1, AppendMembers
  <2>3. aResults' = Bounded(s, PublicCapacity)
    BY <1>1 DEF o
  <2> HIDE DEF s
  <2>4. /\ aResults' \in Seq(PublicOutcomes) /\ Len(aResults') <= PublicCapacity
        /\ ToSet(aResults') \subseteq ToSet(s)
    BY <1>3, <2>2, <2>3, BoundedShape
  <2> QED
    BY <2>1, <2>2, <2>4
<1>7. ASSUME NEW x \in PublicIds
      PROVE  /\ x \in aHandler' \/ Reported(x)' => x \in aHandler \/ Reported(x)
             /\ Traces(x)' => Traces(x)
  <2>1. x \in aHandler' \/ Reported(x)' => x \in aHandler \/ Reported(x)
    <3>1. Reported(x)' => Reported(x) \/ x = r
      BY <1>6 DEF Reported
    <3> QED
      BY <1>2, <3>1
  <2> QED
    BY <1>2, <2>1 DEF Traces
<1>8. PublicShape'
  BY <1>2, <1>4, <1>5, <1>6 DEF PublicInv, PublicShape
<1>9. PublicRecordsAgree'
  BY <1>2, <1>4, PublicFacts DEF PublicRecordsAgree
<1>10. PublicQueuedFirst'
  BY <1>2, <1>7, PublicFacts DEF PublicQueuedFirst
<1>11. PublicClaimsAreHandled'
  BY <1>2, <1>4, <1>7 DEF PublicInv, PublicClaimsAreHandled
<1>12. PublicLifeGoesOn
  BY <1>2 DEF PublicLifeGoesOn
<1>13. PublicTracesGoOn
  BY <1>7, Zenon DEF PublicTracesGoOn
<1> QED
  BY <1>2, <1>8, <1>9, <1>10, <1>11, <1>12, <1>13, PublicStepKeeps DEF PublicInv

\* discard_public_actions_for_session.
LEMMA PublicDiscardKeeps ==
  ASSUME PublicInv, discard_public_actions_for_session
  PROVE  PublicInv'
<1>1. /\ aQueue' = <<>> /\ aInflight' = <<>> /\ aClaimed' = <<>> /\ aStarted' = {}
      /\ aLife' = [r \in PublicIds |-> "none"] /\ aQueued' = <<>> /\ aCancelled' = <<>>
      /\ UNCHANGED <<aResults, aPage, aStep, aHandler, aWaiter, aAsked, aRan>>
  BY DEF discard_public_actions_for_session, aClients
<1>2. ToSet(<<>>) = {}
  BY DEF ToSet
<1>3. \A x : (Reported(x)' <=> Reported(x)) /\ (Traces(x)' <=> Traces(x))
  BY <1>1 DEF Reported, Traces
<1>4. PublicShape'
  BY <1>1, PublicConstants DEF PublicInv, PublicShape, PublicLifes
<1>5. PublicRecordsAgree' /\ PublicQueuedFirst' /\ PublicClaimsAreHandled'
  BY <1>1, <1>2 DEF PublicRecordsAgree, PublicQueuedFirst, PublicClaimsAreHandled, IsInjective
<1>6. PublicCallersWait' /\ PublicAskedStays'
  <2>1. PublicLifeGoesOn
    BY <1>1 DEF PublicLifeGoesOn
  <2>2. PublicTracesGoOn
    <3>1. ASSUME NEW x \in PublicIds
          PROVE  /\ Traces(x)' => Traces(x)
                 /\ x \in aHandler' \/ Reported(x)' => x \in aHandler \/ Reported(x)
      BY <1>1, <1>3
    <3> QED
      BY <3>1, Zenon DEF PublicTracesGoOn
  <2> QED
    BY <1>1, <1>2, <2>1, <2>2, PublicStepKeeps
<1> QED
  BY <1>4, <1>5, <1>6 DEF PublicInv

\* cancel_action, of an action that is queued or in flight.
LEMMA PublicCancelKeeps ==
  ASSUME PublicInv, NEW r \in PublicIds, cancel_action(r)
  PROVE  PublicInv'
<1>1. /\ aLife[r] \in {"pending", "inflight"}
      /\ UNCHANGED <<aQueue, aInflight, aClaimed, aResults, aStarted, aPage, aStep, aHandler, aWaiter, aRan>>
  BY DEF cancel_action, aStore
<1>2. /\ aLife \in [PublicIds -> PublicLifes] /\ aQueued \in Seq(PublicIds)
      /\ aCancelled \in Seq(PublicIds) /\ aAsked \in [PublicIds -> {"none", "cancelled", "requested"}]
      /\ aQueued = aQueue
  BY PublicFacts DEF PublicInv, PublicShape
<1>3. \A x : (Reported(x)' <=> Reported(x)) /\ (Traces(x)' <=> Traces(x))
  BY <1>1 DEF Reported, Traces
<1>4. \E to \in {"cancelled", "cancellation_requested"} : \E answer \in {"cancelled", "requested"} :
        /\ to = "cancelled" <=> aLife[r] = "pending"
        /\ answer = "cancelled" <=> aLife[r] = "pending"
        /\ aAsked' = [aAsked EXCEPT ![r] = answer]
        /\ aQueued' = aQueued /\ aCancelled' \in Seq(PublicIds)
        /\ aLife' \in [PublicIds -> PublicLifes]
        /\ \A x \in PublicIds :
             \/ aLife'[x] = IF x = r THEN to ELSE aLife[x]
             \/ /\ to = "cancelled" /\ (x = r \/ aLife[x] = "cancelled")
                /\ aLife'[x] = "none" /\ x \notin ToSet(aQueued)
  <2>1. CASE aLife[r] = "pending"
    <3> DEFINE life == [aLife EXCEPT ![r] = "cancelled"]
    <3>1. /\ life \in [PublicIds -> PublicLifes]
          /\ \A x \in PublicIds : life[x] = IF x = r THEN "cancelled" ELSE aLife[x]
      BY <1>2 DEF PublicLifes
    <3>2. /\ PublicAuthority(life, aQueued, Append(aCancelled, r))
          /\ aAsked' = [aAsked EXCEPT ![r] = "cancelled"]
          /\ Append(aCancelled, r) \in Seq(PublicIds)
      BY <1>2, <2>1 DEF cancel_action
    <3> HIDE DEF life
    <3>3. /\ aQueued' = aQueued
          /\ aCancelled' \in Seq(PublicIds)
          /\ aLife' \in [PublicIds -> PublicLifes]
          /\ \A x \in PublicIds :
               \/ aLife'[x] = life[x]
               \/ life[x] = "cancelled" /\ aLife'[x] = "none" /\ x \notin ToSet(aQueued)
      BY <1>2, <3>1, <3>2, PublicAuthorityShape, Zenon
    <3> QED
      BY <2>1, <3>1, <3>2, <3>3
  <2>2. CASE aLife[r] = "inflight"
    <3>1. /\ aLife' = [aLife EXCEPT ![r] = "cancellation_requested"]
          /\ aAsked' = [aAsked EXCEPT ![r] = "requested"]
          /\ UNCHANGED <<aQueued, aCancelled>>
      BY <2>2 DEF cancel_action
    <3> QED
      BY <1>2, <2>2, <3>1 DEF PublicLifes
  <2> QED
    BY <1>1, <2>1, <2>2
<1>5. PublicShape'
  <2>1. aAsked' \in [PublicIds -> {"none", "cancelled", "requested"}]
    BY <1>2, <1>4
  <2> QED
    BY <1>1, <1>2, <1>4, <2>1 DEF PublicInv, PublicShape
<1>6. PublicRecordsAgree'
  <2>1. ASSUME NEW x \in ToSet(aInflight)
        PROVE  aLife'[x] \in {"inflight", "cancellation_requested"}
    BY <1>4, PublicFacts
  <2> QED
    BY <1>1, <1>2, <1>4, <2>1, PublicFacts DEF PublicRecordsAgree
<1>7. PublicQueuedFirst'
  <2>1. ASSUME NEW x \in ToSet(aQueue)
        PROVE  aLife'[x] \in {"pending", "cancelled"} /\ ~Traces(x)'
    BY <1>1, <1>2, <1>3, <1>4, PublicFacts
  <2>2. ASSUME NEW x \in PublicIds, aLife'[x] = "pending"
        PROVE  x \in ToSet(aQueue)
    BY <1>4, <2>2, PublicFacts
  <2> QED
    BY <1>1, <2>1, <2>2, PublicFacts DEF PublicQueuedFirst
<1>8. PublicClaimsAreHandled'
  <2>1. ASSUME NEW x \in PublicIds, aLife'[x] \in {"inflight", "cancellation_requested"}
        PROVE  aLife[x] \in {"inflight", "cancellation_requested"}
    BY <1>1, <1>4, <2>1
  <2> QED
    BY <1>1, <1>3, <2>1 DEF PublicInv, PublicClaimsAreHandled
<1>9. PublicCallersWait'
  <2>1. \A x \in PublicIds :
          aLife'[x] # "none" \/ aAsked'[x] # "none" => aLife[x] # "none" \/ aAsked[x] # "none"
    BY <1>1, <1>2, <1>4
  <2> QED
    BY <1>1, <1>3, <2>1 DEF PublicInv, PublicCallersWait
<1>10. PublicAskedStays'
  <2>1. ~Traces(r) \/ aLife[r] = "inflight"
    BY <1>1, PublicFacts
  <2>2. aLife[r] = "inflight" => r \notin aHandler /\ ~Reported(r)
    BY DEF PublicInv, PublicClaimsAreHandled
  <2>3. ASSUME NEW x \in PublicIds, aAsked'[x] = "cancelled"
        PROVE  aLife'[x] \in {"cancelled", "none"} /\ ~Traces(x)
    BY <1>2, <1>4, <2>1, <2>3 DEF PublicInv, PublicAskedStays
  <2>4. ASSUME NEW x \in PublicIds, aAsked'[x] = "requested"
        PROVE  /\ aLife'[x] \in {"cancellation_requested", "cancelled", "none"}
               /\ x \notin aHandler /\ ~Reported(x)
    BY <1>1, <1>2, <1>4, <2>2, <2>4 DEF PublicInv, PublicAskedStays
  <2> QED
    BY <1>1, <1>3, <2>3, <2>4 DEF PublicAskedStays
<1> QED
  BY <1>5, <1>6, <1>7, <1>8, <1>9, <1>10 DEF PublicInv

\* take_public_actions: what is handed out was pending, and left no trace.
LEMMA PublicTakeKeeps ==
  ASSUME PublicInv, take_public_actions
  PROVE  PublicInv'
<1> DEFINE count  == Least(PublicBatch, Len(aQueue))
           taken  == SubSeq(aQueue, 1, count)
           ready  == {r \in PublicIds : aLife[r] = "pending"}
           handed == Without(taken, PublicIds \ ready)
           lost   == ToSet(taken) \ ready
           flight == Bounded(aInflight \o taken, PublicCapacity)
           life   == [r \in PublicIds |-> IF Contains(handed, r) THEN "inflight" ELSE aLife[r]]
           rest   == Without(aQueued, ToSet(taken))
<1>1. /\ aPage = <<>>
      /\ aQueue' = SubSeq(aQueue, Len(taken) + 1, Len(aQueue))
      /\ aInflight' = Without(flight, lost)
      /\ aStarted' = (aStarted \cup ToSet(taken)) \ (lost \cap ToSet(flight))
      /\ PublicAuthority(life, rest, aCancelled)
      /\ aPage' = handed \/ aPage' = aPage
      /\ UNCHANGED <<aStep, aClaimed, aResults, aHandler, aWaiter, aAsked, aRan>>
  BY Zenon DEF take_public_actions
<1>2. /\ aQueue \in Seq(PublicIds) /\ Len(aQueue) <= PublicCapacity /\ IsInjective(aQueue)
      /\ aInflight \in Seq(PublicIds) /\ aLife \in [PublicIds -> PublicLifes]
      /\ aCancelled \in Seq(PublicIds) /\ aQueued = aQueue /\ aStarted \subseteq PublicIds
      /\ PublicCapacity \in Nat \ {0} /\ PublicBatch \in Nat \ {0}
      /\ ToSet(aQueue) \subseteq PublicIds
  BY PublicConstants, PublicFacts DEF PublicInv, PublicShape
<1>3. count \in 0..Len(aQueue)
  BY <1>2 DEF Least
<1> HIDE DEF count
<1>4. /\ taken \in Seq(PublicIds) /\ Len(taken) = count /\ ToSet(taken) \subseteq ToSet(aQueue)
  BY <1>2, <1>3, PrefixShape
<1>5. /\ rest = SubSeq(aQueue, count + 1, Len(aQueue))
      /\ rest = aQueue'
  BY <1>1, <1>2, <1>3, <1>4, WithoutTaken
<1> HIDE DEF taken
<1>6. /\ aQueue' \in Seq(PublicIds) /\ Len(aQueue') <= PublicCapacity /\ IsInjective(aQueue')
      /\ ToSet(aQueue') = ToSet(aQueue) \ ToSet(taken)
  <2>1. aQueue' \in Seq(PublicIds) /\ Len(aQueue') = Len(aQueue) - count
    <3>1. aQueue' = SubSeq(aQueue, count + 1, Len(aQueue))
      BY <1>5
    <3> QED
      BY <1>2, <1>3, <3>1, SuffixShape
  <2>2. IsInjective(aQueue')
    BY <1>2, <1>3, <1>5, SuffixIsInjective
  <2>3. ToSet(aQueue') = ToSet(aQueue) \ ToSet(taken)
    BY <1>2, <1>5, WithoutMembers
  <2> QED
    BY <1>2, <1>3, <2>1, <2>2, <2>3
<1>7. /\ handed \in Seq(PublicIds)
      /\ ToSet(handed) = ToSet(taken) \ (PublicIds \ ready)
  BY <1>4, WithoutMembers
<1>8. \A x : x \in ToSet(handed) <=> x \in ToSet(taken) /\ aLife[x] = "pending"
  BY <1>2, <1>4, <1>7
<1>9. /\ flight \in Seq(PublicIds) /\ Len(flight) <= PublicCapacity
      /\ ToSet(flight) \subseteq ToSet(aInflight) \cup ToSet(taken)
  <2> DEFINE s == aInflight \o taken
  <2>1. s \in Seq(PublicIds) /\ ToSet(s) = ToSet(aInflight) \cup ToSet(taken)
    BY <1>2, <1>4, ConcatMembers
  <2>2. flight = Bounded(s, PublicCapacity)
    OBVIOUS
  <2> HIDE DEF s, flight
  <2> QED
    BY <1>2, <2>1, <2>2, BoundedShape
<1> HIDE DEF handed, flight
<1>10. /\ aInflight' \in Seq(PublicIds) /\ Len(aInflight') <= Len(flight)
       /\ ToSet(aInflight') = ToSet(flight) \ lost
  BY <1>1, <1>9, WithoutMembers
<1>11. Len(aInflight') <= PublicCapacity
  BY <1>2, <1>9, <1>10
<1>12. \A x \in ToSet(aInflight') : x \in ToSet(aInflight) \/ x \in ToSet(handed)
  BY <1>2, <1>4, <1>8, <1>9, <1>10
<1>13. /\ life \in [PublicIds -> PublicLifes]
       /\ \A x \in PublicIds : life[x] = IF x \in ToSet(handed) THEN "inflight" ELSE aLife[x]
  <2>1. \A x : Contains(handed, x) <=> x \in ToSet(handed)
    BY <1>7, MembersAreOfSet DEF Contains
  <2> QED
    BY <1>2, <2>1 DEF PublicLifes
<1> HIDE DEF life, rest
<1>14. /\ aQueued' = aQueue'
       /\ aCancelled' \in Seq(PublicIds)
       /\ aLife' \in [PublicIds -> PublicLifes]
       /\ \A x \in PublicIds :
            \/ aLife'[x] = life[x]
            \/ life[x] = "cancelled" /\ aLife'[x] = "none" /\ x \notin ToSet(aQueue')
  <2>1. rest \in Seq(PublicIds)
    BY <1>5, <1>6
  <2>2. /\ aQueued' = rest
        /\ aCancelled' \in Seq(PublicIds)
        /\ aLife' \in [PublicIds -> PublicLifes]
        /\ \A x \in PublicIds :
             \/ aLife'[x] = life[x]
             \/ life[x] = "cancelled" /\ aLife'[x] = "none" /\ x \notin ToSet(rest)
    BY <1>1, <1>2, <1>13, <2>1, PublicAuthorityShape, Zenon
  <2> QED
    BY <1>5, <2>2, Zenon
<1>15. ToSet(aPage') \subseteq ToSet(handed) /\ aPage' \in Seq(PublicIds) /\ ToSet(aPage) = {}
  <2>1. ToSet(<<>>) = {} /\ <<>> \in Seq(PublicIds)
    BY DEF ToSet
  <2> QED
    BY <1>1, <1>7, <2>1
<1>16. \A x : Reported(x)' <=> Reported(x)
  BY <1>1 DEF Reported
<1>17. ASSUME NEW x PROVE Traces(x)' => Traces(x) \/ x \in ToSet(handed)
  BY <1>1, <1>15, <1>16 DEF Traces
<1>18. ASSUME NEW x \in ToSet(handed)
       PROVE  /\ x \in PublicIds /\ x \in ToSet(aQueue) /\ x \in ToSet(taken)
              /\ aLife[x] = "pending" /\ ~Traces(x)
  BY <1>2, <1>4, <1>8, PublicFacts
<1>19. PublicShape'
  <2>1. aStep = "taken"
    BY <1>1 DEF PublicInv, PublicShape
  <2>2. aStarted' \subseteq PublicIds
    BY <1>1, <1>2, <1>4
  <2> QED
    BY <1>1, <1>6, <1>10, <1>11, <1>14, <1>15, <2>1, <2>2 DEF PublicInv, PublicShape
<1>20. PublicRecordsAgree'
  <2>1. ASSUME NEW x \in ToSet(aInflight')
        PROVE  aLife'[x] \in {"inflight", "cancellation_requested"}
    BY <1>12, <1>13, <1>14, <1>18, PublicFacts
  <2>2. ASSUME NEW x \in ToSet(aInflight') PROVE x \notin ToSet(aClaimed)
    BY <1>12, <1>18, PublicFacts DEF Traces
  <2> QED
    BY <1>1, <1>14, <2>1, <2>2 DEF PublicRecordsAgree
<1>21. PublicQueuedFirst'
  <2>1. ASSUME NEW x \in ToSet(aQueue')
        PROVE  aLife'[x] \in {"pending", "cancelled"} /\ ~Traces(x)'
    <3>1. x \in ToSet(aQueue) /\ x \notin ToSet(taken) /\ x \notin ToSet(handed) /\ x \in PublicIds
      BY <1>2, <1>6, <1>18, <2>1
    <3> QED
      BY <1>13, <1>14, <1>17, <2>1, <3>1, PublicFacts
  <2>2. ASSUME NEW x \in PublicIds, aLife'[x] = "pending"
        PROVE  x \in ToSet(aQueue')
    <3>1. aLife[x] = "pending" /\ x \notin ToSet(handed)
      BY <1>13, <1>14, <2>2
    <3> QED
      BY <1>6, <1>8, <3>1, PublicFacts
  <2> QED
    BY <1>6, <2>1, <2>2 DEF PublicQueuedFirst
<1>22. PublicClaimsAreHandled'
  <2>1. ASSUME NEW x \in PublicIds, aLife'[x] \in {"inflight", "cancellation_requested"}
        PROVE  x \notin aHandler /\ ~Reported(x)
    <3>1. CASE x \in ToSet(handed)
      BY <1>18, <3>1 DEF Traces
    <3>2. CASE x \notin ToSet(handed)
      BY <1>13, <1>14, <2>1, <3>2 DEF PublicInv, PublicClaimsAreHandled
    <3> QED
      BY <3>1, <3>2
  <2> QED
    BY <1>1, <1>16, <2>1, PublicFacts DEF PublicClaimsAreHandled
<1>23. PublicLifeGoesOn
  <2>1. ASSUME NEW x \in PublicIds
        PROVE  aLife'[x] \in {aLife[x], "none"} \/ (aLife[x] = "pending" /\ aLife'[x] = "inflight")
    BY <1>13, <1>14, <1>18
  <2> QED
    BY <2>1 DEF PublicLifeGoesOn
<1>24. PublicTracesGoOn
  <2>1. ASSUME NEW x \in PublicIds
        PROVE  /\ Traces(x)' => Traces(x) \/ aLife[x] = "pending"
               /\ x \in aHandler' \/ Reported(x)' => x \in aHandler \/ Reported(x)
    <3>1. Traces(x)' => Traces(x) \/ aLife[x] = "pending"
      BY <1>17, <1>18
    <3>2. aHandler' = aHandler
      BY <1>1
    <3> QED
      BY <1>16, <3>1, <3>2, Zenon
  <2> QED
    BY <2>1, Zenon DEF PublicTracesGoOn
<1> QED
  BY <1>1, <1>6, <1>19, <1>20, <1>21, <1>22, <1>23, <1>24, PublicStepKeeps DEF PublicInv

\* The invariant holds at the start.
LEMMA PublicInitKeeps == PublicInit => PublicInv
<1> SUFFICES ASSUME PublicInit PROVE PublicInv
  OBVIOUS
<1>1. ToSet(<<>>) = {}
  BY DEF ToSet
<1>2. \A r : ~Reported(r) /\ ~Traces(r)
  BY <1>1 DEF PublicInit, Reported, Traces
<1>3. PublicShape
  BY PublicConstants DEF PublicInit, PublicShape, PublicLifes
<1>4. PublicRecordsAgree /\ PublicQueuedFirst /\ PublicClaimsAreHandled
  BY <1>1 DEF PublicInit, PublicRecordsAgree, PublicQueuedFirst, PublicClaimsAreHandled, IsInjective
<1>5. PublicCallersWait /\ PublicAskedStays
  BY <1>1, <1>2 DEF PublicInit, PublicCallersWait, PublicAskedStays
<1> QED
  BY <1>3, <1>4, <1>5 DEF PublicInv

\* Every step of public actions keeps the invariant.
LEMMA PublicNextKeeps == PublicInv /\ [PublicNext]_publicVars => PublicInv'
<1> SUFFICES ASSUME PublicInv, [PublicNext]_publicVars PROVE PublicInv'
  OBVIOUS
<1>1. CASE UNCHANGED publicVars
  <2>1. UNCHANGED <<aStore, aAuthority, aPage, aStep, aHandler, aWaiter, aAsked, aRan>>
    BY <1>1 DEF publicVars, aClients
  <2>2. /\ aPage \in Seq(PublicIds) /\ (aStep # "taken" => aPage # <<>>)
        /\ aStep \in {"taken", "running", "executed", "cancellationSeen", "reporting"}
        /\ aWaiter \in [PublicIds -> {"none", "waiting", "done"}]
    BY DEF PublicInv, PublicShape
  <2> QED
    BY <2>1, <2>2, PublicStoreAlone
<1>2. CASE PublicPageStep
  BY <1>2, PublicTakeKeeps, PublicPageKeeps, PublicAcknowledgeKeeps, PublicClaimKeeps
  DEF PublicPageStep
<1>3. CASE discard_public_actions_for_session \/ page_reload
  BY <1>3, PublicDiscardKeeps, PublicPageKeeps
<1>4. ASSUME NEW r \in PublicIds,
             \/ enqueue_action(r) \/ enqueue_prebound_public_action(r) \/ complete_action(r)
             \/ cancel_action(r) \/ wait_for_matching_result(r)
      PROVE  PublicInv'
  BY <1>4, PublicEnqueueKeeps, PublicPreboundKeeps, PublicCompleteKeeps, PublicCancelKeeps,
     PublicWaitKeeps
<1> QED
  BY <1>1, <1>2, <1>3, <1>4 DEF PublicNext

\* The inductive invariant of public actions.
LEMMA PublicInvariant == PublicSpec => []PublicInv
<1> QED
  BY PublicInitKeeps, PublicNextKeeps, PTL DEF PublicSpec

\* An action whose caller was told "cancelled" is never executed by the page,
\* and no result is claimed or stored for one whose cancellation was answered
\* (cancel_action against take, the checks of the page, claim_action and
\* complete_action, and against discards and reloads).
THEOREM PublicCancellationHolds == PublicSpec => []CancelledLeavesNoResult
<1>1. PublicInv => CancelledLeavesNoResult
  <2> SUFFICES ASSUME PublicInv, NEW r \in PublicIds
               PROVE  /\ aAsked[r] = "cancelled" => r \notin aRan
                      /\ aAsked[r] # "none" => r \notin aHandler /\ ~Reported(r)
    <3>1. \A x : (\A k \in DOMAIN aResults : aResults[k].id # x) <=> ~Reported(x)
      BY DEF Reported, ToSet
    <3> QED
      BY <3>1 DEF CancelledLeavesNoResult
  <2>1. aAsked[r] \in {"none", "cancelled", "requested"}
    BY DEF PublicInv, PublicShape
  <2> QED
    BY <2>1 DEF PublicInv, PublicAskedStays, Traces
<1> QED
  BY <1>1, PublicInvariant, PTL

\* The queue, the authority and the lists of the bridge stay within their
\* bounds, the queue and the authority hold the same actions, and what is in
\* flight can still be cancelled and is not claimed.
THEOREM PublicRecordsStayInStep == PublicSpec => [](PublicTypeOK /\ PublicRecordsAgree)
<1>1. PublicInv => PublicTypeOK /\ PublicRecordsAgree
  BY DEF PublicInv, PublicShape, PublicTypeOK, PublicLifes, PublicOutcomes
<1> QED
  BY <1>1, PublicInvariant, PTL

=============================================================================
