---------------------------- MODULE VisualProofs ----------------------------
(***************************************************************************)
(* Proofs about VisualEvidence, for every page, path, policy and budget.   *)
(*                                                                         *)
(* The pure part has no states to speak of: one case is examined, and what *)
(* has to be shown is what the algorithms return.  A recursive function is *)
(* reasoned about through the least turn at which a claim would fail.      *)
(* The cache is a state machine: its invariant says in addition that no two*)
(* entries were touched at one tick, for that is why the oldest is one     *)
(* entry, and why the eviction ends where the projection said it would.    *)
(***************************************************************************)
EXTENDS VisualEvidence, FiniteSetTheorems, SequenceTheorems, WellFoundedInduction, TLAPS

-----------------------------------------------------------------------------
(* Rectangles and the progressive targets. *)

\* The bounds of two numbers.
LEMMA LesserOfTwo ==
  ASSUME NEW a \in Int, NEW b \in Int
  PROVE  Min({a, b}) = IF a <= b THEN a ELSE b
<1>1. PICK m : m = IF a <= b THEN a ELSE b
  OBVIOUS
<1>2. m \in {a, b} /\ \A y \in {a, b} : m <= y
  BY <1>1
<1>3. \A n \in {a, b} : (\A y \in {a, b} : n <= y) => n = m
  BY <1>1
<1>4. Min({a, b}) = m
  BY <1>2, <1>3, Zenon DEF Min
<1> QED
  BY <1>1, <1>4

LEMMA GreaterOfTwo ==
  ASSUME NEW a \in Int, NEW b \in Int
  PROVE  Max({a, b}) = IF a >= b THEN a ELSE b
<1>1. PICK m : m = IF a >= b THEN a ELSE b
  OBVIOUS
<1>2. m \in {a, b} /\ \A y \in {a, b} : m >= y
  BY <1>1
<1>3. \A n \in {a, b} : (\A y \in {a, b} : n >= y) => n = m
  BY <1>1
<1>4. Max({a, b}) = m
  BY <1>2, <1>3, Zenon DEF Max
<1> QED
  BY <1>1, <1>4

LEMMA SideIsPositive ==
  ViewportSide \in Nat \ {0} /\ PixelSize \in Nat \ {0} /\ FrameSize \in Nat \ {0}
BY VisualAssumption DEF ViewportSide

LEMMA RectIs ==
  ASSUME NEW r \in Rects
  PROVE  /\ r.x \in Int /\ r.y \in Int /\ r.width \in Int /\ r.height \in Int
         /\ Right(r) = r.x + r.width /\ Bottom(r) = r.y + r.height
         /\ Right(r) \in Int /\ Bottom(r) \in Int
BY DEF Rects, Right, Bottom

LEMMA RectOf ==
  ASSUME NEW x \in Int, NEW y \in Int, NEW w \in Int, NEW h \in Int
  PROVE  /\ Rect(x, y, w, h) \in Rects
         /\ Rect(x, y, w, h).x = x /\ Rect(x, y, w, h).y = y
         /\ Rect(x, y, w, h).width = w /\ Rect(x, y, w, h).height = h
         /\ Right(Rect(x, y, w, h)) = x + w /\ Bottom(Rect(x, y, w, h)) = y + h
BY DEF Rects, Rect, Right, Bottom

\* A rectangle on the screen.
OnScreen(r) ==
  /\ r \in Rects /\ r.x >= 0 /\ r.y >= 0 /\ r.width > 0 /\ r.height > 0
  /\ r.x + r.width <= ViewportSide /\ r.y + r.height <= ViewportSide

LEMMA ClippedIs ==
  ASSUME NEW r \in Rects
  PROVE  validate_and_clip(r) = NoRect \/ OnScreen(validate_and_clip(r))
<1> DEFINE left == IF r.x >= 0 THEN r.x ELSE 0
           top == IF r.y >= 0 THEN r.y ELSE 0
           width == (IF Right(r) <= ViewportSide THEN Right(r) ELSE ViewportSide) - left
           height == (IF Bottom(r) <= ViewportSide THEN Bottom(r) ELSE ViewportSide) - top
<1>1. /\ r.x \in Int /\ r.y \in Int /\ r.width \in Int /\ r.height \in Int
      /\ Right(r) \in Int /\ Bottom(r) \in Int /\ ViewportSide \in Int
  BY RectIs, SideIsPositive
<1>2. /\ Max({r.x, 0}) = left /\ Max({r.y, 0}) = top
      /\ Min({Right(r), ViewportSide}) - left = width
      /\ Min({Bottom(r), ViewportSide}) - top = height
  BY <1>1, LesserOfTwo, GreaterOfTwo
<1>5. /\ left \in Int /\ top \in Int /\ width \in Int /\ height \in Int
      /\ left >= 0 /\ top >= 0
      /\ left + width <= ViewportSide /\ top + height <= ViewportSide
  BY <1>1
<1> HIDE DEF left, top, width, height
<1>3. validate_and_clip(r) = IF r.width <= 0 \/ r.height <= 0 \/ width <= 0 \/ height <= 0
                             THEN NoRect ELSE Rect(left, top, width, height)
  BY <1>2, Zenon DEF validate_and_clip
<1>4. SUFFICES ASSUME ~ (width <= 0), ~ (height <= 0), validate_and_clip(r) = Rect(left, top, width, height)
               PROVE  OnScreen(validate_and_clip(r))
  BY <1>3, Zenon
<1>6. OnScreen(Rect(left, top, width, height))
  <2>1. PICK q \in Rects : /\ q = Rect(left, top, width, height)
                           /\ q.x = left /\ q.y = top /\ q.width = width /\ q.height = height
    <3>1. left \in Int /\ top \in Int /\ width \in Int /\ height \in Int
      BY <1>5
    <3>2. /\ Rect(left, top, width, height) \in Rects
          /\ Rect(left, top, width, height).x = left /\ Rect(left, top, width, height).y = top
          /\ Rect(left, top, width, height).width = width
          /\ Rect(left, top, width, height).height = height
      BY <3>1, RectOf
    <3> QED
      BY <3>2, Zenon
  <2>2. width > 0 /\ height > 0
    BY <1>4, <1>5
  <2>3. OnScreen(q)
    BY <1>5, <2>1, <2>2 DEF OnScreen
  <2> QED
    BY <2>1, <2>3
<1> QED
  BY <1>4, <1>6, Zenon

LEMMA ExpansionHolds ==
  ASSUME NEW e, OnScreen(e)
  PROVE  expand(e) \in Rects /\ contains_rect(expand(e), e)
<1> DEFINE left == IF e.x - 120 >= 0 THEN e.x - 120 ELSE 0
           top == IF e.y - 120 >= 0 THEN e.y - 120 ELSE 0
           width == IF e.width + 240 <= ViewportSide - left THEN e.width + 240 ELSE ViewportSide - left
           height == IF e.height + 240 <= ViewportSide - top THEN e.height + 240 ELSE ViewportSide - top
<1>1. /\ e.x \in Int /\ e.y \in Int /\ e.width \in Int /\ e.height \in Int
      /\ Right(e) = e.x + e.width /\ Bottom(e) = e.y + e.height /\ ViewportSide \in Int
      /\ e.x >= 0 /\ e.y >= 0 /\ e.width > 0 /\ e.height > 0
      /\ e.x + e.width <= ViewportSide /\ e.y + e.height <= ViewportSide
  BY RectIs, SideIsPositive DEF OnScreen
<1>2. left \in Int /\ top \in Int /\ width \in Int /\ height \in Int
  BY <1>1
<1>3. /\ Max({e.x - 120, 0}) = left /\ Max({e.y - 120, 0}) = top
      /\ Min({e.width + 240, ViewportSide - left}) = width
      /\ Min({e.height + 240, ViewportSide - top}) = height
  BY <1>1, <1>2, LesserOfTwo, GreaterOfTwo
<1>5. /\ left <= e.x /\ top <= e.y
      /\ left + width >= e.x + e.width /\ top + height >= e.y + e.height
  BY <1>1
<1> HIDE DEF left, top, width, height
<1>4. expand(e) = Rect(left, top, width, height)
  BY <1>3, Zenon DEF expand
<1>6. /\ Rect(left, top, width, height) \in Rects
      /\ contains_rect(Rect(left, top, width, height), e)
  <2>1. PICK q \in Rects : /\ q = Rect(left, top, width, height) /\ q.x = left /\ q.y = top
                           /\ Right(q) = left + width /\ Bottom(q) = top + height
    BY <1>2, RectOf
  <2>2. contains_rect(q, e)
    BY <1>1, <1>2, <1>5, <2>1 DEF contains_rect
  <2> QED
    BY <2>1, <2>2
<1> QED
  BY <1>4, <1>6

LEMMA WholeHolds ==
  /\ WholeViewport \in Rects
  /\ \A e : OnScreen(e) => contains_rect(WholeViewport, e)
<1>1. ViewportSide \in Int /\ 0 \in Int
  BY SideIsPositive
<1>2. WholeViewport \in Rects /\ WholeViewport.x = 0 /\ WholeViewport.y = 0
      /\ Right(WholeViewport) = 0 + ViewportSide /\ Bottom(WholeViewport) = 0 + ViewportSide
  BY <1>1, RectOf DEF WholeViewport
<1>3. ASSUME NEW e, OnScreen(e)
      PROVE  contains_rect(WholeViewport, e)
  BY <1>1, <1>2, <1>3, RectIs DEF contains_rect, OnScreen
<1> QED
  BY <1>2, <1>3

\* The least and the greatest of a set of numbers.
LEMMA LeastOfNaturals ==
  ASSUME NEW T \in SUBSET Nat, T # {}
  PROVE  Min(T) \in T /\ \A k \in T : Min(T) <= k
<1>1. PICK m \in T : \A y \in T : <<y, m>> \notin OpToRel(<, Nat)
  BY WFMin, NatLessThanWellFounded
<1>2. \A x, y \in Nat : x < y => <<x, y>> \in OpToRel(<, Nat)
  BY SMTT(20) DEF OpToRel
<1>3. \A y \in T : ~(y < m)
  BY <1>1, <1>2
<1>4. \E k \in T : \A y \in T : k <= y
  BY <1>3
<1> QED
  BY <1>4, Zenon DEF Min

LEMMA GreatestOfNaturals ==
  ASSUME NEW n \in Nat, NEW T \in SUBSET (1 .. n), T # {}
  PROVE  Max(T) \in T /\ \A k \in T : Max(T) >= k
<1> DEFINE U == {n - k : k \in T}
<1>1. U \in SUBSET Nat /\ U # {}
  <2>1. \A k \in T : k \in 1 .. n /\ n - k \in Nat
    OBVIOUS
  <2>2. \A u \in U : u \in Nat
    BY <2>1
  <2>3. PICK k \in T : TRUE
    OBVIOUS
  <2>4. n - k \in U
    OBVIOUS
  <2> QED
    BY <2>2, <2>4
<1>2. Min(U) \in U /\ \A u \in U : Min(U) <= u
  BY <1>1, LeastOfNaturals
<1>3. PICK m \in T : Min(U) = n - m
  BY <1>2
<1>4. \A k \in T : n - m <= n - k
  BY <1>2, <1>3
<1>5. \A k \in T : m >= k
  BY <1>4
<1>6. \E k \in T : \A y \in T : k >= y
  BY <1>5
<1> QED
  BY <1>6, Zenon DEF Max

\* The nodes of a path, and the element it leads to.
LEMMA PathIs ==
  ASSUME NEW path \in TreePaths
  PROVE  /\ Len(path) \in Nat /\ Len(path) >= 1 /\ Last(path) = path[Len(path)]
         /\ \A i \in 1 .. Len(path) : path[i].rect \in Rects
<1>1. path \in Seq([rect : Rects, owner : STRING, component : STRING, section : BOOLEAN]) \ {<<>>}
  BY VisualAssumption
<1>2. Len(path) \in Nat /\ Len(path) >= 1
  <2>1. PICK P : path \in Seq(P) /\ path # <<>>
    BY <1>1
  <2>2. Len(path) \in Nat /\ Len(path) # 0
    BY <2>1, EmptySeq
  <2> QED
    BY <2>2
<1>3. \A i \in 1 .. Len(path) : path[i] \in [rect : Rects, owner : STRING, component : STRING, section : BOOLEAN]
  <2>1. PICK P : P = [rect : Rects, owner : STRING, component : STRING, section : BOOLEAN] /\ path \in Seq(P)
    BY <1>1
  <2>2. path \in Seq(P)
    BY <2>1
  <2>3. \A i \in 1 .. Len(path) : path[i] \in P
    BY <2>2, ElementOfSeq
  <2> QED
    BY <2>1, <2>3, Zenon
<1>4. Last(path) = path[Len(path)]
  BY DEF Last
<1> QED
  BY <1>2, <1>3, <1>4

AskedFor(path) == validate_and_clip(Last(path).rect)

LEMMA AskedForIs ==
  ASSUME NEW path \in TreePaths
  PROVE  AskedFor(path) = NoRect \/ OnScreen(AskedFor(path))
BY PathIs, ClippedIs DEF AskedFor

\* An ancestor's rectangle, where there is one.
Holds(r, e) == r = NoRect \/ (r \in Rects /\ contains_rect(r, e))

LEMMA HolderHolds ==
  ASSUME NEW path \in TreePaths, NEW H \in SUBSET (1 .. Len(path) - 1),
         \A i \in H : /\ validate_and_clip(path[i].rect) # NoRect
                      /\ contains_rect(validate_and_clip(path[i].rect), AskedFor(path))
  PROVE  Holds(IF H = {} THEN NoRect ELSE validate_and_clip(path[Max(H)].rect), AskedFor(path))
<1>1. CASE H = {}
  BY <1>1 DEF Holds
<1>2. CASE H # {}
  <2>1. PICK n \in Nat : n = Len(path) - 1
    BY PathIs
  <2>2. Max(H) \in H
    BY <1>2, <2>1, GreatestOfNaturals
  <2>3. Max(H) \in 1 .. Len(path)
    <3>1. Max(H) \in 1 .. Len(path) - 1 /\ Len(path) \in Nat
      BY <2>2, PathIs
    <3> QED
      BY <3>1
  <2>4. path[Max(H)].rect \in Rects
    BY <2>3, PathIs
  <2>5. validate_and_clip(path[Max(H)].rect) \in Rects
    BY <2>2, <2>4, ClippedIs DEF OnScreen
  <2> QED
    BY <1>2, <2>2, <2>5 DEF Holds
<1> QED
  BY <1>1, <1>2

LEMMA ComponentHolds ==
  ASSUME NEW path \in TreePaths
  PROVE  Holds(resolve_component_ancestor(path), AskedFor(path))
<1> DEFINE Fits(i) == /\ validate_and_clip(path[i].rect) # NoRect
                      /\ contains_rect(validate_and_clip(path[i].rect), AskedFor(path))
           Same(i) == path[i].owner = Last(path).owner
           Named(i) == path[i].component = Last(path).component
           S == {i \in 1 .. Len(path) - 1 : Same(i) /\ Fits(i)}
           N == {i \in 1 .. Len(path) - 1 : Named(i) /\ Fits(i)}
<1>1. \/ resolve_component_ancestor(path) = NoRect
      \/ resolve_component_ancestor(path)
           = IF S = {} THEN NoRect ELSE validate_and_clip(path[Max(S)].rect)
      \/ resolve_component_ancestor(path)
           = IF N = {} THEN NoRect ELSE validate_and_clip(path[Max(N)].rect)
  BY Zenon DEF resolve_component_ancestor, NearestHolder, AskedFor
<1>2. Holds(IF S = {} THEN NoRect ELSE validate_and_clip(path[Max(S)].rect), AskedFor(path))
  BY HolderHolds
<1>3. Holds(IF N = {} THEN NoRect ELSE validate_and_clip(path[Max(N)].rect), AskedFor(path))
  BY HolderHolds
<1>4. Holds(NoRect, AskedFor(path))
  BY DEF Holds
<1> QED
  BY <1>1, <1>2, <1>3, <1>4, Zenon

LEMMA SectionHolds ==
  ASSUME NEW path \in TreePaths
  PROVE  Holds(resolve_section_ancestor(path), AskedFor(path))
<1> DEFINE Fits(i) == /\ validate_and_clip(path[i].rect) # NoRect
                      /\ contains_rect(validate_and_clip(path[i].rect), AskedFor(path))
           S == {i \in 1 .. Len(path) - 1 : path[i].section /\ Fits(i)}
<1>1. resolve_section_ancestor(path)
           = IF S = {} THEN NoRect ELSE validate_and_clip(path[Max(S)].rect)
  BY Zenon DEF resolve_section_ancestor, NearestHolder, AskedFor
<1>2. Holds(IF S = {} THEN NoRect ELSE validate_and_clip(path[Max(S)].rect), AskedFor(path))
  BY HolderHolds
<1> QED
  BY <1>1, <1>2, Zenon

\* The targets of an element: each shows all of it that is on the screen.
Targets == [kind : {"element", "component", "section", "viewport"}, rect : Rects,
            confidence : {850, 950, 1000}]
AllHold(s, e) == s \in Seq(Targets) /\ \A i \in 1 .. Len(s) : contains_rect(s[i].rect, e)

LEMMA OneMoreTarget ==
  ASSUME NEW s, NEW e, AllHold(s, e), NEW t \in Targets, contains_rect(t.rect, e)
  PROVE  AllHold(Append(s, t), e)
<1>1. s \in Seq(Targets)
  BY DEF AllHold
<1>2. Append(s, t) \in Seq(Targets) /\ Len(Append(s, t)) = Len(s) + 1 /\ Len(s) \in Nat
      /\ Append(s, t)[Len(s) + 1] = t /\ \A i \in 1 .. Len(s) : Append(s, t)[i] = s[i]
  BY <1>1
<1>3. \A i \in 1 .. Len(s) : contains_rect(s[i].rect, e)
  BY DEF AllHold
<1>4. \A i \in 1 .. Len(s) + 1 : i = Len(s) + 1 \/ i \in 1 .. Len(s)
  BY <1>2
<1> QED
  BY <1>2, <1>3, <1>4 DEF AllHold

LEMMA PushedOrNot ==
  ASSUME NEW s, NEW e, AllHold(s, e), NEW t,
         t.rect = NoRect \/ (t \in Targets /\ contains_rect(t.rect, e))
  PROVE  AllHold(push_unique_target(s, t), e)
<1>1. CASE t.rect = NoRect
  <2>1. push_unique_target(s, t) = s
    BY <1>1 DEF push_unique_target
  <2> QED
    BY <2>1
<1>2. CASE t \in Targets /\ contains_rect(t.rect, e)
  <2>1. AllHold(Append(s, t), e)
    BY <1>2, OneMoreTarget
  <2>2. push_unique_target(s, t) = s \/ push_unique_target(s, t) = Append(s, t)
    BY DEF push_unique_target
  <2> QED
    BY <2>1, <2>2
<1> QED
  BY <1>1, <1>2

LEMMA PushedHolds ==
  ASSUME NEW s, NEW e, AllHold(s, e), NEW kind \in {"element", "component", "section", "viewport"},
         NEW r, NEW c \in {850, 950, 1000}, Holds(r, e)
  PROVE  AllHold(push_unique_target(s, Target(kind, r, c)), e)
<1>1. PICK t : t = Target(kind, r, c)
  OBVIOUS
<1>2. t.rect = r
  BY <1>1 DEF Target
<1>3. r # NoRect => t \in Targets /\ contains_rect(t.rect, e)
  BY <1>1, <1>2 DEF Holds, Targets, Target
<1>4. AllHold(push_unique_target(s, t), e)
  BY <1>2, <1>3, PushedOrNot
<1> QED
  BY <1>1, <1>4

LEMMA TargetsHold ==
  ASSUME NEW path \in TreePaths
  PROVE  AllHold(resolve_progressive_targets(path), AskedFor(path))
<1> DEFINE e == AskedFor(path)
           first == <<Target("element", expand(e), 1000)>>
           second == push_unique_target(first,
                       Target("component", resolve_component_ancestor(path), 950))
           third == push_unique_target(second,
                      Target("section", resolve_section_ancestor(path), 850))
<1>0. resolve_progressive_targets(path)
        = IF e = NoRect THEN <<>> ELSE Append(third, Target("viewport", WholeViewport, 1000))
  BY Zenon DEF resolve_progressive_targets, AskedFor
<1> HIDE DEF e, first, second, third
<1>a. e = NoRect => resolve_progressive_targets(path) = <<>>
  BY <1>0
<1>b. e # NoRect => resolve_progressive_targets(path) = Append(third, Target("viewport", WholeViewport, 1000))
  BY <1>0
<1> USE DEF e, first, second, third
<1>1. CASE e = NoRect
  <2>1. resolve_progressive_targets(path) = <<>>
    BY <1>a, <1>1, Zenon
  <2>2. <<>> \in Seq(Targets) /\ Len(<<>>) = 0
    OBVIOUS
  <2> QED
    BY <2>1, <2>2 DEF AllHold
<1>2. CASE e # NoRect
  <2>1. OnScreen(e)
    BY <1>2, AskedForIs
  <2>2. Target("element", expand(e), 1000) \in Targets /\ Target("element", expand(e), 1000).rect = expand(e)
        /\ contains_rect(expand(e), e)
    BY <2>1, ExpansionHolds DEF Targets, Target
  <2>3. first \in Seq(Targets) /\ Len(first) = 1 /\ first[1] = Target("element", expand(e), 1000)
    BY <2>2
  <2>4. AllHold(first, e)
    BY <2>2, <2>3 DEF AllHold
  <2>5. AllHold(second, e)
    BY <2>4, ComponentHolds, PushedHolds
  <2>6. AllHold(third, e)
    BY <2>5, SectionHolds, PushedHolds
  <2>7. /\ Target("viewport", WholeViewport, 1000) \in Targets
        /\ contains_rect(Target("viewport", WholeViewport, 1000).rect, e)
    BY <2>1, WholeHolds DEF Targets, Target
  <2>8. AllHold(Append(third, Target("viewport", WholeViewport, 1000)), e)
    BY <2>6, <2>7, OneMoreTarget
  <2> HIDE DEF e, first, second, third
  <2>9. resolve_progressive_targets(path) = Append(third, Target("viewport", WholeViewport, 1000))
    BY <1>b, <1>2
  <2>10. AllHold(resolve_progressive_targets(path), e)
    BY <2>8, <2>9, Zenon
  <2> QED
    BY <2>10 DEF e
<1> QED
  BY <1>1, <1>2

-----------------------------------------------------------------------------
(* The full page. *)

\* A quotient, and the only number within a divisor of it.
LEMMA QuotientBounds ==
  ASSUME NEW n \in Nat, NEW m \in Nat \ {0}
  PROVE  n \div m \in Nat /\ m * (n \div m) <= n /\ n < m * (n \div m) + m
OBVIOUS

LEMMA QuotientIs ==
  ASSUME NEW n \in Nat, NEW m \in Nat \ {0}, NEW q \in Int, m * q <= n, n < m * q + m
  PROVE  n \div m = q
<1>1. PICK p \in Nat : p = n \div m /\ m * p <= n /\ n < m * p + m
  BY QuotientBounds
<1>2. ~ (p >= q + 1)
  <2>1. SUFFICES ASSUME p >= q + 1 PROVE FALSE
    OBVIOUS
  <2>2. m * p >= m * (q + 1)
    BY <2>1
  <2> QED
    BY <1>1, <2>2
<1>3. ~ (q >= p + 1)
  <2>1. SUFFICES ASSUME q >= p + 1 PROVE FALSE
    OBVIOUS
  <2>2. m * q >= m * (p + 1)
    BY <2>1
  <2> QED
    BY <1>1, <2>2
<1> QED
  BY <1>1, <1>2, <1>3

\* Where a row of the document lies in the output, for a tile of t rows that
\* shows v units of the document.
LEMMA ScaledIs ==
  ASSUME NEW a \in Nat, NEW t \in Nat \ {0}, NEW v \in Nat \ {0}
  PROVE  /\ Scaled(a, t, v) \in Nat
         /\ (2 * v) * Scaled(a, t, v) <= 2 * a * t + v
         /\ 2 * a * t + v < (2 * v) * Scaled(a, t, v) + 2 * v
<1>1. PICK n \in Nat : n = 2 * a * t + v
  OBVIOUS
<1>2. PICK m \in Nat \ {0} : m = 2 * v
  OBVIOUS
<1>3. Scaled(a, t, v) = n \div m
  BY <1>1, <1>2, Zenon DEF Scaled
<1>4. n \div m \in Nat /\ m * (n \div m) <= n /\ n < m * (n \div m) + m
  BY QuotientBounds
<1> QED
  BY <1>1, <1>2, <1>3, <1>4

LEMMA ScaledIsOnly ==
  ASSUME NEW a \in Nat, NEW t \in Nat \ {0}, NEW v \in Nat \ {0}, NEW q \in Int,
         (2 * v) * q <= 2 * a * t + v, 2 * a * t + v < (2 * v) * q + 2 * v
  PROVE  Scaled(a, t, v) = q
<1>1. PICK n \in Nat : n = 2 * a * t + v
  OBVIOUS
<1>2. PICK m \in Nat \ {0} : m = 2 * v
  OBVIOUS
<1>3. Scaled(a, t, v) = n \div m
  BY <1>1, <1>2, Zenon DEF Scaled
<1>4. m * q <= n /\ n < m * q + m
  BY <1>1, <1>2
<1> QED
  BY <1>3, <1>4, QuotientIs

LEMMA ScaledWhole ==
  ASSUME NEW k \in Nat, NEW t \in Nat \ {0}, NEW v \in Nat \ {0}
  PROVE  k * v \in Nat /\ k * t \in Nat /\ Scaled(k * v, t, v) = k * t
<1>1. PICK a \in Nat : a = k * v
  OBVIOUS
<1>2. PICK q \in Nat : q = k * t
  OBVIOUS
<1>3. (2 * v) * q = 2 * a * t
  BY <1>1, <1>2
<1>4. (2 * v) * q <= 2 * a * t + v /\ 2 * a * t + v < (2 * v) * q + 2 * v
  BY <1>3
<1>5. Scaled(a, t, v) = q
  BY <1>4, ScaledIsOnly
<1> QED
  BY <1>1, <1>2, <1>5

LEMMA ScaledNext ==
  ASSUME NEW a \in Nat, NEW t \in Nat \ {0}, NEW v \in Nat \ {0}
  PROVE  Scaled(a + v, t, v) = Scaled(a, t, v) + t
<1>1. PICK p \in Nat : p = Scaled(a, t, v) /\ (2 * v) * p <= 2 * a * t + v
                       /\ 2 * a * t + v < (2 * v) * p + 2 * v
  BY ScaledIs
<1>2. PICK b \in Nat : b = a + v
  OBVIOUS
<1>3. PICK q \in Nat : q = p + t
  OBVIOUS
<1>4. (2 * v) * q = (2 * v) * p + 2 * v * t
  BY <1>3
<1>5. 2 * b * t = 2 * a * t + 2 * v * t
  BY <1>2
<1>6. (2 * v) * q <= 2 * b * t + v /\ 2 * b * t + v < (2 * v) * q + 2 * v
  <2>1. PICK vp \in Int, at \in Int, vt \in Int : vp = (2 * v) * p /\ at = 2 * a * t /\ vt = 2 * v * t
    OBVIOUS
  <2>2. PICK vq \in Int, bt \in Int : vq = (2 * v) * q /\ bt = 2 * b * t
    OBVIOUS
  <2>3. vq = vp + vt /\ bt = at + vt /\ vp <= at + v /\ at + v < vp + 2 * v
    BY <1>1, <1>4, <1>5, <2>1, <2>2
  <2>4. vq <= bt + v /\ bt + v < vq + 2 * v
    BY <2>3
  <2> QED
    BY <2>2, <2>4
<1>7. Scaled(b, t, v) = q
  BY <1>6, ScaledIsOnly
<1> QED
  BY <1>1, <1>2, <1>3, <1>7

LEMMA ScaledGrows ==
  ASSUME NEW a \in Nat, NEW b \in Nat, a <= b, NEW t \in Nat \ {0}, NEW v \in Nat \ {0}
  PROVE  Scaled(a, t, v) <= Scaled(b, t, v)
<1>1. PICK p \in Nat : p = Scaled(a, t, v) /\ (2 * v) * p <= 2 * a * t + v
  BY ScaledIs
<1>2. PICK q \in Nat : q = Scaled(b, t, v) /\ 2 * b * t + v < (2 * v) * q + 2 * v
  BY ScaledIs
<1>3. a * t <= b * t
  OBVIOUS
<1>4. (2 * v) * p < (2 * v) * (q + 1)
  BY <1>1, <1>2, <1>3
<1>5. ~ (p >= q + 1)
  <2>1. SUFFICES ASSUME p >= q + 1 PROVE FALSE
    OBVIOUS
  <2>2. (2 * v) * p >= (2 * v) * (q + 1)
    BY <2>1
  <2> QED
    BY <1>4, <2>2
<1> QED
  BY <1>1, <1>2, <1>5

\* The last offset of a document and the offsets that are planned.
LastOffset(d, v) == IF d - v >= 0 THEN d - v ELSE 0

LEMMA LastOffsetIs ==
  ASSUME NEW d \in Nat, NEW v \in Nat
  PROVE  /\ LastOffset(d, v) \in Nat
         /\ d - v >= 0 => LastOffset(d, v) + v = d
         /\ ~ (d - v >= 0) => LastOffset(d, v) = 0 /\ d <= v
BY DEF LastOffset

LEMMA OffsetsAre ==
  ASSUME NEW d \in Nat \ {0}, NEW v \in Nat \ {0}, NEW scroll, plan_full_page(d, v, scroll) # {}
  PROVE  LET offsets == plan_full_page(d, v, scroll)
         IN /\ offsets \subseteq 0 .. LastOffset(d, v)
            /\ LastOffset(d, v) \in offsets
            /\ \A k \in Nat : k * v <= LastOffset(d, v) => k * v \in offsets
<1>1. PICK m \in Nat \ {0} : m = MaxTiles
  BY VisualAssumption
<1>2. PICK l \in Nat : l = LastOffset(d, v)
  BY LastOffsetIs
<1>3. Max({d - v, 0}) = l
  BY <1>2, GreaterOfTwo DEF LastOffset
<1> DEFINE wanted == {o \in {0, l} \union {k * v : k \in 1 .. m} : o <= l}
<1>4. plan_full_page(d, v, scroll) = IF scroll > l \/ l > m * v \/ Cardinality(wanted) > m THEN {} ELSE wanted
  BY <1>1, <1>3, Zenon DEF plan_full_page
<1>5. plan_full_page(d, v, scroll) = wanted /\ ~ (l > m * v)
  BY <1>4, Zenon
<1>6. wanted \subseteq 0 .. l /\ 0 \in wanted /\ l \in wanted
  OBVIOUS
<1>7. ASSUME NEW k \in Nat, k * v <= l
      PROVE  k * v \in wanted
  <2>1. CASE k = 0
    BY <2>1, <1>6
  <2>2. CASE k # 0
    <3>1. k * v <= m * v
      BY <1>5, <1>7
    <3>2. ~ (k >= m + 1)
      <4>1. SUFFICES ASSUME k >= m + 1 PROVE FALSE
        OBVIOUS
      <4>2. k * v >= (m + 1) * v
        BY <4>1
      <4> QED
        BY <3>1, <4>2
    <3> QED
      BY <2>2, <3>2, <1>7
  <2> QED
    BY <2>1, <2>2
<1> QED
  BY <1>2, <1>5, <1>6, <1>7

\* The rows of one tile.
LEMMA TileRowsAre ==
  ASSUME NEW height \in Nat, NEW t \in Nat \ {0}, NEW v \in Nat \ {0}, NEW o \in Nat,
         Scaled(o, t, v) < height
  PROVE  /\ \A r \in Nat : r \in stitch_full_page_tile(height, v, o, t)
              <=> r >= Scaled(o, t, v) /\ r < Scaled(o, t, v) + t /\ r < height
         /\ stitch_full_page_tile(height, v, o, t) \subseteq 0 .. height - 1
         /\ stitch_full_page_tile(height, v, o, t) # {}
<1>1. PICK top \in Nat : top = Scaled(o, t, v)
  BY ScaledIs
<1>2. PICK n \in Nat \ {0} : n = IF t <= height - top THEN t ELSE height - top
  BY <1>1
<1>3. Min({t, height - top}) = n
  BY <1>2, LesserOfTwo
<1>4. stitch_full_page_tile(height, v, o, t) = IF top >= height THEN {} ELSE top .. top + n - 1
  BY <1>1, <1>3, Zenon DEF stitch_full_page_tile
<1>5. stitch_full_page_tile(height, v, o, t) = top .. top + n - 1
  BY <1>1, <1>4
<1>6. \A r \in Nat : r \in top .. top + n - 1 <=> r >= top /\ r < top + t /\ r < height
  BY <1>1, <1>2
<1>7. top .. top + n - 1 \subseteq 0 .. height - 1 /\ top \in top .. top + n - 1
  BY <1>1, <1>2
<1> QED
  BY <1>1, <1>5, <1>6, <1>7

\* A planned page is stitched whole.
LEMMA PlannedIsStitched ==
  ASSUME NEW d \in Nat \ {0}, NEW v \in Nat \ {0}, NEW scroll, NEW t \in Nat \ {0},
         plan_full_page(d, v, scroll) # {}, Scaled(d, t, v) > 0, NEW rows,
         rows = [o \in plan_full_page(d, v, scroll) |->
                   stitch_full_page_tile(Scaled(d, t, v), v, o, t)]
  PROVE  /\ \A o \in DOMAIN rows : rows[o] # {}
         /\ UNION {rows[o] : o \in DOMAIN rows} = 0 .. Scaled(d, t, v) - 1
<1>1. PICK offsets : offsets = plan_full_page(d, v, scroll)
  OBVIOUS
<1>2. PICK l \in Nat : l = LastOffset(d, v)
  BY LastOffsetIs
<1>3. /\ offsets \subseteq 0 .. l /\ l \in offsets
      /\ \A k \in Nat : k * v <= l => k * v \in offsets
  BY <1>1, <1>2, OffsetsAre
<1>4. PICK height \in Nat : height = Scaled(d, t, v) /\ height > 0
  BY ScaledIs
<1>5. Scaled(0, t, v) = 0
  <2>1. PICK k \in Nat : k = 0
    OBVIOUS
  <2>2. k * v = 0 /\ k * t = 0
    BY <2>1
  <2>3. Scaled(k * v, t, v) = k * t
    BY ScaledWhole
  <2> QED
    BY <2>2, <2>3
<1>6. Scaled(l, t, v) \in Nat /\ Scaled(l, t, v) < height /\ height <= Scaled(l, t, v) + t
  <2>1. CASE d - v >= 0
    <3>1. l + v = d
      BY <1>2, <2>1, LastOffsetIs
    <3>2. height = Scaled(l, t, v) + t
      BY <1>4, <3>1, ScaledNext
    <3>3. Scaled(l, t, v) \in Nat
      BY ScaledIs
    <3> QED
      BY <3>2, <3>3
  <2>2. CASE ~ (d - v >= 0)
    <3>1. l = 0 /\ d <= v
      BY <1>2, <2>2, LastOffsetIs
    <3>2. Scaled(v, t, v) = t
      <4>1. PICK k \in Nat : k = 1
        OBVIOUS
      <4>2. k * v = v /\ k * t = t
        BY <4>1
      <4>3. Scaled(k * v, t, v) = k * t
        BY ScaledWhole
      <4> QED
        BY <4>2, <4>3
    <3>3. Scaled(d, t, v) <= Scaled(v, t, v)
      BY <3>1, ScaledGrows
    <3> QED
      BY <1>4, <1>5, <3>1, <3>2, <3>3
  <2> QED
    BY <2>1, <2>2
<1>7. \A o \in offsets : o \in Nat /\ Scaled(o, t, v) \in Nat /\ Scaled(o, t, v) < height
  <2>1. TAKE o \in offsets
  <2>2. o \in Nat /\ o <= l
    BY <1>3
  <2>3. Scaled(o, t, v) \in Nat /\ Scaled(o, t, v) <= Scaled(l, t, v)
    BY <2>2, ScaledGrows, ScaledIs
  <2> QED
    BY <1>6, <2>2, <2>3
<1>8. DOMAIN rows = offsets /\ \A o \in offsets : rows[o] = stitch_full_page_tile(height, v, o, t)
  BY <1>1, <1>4
<1>9. \A o \in offsets : /\ rows[o] # {} /\ rows[o] \subseteq 0 .. height - 1
                         /\ \A r \in Nat : r \in rows[o]
                              <=> r >= Scaled(o, t, v) /\ r < Scaled(o, t, v) + t /\ r < height
  BY <1>7, <1>8, TileRowsAre
<1>10. ASSUME NEW r \in 0 .. height - 1
       PROVE  \E o \in offsets : r \in rows[o]
  <2>1. PICK k \in Nat : t * k <= r /\ r < t * k + t
    <3>1. r \in Nat
      OBVIOUS
    <3>2. r \div t \in Nat /\ t * (r \div t) <= r /\ r < t * (r \div t) + t
      BY <3>1, QuotientBounds
    <3> QED
      BY <3>2
  <2>2. k * v \in Nat /\ k * t \in Nat /\ Scaled(k * v, t, v) = k * t /\ t * k = k * t
    BY ScaledWhole
  <2>3. CASE k * v <= l
    <3>1. k * v \in offsets
      BY <1>3, <2>3
    <3>2. r >= Scaled(k * v, t, v) /\ r < Scaled(k * v, t, v) + t /\ r < height /\ r \in Nat
      BY <2>1, <2>2
    <3> QED
      BY <1>9, <3>1, <3>2
  <2>4. CASE ~ (k * v <= l)
    <3>1. Scaled(l, t, v) <= Scaled(k * v, t, v)
      BY <2>2, <2>4, ScaledGrows
    <3>2. r >= Scaled(l, t, v) /\ r < Scaled(l, t, v) + t /\ r < height /\ r \in Nat
      BY <1>6, <2>1, <2>2, <3>1
    <3> QED
      BY <1>3, <1>9, <3>2
  <2> QED
    BY <2>3, <2>4
<1> QED
  BY <1>4, <1>8, <1>9, <1>10

-----------------------------------------------------------------------------
(* A finite set in its order. *)

\* A strict total order of a set, and the place of an element in it.
Orders(S, O) ==
  /\ \A c \in S : <<c, c>> \notin O
  /\ \A c, d, e \in S : <<c, d>> \in O /\ <<d, e>> \in O => <<c, e>> \in O
  /\ \A c, d \in S : c = d \/ <<c, d>> \in O \/ <<d, c>> \in O
Before(S, O, c) == {d \in S : <<d, c>> \in O}
Place(S, O, c) == Cardinality(Before(S, O, c))

LEMMA PlaceIs ==
  ASSUME NEW S, IsFiniteSet(S), NEW O, Orders(S, O), NEW c \in S
  PROVE  /\ Cardinality(S) \in Nat /\ Place(S, O, c) \in 0 .. Cardinality(S) - 1
         /\ IsFiniteSet(Before(S, O, c))
<1>1. Before(S, O, c) \subseteq S /\ c \notin Before(S, O, c)
  BY DEF Before, Orders
<1>2. /\ IsFiniteSet(Before(S, O, c)) /\ Cardinality(Before(S, O, c)) <= Cardinality(S)
      /\ (Cardinality(S) = Cardinality(Before(S, O, c)) => S = Before(S, O, c))
  BY <1>1, FS_Subset
<1>3. Cardinality(S) \in Nat /\ Cardinality(Before(S, O, c)) \in Nat
  BY <1>2, FS_CardinalityType
<1>4. Cardinality(S) # Cardinality(Before(S, O, c))
  BY <1>1, <1>2
<1> QED
  BY <1>2, <1>3, <1>4 DEF Place

LEMMA PlaceGrows ==
  ASSUME NEW S, IsFiniteSet(S), NEW O, Orders(S, O), NEW c \in S, NEW d \in S, <<c, d>> \in O
  PROVE  Place(S, O, c) < Place(S, O, d)
<1>1. PICK A, B : A = Before(S, O, c) /\ B = Before(S, O, d)
  OBVIOUS
<1>2. A \subseteq B /\ c \in B /\ c \notin A
  BY <1>1 DEF Before, Orders
<1>3. IsFiniteSet(B)
  BY <1>1, PlaceIs
<1>4. IsFiniteSet(A) /\ Cardinality(A) <= Cardinality(B) /\ (Cardinality(B) = Cardinality(A) => B = A)
  BY <1>2, <1>3, FS_Subset
<1>5. Cardinality(A) \in Nat /\ Cardinality(B) \in Nat
  BY <1>3, <1>4, FS_CardinalityType
<1>6. Cardinality(B) # Cardinality(A)
  BY <1>2, <1>4
<1>7. Place(S, O, c) = Cardinality(A) /\ Place(S, O, d) = Cardinality(B)
  BY <1>1 DEF Place
<1> QED
  BY <1>4, <1>5, <1>6, <1>7

LEMMA PlaceTaken ==
  ASSUME NEW S, IsFiniteSet(S), NEW O, Orders(S, O), NEW k \in 0 .. Cardinality(S) - 1
  PROVE  \E c \in S : Place(S, O, c) = k
<1>1. Cardinality(S) \in Nat
  BY FS_CardinalityType
<1>2. PICK T : T = 0 .. Cardinality(S) - 1
  OBVIOUS
<1>3. IsFiniteSet(T) /\ Cardinality(T) = Cardinality(S)
  BY <1>1, <1>2, FS_Interval
<1>4. PICK f : f = [c \in S |-> Place(S, O, c)]
  OBVIOUS
<1>5. \A c \in S : f[c] = Place(S, O, c)
  BY <1>4
<1>6. f \in [S -> T]
  BY <1>2, <1>4, PlaceIs
<1>7. \A c, d \in S : f[c] = f[d] => c = d
  <2>1. \A c, d \in S : <<c, d>> \in O => f[c] # f[d]
    <3> SUFFICES ASSUME NEW c \in S, NEW d \in S, <<c, d>> \in O PROVE f[c] # f[d]
      OBVIOUS
    <3>1. Place(S, O, c) < Place(S, O, d)
      BY PlaceGrows
    <3>2. Place(S, O, c) \in Int /\ Place(S, O, d) \in Int
      BY <1>1, PlaceIs
    <3> QED
      BY <1>5, <3>1, <3>2
  <2>2. \A c, d \in S : c = d \/ <<c, d>> \in O \/ <<d, c>> \in O
    BY DEF Orders
  <2> QED
    BY <2>1, <2>2, Zenon
<1>8. f \in Injection(S, T)
  BY <1>6, <1>7 DEF Injection, IsInjective
<1>9. f \in Surjection(S, T)
  BY <1>3, <1>8, FS_Injection
<1>10. \E c \in S : f[c] = k
  BY <1>2, <1>9 DEF Surjection
<1> QED
  BY <1>5, <1>10

\* Ranked is the set in its order, each element once.
RankedWell(s, S, O) ==
  /\ s \in Seq(S) /\ Len(s) = Cardinality(S) /\ Cardinality(S) \in Nat
  /\ \A i \in 1 .. Cardinality(S) : s[i] \in S
  /\ \A c \in S : \E i \in 1 .. Cardinality(S) : s[i] = c
  /\ \A i, j \in 1 .. Cardinality(S) : i < j => <<s[i], s[j]>> \in O

LEMMA RankedIs ==
  ASSUME NEW S, IsFiniteSet(S), NEW O, Orders(S, O)
  PROVE  RankedWell(Ranked(S, O), S, O)
<1>1. PICK n \in Nat : n = Cardinality(S)
  BY FS_CardinalityType
<1>2. PICK s : s = [i \in 1 .. n |-> CHOOSE c \in S : Place(S, O, c) = i - 1]
  OBVIOUS
<1>3. Ranked(S, O) = s
  <2> DEFINE rank == [c \in S |-> Cardinality({d \in S : <<d, c>> \in O})]
  <2>2. Ranked(S, O) = [i \in 1 .. Cardinality(S) |-> CHOOSE c \in S : rank[c] = i - 1]
    BY Zenon DEF Ranked
  <2>3. \A c \in S : rank[c] = Place(S, O, c)
    BY DEF Place, Before
  <2> HIDE DEF rank
  <2>5. ASSUME NEW i \in 1 .. n
        PROVE  (CHOOSE c \in S : rank[c] = i - 1) = (CHOOSE c \in S : Place(S, O, c) = i - 1)
    <3>1. \A c : (c \in S /\ rank[c] = i - 1) <=> (c \in S /\ Place(S, O, c) = i - 1)
      BY <2>3
    <3> QED
      BY <3>1, Zenon
  <2> QED
    BY <1>1, <1>2, <2>2, <2>5, Zenon
<1>4. \A i \in 1 .. n : s[i] \in S /\ Place(S, O, s[i]) = i - 1
  <2> SUFFICES ASSUME NEW i \in 1 .. n PROVE s[i] \in S /\ Place(S, O, s[i]) = i - 1
    OBVIOUS
  <2>1. i - 1 \in 0 .. Cardinality(S) - 1
    BY <1>1
  <2>2. \E c \in S : Place(S, O, c) = i - 1
    BY <2>1, PlaceTaken
  <2>3. s[i] = CHOOSE c \in S : Place(S, O, c) = i - 1
    BY <1>2
  <2> QED
    BY <2>2, <2>3
<1>5. s \in Seq(S) /\ Len(s) = n
  <2>1. s \in [1 .. n -> S]
    BY <1>2, <1>4
  <2> QED
    BY <2>1
<1>6. ASSUME NEW c \in S PROVE \E i \in 1 .. n : s[i] = c
  <2>1. PICK r \in 0 .. n - 1 : r = Place(S, O, c)
    BY <1>1, PlaceIs
  <2>2. PICK i \in 1 .. n : i - 1 = r
    <3>1. r + 1 \in 1 .. n /\ (r + 1) - 1 = r
      OBVIOUS
    <3> QED
      BY <3>1
  <2>3. PICK d \in S : d = s[i] /\ Place(S, O, d) = r
    BY <1>4, <2>2
  <2>4. <<c, d>> \notin O /\ <<d, c>> \notin O
    BY <2>1, <2>3, PlaceGrows
  <2>5. c = d
    BY <2>4 DEF Orders
  <2> QED
    BY <2>3, <2>5
<1>7. ASSUME NEW i \in 1 .. n, NEW j \in 1 .. n, i < j
      PROVE  <<s[i], s[j]>> \in O
  <2>1. PICK c \in S, d \in S : c = s[i] /\ d = s[j] /\ Place(S, O, c) = i - 1 /\ Place(S, O, d) = j - 1
    <3>1. s[i] \in S /\ Place(S, O, s[i]) = i - 1
      BY <1>4
    <3>2. s[j] \in S /\ Place(S, O, s[j]) = j - 1
      BY <1>4
    <3> QED
      BY <3>1, <3>2
  <2>2. c # d
    BY <1>7, <2>1
  <2>3. <<d, c>> \notin O
    <3>1. <<d, c>> \in O => Place(S, O, d) < Place(S, O, c)
      BY PlaceGrows
    <3> QED
      BY <1>7, <2>1, <3>1
  <2> QED
    BY <2>1, <2>2, <2>3 DEF Orders
<1> QED
  BY <1>1, <1>3, <1>4, <1>5, <1>6, <1>7 DEF RankedWell

\* The lexicographic order of keys of one length.
Keys(n) == [1 .. n -> Int]

LEMMA FirstDifference ==
  ASSUME NEW n \in Nat, NEW k \in Keys(n), NEW l \in Keys(n)
  PROVE  \E i \in 1 .. n + 1 :
           /\ i <= n => k[i] # l[i]
           /\ \A j \in 1 .. n : j < i => k[j] = l[j]
           /\ Smaller(k, l) <=> (i <= n /\ k[i] < l[i])
<1> DEFINE T == {i \in 1 .. n + 1 : i > n \/ k[i] # l[i]}
<1>1. Len(k) = n
  BY DEF Keys
<1>2. T \in SUBSET Nat /\ n + 1 \in T
  OBVIOUS
<1>3. Min(T) \in T /\ \A j \in T : Min(T) <= j
  BY <1>2, LeastOfNaturals
<1>4. PICK m \in 1 .. n + 1 : m = Min(T) /\ (m > n \/ k[m] # l[m])
  BY <1>3
<1>5. \A j \in 1 .. n : j < m => k[j] = l[j]
  <2> SUFFICES ASSUME NEW j \in 1 .. n, j < m, k[j] # l[j] PROVE FALSE
    OBVIOUS
  <2>1. j \in T
    OBVIOUS
  <2> QED
    BY <1>3, <1>4, <2>1
<1>6. Smaller(k, l) <=> (m <= n /\ k[m] < l[m])
  BY <1>1, <1>4, Zenon DEF Smaller
<1> QED
  BY <1>4, <1>5, <1>6

LEMMA KeysAreOrdered ==
  ASSUME NEW n \in Nat
  PROVE  /\ \A k \in Keys(n) : ~ Smaller(k, k)
         /\ \A k, l, m \in Keys(n) : Smaller(k, l) /\ Smaller(l, m) => Smaller(k, m)
         /\ \A k, l \in Keys(n) : k = l \/ Smaller(k, l) \/ Smaller(l, k)
<1>1. ASSUME NEW k \in Keys(n) PROVE ~ Smaller(k, k)
  <2>1. PICK i \in 1 .. n + 1 : /\ i <= n => k[i] # k[i] 
                                /\ Smaller(k, k) <=> (i <= n /\ k[i] < k[i])
    BY FirstDifference
  <2> QED
    BY <2>1
<1>2. ASSUME NEW k \in Keys(n), NEW l \in Keys(n), NEW m \in Keys(n), Smaller(k, l), Smaller(l, m)
      PROVE  Smaller(k, m)
  <2>0. \A j \in 1 .. n : k[j] \in Int /\ l[j] \in Int /\ m[j] \in Int
    BY DEF Keys
  <2>1. PICK a \in 1 .. n + 1 : a <= n /\ k[a] < l[a] /\ \A j \in 1 .. n : j < a => k[j] = l[j]
    BY <1>2, FirstDifference
  <2>2. PICK b \in 1 .. n + 1 : b <= n /\ l[b] < m[b] /\ \A j \in 1 .. n : j < b => l[j] = m[j]
    BY <1>2, FirstDifference
  <2>3. PICK c \in 1 .. n + 1 : /\ c <= n => k[c] # m[c]
                                /\ \A j \in 1 .. n : j < c => k[j] = m[j]
                                /\ Smaller(k, m) <=> (c <= n /\ k[c] < m[c])
    BY FirstDifference
  <2>4. PICK e \in 1 .. n : e = (IF a <= b THEN a ELSE b)
    BY <2>1, <2>2
  <2>5. k[e] < m[e] /\ \A j \in 1 .. n : j < e => k[j] = m[j]
    BY <2>0, <2>1, <2>2, <2>4
  <2>6. c = e
    <3>1. ~ (c < e)
      BY <2>3, <2>5
    <3>2. ~ (e < c)
      BY <2>0, <2>3, <2>5
    <3> QED
      BY <3>1, <3>2
  <2> QED
    BY <2>3, <2>5, <2>6
<1>3. ASSUME NEW k \in Keys(n), NEW l \in Keys(n), ~ Smaller(k, l), ~ Smaller(l, k)
      PROVE  k = l
  <2>0. \A j \in 1 .. n : k[j] \in Int /\ l[j] \in Int
    BY DEF Keys
  <2>1. PICK a \in 1 .. n + 1 : /\ a <= n => k[a] # l[a]
                                /\ \A j \in 1 .. n : j < a => k[j] = l[j]
                                /\ Smaller(k, l) <=> (a <= n /\ k[a] < l[a])
    BY FirstDifference
  <2>2. PICK b \in 1 .. n + 1 : /\ b <= n => l[b] # k[b]
                                /\ \A j \in 1 .. n : j < b => l[j] = k[j]
                                /\ Smaller(l, k) <=> (b <= n /\ l[b] < k[b])
    BY FirstDifference
  <2>3. a = b \/ a < b \/ b < a
    OBVIOUS
  <2>4. ~ (a <= n)
    BY <1>3, <2>0, <2>1, <2>2, <2>3
  <2>5. \A j \in 1 .. n : k[j] = l[j]
    BY <2>1, <2>4
  <2> QED
    BY <2>5 DEF Keys
<1> QED
  BY <1>1, <1>2, <1>3

-----------------------------------------------------------------------------
(* Tiles and regions. *)

\* A pixel of the frame lies in a rectangle of pixels.
Covers(r, p) == r.x <= p[1] /\ p[1] < Right(r) /\ r.y <= p[2] /\ p[2] < Bottom(r)

\* Along one side: the tile of a coordinate.
TileStart(c) == (c \div TileSize) * TileSize
TileLength(c) == Min({TileSize, FrameSize - TileStart(c)})

LEMMA TileSideIs ==
  ASSUME NEW c \in 0 .. FrameSize - 1
  PROVE  /\ TileStart(c) \in Nat /\ TileLength(c) \in Int
         /\ TileStart(c) <= c /\ c < TileStart(c) + TileLength(c)
<1>1. PICK T \in Nat \ {0}, F \in Nat \ {0} : T = TileSize /\ F = FrameSize
  BY VisualAssumption
<1>2. c \in Nat /\ c < F
  BY <1>1
<1>3. PICK q \in Nat : q = c \div T /\ T * q <= c /\ c < T * q + T
  BY <1>2, QuotientBounds
<1>4. PICK s \in Nat : s = q * T /\ s <= c /\ c < s + T
  BY <1>3
<1>5. TileStart(c) = s
  BY <1>1, <1>3, <1>4 DEF TileStart
<1>6. TileLength(c) = IF T <= F - s THEN T ELSE F - s
  BY <1>1, <1>5, LesserOfTwo DEF TileLength
<1> QED
  BY <1>2, <1>4, <1>5, <1>6

LEMMA TileIs ==
  ASSUME NEW c \in Pixels
  PROVE  /\ TileOf(c) = Rect(TileStart(c[1]), TileStart(c[2]), TileLength(c[1]), TileLength(c[2]))
         /\ TileOf(c) \in Rects /\ Covers(TileOf(c), c)
         /\ TileOf(c).x = TileStart(c[1]) /\ TileOf(c).y = TileStart(c[2])
<1>1. PICK a \in 0 .. FrameSize - 1, b \in 0 .. FrameSize - 1 : a = c[1] /\ b = c[2]
  BY DEF Pixels
<1>2. /\ TileStart(a) \in Nat /\ TileLength(a) \in Int
      /\ TileStart(a) <= a /\ a < TileStart(a) + TileLength(a)
  BY TileSideIs
<1>3. /\ TileStart(b) \in Nat /\ TileLength(b) \in Int
      /\ TileStart(b) <= b /\ b < TileStart(b) + TileLength(b)
  BY TileSideIs
<1>4. TileOf(c) = Rect(TileStart(a), TileStart(b), TileLength(a), TileLength(b))
  BY <1>1, Zenon DEF TileOf, TileStart, TileLength
<1>5. PICK r \in Rects : /\ r = TileOf(c) /\ r.x = TileStart(a) /\ r.y = TileStart(b)
                         /\ Right(r) = TileStart(a) + TileLength(a)
                         /\ Bottom(r) = TileStart(b) + TileLength(b)
  <2>1. TileStart(a) \in Int /\ TileStart(b) \in Int /\ TileLength(a) \in Int /\ TileLength(b) \in Int
    BY <1>2, <1>3
  <2> QED
    <3>1. PICK x \in Int, y \in Int, w \in Int, h \in Int :
            x = TileStart(a) /\ y = TileStart(b) /\ w = TileLength(a) /\ h = TileLength(b)
      BY <2>1
    <3>2. /\ Rect(x, y, w, h) \in Rects /\ Rect(x, y, w, h).x = x /\ Rect(x, y, w, h).y = y
          /\ Right(Rect(x, y, w, h)) = x + w /\ Bottom(Rect(x, y, w, h)) = y + h
      BY <3>1 DEF Rect, Rects, Right, Bottom
    <3>3. TileOf(c) = Rect(x, y, w, h)
      BY <1>4, <3>1
    <3>4. /\ TileOf(c) \in Rects /\ TileOf(c).x = x /\ TileOf(c).y = y
          /\ Right(TileOf(c)) = x + w /\ Bottom(TileOf(c)) = y + h
      BY <3>2, <3>3, Zenon
    <3> QED
      BY <3>1, <3>4
<1>6. Covers(r, c)
  BY <1>1, <1>2, <1>3, <1>5 DEF Covers
<1> QED
  BY <1>1, <1>4, <1>5, <1>6, Zenon

\* The tiles in reading order.
LEMMA ChangeIsFinite ==
  ASSUME NEW change \in PageChanges
  PROVE  change \subseteq Pixels /\ IsFiniteSet(change)
<1>1. change \subseteq Pixels
  BY VisualAssumption
<1>2. PICK a \in Int, b \in Int : a = 0 /\ b = FrameSize - 1
  BY SideIsPositive
<1>3. IsFiniteSet(a .. b)
  BY FS_Interval
<1>4. IsFiniteSet((a .. b) \X (a .. b))
  BY <1>3, FS_Product
<1> QED
  BY <1>1, <1>2, <1>4, FS_Subset DEF Pixels

LEMMA TilesAreFinite ==
  ASSUME NEW change \in PageChanges
  PROVE  IsFiniteSet({TileOf(c) : c \in change})
<1>1. IsFiniteSet(change)
  BY ChangeIsFinite
<1>2. PICK f : f = [c \in change |-> TileOf(c)]
  OBVIOUS
<1>3. f \in Surjection(change, {TileOf(c) : c \in change})
  BY <1>2 DEF Surjection
<1> QED
  BY <1>1, <1>3, FS_Surjection

LEMMA TilesAreRanked ==
  ASSUME NEW change \in PageChanges
  PROVE  /\ changed_tiles(change) \in Seq(Rects)
         /\ \A c \in change : \E i \in 1 .. Len(changed_tiles(change)) : changed_tiles(change)[i] = TileOf(c)
<1> DEFINE tiles == {TileOf(c) : c \in change}
           O == {p \in tiles \X tiles : ReadingOrder(p[1], p[2])}
<1>1. \A t \in tiles : t \in Rects /\ t.x \in Int /\ t.y \in Int
  BY ChangeIsFinite, TileIs, RectIs
<1>2. \A s, t \in tiles : s.x = t.x /\ s.y = t.y => s = t
  <2> SUFFICES ASSUME NEW c \in change, NEW d \in change,
                      TileOf(c).x = TileOf(d).x, TileOf(c).y = TileOf(d).y
               PROVE  TileOf(c) = TileOf(d)
    BY Zenon
  <2>0. c \in Pixels /\ d \in Pixels
    BY ChangeIsFinite
  <2>1. PICK a \in 0 .. FrameSize - 1, b \in 0 .. FrameSize - 1 : a = c[1] /\ b = c[2]
    BY <2>0 DEF Pixels
  <2>2. PICK m \in 0 .. FrameSize - 1, n \in 0 .. FrameSize - 1 : m = d[1] /\ n = d[2]
    BY <2>0 DEF Pixels
  <2>3. TileStart(a) = TileStart(m) /\ TileStart(b) = TileStart(n)
    BY <2>0, <2>1, <2>2, TileIs
  <2>4. TileLength(a) = TileLength(m) /\ TileLength(b) = TileLength(n)
    BY <2>3, Zenon DEF TileLength
  <2> QED
    BY <2>0, <2>1, <2>2, <2>3, <2>4, TileIs
<1> HIDE DEF tiles
<1>3. \A s, t \in tiles : <<s, t>> \in O <=> s.y < t.y \/ (s.y = t.y /\ s.x < t.x)
  BY DEF ReadingOrder
<1> HIDE DEF O
<1>4. Orders(tiles, O)
  BY <1>1, <1>2, <1>3 DEF Orders
<1>5. IsFiniteSet(tiles)
  BY TilesAreFinite DEF tiles
<1>6. RankedWell(Ranked(tiles, O), tiles, O)
  BY <1>4, <1>5, RankedIs
<1>7. changed_tiles(change) = Ranked(tiles, O)
  BY Zenon DEF changed_tiles, tiles, O
<1>8. \A c \in change : TileOf(c) \in tiles
  BY DEF tiles
<1>9. \A s : s \in Seq(tiles) => s \in Seq(Rects)
  BY <1>1
<1> QED
  BY <1>6, <1>7, <1>8, <1>9, Zenon DEF RankedWell

-----------------------------------------------------------------------------
(* The regions they are merged into. *)

LEMMA MergedCovers ==
  ASSUME NEW a \in Rects, NEW b \in Rects
  PROVE  /\ merge_regions(a, b) \in Rects
         /\ \A p \in Pixels : Covers(a, p) \/ Covers(b, p) => Covers(merge_regions(a, b), p)
<1> DEFINE x == IF a.x <= b.x THEN a.x ELSE b.x
           y == IF a.y <= b.y THEN a.y ELSE b.y
           right == IF Right(a) >= Right(b) THEN Right(a) ELSE Right(b)
           bottom == IF Bottom(a) >= Bottom(b) THEN Bottom(a) ELSE Bottom(b)
<1>1. /\ a.x \in Int /\ a.y \in Int /\ Right(a) \in Int /\ Bottom(a) \in Int
      /\ b.x \in Int /\ b.y \in Int /\ Right(b) \in Int /\ Bottom(b) \in Int
  BY RectIs
<1>2. /\ Min({a.x, b.x}) = x /\ Min({a.y, b.y}) = y
      /\ Max({Right(a), Right(b)}) = right /\ Max({Bottom(a), Bottom(b)}) = bottom
  BY <1>1, LesserOfTwo, GreaterOfTwo
<1>3. x \in Int /\ y \in Int /\ right \in Int /\ bottom \in Int /\ right - x \in Int /\ bottom - y \in Int
  BY <1>1
<1>4. /\ x <= a.x /\ x <= b.x /\ y <= a.y /\ y <= b.y
      /\ right >= Right(a) /\ right >= Right(b) /\ bottom >= Bottom(a) /\ bottom >= Bottom(b)
  BY <1>1
<1> HIDE DEF x, y, right, bottom
<1>5. merge_regions(a, b) = Rect(x, y, right - x, bottom - y)
  BY <1>2, Zenon DEF merge_regions
<1>6. PICK r \in Rects : /\ r = merge_regions(a, b) /\ r.x = x /\ r.y = y
                         /\ Right(r) = x + (right - x) /\ Bottom(r) = y + (bottom - y)
  <2>1. /\ Rect(x, y, right - x, bottom - y) \in Rects
        /\ Rect(x, y, right - x, bottom - y).x = x /\ Rect(x, y, right - x, bottom - y).y = y
        /\ Right(Rect(x, y, right - x, bottom - y)) = x + (right - x)
        /\ Bottom(Rect(x, y, right - x, bottom - y)) = y + (bottom - y)
    BY <1>3, RectOf
  <2> QED
    BY <1>5, <2>1, Zenon
<1>7. Right(r) = right /\ Bottom(r) = bottom
  BY <1>3, <1>6
<1>8. ASSUME NEW p \in Pixels, Covers(a, p) \/ Covers(b, p)
      PROVE  Covers(r, p)
  <2>1. p[1] \in Int /\ p[2] \in Int
    BY DEF Pixels
  <2> QED
    BY <1>1, <1>3, <1>4, <1>6, <1>7, <1>8, <2>1 DEF Covers
<1> QED
  BY <1>6, <1>8

\* One element goes, the last takes its place: all the others remain.
LEMMA SwapRemoveKeeps ==
  ASSUME NEW S, NEW s \in Seq(S), NEW i \in 1 .. Len(s)
  PROVE  /\ SwapRemove(s, i) \in Seq(S) /\ Len(SwapRemove(s, i)) = Len(s) - 1
         /\ \A j \in 1 .. Len(s) : j # i => \E k \in 1 .. Len(s) - 1 : SwapRemove(s, i)[k] = s[j]
<1>1. PICK n \in Nat : n = Len(s) /\ i \in 1 .. n /\ n >= 1
  BY LenProperties
<1>2. s \in [1 .. n -> S]
  BY <1>1, LenProperties
<1>3. Last(s) = s[n] /\ s[n] \in S
  BY <1>1, <1>2 DEF Last
<1>4. PICK t : t = [s EXCEPT ![i] = Last(s)]
  OBVIOUS
<1>5. t \in [1 .. n -> S] /\ \A j \in 1 .. n : t[j] = IF j = i THEN s[n] ELSE s[j]
  BY <1>1, <1>2, <1>3, <1>4
<1>6. t \in Seq(S) /\ Len(t) = n
  BY <1>5
<1>7. SwapRemove(s, i) = Front(t)
  BY <1>4 DEF SwapRemove
<1>8. Front(t) = [k \in 1 .. n - 1 |-> t[k]]
  BY <1>6 DEF Front
<1>9. Front(t) \in Seq(S) /\ Len(Front(t)) = n - 1 /\ \A k \in 1 .. n - 1 : Front(t)[k] = t[k]
  <2>1. Front(t) \in [1 .. n - 1 -> S] /\ n - 1 \in Nat
    BY <1>1, <1>5, <1>8
  <2> QED
    BY <1>8, <2>1
<1>10. ASSUME NEW j \in 1 .. n, j # i
       PROVE  \E k \in 1 .. n - 1 : Front(t)[k] = s[j]
  <2>1. CASE j < n
    <3>1. j \in 1 .. n - 1
      BY <1>1, <2>1
    <3>2. Front(t)[j] = s[j]
      BY <1>5, <1>9, <1>10, <3>1
    <3> QED
      BY <3>1, <3>2
  <2>2. CASE j = n
    <3>1. i \in 1 .. n - 1
      BY <1>1, <1>10, <2>2
    <3>2. Front(t)[i] = s[j]
      BY <1>5, <1>9, <2>2, <3>1
    <3> QED
      BY <3>1, <3>2
  <2> QED
    BY <1>1, <2>1, <2>2
<1> QED
  BY <1>1, <1>7, <1>9, <1>10

-----------------------------------------------------------------------------
(* Regions coalesced. *)

\* What is left to coalesce covers a pixel.
Coalescing(c) ==
  /\ c \in [done : SUBSET Rects, region : Rects, pending : Seq(Rects)]
  /\ IsFiniteSet(c.done)
StillCovered(c, p) ==
  \/ Covers(c.region, p)
  \/ \E r \in c.done : Covers(r, p)
  \/ \E i \in 1 .. Len(c.pending) : Covers(c.pending[i], p)

LEMMA CoalescedKeeps ==
  ASSUME NEW c, Coalescing(c), c.pending # <<>>
  PROVE  /\ Coalescing(Coalesced(c)) /\ Len(Coalesced(c).pending) = Len(c.pending) - 1
         /\ \A p \in Pixels : StillCovered(c, p) => StillCovered(Coalesced(c), p)
<1>1. PICK done \in SUBSET Rects, region \in Rects, s \in Seq(Rects) :
        /\ c = [done |-> done, region |-> region, pending |-> s]
        /\ c.done = done /\ c.region = region /\ c.pending = s /\ IsFiniteSet(done)
  BY DEF Coalescing
<1>2. PICK n \in Nat \ {0} : n = Len(s)
  BY <1>1, EmptySeq
<1> DEFINE near == {i \in DOMAIN s : regions_overlap_or_edge_touch(region, s[i])}
<1>3. near \in SUBSET (1 .. n)
  BY <1>1, <1>2, LenProperties
<1>4. \A i \in 1 .. n : s[i] \in Rects
  BY <1>1, <1>2, ElementOfSeq
<1>5. Coalesced(c) =
        IF near # {}
        THEN [c EXCEPT !.region = merge_regions(region, s[Min(near)]),
                       !.pending = SwapRemove(s, Min(near))]
        ELSE [done |-> done \union {region}, region |-> Last(s), pending |-> Front(s)]
  BY <1>1 DEF Coalesced
<1> HIDE DEF near
<1>6. CASE near # {}
  <2>1. PICK i \in 1 .. n : i = Min(near)
    <3>1. near \in SUBSET Nat
      BY <1>3
    <3>2. Min(near) \in near
      BY <1>6, <3>1, LeastOfNaturals
    <3> QED
      BY <1>3, <3>2
  <2>2. PICK q : q = merge_regions(region, s[i])
    OBVIOUS
  <2>3. q \in Rects /\ \A p \in Pixels : Covers(region, p) \/ Covers(s[i], p) => Covers(q, p)
    BY <1>1, <1>4, <2>1, <2>2, MergedCovers
  <2>4. PICK t : t = SwapRemove(s, i)
    OBVIOUS
  <2>5. /\ t \in Seq(Rects) /\ Len(t) = n - 1
        /\ \A j \in 1 .. n : j # i => \E k \in 1 .. n - 1 : t[k] = s[j]
    <3>1. s \in Seq(Rects) /\ i \in 1 .. Len(s)
      BY <1>1, <1>2, <2>1
    <3>2. /\ SwapRemove(s, i) \in Seq(Rects) /\ Len(SwapRemove(s, i)) = Len(s) - 1
          /\ \A j \in 1 .. Len(s) : j # i => \E k \in 1 .. Len(s) - 1 : SwapRemove(s, i)[k] = s[j]
      BY <3>1, SwapRemoveKeeps
    <3> QED
      BY <1>2, <2>4, <3>2
  <2>6. Coalesced(c) = [c EXCEPT !.region = q, !.pending = t]
    BY <1>5, <1>6, <2>1, <2>2, <2>4
  <2>7. Coalesced(c) = [done |-> done, region |-> q, pending |-> t]
    BY <1>1, <2>6
  <2>8. /\ Coalesced(c).done = done /\ Coalesced(c).region = q /\ Coalesced(c).pending = t
        /\ Coalesced(c) \in [done : SUBSET Rects, region : Rects, pending : Seq(Rects)]
    BY <1>1, <2>3, <2>5, <2>7
  <2>9. ASSUME NEW p \in Pixels, StillCovered(c, p) PROVE StillCovered(Coalesced(c), p)
    <3>1. CASE Covers(region, p)
      BY <2>3, <2>8, <3>1 DEF StillCovered
    <3>2. CASE \E r \in done : Covers(r, p)
      BY <2>8, <3>2 DEF StillCovered
    <3>3. CASE \E j \in 1 .. n : Covers(s[j], p)
      <4>1. PICK j \in 1 .. n : Covers(s[j], p)
        BY <3>3
      <4>2. CASE j = i
        BY <2>3, <2>8, <4>1, <4>2 DEF StillCovered
      <4>3. CASE j # i
        <5>1. PICK k \in 1 .. n - 1 : t[k] = s[j]
          BY <2>5, <4>3
        <5>2. Covers(t[k], p)
          BY <4>1, <5>1
        <5> QED
          BY <2>5, <2>8, <5>1, <5>2 DEF StillCovered
      <4> QED
        BY <4>2, <4>3
    <3> QED
      BY <1>1, <1>2, <2>9, <3>1, <3>2, <3>3 DEF StillCovered
  <2> QED
    BY <1>1, <1>2, <2>5, <2>8, <2>9 DEF Coalescing
<1>7. CASE near = {}
  <2>1. Coalesced(c) = [done |-> done \union {region}, region |-> Last(s), pending |-> Front(s)]
    BY <1>5, <1>7
  <2>2. Last(s) = s[n] /\ s[n] \in Rects
    BY <1>2, <1>4 DEF Last
  <2>3. Front(s) = [k \in 1 .. n - 1 |-> s[k]]
    BY <1>2 DEF Front
  <2>4. /\ Front(s) \in Seq(Rects) /\ Len(Front(s)) = n - 1
        /\ \A k \in 1 .. n - 1 : Front(s)[k] = s[k]
    <3>1. Front(s) \in [1 .. n - 1 -> Rects] /\ n - 1 \in Nat
      BY <1>4, <2>3
    <3> QED
      BY <2>3, <3>1
  <2>5. IsFiniteSet(done \union {region})
    BY <1>1, FS_AddElement
  <2>6. PICK t \in Seq(Rects), l \in Rects : t = Front(s) /\ l = s[n]
    BY <2>2, <2>4
  <2>7. Coalesced(c) = [done |-> done \union {region}, region |-> l, pending |-> t]
    BY <2>1, <2>2, <2>6
  <2>8. /\ Coalesced(c).done = done \union {region} /\ Coalesced(c).region = l /\ Coalesced(c).pending = t
        /\ Coalesced(c) \in [done : SUBSET Rects, region : Rects, pending : Seq(Rects)]
    BY <1>1, <2>6, <2>7
  <2>9. ASSUME NEW p \in Pixels, StillCovered(c, p) PROVE StillCovered(Coalesced(c), p)
    <3>1. CASE Covers(region, p)
      BY <2>8, <3>1 DEF StillCovered
    <3>2. CASE \E r \in done : Covers(r, p)
      BY <2>8, <3>2 DEF StillCovered
    <3>3. CASE \E j \in 1 .. n : Covers(s[j], p)
      <4>1. PICK j \in 1 .. n : Covers(s[j], p)
        BY <3>3
      <4>2. CASE j = n
        BY <2>6, <2>8, <4>1, <4>2 DEF StillCovered
      <4>3. CASE j # n
        <5>1. j \in 1 .. n - 1
          BY <4>3
        <5>2. Covers(t[j], p)
          BY <2>4, <2>6, <4>1, <5>1
        <5> QED
          BY <2>4, <2>6, <2>8, <5>1, <5>2 DEF StillCovered
      <4> QED
        BY <4>2, <4>3
    <3> QED
      BY <1>1, <1>2, <2>9, <3>1, <3>2, <3>3 DEF StillCovered
  <2> QED
    BY <1>1, <1>2, <2>4, <2>5, <2>6, <2>8, <2>9 DEF Coalescing
<1> QED
  BY <1>6, <1>7

\* The turns of the loop, one after another.
Turns(f, base, n) == f = [k \in 0 .. n |-> IF k = 0 THEN base ELSE Coalesced(f[k - 1])]

LEMMA TurnsExist ==
  ASSUME NEW base, NEW n \in Nat
  PROVE  \E f : Turns(f, base, n)
<1> DEFINE T == {m \in Nat : ~ \E f : Turns(f, base, m)}
<1>1. SUFFICES T = {}
  BY Zenon
<1>2. SUFFICES ASSUME T # {} PROVE FALSE
  OBVIOUS
<1>3. PICK m \in T : \A k \in T : m <= k
  <2>1. T \in SUBSET Nat
    OBVIOUS
  <2> QED
    BY <1>2, <2>1, LeastOfNaturals
<1>4. m \in Nat /\ ~ \E f : Turns(f, base, m)
  OBVIOUS
<1>5. CASE m = 0
  <2> DEFINE f == [k \in 0 .. m |-> base]
  <2>1. f = [k \in 0 .. m |-> IF k = 0 THEN base ELSE Coalesced(f[k - 1])]
    BY <1>5
  <2> QED
    BY <1>4, <2>1, Zenon DEF Turns
<1>6. CASE m # 0
  <2>1. m - 1 \in Nat /\ m - 1 \notin T
    BY <1>3, <1>4, <1>6
  <2>2. PICK g : Turns(g, base, m - 1)
    BY <2>1, Zenon
  <2>3. \A k \in 0 .. m - 1 : g[k] = IF k = 0 THEN base ELSE Coalesced(g[k - 1])
    BY <2>2, Zenon DEF Turns
  <2> DEFINE f == [k \in 0 .. m |-> IF k = m THEN Coalesced(g[m - 1]) ELSE g[k]]
  <2>4. ASSUME NEW k \in 0 .. m
        PROVE  f[k] = IF k = 0 THEN base ELSE Coalesced(f[k - 1])
    <3>1. CASE k = m
      <4>1. k - 1 \in 0 .. m /\ k - 1 # m
        BY <1>4, <1>6, <3>1
      <4>2. f[k - 1] = g[m - 1]
        BY <3>1, <4>1
      <4>3. f[k] = Coalesced(g[m - 1])
        BY <3>1
      <4> HIDE DEF f
      <4> QED
        BY <1>6, <3>1, <4>2, <4>3
    <3>2. CASE k = 0
      <4>1. f[k] = g[k] /\ k \in 0 .. m - 1
        BY <1>4, <1>6, <3>2
      <4>2. g[k] = base
        BY <2>3, <3>2, <4>1
      <4> HIDE DEF f
      <4> QED
        BY <3>2, <4>1, <4>2
    <3>3. CASE k # m /\ k # 0
      <4>1. k \in 0 .. m - 1 /\ k - 1 \in 0 .. m /\ k - 1 # m
        BY <1>4, <3>3
      <4>2. f[k] = g[k] /\ f[k - 1] = g[k - 1]
        BY <3>3, <4>1
      <4>3. g[k] = Coalesced(g[k - 1])
        BY <2>3, <3>3, <4>1
      <4> HIDE DEF f
      <4> QED
        BY <3>3, <4>2, <4>3
    <3> QED
      BY <3>1, <3>2, <3>3
  <2>5. f = [k \in 0 .. m |-> f[k]]
    OBVIOUS
  <2> HIDE DEF f
  <2>6. f = [k \in 0 .. m |-> IF k = 0 THEN base ELSE Coalesced(f[k - 1])]
    BY <2>4, <2>5
  <2> QED
    BY <1>4, <2>6, Zenon DEF Turns
<1> QED
  BY <1>5, <1>6

LEMMA TurnsKeep ==
  ASSUME NEW n \in Nat, NEW base, Coalescing(base), Len(base.pending) = n, NEW f, Turns(f, base, n),
         NEW p \in Pixels, StillCovered(base, p)
  PROVE  Coalescing(f[n]) /\ Len(f[n].pending) = 0 /\ StillCovered(f[n], p)
<1> DEFINE Ok(k) == Coalescing(f[k]) /\ Len(f[k].pending) = n - k /\ StillCovered(f[k], p)
           T == {k \in 0 .. n : ~ Ok(k)}
<1>1. f[0] = base /\ \A k \in 1 .. n : f[k] = Coalesced(f[k - 1])
  BY DEF Turns
<1>2. SUFFICES T = {}
  <2>1. n \in 0 .. n /\ n - n = 0
    OBVIOUS
  <2> QED
    BY <1>2, <2>1
<1>3. SUFFICES ASSUME T # {} PROVE FALSE
  OBVIOUS
<1>4. PICK m \in T : \A k \in T : m <= k
  <2>1. T \in SUBSET Nat
    OBVIOUS
  <2> QED
    BY <1>3, <2>1, LeastOfNaturals
<1>5. m \in 0 .. n /\ ~ Ok(m)
  OBVIOUS
<1>6. m # 0
  <2>1. Ok(0)
    <3>1. n - 0 = n
      OBVIOUS
    <3> QED
      BY <1>1, <3>1
  <2> HIDE DEF Ok
  <2> QED
    BY <1>5, <2>1
<1>7. m - 1 \in 0 .. n /\ m \in 1 .. n /\ Ok(m - 1)
  <2>1. \A k \in 0 .. n : k \in T \/ Ok(k)
    BY Zenon
  <2> HIDE DEF T, Ok
  <2>2. m \in 0 .. n
    BY <1>5
  <2>3. m - 1 \in 0 .. n /\ m \in 1 .. n
    BY <1>6, <2>2
  <2>4. m - 1 \notin T
    BY <1>4, <2>3
  <2> QED
    BY <2>1, <2>3, <2>4
<1>8. PICK c : c = f[m - 1] /\ Coalescing(c) /\ Len(c.pending) = n - (m - 1) /\ StillCovered(c, p)
  BY <1>7
<1>9. c.pending # <<>>
  <2>1. Len(c.pending) # 0
    BY <1>5, <1>7, <1>8
  <2> QED
    BY <2>1
<1>10. f[m] = Coalesced(c)
  BY <1>1, <1>7, <1>8
<1>11. Coalescing(f[m]) /\ Len(f[m].pending) = (n - (m - 1)) - 1 /\ StillCovered(f[m], p)
  BY <1>8, <1>9, <1>10, CoalescedKeeps
<1>12. (n - (m - 1)) - 1 = n - m
  BY <1>5
<1> QED
  BY <1>5, <1>11, <1>12

LEMMA RegionsCover ==
  ASSUME NEW tiles \in Seq(Rects), NEW i \in 1 .. Len(tiles), NEW p \in Pixels, Covers(tiles[i], p)
  PROVE  /\ coalesce_regions(tiles) \in SUBSET Rects /\ IsFiniteSet(coalesce_regions(tiles))
         /\ \E r \in coalesce_regions(tiles) : Covers(r, p)
<1>1. PICK n \in Nat : n = Len(tiles) - 1 /\ Len(tiles) \in Nat
  <2>1. Len(tiles) \in Nat
    BY LenProperties
  <2>2. Len(tiles) - 1 \in Nat
    BY <2>1
  <2> QED
    BY <2>1, <2>2
<1> DEFINE base == [done |-> {}, region |-> Last(tiles), pending |-> Front(tiles)]
           F == CHOOSE f : f = [k \in 0 .. Len(tiles) - 1 |->
                  IF k = 0 THEN base ELSE Coalesced(f[k - 1])]
<1>2. tiles # <<>>
  BY <1>1
<1>3. coalesce_regions(tiles) = F[Len(tiles) - 1].done \union {F[Len(tiles) - 1].region}
  BY <1>2 DEF coalesce_regions
<1>4. Coalescing(base) /\ Len(base.pending) = n /\ StillCovered(base, p)
  <2>1. \A j \in 1 .. n + 1 : tiles[j] \in Rects
    BY <1>1, ElementOfSeq
  <2>2. Last(tiles) = tiles[n + 1] /\ n + 1 \in 1 .. n + 1
    BY <1>1 DEF Last
  <2>3. Front(tiles) = [k \in 1 .. n |-> tiles[k]]
    BY <1>1 DEF Front
  <2>4. /\ Front(tiles) \in Seq(Rects) /\ Len(Front(tiles)) = n
        /\ \A k \in 1 .. n : Front(tiles)[k] = tiles[k]
    <3>1. Front(tiles) \in [1 .. n -> Rects]
      BY <2>1, <2>3
    <3> QED
      BY <2>3, <3>1
  <2>5. PICK t \in Seq(Rects), l \in Rects : t = Front(tiles) /\ l = Last(tiles) /\ l = tiles[n + 1]
    BY <2>1, <2>2, <2>4
  <2>6. base = [done |-> {}, region |-> l, pending |-> t]
    BY <2>5
  <2> HIDE DEF base
  <2>7. base.done = {} /\ base.region = l /\ base.pending = t
        /\ base \in [done : SUBSET Rects, region : Rects, pending : Seq(Rects)]
    BY <2>5, <2>6
  <2>8. IsFiniteSet(base.done)
    BY <2>7, FS_EmptySet
  <2>9. StillCovered(base, p)
    <3>1. CASE i = n + 1
      BY <2>5, <2>7, <3>1 DEF StillCovered
    <3>2. CASE i # n + 1
      <4>1. i \in 1 .. n
        BY <1>1, <3>2
      <4>2. Covers(t[i], p)
        BY <2>4, <2>5, <4>1
      <4> QED
        BY <2>4, <2>5, <2>7, <4>1, <4>2 DEF StillCovered
    <3> QED
      BY <3>1, <3>2
  <2> QED
    BY <2>4, <2>5, <2>7, <2>8, <2>9 DEF Coalescing
<1> HIDE DEF base
<1>5. Turns(F, base, Len(tiles) - 1)
  <2>1. \E f : Turns(f, base, Len(tiles) - 1)
    BY <1>1, TurnsExist
  <2>2. \E f : f = [k \in 0 .. Len(tiles) - 1 |-> IF k = 0 THEN base ELSE Coalesced(f[k - 1])]
    BY <2>1, Zenon DEF Turns
  <2> QED
    BY <2>2, Zenon DEF Turns
<1> HIDE DEF F
<1>6. Coalescing(F[n]) /\ Len(F[n].pending) = 0 /\ StillCovered(F[n], p)
  BY <1>1, <1>4, <1>5, TurnsKeep
<1>7. PICK c : c = F[n] /\ c.done \in SUBSET Rects /\ c.region \in Rects /\ IsFiniteSet(c.done)
  BY <1>6 DEF Coalescing
<1>8. Covers(c.region, p) \/ \E r \in c.done : Covers(r, p)
  BY <1>6, <1>7 DEF StillCovered
<1>9. coalesce_regions(tiles) = c.done \union {c.region}
  BY <1>1, <1>3, <1>7
<1>10. IsFiniteSet(c.done \union {c.region})
  BY <1>7, FS_AddElement
<1> QED
  BY <1>7, <1>8, <1>9, <1>10

-----------------------------------------------------------------------------
(* The planned regions show every change. *)

\* The pixels a crop shows.
LEMMA CropShows ==
  ASSUME NEW r \in Rects, NEW p \in Pixels,
         r.x <= p[1] * PixelSize, (p[1] + 1) * PixelSize <= Right(r),
         r.y <= p[2] * PixelSize, (p[2] + 1) * PixelSize <= Bottom(r)
  PROVE  p \in crop_css_rect(r)
<1> DEFINE clip(v) == Max({0, Min({v, ViewportSide})})
           ceil(v) == (v + PixelSize - 1) \div PixelSize
<1>1. PICK P \in Nat \ {0}, V \in Nat \ {0}, F \in Nat \ {0} :
        P = PixelSize /\ V = ViewportSide /\ F = FrameSize /\ V = F * P
  BY SideIsPositive DEF ViewportSide
<1>2. ASSUME NEW a \in Int, NEW b \in Int, NEW c \in 0 .. F - 1, a <= c * P, (c + 1) * P <= b
      PROVE  c \in clip(a) \div P .. ceil(clip(b)) - 1
  <2>1. PICK x \in Nat, y \in Nat : x = c * P /\ y = (c + 1) * P /\ y = x + P
    BY <1>1
  <2>2. y <= V
    <3>1. c + 1 <= F
      BY <1>1
    <3>2. (c + 1) * P <= F * P
      BY <1>1, <3>1
    <3> QED
      BY <1>1, <2>1, <3>2
  <2>3. PICK l \in Nat : l = clip(a) /\ l <= x
    <3>1. PICK m \in Int : m = IF a <= V THEN a ELSE V
      BY <1>1
    <3>2. Min({a, ViewportSide}) = m
      BY <1>1, <3>1, LesserOfTwo
    <3>3. Max({0, m}) = IF 0 >= m THEN 0 ELSE m
      BY <3>1, GreaterOfTwo
    <3>4. clip(a) = IF 0 >= m THEN 0 ELSE m
      BY <3>2, <3>3
    <3> HIDE DEF clip
    <3>5. m <= x
      BY <1>1, <1>2, <2>1, <3>1
    <3> QED
      BY <2>1, <3>4, <3>5
  <2>4. PICK h \in Nat : h = clip(b) /\ y <= h
    <3>1. PICK m \in Int : m = IF b <= V THEN b ELSE V
      BY <1>1
    <3>2. Min({b, ViewportSide}) = m
      BY <1>1, <3>1, LesserOfTwo
    <3>3. Max({0, m}) = IF 0 >= m THEN 0 ELSE m
      BY <3>1, GreaterOfTwo
    <3>4. clip(b) = IF 0 >= m THEN 0 ELSE m
      BY <3>2, <3>3
    <3> HIDE DEF clip
    <3>5. y <= m
      BY <1>1, <1>2, <2>1, <2>2, <3>1
    <3> QED
      BY <2>1, <3>4, <3>5
  <2>5. PICK q \in Nat : q = l \div P /\ P * q <= l
    BY <1>1, <2>3, QuotientBounds
  <2>6. q <= c
    <3>1. SUFFICES ASSUME q >= c + 1 PROVE FALSE
      BY <2>5
    <3>2. P * q >= P * (c + 1)
      BY <1>1, <2>5, <3>1
    <3>3. P * (c + 1) = x + P
      BY <1>1, <2>1
    <3> QED
      BY <1>1, <2>1, <2>3, <2>5, <3>2, <3>3
  <2>7. PICK n \in Nat : n = h + P - 1
    BY <1>1, <2>4
  <2>8. PICK e \in Nat : e = n \div P /\ n < P * e + P
    BY <1>1, <2>7, QuotientBounds
  <2>9. c + 1 <= e
    <3>1. SUFFICES ASSUME e <= c PROVE FALSE
      BY <2>8
    <3>2. P * e <= P * c
      BY <1>1, <2>8, <3>1
    <3>3. P * c = x
      BY <1>1, <2>1
    <3> QED
      BY <1>1, <2>1, <2>4, <2>7, <2>8, <3>2, <3>3
  <2>10. clip(a) \div P = q /\ ceil(clip(b)) = e
    <3> HIDE DEF clip
    <3>1. ceil(clip(b)) = (h + P - 1) \div P
      BY <1>1, <2>4
    <3> QED
      BY <2>3, <2>5, <2>7, <2>8, <3>1
  <2> HIDE DEF clip, ceil
  <2>11. c \in q .. e - 1
    BY <2>5, <2>6, <2>8, <2>9
  <2> QED
    BY <2>10, <2>11
<1>3. PICK a \in 0 .. F - 1, b \in 0 .. F - 1 : a = p[1] /\ b = p[2]
  BY <1>1 DEF Pixels
<1>4. crop_css_rect(r) = {q \in Pixels :
                            /\ q[1] \in clip(r.x) \div PixelSize .. ceil(clip(Right(r))) - 1
                            /\ q[2] \in clip(r.y) \div PixelSize .. ceil(clip(Bottom(r))) - 1}
  BY Zenon DEF crop_css_rect
<1> HIDE DEF clip, ceil
<1>5. r.x \in Int /\ r.y \in Int /\ Right(r) \in Int /\ Bottom(r) \in Int
  BY RectIs
<1>6. r.x <= a * P /\ (a + 1) * P <= Right(r) /\ r.y <= b * P /\ (b + 1) * P <= Bottom(r)
  BY <1>1, <1>3
<1>7. a \in clip(r.x) \div P .. ceil(clip(Right(r))) - 1
  BY <1>2, <1>3, <1>5, <1>6
<1>8. b \in clip(r.y) \div P .. ceil(clip(Bottom(r))) - 1
  BY <1>2, <1>3, <1>5, <1>6
<1> QED
  BY <1>1, <1>3, <1>4, <1>7, <1>8

LEMMA WholeShows ==
  ASSUME NEW p \in Pixels
  PROVE  p \in crop_css_rect(WholeViewport)
<1>1. PICK P \in Nat \ {0}, V \in Nat \ {0}, F \in Nat \ {0} :
        P = PixelSize /\ V = ViewportSide /\ F = FrameSize /\ V = F * P
  BY SideIsPositive DEF ViewportSide
<1>2. /\ WholeViewport \in Rects /\ WholeViewport.x = 0 /\ WholeViewport.y = 0
      /\ Right(WholeViewport) = V /\ Bottom(WholeViewport) = V
  BY <1>1 DEF WholeViewport, Rect, Rects, Right, Bottom
<1>3. PICK a \in 0 .. F - 1, b \in 0 .. F - 1 : a = p[1] /\ b = p[2]
  BY <1>1 DEF Pixels
<1>4. \A c \in 0 .. F - 1 : 0 <= c * P /\ (c + 1) * P <= V
  <2> TAKE c \in 0 .. F - 1
  <2>1. 0 <= c /\ c + 1 <= F /\ c \in Int
    BY <1>1
  <2>2. 0 <= c * P /\ (c + 1) * P <= F * P
    BY <1>1, <2>1
  <2> QED
    BY <1>1, <2>2
<1>5. /\ WholeViewport.x <= p[1] * PixelSize /\ (p[1] + 1) * PixelSize <= Right(WholeViewport)
      /\ WholeViewport.y <= p[2] * PixelSize /\ (p[2] + 1) * PixelSize <= Bottom(WholeViewport)
  BY <1>1, <1>2, <1>3, <1>4
<1> QED
  BY <1>2, <1>5, CropShows

\* A region in CSS units.
CssRect(r) == Rect(r.x * PixelSize, r.y * PixelSize, r.width * PixelSize, r.height * PixelSize)

LEMMA CssShows ==
  ASSUME NEW r \in Rects
  PROVE  /\ CssRect(r) \in Rects
         /\ \A p \in Pixels : Covers(r, p) => p \in crop_css_rect(CssRect(r))
<1>1. PICK P \in Nat \ {0} : P = PixelSize
  BY SideIsPositive
<1>2. PICK x \in Int, y \in Int, w \in Int, h \in Int :
        /\ x = r.x /\ y = r.y /\ w = r.width /\ h = r.height /\ Right(r) = x + w /\ Bottom(r) = y + h
  BY RectIs
<1>3. PICK s \in Rects : /\ s = CssRect(r) /\ s.x = x * P /\ s.y = y * P
                         /\ Right(s) = x * P + w * P /\ Bottom(s) = y * P + h * P
  <2>1. PICK xx \in Int, yy \in Int, ww \in Int, hh \in Int :
          xx = x * P /\ yy = y * P /\ ww = w * P /\ hh = h * P
    BY <1>1, <1>2
  <2>2. CssRect(r) = Rect(xx, yy, ww, hh)
    BY <1>1, <1>2, <2>1 DEF CssRect
  <2>3. /\ Rect(xx, yy, ww, hh) \in Rects /\ Rect(xx, yy, ww, hh).x = xx /\ Rect(xx, yy, ww, hh).y = yy
        /\ Right(Rect(xx, yy, ww, hh)) = xx + ww /\ Bottom(Rect(xx, yy, ww, hh)) = yy + hh
    BY <2>1 DEF Rect, Rects, Right, Bottom
  <2>4. /\ CssRect(r) \in Rects /\ CssRect(r).x = xx /\ CssRect(r).y = yy
        /\ Right(CssRect(r)) = xx + ww /\ Bottom(CssRect(r)) = yy + hh
    BY <2>2, <2>3, Zenon
  <2> QED
    BY <2>1, <2>4
<1>4. ASSUME NEW a \in Int, NEW b \in Int, NEW c \in Int, a <= c, c < a + b
      PROVE  a * P <= c * P /\ (c + 1) * P <= a * P + b * P
  <2>1. c + 1 <= a + b
    BY <1>4
  <2>2. (c + 1) * P <= (a + b) * P
    BY <1>1, <2>1
  <2>3. (a + b) * P = a * P + b * P
    BY <1>1
  <2> QED
    BY <1>1, <1>4, <2>2, <2>3
<1>5. ASSUME NEW p \in Pixels, Covers(r, p)
      PROVE  p \in crop_css_rect(s)
  <2>1. PICK a \in Int, b \in Int : a = p[1] /\ b = p[2]
    BY DEF Pixels
  <2>2. x <= a /\ a < x + w /\ y <= b /\ b < y + h
    BY <1>2, <1>5, <2>1 DEF Covers
  <2>3. x * P <= a * P /\ (a + 1) * P <= x * P + w * P
    BY <1>2, <1>4, <2>1, <2>2
  <2>4. y * P <= b * P /\ (b + 1) * P <= y * P + h * P
    BY <1>2, <1>4, <2>1, <2>2
  <2>5. /\ s.x <= p[1] * PixelSize /\ (p[1] + 1) * PixelSize <= Right(s)
        /\ s.y <= p[2] * PixelSize /\ (p[2] + 1) * PixelSize <= Bottom(s)
    BY <1>1, <1>3, <2>1, <2>3, <2>4
  <2> QED
    BY <1>3, <2>5, CropShows
<1> QED
  BY <1>3, <1>5

\* Whatever is planned shows every changed pixel.
PlanShows(plan, change) ==
  /\ plan.kind \in {"unchanged", "viewport", "regions"}
  /\ plan.regions \in SUBSET Rects /\ IsFiniteSet(plan.regions)
  /\ plan.kind = "viewport" => plan.regions = {WholeViewport}
  /\ plan.kind = "unchanged" => change = {}
  /\ \A p \in change : \E r \in plan.regions : p \in crop_css_rect(r)

LEMMA PlannedShows ==
  ASSUME NEW change \in PageChanges
  PROVE  PlanShows(plan_changed_css_regions(change), change)
<1> DEFINE regions == coalesce_regions(changed_tiles(change))
           css == {CssRect(r) : r \in regions}
           large == changed_ratio(change) >= 35 \/ Cardinality(regions) > MaxRegions
<1>1. plan_changed_css_regions(change) =
        IF change = {} THEN [kind |-> "unchanged", regions |-> {}]
        ELSE IF large THEN [kind |-> "viewport", regions |-> {WholeViewport}]
             ELSE [kind |-> "regions", regions |-> css]
  BY Zenon DEF plan_changed_css_regions, CssRect
<1>2. \A p \in change : p \in Pixels
  BY ChangeIsFinite
<1>3. PICK tiles \in Seq(Rects) :
        /\ tiles = changed_tiles(change)
        /\ \A c \in change : \E i \in 1 .. Len(tiles) : tiles[i] = TileOf(c)
  BY TilesAreRanked
<1>4. \A p \in change : /\ regions \in SUBSET Rects /\ IsFiniteSet(regions)
                        /\ \E r \in regions : Covers(r, p)
  <2> TAKE p \in change
  <2>1. PICK i \in 1 .. Len(tiles) : tiles[i] = TileOf(p)
    BY <1>3
  <2>2. p \in Pixels /\ Covers(tiles[i], p)
    BY <1>2, <2>1, TileIs
  <2>3. /\ coalesce_regions(tiles) \in SUBSET Rects /\ IsFiniteSet(coalesce_regions(tiles))
        /\ \E r \in coalesce_regions(tiles) : Covers(r, p)
    BY <2>1, <2>2, RegionsCover
  <2> QED
    BY <1>3, <2>3
<1> HIDE DEF regions, large
<1>5. CASE change = {}
  <2>1. plan_changed_css_regions(change) = [kind |-> "unchanged", regions |-> {}]
    BY <1>1, <1>5
  <2>2. IsFiniteSet({})
    BY FS_EmptySet
  <2> QED
    BY <1>5, <2>1, <2>2 DEF PlanShows
<1>6. CASE change # {} /\ large
  <2>1. plan_changed_css_regions(change) = [kind |-> "viewport", regions |-> {WholeViewport}]
    BY <1>1, <1>6, Zenon
  <2>2. IsFiniteSet({WholeViewport}) /\ WholeViewport \in Rects
    BY FS_Singleton, WholeHolds
  <2>3. \A p \in change : p \in crop_css_rect(WholeViewport)
    BY <1>2, WholeShows
  <2> QED
    BY <2>1, <2>2, <2>3 DEF PlanShows
<1>7. CASE change # {} /\ ~ large
  <2>1. plan_changed_css_regions(change) = [kind |-> "regions", regions |-> css]
    BY <1>1, <1>7, Zenon
  <2>2. regions \in SUBSET Rects /\ IsFiniteSet(regions)
    BY <1>4, <1>7
  <2>3. IsFiniteSet(css)
    <3>1. PICK f : f = [r \in regions |-> CssRect(r)]
      OBVIOUS
    <3>2. f \in Surjection(regions, css)
      BY <3>1 DEF Surjection
    <3> QED
      BY <2>2, <3>2, FS_Surjection
  <2>4. css \in SUBSET Rects
    BY <2>2, CssShows
  <2>5. ASSUME NEW p \in change PROVE \E s \in css : p \in crop_css_rect(s)
    <3>1. PICK r \in regions : Covers(r, p)
      BY <1>4
    <3>2. CssRect(r) \in css
      OBVIOUS
    <3>3. p \in crop_css_rect(CssRect(r))
      BY <1>2, <2>2, <3>1, CssShows
    <3> HIDE DEF css
    <3> QED
      BY <3>2, <3>3
  <2> HIDE DEF css
  <2> QED
    BY <1>7, <2>1, <2>3, <2>4, <2>5 DEF PlanShows
<1> QED
  BY <1>5, <1>6, <1>7, Zenon

-----------------------------------------------------------------------------
(* The candidates of a packet. *)

Sources == {"changed", "element", "component", "section", "viewport"}
Candidates == [source : Sources, rect : Rects, gain : Int, confidence : Int, relevance : Int]

LEMMA CandidateIs ==
  ASSUME NEW source \in Sources, NEW rect \in Rects, NEW gain \in Int, NEW confidence \in Int,
         NEW relevance \in Int
  PROVE  /\ Candidate(source, rect, gain, confidence, relevance) \in Candidates
         /\ Candidate(source, rect, gain, confidence, relevance).source = source
         /\ Candidate(source, rect, gain, confidence, relevance).rect = rect
BY DEF Candidate, Candidates

LEMMA ImageIsFinite ==
  ASSUME NEW S, IsFiniteSet(S), NEW f, f = [x \in S |-> f[x]]
  PROVE  IsFiniteSet({f[x] : x \in S})
<1>1. f \in Surjection(S, {f[x] : x \in S})
  <2>2. f \in [S -> {f[x] : x \in S}]
    OBVIOUS
  <2> QED
    BY <2>2 DEF Surjection
<1> QED
  BY <1>1, FS_Surjection

\* The candidates of a plan show what the plan shows.
LEMMA ChangedCandidatesAre ==
  ASSUME NEW change \in PageChanges, NEW plan, PlanShows(plan, change), NEW targets
  PROVE  /\ ChangedCandidates(plan, targets) \in SUBSET Candidates
         /\ IsFiniteSet(ChangedCandidates(plan, targets))
         /\ \A p \in change : \E c \in ChangedCandidates(plan, targets) : p \in Shown(c)
<1> DEFINE relevance(r) == IF targets = <<>> \/ rects_intersect(r, targets[1].rect)
                           THEN 1000 ELSE 650
           fallback == IF targets = <<>> THEN 700 ELSE 550
           shown == {Candidate("changed", r, 1000, 1000, relevance(r)) : r \in plan.regions}
           whole == {Candidate("viewport", WholeViewport, 700, 1000, fallback)}
<1>1. PICK R \in SUBSET Rects : R = plan.regions /\ IsFiniteSet(R)
  BY DEF PlanShows
<1>2. \A p \in change : p \in Pixels
  BY ChangeIsFinite
<1>3. ChangedCandidates(plan, targets) =
        CASE plan.kind = "regions" -> shown [] plan.kind = "viewport" -> whole [] OTHER -> {}
  BY Zenon DEF ChangedCandidates
<1>4. /\ shown \in SUBSET Candidates /\ IsFiniteSet(shown)
      /\ \A r \in R : \E c \in shown : c.rect = r /\ c.source = "changed"
  <2> DEFINE cand(r) == Candidate("changed", r, 1000, 1000, relevance(r))
  <2>0. \A r \in R : relevance(r) \in Int
    OBVIOUS
  <2> HIDE DEF relevance
  <2>1. \A r \in R : cand(r) \in Candidates /\ cand(r).rect = r /\ cand(r).source = "changed"
    <3> TAKE r \in R
    <3>1. PICK rel \in Int : rel = relevance(r)
      BY <2>0
    <3>2. "changed" \in Sources /\ r \in Rects /\ 1000 \in Int
      BY <1>1 DEF Sources
    <3>3. /\ Candidate("changed", r, 1000, 1000, rel) \in Candidates
          /\ Candidate("changed", r, 1000, 1000, rel).source = "changed"
          /\ Candidate("changed", r, 1000, 1000, rel).rect = r
      BY <3>1, <3>2, CandidateIs
    <3>4. cand(r) = Candidate("changed", r, 1000, 1000, rel)
      BY <3>1
    <3> HIDE DEF cand
    <3> QED
      BY <3>3, <3>4
  <2>2. shown = {cand(r) : r \in R}
    BY <1>1, Zenon
  <2> HIDE DEF cand
  <2>3. PICK f : f = [r \in R |-> cand(r)]
    OBVIOUS
  <2>4. shown = {f[r] : r \in R}
    BY <2>2, <2>3
  <2>5. IsFiniteSet(shown)
    <3>1. f = [r \in R |-> f[r]]
      BY <2>3
    <3> QED
      BY <1>1, <2>4, <3>1, ImageIsFinite
  <2> HIDE DEF shown
  <2> QED
    BY <2>1, <2>2, <2>5
<1>5. /\ whole \in SUBSET Candidates /\ IsFiniteSet(whole)
      /\ \E c \in whole : c.source = "viewport"
  <2>1. PICK rel \in Int : rel = fallback
    OBVIOUS
  <2>2. /\ "viewport" \in Sources /\ WholeViewport \in Rects /\ 1000 \in Int /\ 700 \in Int
    BY WholeHolds DEF Sources
  <2>3. PICK c \in Candidates : c = Candidate("viewport", WholeViewport, 700, 1000, rel) /\ c.source = "viewport"
    BY <2>1, <2>2, CandidateIs
  <2>4. whole = {c}
    BY <2>1, <2>3
  <2>5. IsFiniteSet({c})
    BY FS_Singleton
  <2> HIDE DEF whole
  <2> QED
    BY <2>3, <2>4, <2>5
<1>6. IsFiniteSet({})
  BY FS_EmptySet
<1> HIDE DEF shown, whole
<1>7. CASE plan.kind = "regions"
  <2>1. ChangedCandidates(plan, targets) = shown
    BY <1>3, <1>7
  <2>2. ASSUME NEW p \in change PROVE \E c \in shown : p \in Shown(c)
    <3>1. PICK r \in R : p \in crop_css_rect(r)
      BY <1>1 DEF PlanShows
    <3>2. PICK c \in shown : c.rect = r /\ c.source = "changed"
      BY <1>4
    <3> QED
      BY <3>1, <3>2 DEF Shown
  <2> QED
    BY <1>4, <2>1, <2>2
<1>8. CASE plan.kind = "viewport"
  <2>1. ChangedCandidates(plan, targets) = whole
    BY <1>3, <1>8
  <2>2. \A p \in change : \E c \in whole : p \in Shown(c)
    BY <1>2, <1>5 DEF Shown
  <2> QED
    BY <1>5, <2>1, <2>2
<1>9. CASE plan.kind = "unchanged"
  <2>1. ChangedCandidates(plan, targets) = {} /\ change = {}
    BY <1>3, <1>9 DEF PlanShows
  <2> QED
    BY <1>6, <2>1
<1> QED
  BY <1>7, <1>8, <1>9 DEF PlanShows

LEMMA PacketTargetsAre ==
  ASSUME NEW path \in TreePaths \union {<<>>}
  PROVE  PacketTargets(path) \in Seq(Targets)
<1>1. CASE path = <<>>
  BY <1>1 DEF PacketTargets
<1>2. CASE path # <<>>
  <2>1. AllHold(resolve_progressive_targets(path), AskedFor(path))
    BY <1>2, TargetsHold
  <2> QED
    BY <1>2, <2>1 DEF AllHold, PacketTargets
<1> QED
  BY <1>1, <1>2

LEMMA CandidatesAre ==
  ASSUME NEW change \in PageChanges, NEW plan, PlanShows(plan, change), NEW targets \in Seq(Targets)
  PROVE  /\ visual_packet_candidates(plan, targets) \in SUBSET Candidates
         /\ IsFiniteSet(visual_packet_candidates(plan, targets))
         /\ \A p \in change : \E c \in visual_packet_candidates(plan, targets) : p \in Shown(c)
<1> DEFINE gain == [element |-> 900, component |-> 800, section |-> 675, viewport |-> 450]
           relevance == [element |-> 1000, component |-> 925, section |-> 800, viewport |-> 550]
           cand(t) == Candidate(t.kind, t.rect, gain[t.kind], t.confidence, relevance[t.kind])
           all == {cand(t) : t \in ToSet(targets)}
<1>1. visual_packet_candidates(plan, targets) = ChangedCandidates(plan, targets) \union all
  BY Zenon DEF visual_packet_candidates
<1>2. ToSet(targets) \in SUBSET Targets /\ IsFiniteSet(ToSet(targets))
  <2>1. PICK n \in Nat : n = Len(targets) /\ DOMAIN targets = 1 .. n
    BY LenProperties
  <2>2. \A i \in 1 .. n : targets[i] \in Targets
    BY <2>1, ElementOfSeq
  <2>3. ToSet(targets) = {targets[i] : i \in 1 .. n}
    BY <2>1 DEF ToSet
  <2>4. PICK a \in Int : a = 1
    OBVIOUS
  <2>5. IsFiniteSet(a .. n)
    BY FS_Interval
  <2>6. IsFiniteSet({targets[i] : i \in 1 .. n})
    <3>1. targets = [i \in a .. n |-> targets[i]]
      BY <2>1, <2>4
    <3>2. IsFiniteSet({targets[i] : i \in a .. n})
      BY <2>5, <3>1, ImageIsFinite
    <3> QED
      BY <2>4, <3>2
  <2> QED
    BY <2>2, <2>3, <2>6
<1>3. \A t \in Targets : cand(t) \in Candidates
  <2> TAKE t \in Targets
  <2>1. /\ t.kind \in {"element", "component", "section", "viewport"} /\ t.rect \in Rects
        /\ t.confidence \in Int
    BY DEF Targets
  <2>2. PICK g \in Int, l \in Int : g = gain[t.kind] /\ l = relevance[t.kind]
    <3>1. CASE t.kind = "element"
      BY <3>1
    <3>2. CASE t.kind = "component"
      BY <3>2
    <3>3. CASE t.kind = "section"
      BY <3>3
    <3>4. CASE t.kind = "viewport"
      BY <3>4
    <3> QED
      BY <2>1, <3>1, <3>2, <3>3, <3>4
  <2>3. PICK k \in Sources, r \in Rects, c \in Int : k = t.kind /\ r = t.rect /\ c = t.confidence
    BY <2>1 DEF Sources
  <2>4. Candidate(k, r, g, c, l) \in Candidates
    BY <2>2, <2>3, CandidateIs
  <2>5. cand(t) = Candidate(k, r, g, c, l)
    BY <2>2, <2>3
  <2> HIDE DEF cand
  <2> QED
    BY <2>4, <2>5
<1> HIDE DEF cand
<1>4. all \in SUBSET Candidates /\ IsFiniteSet(all)
  <2>1. PICK f : f = [t \in ToSet(targets) |-> cand(t)]
    OBVIOUS
  <2>2. all = {f[t] : t \in ToSet(targets)}
    BY <2>1
  <2>3. IsFiniteSet(all)
    <3>1. f = [t \in ToSet(targets) |-> f[t]]
      BY <2>1
    <3>2. IsFiniteSet({f[t] : t \in ToSet(targets)})
      BY <1>2, <3>1, ImageIsFinite
    <3> HIDE DEF all
    <3> QED
      BY <2>2, <3>2, Zenon
  <2> QED
    BY <1>2, <1>3, <2>3
<1> HIDE DEF all
<1>5. /\ ChangedCandidates(plan, targets) \in SUBSET Candidates
      /\ IsFiniteSet(ChangedCandidates(plan, targets))
      /\ \A p \in change : \E c \in ChangedCandidates(plan, targets) : p \in Shown(c)
  BY ChangedCandidatesAre
<1>6. IsFiniteSet(ChangedCandidates(plan, targets) \union all)
  BY <1>4, <1>5, FS_Union
<1> QED
  BY <1>1, <1>4, <1>5, <1>6

-----------------------------------------------------------------------------
(* The best candidate first. *)

LEMMA CostIs ==
  ASSUME NEW c \in Candidates
  PROVE  Cost(c) \in Nat \ {0}
<1>1. PICK A \in Int : A = Area(c.rect)
  BY DEF Candidates, Rects, Area
<1>2. PICK V \in Nat \ {0} : V = Area(WholeViewport)
  <2>1. PICK v \in Nat \ {0} : v = ViewportSide
    BY SideIsPositive
  <2>2. Area(WholeViewport) = v * v
    BY <2>1 DEF Area, WholeViewport, Rect
  <2>3. v * v \in Nat /\ v * v >= 1 * 1
    BY <2>1
  <2> QED
    BY <2>2, <2>3
<1>3. PICK X \in Int : X = (A * 1000 + V - 1) \div V
  BY <1>1, <1>2
<1>4. PICK m \in Nat \ {0} : m = Max({1, X})
  <2>1. Max({1, X}) = IF 1 >= X THEN 1 ELSE X
    BY <1>3, GreaterOfTwo
  <2> QED
    BY <1>3, <2>1
<1>5. PICK b \in Nat \ {0} : b = source_base_cost[c.source]
  <2>1. c.source \in Sources
    BY DEF Candidates
  <2> QED
    BY <2>1 DEF Sources, source_base_cost
<1>6. Cost(c) = b + m
  BY <1>1, <1>2, <1>3, <1>4, <1>5 DEF Cost
<1> QED
  BY <1>4, <1>5, <1>6

LEMMA ScoreIs ==
  ASSUME NEW c \in Candidates
  PROVE  score_candidate(c) \in Int
<1>1. PICK g \in Int, n \in Int, l \in Int : g = c.gain \div 25 /\ n = c.confidence \div 50 /\ l = c.relevance \div 25
  BY DEF Candidates
<1>2. PICK k \in Nat \ {0} : k = Cost(c)
  BY CostIs
<1>3. PICK z \in Int : z = g * n * l * 60000
  BY <1>1
<1>4. z \div k \in Int
  BY <1>2, <1>3
<1>5. score_candidate(c) = z \div k
  BY <1>1, <1>2, <1>3 DEF score_candidate
<1> QED
  BY <1>4, <1>5

LEMMA KeyIs ==
  ASSUME NEW c \in Candidates
  PROVE  Key(c) \in Keys(10)
<1>1. PICK s \in Int, k \in Int, r \in Int : s = -score_candidate(c) /\ k = Cost(c) /\ r = source_rank[c.source]
  <2>1. c.source \in Sources
    BY DEF Candidates
  <2>2. source_rank[c.source] \in Int
    BY <2>1 DEF Sources, source_rank
  <2>3. -score_candidate(c) \in Int
    BY ScoreIs
  <2>4. Cost(c) \in Int
    BY CostIs
  <2> QED
    BY <2>2, <2>3, <2>4
<1>2. PICK g \in Int, n \in Int, l \in Int : g = -c.gain /\ n = -c.confidence /\ l = -c.relevance
  BY DEF Candidates
<1>3. PICK x \in Int, y \in Int, w \in Int, h \in Int :
        x = c.rect.x /\ y = c.rect.y /\ w = c.rect.width /\ h = c.rect.height
  BY DEF Candidates, Rects
<1>4. Key(c) = <<s, g, n, l, k, r, x, y, w, h>>
  BY <1>1, <1>2, <1>3 DEF Key
<1>5. <<s, g, n, l, k, r, x, y, w, h>> \in [1 .. 10 -> Int]
  BY <1>1, <1>2, <1>3
<1> QED
  BY <1>4, <1>5 DEF Keys

\* Different candidates have different keys.
LEMMA KeysDiffer ==
  ASSUME NEW c \in Candidates, NEW d \in Candidates, Key(c) = Key(d)
  PROVE  c = d
<1>1. /\ Key(c)[2] = Key(d)[2] /\ Key(c)[3] = Key(d)[3] /\ Key(c)[4] = Key(d)[4]
      /\ Key(c)[6] = Key(d)[6] /\ Key(c)[7] = Key(d)[7] /\ Key(c)[8] = Key(d)[8]
      /\ Key(c)[9] = Key(d)[9] /\ Key(c)[10] = Key(d)[10]
  OBVIOUS
<1>2. ASSUME NEW e \in Candidates
      PROVE  /\ Key(e)[2] = -e.gain /\ Key(e)[3] = -e.confidence /\ Key(e)[4] = -e.relevance
             /\ Key(e)[6] = source_rank[e.source] /\ Key(e)[7] = e.rect.x /\ Key(e)[8] = e.rect.y
             /\ Key(e)[9] = e.rect.width /\ Key(e)[10] = e.rect.height
  BY DEF Key
<1>3. -c.gain = -d.gain /\ -c.confidence = -d.confidence /\ -c.relevance = -d.relevance
  BY <1>1, <1>2
<1>4. c.gain = d.gain /\ c.confidence = d.confidence /\ c.relevance = d.relevance
  BY <1>3 DEF Candidates
<1>5. source_rank[c.source] = source_rank[d.source]
  BY <1>1, <1>2
<1>6. c.source = d.source
  <2>1. c.source \in Sources /\ d.source \in Sources
    BY DEF Candidates
  <2>2. \A s, t \in Sources : source_rank[s] = source_rank[t] => s = t
    BY DEF Sources, source_rank
  <2> QED
    BY <1>5, <2>1, <2>2
<1>7. c.rect = d.rect
  <2>1. /\ c.rect.x = d.rect.x /\ c.rect.y = d.rect.y /\ c.rect.width = d.rect.width
        /\ c.rect.height = d.rect.height
    BY <1>1, <1>2
  <2>2. c.rect \in Rects /\ d.rect \in Rects
    BY DEF Candidates
  <2>3. \A q, r \in Rects : /\ q.x = r.x /\ q.y = r.y /\ q.width = r.width /\ q.height = r.height
                            => q = r
    BY DEF Rects
  <2> QED
    BY <2>1, <2>2, <2>3
<1> QED
  BY <1>4, <1>6, <1>7 DEF Candidates

\* The order of the candidates of a packet.
Better(candidates) == {p \in candidates \X candidates : Outranks(p[1], p[2])}

LEMMA BestIsFirst ==
  ASSUME NEW candidates \in SUBSET Candidates, IsFiniteSet(candidates)
  PROVE  RankedWell(BestFirst(candidates), candidates, Better(candidates))
<1> DEFINE key == [c \in candidates |-> Key(c)]
           O == {p \in candidates \X candidates : Smaller(key[p[1]], key[p[2]])}
<1>1. BestFirst(candidates) = Ranked(candidates, O)
  BY Zenon DEF BestFirst
<1>2. O = Better(candidates)
  BY DEF Better, Outranks
<1>3. \A c, d \in candidates : <<c, d>> \in Better(candidates) <=> Smaller(Key(c), Key(d))
  BY DEF Better, Outranks
<1>4. PICK n \in Nat : n = 10
  OBVIOUS
<1>5. \A c \in candidates : Key(c) \in Keys(n)
  BY <1>4, KeyIs
<1>6. /\ \A k \in Keys(n) : ~ Smaller(k, k)
      /\ \A k, l, m \in Keys(n) : Smaller(k, l) /\ Smaller(l, m) => Smaller(k, m)
      /\ \A k, l \in Keys(n) : k = l \/ Smaller(k, l) \/ Smaller(l, k)
  BY KeysAreOrdered
<1>7. \A c, d \in candidates : Key(c) = Key(d) => c = d
  BY KeysDiffer
<1>8. Orders(candidates, Better(candidates))
  <2>1. \A c \in candidates : <<c, c>> \notin Better(candidates)
    BY <1>3, <1>5, <1>6
  <2>2. \A c, d, e \in candidates : <<c, d>> \in Better(candidates) /\ <<d, e>> \in Better(candidates)
                                      => <<c, e>> \in Better(candidates)
    BY <1>3, <1>5, <1>6
  <2>3. \A c, d \in candidates : c = d \/ <<c, d>> \in Better(candidates) \/ <<d, c>> \in Better(candidates)
    BY <1>3, <1>5, <1>6, <1>7
  <2> QED
    BY <2>1, <2>2, <2>3 DEF Orders
<1> HIDE DEF O
<1> QED
  BY <1>1, <1>2, <1>8, RankedIs

-----------------------------------------------------------------------------
(* The images that are taken. *)

LEMMA RepetitionIsMutual ==
  ASSUME NEW a \in Rects, NEW b \in Rects
  PROVE  evidence_is_redundant(a, b) <=> evidence_is_redundant(b, a)
<1>1. /\ {Right(a), Right(b)} = {Right(b), Right(a)} /\ {a.x, b.x} = {b.x, a.x}
      /\ {Bottom(a), Bottom(b)} = {Bottom(b), Bottom(a)} /\ {a.y, b.y} = {b.y, a.y}
      /\ {Area(a), Area(b)} = {Area(b), Area(a)}
  OBVIOUS
<1>2. PICK w, h, s : /\ w = Min({Right(a), Right(b)}) - Max({a.x, b.x})
                     /\ h = Min({Bottom(a), Bottom(b)}) - Max({a.y, b.y})
                     /\ s = Min({Area(a), Area(b)})
  OBVIOUS
<1>3. evidence_is_redundant(a, b) <=> w > 0 /\ h > 0 /\ 100 * w * h >= 85 * s
  BY <1>2 DEF evidence_is_redundant
<1>4. /\ w = Min({Right(b), Right(a)}) - Max({b.x, a.x})
      /\ h = Min({Bottom(b), Bottom(a)}) - Max({b.y, a.y})
      /\ s = Min({Area(b), Area(a)})
  BY <1>1, <1>2
<1>5. evidence_is_redundant(b, a) <=> w > 0 /\ h > 0 /\ 100 * w * h >= 85 * s
  BY <1>4 DEF evidence_is_redundant
<1> QED
  BY <1>3, <1>5

\* The candidates are taken one after another.
Takes(f, s, n, budget) ==
  f = [k \in 0 .. n |-> IF k = 0 THEN {} ELSE Taken(f[k - 1], s[k], budget)]

LEMMA TakesExist ==
  ASSUME NEW s, NEW budget, NEW n \in Nat
  PROVE  \E f : Takes(f, s, n, budget)
<1> DEFINE T == {m \in Nat : ~ \E f : Takes(f, s, m, budget)}
<1>1. SUFFICES T = {}
  BY Zenon
<1>2. SUFFICES ASSUME T # {} PROVE FALSE
  OBVIOUS
<1>3. PICK m \in T : \A k \in T : m <= k
  <2>1. T \in SUBSET Nat
    OBVIOUS
  <2> QED
    BY <1>2, <2>1, LeastOfNaturals
<1>4. m \in Nat /\ ~ \E f : Takes(f, s, m, budget)
  OBVIOUS
<1>5. CASE m = 0
  <2> DEFINE f == [k \in 0 .. m |-> {}]
  <2>1. f = [k \in 0 .. m |-> IF k = 0 THEN {} ELSE Taken(f[k - 1], s[k], budget)]
    BY <1>5
  <2> QED
    BY <1>4, <2>1, Zenon DEF Takes
<1>6. CASE m # 0
  <2>1. m - 1 \in Nat /\ m - 1 \notin T
    BY <1>3, <1>4, <1>6
  <2>2. PICK g : Takes(g, s, m - 1, budget)
    BY <2>1, Zenon
  <2>3. \A k \in 0 .. m - 1 : g[k] = IF k = 0 THEN {} ELSE Taken(g[k - 1], s[k], budget)
    BY <2>2, Zenon DEF Takes
  <2> DEFINE f == [k \in 0 .. m |-> IF k = m THEN Taken(g[m - 1], s[m], budget) ELSE g[k]]
  <2>4. ASSUME NEW k \in 0 .. m
        PROVE  f[k] = IF k = 0 THEN {} ELSE Taken(f[k - 1], s[k], budget)
    <3>1. CASE k = m
      <4>1. k - 1 \in 0 .. m /\ k - 1 # m
        BY <1>4, <1>6, <3>1
      <4>2. f[k - 1] = g[m - 1]
        BY <3>1, <4>1
      <4>3. f[k] = Taken(g[m - 1], s[m], budget)
        BY <3>1
      <4> HIDE DEF f
      <4> QED
        BY <1>6, <3>1, <4>2, <4>3
    <3>2. CASE k = 0
      <4>1. f[k] = g[k] /\ k \in 0 .. m - 1
        BY <1>4, <1>6, <3>2
      <4>2. g[k] = {}
        BY <2>3, <3>2, <4>1
      <4> HIDE DEF f
      <4> QED
        BY <3>2, <4>1, <4>2
    <3>3. CASE k # m /\ k # 0
      <4>1. k \in 0 .. m - 1 /\ k - 1 \in 0 .. m /\ k - 1 # m
        BY <1>4, <3>3
      <4>2. f[k] = g[k] /\ f[k - 1] = g[k - 1]
        BY <3>3, <4>1
      <4>3. g[k] = Taken(g[k - 1], s[k], budget)
        BY <2>3, <3>3, <4>1
      <4> HIDE DEF f
      <4> QED
        BY <3>3, <4>2, <4>3
    <3> QED
      BY <3>1, <3>2, <3>3
  <2>5. f = [k \in 0 .. m |-> f[k]]
    OBVIOUS
  <2> HIDE DEF f
  <2>6. f = [k \in 0 .. m |-> IF k = 0 THEN {} ELSE Taken(f[k - 1], s[k], budget)]
    BY <2>4, <2>5
  <2> QED
    BY <1>4, <2>6, Zenon DEF Takes
<1> QED
  BY <1>5, <1>6

\* What is chosen of the first k of a ranked sequence s.
ChosenWell(S, s, k, budget, O) ==
  /\ IsFiniteSet(S) /\ Cardinality(S) \in Nat /\ Cardinality(S) <= budget
  /\ \A c \in S : \E i \in 1 .. k : s[i] = c
  /\ \A c, d \in S : c # d => ~ evidence_is_redundant(c.rect, d.rect)
  /\ \A j \in 1 .. k :
       \/ s[j] \in S
       \/ Cardinality(S) = budget /\ \A d \in S : <<d, s[j]>> \in O
       \/ \E d \in S : <<d, s[j]>> \in O /\ evidence_is_redundant(d.rect, s[j].rect)

LEMMA TakenWell ==
  ASSUME NEW C \in SUBSET Candidates, NEW O, NEW s, RankedWell(s, C, O), NEW budget \in Nat,
         NEW k \in 1 .. Cardinality(C), NEW S, ChosenWell(S, s, k - 1, budget, O)
  PROVE  ChosenWell(Taken(S, s[k], budget), s, k, budget, O)
<1>1. PICK n \in Nat : n = Cardinality(C) /\ k \in 1 .. n
  BY DEF RankedWell
<1>2. /\ \A i \in 1 .. n : s[i] \in C
      /\ \A i, j \in 1 .. n : i < j => <<s[i], s[j]>> \in O
  BY <1>1 DEF RankedWell
<1>3. /\ IsFiniteSet(S) /\ Cardinality(S) \in Nat /\ Cardinality(S) <= budget
      /\ \A c \in S : \E i \in 1 .. k - 1 : s[i] = c
      /\ \A c, d \in S : c # d => ~ evidence_is_redundant(c.rect, d.rect)
      /\ \A j \in 1 .. k - 1 :
           \/ s[j] \in S
           \/ Cardinality(S) = budget /\ \A d \in S : <<d, s[j]>> \in O
           \/ \E d \in S : <<d, s[j]>> \in O /\ evidence_is_redundant(d.rect, s[j].rect)
  BY DEF ChosenWell
<1>4. \A d \in S : <<d, s[k]>> \in O /\ d \in C
  <2> TAKE d \in S
  <2>1. PICK i \in 1 .. k - 1 : s[i] = d
    BY <1>3
  <2>2. i \in 1 .. n /\ i < k
    BY <1>1, <2>1
  <2> QED
    BY <1>1, <1>2, <2>1, <2>2
<1>5. s[k] \in C /\ \A i \in 1 .. k - 1 : i \in 1 .. k
  BY <1>1, <1>2
<1>6. \A j \in 1 .. k : j = k \/ j \in 1 .. k - 1
  BY <1>1
<1>7. \A c \in S : \E i \in 1 .. k : s[i] = c
  BY <1>3, <1>5
<1>8. CASE Cardinality(S) >= budget
  <2>1. Taken(S, s[k], budget) = S
    BY <1>8 DEF Taken
  <2>2. Cardinality(S) = budget
    BY <1>3, <1>8
  <2>3. \A j \in 1 .. k :
          \/ s[j] \in S
          \/ Cardinality(S) = budget /\ \A d \in S : <<d, s[j]>> \in O
          \/ \E d \in S : <<d, s[j]>> \in O /\ evidence_is_redundant(d.rect, s[j].rect)
    BY <1>3, <1>4, <1>6, <2>2
  <2> QED
    BY <1>3, <1>7, <2>1, <2>3, Zenon DEF ChosenWell
<1>9. CASE \E d \in S : evidence_is_redundant(d.rect, s[k].rect)
  <2>1. Taken(S, s[k], budget) = S
    BY <1>9, Zenon DEF Taken
  <2>2. \E d \in S : <<d, s[k]>> \in O /\ evidence_is_redundant(d.rect, s[k].rect)
    BY <1>4, <1>9
  <2>3. \A j \in 1 .. k :
          \/ s[j] \in S
          \/ Cardinality(S) = budget /\ \A d \in S : <<d, s[j]>> \in O
          \/ \E d \in S : <<d, s[j]>> \in O /\ evidence_is_redundant(d.rect, s[j].rect)
    BY <1>3, <1>6, <2>2
  <2> QED
    BY <1>3, <1>7, <2>1, <2>3, Zenon DEF ChosenWell
<1>10. CASE ~ (Cardinality(S) >= budget) /\ ~ \E d \in S : evidence_is_redundant(d.rect, s[k].rect)
  <2>1. PICK Q : Q = S \union {s[k]}
    OBVIOUS
  <2>2. Taken(S, s[k], budget) = Q
    BY <1>10, <2>1, Zenon DEF Taken
  <2>3. IsFiniteSet(Q) /\ Cardinality(Q) \in Nat /\ Cardinality(Q) <= budget
    <3>1. IsFiniteSet(Q) /\ (Cardinality(Q) = Cardinality(S) \/ Cardinality(Q) = Cardinality(S) + 1)
      BY <1>3, <2>1, FS_AddElement
    <3>2. Cardinality(S) < budget
      BY <1>3, <1>10
    <3> QED
      BY <1>3, <3>1, <3>2
  <2>4. \A c \in Q : \E i \in 1 .. k : s[i] = c
    <3>1. k \in 1 .. k
      BY <1>1
    <3> QED
      BY <1>7, <2>1, <3>1
  <2>5. \A c, d \in Q : c # d => ~ evidence_is_redundant(c.rect, d.rect)
    <3>1. \A d \in S : ~ evidence_is_redundant(d.rect, s[k].rect)
      BY <1>10
    <3>2. \A d \in S : ~ evidence_is_redundant(s[k].rect, d.rect)
      <4> TAKE d \in S
      <4>1. d.rect \in Rects /\ s[k].rect \in Rects
        BY <1>4, <1>5 DEF Candidates
      <4> QED
        BY <3>1, <4>1, RepetitionIsMutual
    <3> QED
      BY <1>3, <2>1, <3>1, <3>2, Zenon
  <2>6. ASSUME NEW j \in 1 .. k
        PROVE  \/ s[j] \in Q
               \/ \E d \in Q : <<d, s[j]>> \in O /\ evidence_is_redundant(d.rect, s[j].rect)
    <3>1. CASE j = k
      BY <2>1, <3>1
    <3>2. CASE j # k
      <4>1. j \in 1 .. k - 1
        BY <1>6, <3>2
      <4>2. Cardinality(S) # budget
        BY <1>3, <1>10
      <4>3. \/ s[j] \in S
            \/ \E d \in S : <<d, s[j]>> \in O /\ evidence_is_redundant(d.rect, s[j].rect)
        BY <1>3, <4>1, <4>2
      <4> QED
        BY <2>1, <4>3
    <3> QED
      BY <3>1, <3>2
  <2> QED
    BY <2>2, <2>3, <2>4, <2>5, <2>6, Zenon DEF ChosenWell
<1> QED
  BY <1>8, <1>9, <1>10

LEMMA AllTakenWell ==
  ASSUME NEW C \in SUBSET Candidates, NEW O, NEW s, RankedWell(s, C, O), NEW budget \in Nat,
         NEW n \in Nat, n = Cardinality(C), NEW f, Takes(f, s, n, budget)
  PROVE  ChosenWell(f[n], s, n, budget, O)
<1> DEFINE Ok(k) == ChosenWell(f[k], s, k, budget, O)
           T == {k \in 0 .. n : ~ Ok(k)}
<1>1. f[0] = {} /\ \A k \in 1 .. n : f[k] = Taken(f[k - 1], s[k], budget)
  <2>1. \A k \in 0 .. n : f[k] = IF k = 0 THEN {} ELSE Taken(f[k - 1], s[k], budget)
    BY Zenon DEF Takes
  <2>2. 0 \in 0 .. n /\ \A k \in 1 .. n : k \in 0 .. n /\ k # 0
    OBVIOUS
  <2> QED
    BY <2>1, <2>2, Zenon
<1>2. SUFFICES T = {}
  <2>1. n \in 0 .. n
    OBVIOUS
  <2> QED
    BY <1>2, <2>1
<1>3. SUFFICES ASSUME T # {} PROVE FALSE
  OBVIOUS
<1>4. PICK m \in T : \A k \in T : m <= k
  <2>1. T \in SUBSET Nat
    OBVIOUS
  <2> QED
    BY <1>3, <2>1, LeastOfNaturals
<1>5. m \in 0 .. n /\ ~ Ok(m)
  OBVIOUS
<1>6. Ok(0)
  <2>1. IsFiniteSet({}) /\ Cardinality({}) = 0
    BY FS_EmptySet
  <2>2. 1 .. 0 = {}
    OBVIOUS
  <2> QED
    BY <1>1, <2>1, <2>2 DEF ChosenWell
<1>7. \A k \in 0 .. n : k \in T \/ Ok(k)
  BY Zenon
<1> HIDE DEF T, Ok
<1>8. m - 1 \in 0 .. n /\ m \in 1 .. n
  BY <1>5, <1>6
<1>9. m - 1 \notin T
  BY <1>4, <1>8
<1>10. ChosenWell(f[m - 1], s, m - 1, budget, O)
  BY <1>7, <1>8, <1>9 DEF Ok
<1>11. ChosenWell(Taken(f[m - 1], s[m], budget), s, m, budget, O)
  BY <1>8, <1>10, TakenWell
<1>12. f[m] = Taken(f[m - 1], s[m], budget)
  BY <1>1, <1>8
<1> QED
  BY <1>5, <1>11, <1>12 DEF Ok

\* A selection of a packet.
SelectedWell(choice, candidates, budget) ==
  /\ choice.selected \subseteq candidates
  /\ Cardinality(choice.selected) <= budget
  /\ \A c, d \in choice.selected : c # d => ~ evidence_is_redundant(c.rect, d.rect)
  /\ \A c \in candidates \ choice.selected :
       \/ Cardinality(choice.selected) = budget /\ \A d \in choice.selected : Outranks(d, c)
       \/ \E d \in choice.selected : Outranks(d, c) /\ evidence_is_redundant(d.rect, c.rect)
  /\ choice.dropped > 0 \/ choice.selected = candidates

LEMMA SelectionIs ==
  ASSUME NEW candidates \in SUBSET Candidates, IsFiniteSet(candidates), NEW budget \in Nat
  PROVE  SelectedWell(select_visual_packet(candidates, budget), candidates, budget)
<1> DEFINE ranked == BestFirst(candidates)
           F == CHOOSE f : f = [k \in 0 .. Len(ranked) |->
                  IF k = 0 THEN {} ELSE Taken(f[k - 1], ranked[k], budget)]
           S == F[Len(ranked)]
<1>1. select_visual_packet(candidates, budget) =
        [selected |-> S, dropped |-> Cardinality(candidates) - Cardinality(S)]
  BY DEF select_visual_packet
<1>2. RankedWell(ranked, candidates, Better(candidates))
  BY BestIsFirst
<1> HIDE DEF ranked
<1>3. PICK n \in Nat : n = Cardinality(candidates) /\ n = Len(ranked)
  BY <1>2 DEF RankedWell
<1>4. Takes(F, ranked, Len(ranked), budget)
  <2>1. \E f : Takes(f, ranked, Len(ranked), budget)
    BY <1>3, TakesExist
  <2>2. \E f : f = [k \in 0 .. Len(ranked) |-> IF k = 0 THEN {} ELSE Taken(f[k - 1], ranked[k], budget)]
    BY <2>1, Zenon DEF Takes
  <2> QED
    BY <2>2, Zenon DEF Takes
<1> HIDE DEF F
<1>5. ChosenWell(S, ranked, n, budget, Better(candidates))
  BY <1>2, <1>3, <1>4, AllTakenWell
<1> HIDE DEF S
<1>6. PICK choice : /\ choice = select_visual_packet(candidates, budget) /\ choice.selected = S
                    /\ choice.dropped = Cardinality(candidates) - Cardinality(S)
  BY <1>1
<1>7. S \subseteq candidates
  BY <1>2, <1>3, <1>5 DEF ChosenWell, RankedWell
<1>8. \A c, d : <<d, c>> \in Better(candidates) => Outranks(d, c)
  BY DEF Better
<1>9. ASSUME NEW c \in candidates \ S
      PROVE  \/ Cardinality(S) = budget /\ \A d \in S : Outranks(d, c)
             \/ \E d \in S : Outranks(d, c) /\ evidence_is_redundant(d.rect, c.rect)
  <2>1. PICK j \in 1 .. n : ranked[j] = c
    BY <1>2, <1>3 DEF RankedWell
  <2>2. \/ Cardinality(S) = budget /\ \A d \in S : <<d, c>> \in Better(candidates)
        \/ \E d \in S : <<d, c>> \in Better(candidates) /\ evidence_is_redundant(d.rect, c.rect)
    <3>1. \/ ranked[j] \in S
          \/ Cardinality(S) = budget /\ \A d \in S : <<d, ranked[j]>> \in Better(candidates)
          \/ \E d \in S : <<d, ranked[j]>> \in Better(candidates)
                         /\ evidence_is_redundant(d.rect, ranked[j].rect)
      BY <1>5, <2>1, Zenon DEF ChosenWell
    <3> QED
      BY <2>1, <3>1, c \notin S, Zenon
  <2> QED
    BY <1>8, <2>2
<1>10. choice.dropped > 0 \/ S = candidates
  <2>1. Cardinality(S) \in Nat
    BY <1>5 DEF ChosenWell
  <2>2. /\ Cardinality(S) <= Cardinality(candidates)
        /\ (Cardinality(candidates) = Cardinality(S) => candidates = S)
    BY <1>7, FS_Subset
  <2> QED
    <3>1. PICK m \in Nat : m = Cardinality(S)
      BY <2>1
    <3>2. m <= n /\ choice.dropped = n - m
      BY <1>3, <1>6, <2>2, <3>1
    <3>3. choice.dropped > 0 \/ m = n
      BY <3>1, <3>2
    <3> QED
      BY <1>3, <2>2, <3>1, <3>3
<1>11. /\ Cardinality(S) <= budget
       /\ \A c, d \in S : c # d => ~ evidence_is_redundant(c.rect, d.rect)
  BY <1>5 DEF ChosenWell
<1>12. SelectedWell(choice, candidates, budget)
  BY <1>6, <1>7, <1>9, <1>10, <1>11 DEF SelectedWell
<1> QED
  BY <1>6, <1>12

\* One packet: what PacketIsWellChosen and ChangesAreShownOrCounted say of it.
PacketSound(k) ==
  /\ k.kind = "packet"
  /\ k.change \subseteq k.shown \/ k.dropped > 0
  /\ Cardinality(k.selected) <= k.budget
  /\ \A c, d \in k.selected : c # d => ~ evidence_is_redundant(c.rect, d.rect)
  /\ \A c \in k.candidates \ k.selected :
       \/ Cardinality(k.selected) = k.budget /\ \A d \in k.selected : Outranks(d, c)
       \/ \E d \in k.selected : Outranks(d, c) /\ evidence_is_redundant(d.rect, c.rect)

LEMMA PacketsAreSound ==
  ASSUME NEW k \in Packets
  PROVE  PacketSound(k)
<1>1. PICK change \in PageChanges, budget \in ImageBudgets,
           path \in {<<>>} \union {p \in TreePaths : PacketTargets(p) # <<>>} :
        k = PacketOf(change, path, budget)
  BY DEF Packets
<1>2. PICK plan : plan = plan_changed_css_regions(change) /\ PlanShows(plan, change)
  BY PlannedShows
<1>3. PICK targets \in Seq(Targets) : targets = PacketTargets(path)
  <2>1. path \in TreePaths \union {<<>>}
    BY <1>1
  <2> QED
    BY <2>1, PacketTargetsAre
<1>4. PICK C \in SUBSET Candidates :
        /\ C = visual_packet_candidates(plan, targets) /\ IsFiniteSet(C)
        /\ \A p \in change : \E c \in C : p \in Shown(c)
  BY <1>2, <1>3, CandidatesAre
<1>5. PICK choice : choice = select_visual_packet(C, budget) /\ SelectedWell(choice, C, budget)
  <2>1. budget \in Nat
    BY <1>1, VisualAssumption
  <2> QED
    BY <1>4, <2>1, SelectionIs
<1>6. k = [kind |-> "packet", change |-> change, candidates |-> C, budget |-> budget,
           selected |-> choice.selected, dropped |-> choice.dropped, committed |-> budget > 0,
           shown |-> UNION {Shown(c) : c \in choice.selected}]
  BY <1>1, <1>2, <1>3, <1>4, <1>5, Zenon DEF PacketOf
<1>7. /\ k.kind = "packet" /\ k.change = change /\ k.candidates = C /\ k.budget = budget
      /\ k.selected = choice.selected /\ k.dropped = choice.dropped
      /\ k.shown = UNION {Shown(c) : c \in choice.selected}
  BY <1>6
<1>8. k.change \subseteq k.shown \/ k.dropped > 0
  <2>1. SUFFICES ASSUME choice.selected = C PROVE change \subseteq UNION {Shown(c) : c \in C}
    BY <1>5, <1>7 DEF SelectedWell
  <2> QED
    BY <1>4
<1> QED
  BY <1>5, <1>7, <1>8 DEF PacketSound, SelectedWell

-----------------------------------------------------------------------------
(* The bytes of some entries of a cache. *)

SumOver(e, S) == MapThenSumSet(LAMBDA s : e[s].bytes, S)
First(s) == CHOOSE x \in s : TRUE
Adds(g, e, S) ==
  g = [s \in SUBSET S |-> IF s = {} THEN 0 ELSE e[First(s)].bytes + g[s \ {First(s)}]]
Sized(e, S) == IsFiniteSet(S) /\ \A s \in S : e[s].bytes \in Nat

LEMMA SumOverIs ==
  ASSUME NEW e, NEW S
  PROVE  SumOver(e, S) = (CHOOSE g : Adds(g, e, S))[S]
BY Zenon DEF SumOver, MapThenSumSet, MapThenFoldSet, Adds, First

\* A set without one of its elements.
LEMMA OneFewer ==
  ASSUME NEW S, IsFiniteSet(S), NEW x \in S
  PROVE  /\ IsFiniteSet(S \ {x}) /\ Cardinality(S) \in Nat /\ Cardinality(S \ {x}) \in Nat
         /\ Cardinality(S \ {x}) = Cardinality(S) - 1
<1>1. IsFiniteSet(S \ {x}) /\ Cardinality(S \ {x}) = Cardinality(S) - 1
  BY FS_RemoveElement
<1> QED
  BY <1>1, FS_CardinalityType

LEMMA FirstIn ==
  ASSUME NEW s, s # {}
  PROVE  First(s) \in s
BY DEF First

LEMMA AddsAt ==
  ASSUME NEW g, NEW e, NEW S, Adds(g, e, S), NEW s \in SUBSET S
  PROVE  /\ s = {} => g[s] = 0
         /\ s # {} => g[s] = e[First(s)].bytes + g[s \ {First(s)}]
<1>1. g[s] = IF s = {} THEN 0 ELSE e[First(s)].bytes + g[s \ {First(s)}]
  BY Zenon DEF Adds
<1> QED
  BY <1>1

\* What is added up depends on the bytes of the elements alone.
Agrees(e, f, u) == \A x \in u : e[x].bytes = f[x].bytes /\ e[x].bytes \in Nat
AddsAlike(u) ==
  \A e, f, S, T, g, h :
    Adds(g, e, S) /\ Adds(h, f, T) /\ u \subseteq S /\ u \subseteq T /\ Agrees(e, f, u)
      => g[u] = h[u] /\ g[u] \in Nat

LEMMA AddsAgree ==
  ASSUME NEW u, IsFiniteSet(u)
  PROVE  AddsAlike(u)
<1> DEFINE T == {m \in Nat : \E v : IsFiniteSet(v) /\ Cardinality(v) = m /\ ~ AddsAlike(v)}
<1>1. SUFFICES ASSUME T # {} PROVE FALSE
  <2>1. ASSUME ~ AddsAlike(u) PROVE Cardinality(u) \in T
    BY <2>1, FS_CardinalityType
  <2> QED
    BY <2>1
<1>2. PICK m \in T : \A k \in T : m <= k
  <2>1. T \in SUBSET Nat
    OBVIOUS
  <2> QED
    BY <1>1, <2>1, LeastOfNaturals
<1>3. PICK v : m \in Nat /\ IsFiniteSet(v) /\ Cardinality(v) = m /\ ~ AddsAlike(v)
  OBVIOUS
<1>4. \A w : IsFiniteSet(w) /\ Cardinality(w) \in Nat /\ Cardinality(w) < m => AddsAlike(w)
  BY <1>2, <1>3
<1> HIDE DEF T
<1>5. PICK e, f, S, R, g, h :
        /\ Adds(g, e, S) /\ Adds(h, f, R) /\ v \subseteq S /\ v \subseteq R /\ Agrees(e, f, v)
        /\ ~ (g[v] = h[v] /\ g[v] \in Nat)
  BY <1>3, Zenon DEF AddsAlike
<1>6. v # {}
  BY <1>5, AddsAt
<1>7. PICK x \in v : x = First(v)
  BY <1>6, FirstIn
<1>8. g[v] = e[x].bytes + g[v \ {x}] /\ h[v] = f[x].bytes + h[v \ {x}]
  <2>1. v \in SUBSET S /\ v \in SUBSET R /\ Adds(g, e, S) /\ Adds(h, f, R)
    BY <1>5
  <2>2. g[v] = e[First(v)].bytes + g[v \ {First(v)}]
    BY <1>6, <2>1, AddsAt
  <2>3. h[v] = f[First(v)].bytes + h[v \ {First(v)}]
    BY <1>6, <2>1, AddsAt
  <2> QED
    BY <1>7, <2>2, <2>3
<1>9. AddsAlike(v \ {x})
  <2>1. /\ IsFiniteSet(v \ {x}) /\ Cardinality(v) \in Nat /\ Cardinality(v \ {x}) \in Nat
        /\ Cardinality(v \ {x}) = Cardinality(v) - 1
    BY <1>3, OneFewer
  <2> QED
    BY <1>3, <1>4, <2>1
<1>10. g[v \ {x}] = h[v \ {x}] /\ g[v \ {x}] \in Nat
  <2>1. v \ {x} \subseteq S /\ v \ {x} \subseteq R /\ Agrees(e, f, v \ {x})
    BY <1>5 DEF Agrees
  <2> QED
    BY <1>5, <1>9, <2>1 DEF AddsAlike
<1>11. e[x].bytes = f[x].bytes /\ e[x].bytes \in Nat
  BY <1>5 DEF Agrees
<1> QED
  BY <1>5, <1>8, <1>10, <1>11

LEMMA AddsSame ==
  ASSUME NEW e, NEW f, NEW S, NEW T, NEW g, NEW h, NEW u, IsFiniteSet(u),
         Adds(g, e, S), Adds(h, f, T), u \subseteq S, u \subseteq T, Agrees(e, f, u)
  PROVE  g[u] = h[u] /\ g[u] \in Nat
BY AddsAgree DEF AddsAlike

LEMMA AddsExist ==
  ASSUME NEW S, NEW e, Sized(e, S)
  PROVE  \E g : Adds(g, e, S)
<1> DEFINE T == {m \in Nat : \E v : Sized(e, v) /\ Cardinality(v) = m /\ ~ \E g : Adds(g, e, v)}
<1>1. SUFFICES ASSUME T # {} PROVE FALSE
  <2>1. ASSUME ~ \E g : Adds(g, e, S) PROVE Cardinality(S) \in T
    BY <2>1, FS_CardinalityType DEF Sized
  <2> QED
    BY <2>1
<1>2. PICK m \in T : \A k \in T : m <= k
  <2>1. T \in SUBSET Nat
    OBVIOUS
  <2> QED
    BY <1>1, <2>1, LeastOfNaturals
<1>3. PICK v : m \in Nat /\ Sized(e, v) /\ Cardinality(v) = m /\ ~ \E g : Adds(g, e, v)
  OBVIOUS
<1>4. \A w : Sized(e, w) /\ Cardinality(w) \in Nat /\ Cardinality(w) < m => \E g : Adds(g, e, w)
  BY <1>2, <1>3
<1> HIDE DEF T
<1> DEFINE G(w) == CHOOSE g : Adds(g, e, w)
           Rest(s) == s \ {First(s)}
           Value(s) == IF s = {} THEN 0 ELSE e[First(s)].bytes + G(Rest(s))[Rest(s)]
<1>5. ASSUME NEW s \in SUBSET v, s # {}
      PROVE  /\ First(s) \in s /\ Rest(s) \in SUBSET v /\ Sized(e, Rest(s))
             /\ Adds(G(Rest(s)), e, Rest(s))
  <2>1. PICK x \in s : x = First(s)
    BY <1>5, FirstIn
  <2>2. IsFiniteSet(s) /\ Cardinality(s) <= m
    BY <1>3, FS_Subset DEF Sized
  <2>3. /\ IsFiniteSet(s \ {x}) /\ Cardinality(s) \in Nat /\ Cardinality(s \ {x}) \in Nat
        /\ Cardinality(s \ {x}) = Cardinality(s) - 1
    BY <2>2, OneFewer
  <2>4. Sized(e, s \ {x})
    BY <1>3, <2>3 DEF Sized
  <2>5. \E g : Adds(g, e, s \ {x})
    BY <1>3, <1>4, <2>2, <2>3, <2>4
  <2>6. Adds(G(s \ {x}), e, s \ {x})
    BY <2>5
  <2>7. Rest(s) = s \ {x}
    BY <2>1
  <2> QED
    BY <2>1, <2>4, <2>6, <2>7
<1>6. ASSUME NEW s \in SUBSET v, s # {}
      PROVE  Value(Rest(s)) = G(Rest(s))[Rest(s)]
  <2>1. PICK r \in SUBSET v : r = Rest(s) /\ Sized(e, r) /\ Adds(G(r), e, r)
    BY <1>5, <1>6
  <2>2. CASE r = {}
    <3>1. G(r)[r] = 0
      BY <2>1, <2>2, AddsAt
    <3> QED
      BY <2>1, <2>2, <3>1
  <2>3. CASE r # {}
    <3>1. PICK q : q = Rest(r) /\ q \in SUBSET v /\ Sized(e, q) /\ Adds(G(q), e, q) /\ First(r) \in r
      BY <1>5, <2>3
    <3>2. PICK p, w : p = G(r) /\ w = G(q) /\ Adds(p, e, r) /\ Adds(w, e, q)
      BY <2>1, <3>1
    <3>3. AddsAlike(q)
      BY <3>1, AddsAgree DEF Sized
    <3>4. Agrees(e, e, q) /\ q \subseteq r /\ q = r \ {First(r)}
      BY <3>1 DEF Sized, Agrees
    <3>5. G(r)[r] = e[First(r)].bytes + G(r)[q] /\ G(r)[q] = G(q)[q]
      <4> HIDE DEF G
      <4>0. r \in SUBSET r
        OBVIOUS
      <4>1. p[r] = e[First(r)].bytes + p[r \ {First(r)}]
        BY <2>3, <3>2, <4>0, AddsAt
      <4>2. p[q] = w[q]
        <5>1. q \subseteq r /\ q \subseteq q /\ IsFiniteSet(q)
          BY <3>1, <3>4 DEF Sized
        <5> QED
          BY <3>2, <3>4, <5>1, AddsSame
      <4> QED
        BY <3>2, <3>4, <4>1, <4>2
    <3>6. Value(r) = e[First(r)].bytes + G(q)[q]
      BY <2>3, <3>1
    <3> QED
      BY <2>1, <3>5, <3>6
  <2> QED
    BY <2>2, <2>3
<1>7. PICK h : h = [s \in SUBSET v |-> Value(s)]
  OBVIOUS
<1>8. ASSUME NEW s \in SUBSET v
      PROVE  h[s] = IF s = {} THEN 0 ELSE e[First(s)].bytes + h[Rest(s)]
  <2>1. CASE s = {}
    BY <1>7, <2>1
  <2>2. CASE s # {}
    <3>1. Rest(s) \in SUBSET v
      BY <1>5, <2>2
    <3>2. h[Rest(s)] = Value(Rest(s)) /\ h[s] = Value(s)
      BY <1>7, <3>1, Zenon
    <3>3. Value(s) = e[First(s)].bytes + G(Rest(s))[Rest(s)]
      BY <2>2
    <3>4. Value(Rest(s)) = G(Rest(s))[Rest(s)]
      BY <1>6, <2>2
    <3> HIDE DEF Value, G
    <3> QED
      BY <2>2, <3>2, <3>3, <3>4
  <2> QED
    BY <2>1, <2>2
<1>9. Adds(h, e, v)
  <2>1. h = [s \in SUBSET v |-> h[s]]
    <3> HIDE DEF Value
    <3> QED
      BY <1>7
  <2>2. \A s \in SUBSET v : h[s] = IF s = {} THEN 0 ELSE e[First(s)].bytes + h[s \ {First(s)}]
    BY <1>8
  <2> QED
    BY <2>1, <2>2, Zenon DEF Adds
<1> QED
  BY <1>3, <1>9

\* No bytes for nothing; the sum depends on the bytes alone, and any entry may be
\* taken first.
LEMMA SumOfNone ==
  ASSUME NEW e
  PROVE  SumOver(e, {}) = 0
<1>1. Sized(e, {})
  BY FS_EmptySet DEF Sized
<1>2. PICK g : g = (CHOOSE h : Adds(h, e, {})) /\ Adds(g, e, {})
  BY <1>1, AddsExist, Zenon
<1>3. g[{}] = 0
  BY <1>2, AddsAt
<1> QED
  BY <1>2, <1>3, SumOverIs, Zenon

LEMMA SumsAgree ==
  ASSUME NEW e, NEW f, NEW S, IsFiniteSet(S), Agrees(e, f, S)
  PROVE  SumOver(e, S) = SumOver(f, S) /\ SumOver(e, S) \in Nat
<1>1. Sized(e, S) /\ Sized(f, S)
  BY DEF Sized, Agrees
<1>2. PICK g : g = (CHOOSE h : Adds(h, e, S)) /\ Adds(g, e, S)
  BY <1>1, AddsExist, Zenon
<1>3. PICK h : h = (CHOOSE g1 : Adds(g1, f, S)) /\ Adds(h, f, S)
  BY <1>1, AddsExist, Zenon
<1>4. g[S] = h[S] /\ g[S] \in Nat
  <2>1. S \subseteq S
    OBVIOUS
  <2> QED
    BY <1>2, <1>3, <2>1, AddsSame
<1>5. SumOver(e, S) = g[S] /\ SumOver(f, S) = h[S]
  BY <1>2, <1>3, SumOverIs, Zenon
<1> QED
  BY <1>4, <1>5

LEMMA SumOfFirst ==
  ASSUME NEW e, NEW S, Sized(e, S), S # {}
  PROVE  SumOver(e, S) = e[First(S)].bytes + SumOver(e, S \ {First(S)})
<1>1. PICK x \in S : x = First(S)
  BY FirstIn
<1>2. PICK R : R = S \ {x}
  OBVIOUS
<1>3. Sized(e, R) /\ R \subseteq S
  BY <1>1, <1>2, OneFewer DEF Sized
<1>4. PICK g : g = (CHOOSE h : Adds(h, e, S)) /\ Adds(g, e, S)
  BY AddsExist, Zenon
<1>5. PICK h : h = (CHOOSE g1 : Adds(g1, e, R)) /\ Adds(h, e, R)
  BY <1>3, AddsExist, Zenon
<1>6. g[S] = e[x].bytes + g[R]
  BY <1>1, <1>2, <1>4, AddsAt
<1>7. IsFiniteSet(R) /\ Agrees(e, e, R)
  BY <1>3 DEF Sized, Agrees
<1>8. AddsAlike(R)
  BY <1>7, AddsAgree
<1>9. g[R] = h[R]
  BY <1>3, <1>4, <1>5, <1>7, <1>8, Zenon DEF AddsAlike
<1>10. SumOver(e, S) = g[S] /\ SumOver(e, R) = h[R]
  BY <1>4, <1>5, SumOverIs, Zenon
<1> QED
  BY <1>1, <1>2, <1>6, <1>9, <1>10

SumsInAnyOrder(e, S) == \A x \in S : SumOver(e, S) = e[x].bytes + SumOver(e, S \ {x})

LEMMA SumOfOne ==
  ASSUME NEW e, NEW S, Sized(e, S)
  PROVE  SumsInAnyOrder(e, S)
<1> DEFINE T == {m \in Nat : \E v : Sized(e, v) /\ Cardinality(v) = m /\ ~ SumsInAnyOrder(e, v)}
<1>1. SUFFICES ASSUME T # {} PROVE FALSE
  <2>1. ASSUME ~ SumsInAnyOrder(e, S) PROVE Cardinality(S) \in T
    BY <2>1, FS_CardinalityType DEF Sized
  <2> QED
    BY <2>1
<1>2. PICK m \in T : \A k \in T : m <= k
  <2>1. T \in SUBSET Nat
    OBVIOUS
  <2> QED
    BY <1>1, <2>1, LeastOfNaturals
<1>3. PICK v : m \in Nat /\ Sized(e, v) /\ Cardinality(v) = m /\ ~ SumsInAnyOrder(e, v)
  OBVIOUS
<1>4. \A w : Sized(e, w) /\ Cardinality(w) \in Nat /\ Cardinality(w) < m => SumsInAnyOrder(e, w)
  BY <1>2, <1>3
<1> HIDE DEF T
<1>5. PICK x \in v : SumOver(e, v) # e[x].bytes + SumOver(e, v \ {x})
  BY <1>3 DEF SumsInAnyOrder
<1>6. PICK y \in v : y = First(v) /\ SumOver(e, v) = e[y].bytes + SumOver(e, v \ {y})
  <2>1. v # {}
    OBVIOUS
  <2> QED
    BY <1>3, <2>1, FirstIn, SumOfFirst
<1>7. ASSUME NEW z \in v PROVE Sized(e, v \ {z}) /\ SumsInAnyOrder(e, v \ {z})
  <2>1. /\ IsFiniteSet(v \ {z}) /\ Cardinality(v) \in Nat /\ Cardinality(v \ {z}) \in Nat
        /\ Cardinality(v \ {z}) = Cardinality(v) - 1
    BY <1>3, OneFewer DEF Sized
  <2>2. Sized(e, v \ {z})
    BY <1>3, <2>1 DEF Sized
  <2> QED
    BY <1>3, <1>4, <2>1, <2>2
<1>8. x # y
  BY <1>5, <1>6
<1>9. PICK r : r = (v \ {y}) \ {x} /\ r = (v \ {x}) \ {y}
  OBVIOUS
<1>10. SumOver(e, v \ {y}) = e[x].bytes + SumOver(e, r)
  <2>1. x \in v \ {y}
    BY <1>8
  <2> QED
    BY <1>7, <1>9, <2>1, Zenon DEF SumsInAnyOrder
<1>11. SumOver(e, v \ {x}) = e[y].bytes + SumOver(e, r)
  <2>1. y \in v \ {x}
    BY <1>8
  <2> QED
    BY <1>7, <1>9, <2>1, Zenon DEF SumsInAnyOrder
<1>12. SumOver(e, r) \in Nat /\ e[x].bytes \in Nat /\ e[y].bytes \in Nat
  <2>1. Sized(e, v \ {y})
    BY <1>7
  <2>2. IsFiniteSet(r) /\ Agrees(e, e, r)
    <3>1. r \subseteq v
      BY <1>9
    <3> QED
      BY <1>3, <3>1, FS_Subset DEF Sized, Agrees
  <2> QED
    BY <1>3, <2>2, SumsAgree DEF Sized
<1> QED
  BY <1>5, <1>6, <1>10, <1>11, <1>12

-----------------------------------------------------------------------------
(* The eviction of the oldest. *)

\* The entries e of the sessions O by the age of their touch, the youngest of
\* them once k are gone, and what a cache then holds beside the entry of s.
Aged(e, O) == {p \in O \X O : e[p[1]].touched < e[p[2]].touched}
Young(e, O, k) == {t \in O : Place(O, Aged(e, O), t) >= k}
Fits(e, O, b, k) ==
  SumOver(e, Young(e, O, k)) + b <= BaselineBudget /\ Cardinality(Young(e, O, k)) < BaselineEntries
FitTurns(e, O, b) == {k \in 0 .. Cardinality(O) : Fits(e, O, b, k)}
LeftOf(e, O, s, b, k) ==
  [entries |-> [t \in Young(e, O, k) \union {s} |-> e[t]], used |-> SumOver(e, Young(e, O, k)) + b]

Touched(e, O) ==
  /\ IsFiniteSet(O)
  /\ \A t \in O : e[t].bytes \in Nat /\ e[t].touched \in Int
  /\ \A t, u \in O : e[t].touched = e[u].touched => t = u
Newest(e, O, s) ==
  s \notin O /\ e[s].touched \in Int /\ \A t \in O : e[t].touched < e[s].touched

LEMMA AgeOrders ==
  ASSUME NEW e, NEW O, Touched(e, O)
  PROVE  Orders(O, Aged(e, O))
<1>1. \A t, u \in O : <<t, u>> \in Aged(e, O) <=> e[t].touched < e[u].touched
  BY DEF Aged
<1>2. \A t \in O : e[t].touched \in Int
  BY DEF Touched
<1>3. \A c \in O : <<c, c>> \notin Aged(e, O)
  BY <1>1, <1>2
<1>4. \A c, d, g \in O : <<c, d>> \in Aged(e, O) /\ <<d, g>> \in Aged(e, O) => <<c, g>> \in Aged(e, O)
  BY <1>1, <1>2
<1>5. \A c, d \in O : c = d \/ <<c, d>> \in Aged(e, O) \/ <<d, c>> \in Aged(e, O)
  <2> SUFFICES ASSUME NEW c \in O, NEW d \in O, c # d
               PROVE  <<c, d>> \in Aged(e, O) \/ <<d, c>> \in Aged(e, O)
    OBVIOUS
  <2>1. e[c].touched # e[d].touched
    BY DEF Touched
  <2> QED
    BY <1>1, <1>2, <2>1
<1> QED
  BY <1>3, <1>4, <1>5 DEF Orders

LEMMA YoungestOf ==
  ASSUME NEW e, NEW O, Touched(e, O), NEW k \in 0 .. Cardinality(O)
  PROVE  /\ Young(e, O, k) \subseteq O /\ Sized(e, Young(e, O, k)) /\ Touched(e, Young(e, O, k))
         /\ SumOver(e, Young(e, O, k)) \in Nat /\ Cardinality(Young(e, O, k)) \in Nat
<1>1. PICK Y : Y = Young(e, O, k)
  OBVIOUS
<1>2. Y \subseteq O
  BY <1>1 DEF Young
<1>3. IsFiniteSet(Y)
  BY <1>2, FS_Subset DEF Touched
<1>4. Sized(e, Y) /\ Touched(e, Y) /\ Agrees(e, e, Y)
  BY <1>2, <1>3 DEF Touched, Sized, Agrees
<1>5. SumOver(e, Y) \in Nat /\ Cardinality(Y) \in Nat
  BY <1>3, <1>4, SumsAgree, FS_CardinalityType
<1> QED
  BY <1>1, <1>2, <1>4, <1>5

LEMMA YoungAtEnds ==
  ASSUME NEW e, NEW O, Touched(e, O)
  PROVE  /\ Cardinality(O) \in Nat
         /\ Young(e, O, 0) = O /\ Young(e, O, Cardinality(O)) = {}
<1>1. Orders(O, Aged(e, O)) /\ IsFiniteSet(O)
  BY AgeOrders DEF Touched
<1>2. PICK n \in Nat : n = Cardinality(O)
  BY <1>1, FS_CardinalityType
<1>3. \A t \in O : Place(O, Aged(e, O), t) \in 0 .. n - 1
  BY <1>1, <1>2, PlaceIs
<1> QED
  BY <1>2, <1>3 DEF Young

\* The one that goes next.
Goes(e, O, k, o) ==
  /\ o \in Young(e, O, k) /\ Young(e, O, k + 1) = Young(e, O, k) \ {o}
  /\ \A t \in Young(e, O, k) : t # o => e[o].touched < e[t].touched

LEMMA OneGoes ==
  ASSUME NEW e, NEW O, Touched(e, O), NEW k \in 0 .. Cardinality(O) - 1
  PROVE  \E o \in O : Goes(e, O, k, o)
<1>1. Orders(O, Aged(e, O)) /\ IsFiniteSet(O)
  BY AgeOrders DEF Touched
<1>2. PICK n \in Nat : n = Cardinality(O)
  BY <1>1, FS_CardinalityType
<1>3. PICK A : A = Aged(e, O)
  OBVIOUS
<1>4. \A t \in O : Place(O, A, t) \in 0 .. n - 1
  BY <1>1, <1>2, <1>3, PlaceIs
<1>5. PICK o \in O : Place(O, A, o) = k
  BY <1>1, <1>3, PlaceTaken
<1>6. ASSUME NEW t \in O, t # o, Place(O, A, t) >= k
      PROVE  Place(O, A, t) >= k + 1 /\ e[o].touched < e[t].touched
  <2>1. <<t, o>> \in A \/ <<o, t>> \in A
    BY <1>1, <1>3, <1>6 DEF Orders
  <2>2. <<t, o>> \notin A
    <3>1. <<t, o>> \in A => Place(O, A, t) < Place(O, A, o)
      BY <1>1, <1>3, PlaceGrows
    <3> QED
      BY <1>2, <1>4, <1>5, <1>6, <3>1
  <2>3. Place(O, A, o) < Place(O, A, t)
    BY <1>1, <1>3, <2>1, <2>2, PlaceGrows
  <2>4. e[o].touched < e[t].touched
    BY <1>3, <2>1, <2>2 DEF Aged
  <2> QED
    BY <1>2, <1>4, <1>5, <2>3, <2>4
<1>7. \A j : Young(e, O, j) = {t \in O : Place(O, A, t) >= j}
  BY <1>3 DEF Young
<1>8. o \in Young(e, O, k)
  BY <1>2, <1>5, <1>7
<1>9. Young(e, O, k + 1) = Young(e, O, k) \ {o}
  <2>1. \A t \in O : (Place(O, A, t) >= k + 1) <=> (Place(O, A, t) >= k /\ t # o)
    BY <1>2, <1>4, <1>5, <1>6
  <2> QED
    BY <1>7, <2>1
<1>10. \A t \in Young(e, O, k) : t # o => e[o].touched < e[t].touched
  BY <1>6, <1>7
<1> QED
  BY <1>8, <1>9, <1>10 DEF Goes


LEMMA LastFits ==
  ASSUME NEW e, NEW O, Touched(e, O), NEW b \in Nat, b <= BaselineBudget
  PROVE  Cardinality(O) \in FitTurns(e, O, b)
<1>1. PICK n \in Nat : n = Cardinality(O) /\ Young(e, O, n) = {}
  BY YoungAtEnds
<1>2. SumOver(e, {}) = 0 /\ Cardinality({}) = 0
  BY SumOfNone, FS_EmptySet
<1>3. Fits(e, O, b, n)
  BY <1>1, <1>2, VisualAssumption DEF Fits
<1> QED
  BY <1>1, <1>3 DEF FitTurns

\* What the cache is at a turn.
LeftShape(e, Y, s, b, c) ==
  /\ c.entries = [t \in Y \union {s} |-> e[t]] /\ c.used = SumOver(e, Y) + b
  /\ DOMAIN c.entries = Y \union {s}
  /\ \A t \in Y \union {s} : c.entries[t] = e[t]
  /\ Cardinality(DOMAIN c.entries) = Cardinality(Y) + 1

LEMMA LeftIs ==
  ASSUME NEW e, NEW O, Touched(e, O), NEW s, Newest(e, O, s), NEW b \in Nat,
         NEW k \in 0 .. Cardinality(O), NEW c, c = LeftOf(e, O, s, b, k)
  PROVE  LeftShape(e, Young(e, O, k), s, b, c)
<1>1. PICK Y : Y = Young(e, O, k) /\ Y \subseteq O /\ IsFiniteSet(Y)
  BY YoungestOf DEF Sized
<1>2. PICK E : E = [t \in Y \union {s} |-> e[t]]
  OBVIOUS
<1>3. DOMAIN E = Y \union {s} /\ \A t \in Y \union {s} : E[t] = e[t]
  BY <1>2
<1>4. c.entries = E /\ c.used = SumOver(e, Y) + b
  BY <1>1, <1>2 DEF LeftOf
<1>5. s \notin Y
  BY <1>1 DEF Newest
<1>6. Cardinality(Y \union {s}) = Cardinality(Y) + 1
  BY <1>1, <1>5, FS_AddElement
<1> QED
  BY <1>1, <1>2, <1>3, <1>4, <1>6 DEF LeftShape

\* One turn of the eviction: what fits stays, else the oldest goes.
LEMMA LeftStays ==
  ASSUME NEW e, NEW O, Touched(e, O), NEW s, Newest(e, O, s), NEW b \in Nat,
         NEW k \in 0 .. Cardinality(O), Fits(e, O, b, k)
  PROVE  OldestOut(LeftOf(e, O, s, b, k)) = LeftOf(e, O, s, b, k)
<1>1. PICK c : c = LeftOf(e, O, s, b, k)
  OBVIOUS
<1>2. /\ c.used = SumOver(e, Young(e, O, k)) + b
      /\ Cardinality(DOMAIN c.entries) = Cardinality(Young(e, O, k)) + 1
  <2>1. LeftShape(e, Young(e, O, k), s, b, c)
    BY <1>1, LeftIs
  <2> QED
    BY <2>1 DEF LeftShape
<1>3. PICK y \in Nat : y = Cardinality(Young(e, O, k))
  BY YoungestOf
<1>4. c.used <= BaselineBudget /\ Cardinality(DOMAIN c.entries) <= BaselineEntries
  <2>1. y < BaselineEntries /\ c.used <= BaselineBudget
    BY <1>2, <1>3 DEF Fits
  <2> QED
    BY <1>2, <1>3, <2>1, VisualAssumption
<1>5. OldestOut(c) = c
  BY <1>4 DEF OldestOut
<1> QED
  BY <1>1, <1>5

LEMMA LeftGoesOn ==
  ASSUME NEW e, NEW O, Touched(e, O), NEW s, Newest(e, O, s), NEW b \in Nat,
         NEW k \in 0 .. Cardinality(O) - 1, ~ Fits(e, O, b, k)
  PROVE  OldestOut(LeftOf(e, O, s, b, k)) = LeftOf(e, O, s, b, k + 1)
<1>0. Cardinality(O) \in Nat
  BY YoungAtEnds
<1>1. k \in 0 .. Cardinality(O) /\ k + 1 \in 0 .. Cardinality(O)
  BY <1>0
<1>2. PICK c : c = LeftOf(e, O, s, b, k)
  OBVIOUS
<1>3. PICK Y : /\ Y = Young(e, O, k) /\ Y \subseteq O /\ Sized(e, Y) /\ Touched(e, Y)
               /\ SumOver(e, Y) \in Nat /\ Cardinality(Y) \in Nat
  BY <1>1, YoungestOf
<1>4. /\ c.entries = [t \in Y \union {s} |-> e[t]] /\ c.used = SumOver(e, Y) + b
      /\ DOMAIN c.entries = Y \union {s}
      /\ \A t \in Y \union {s} : c.entries[t] = e[t]
      /\ Cardinality(DOMAIN c.entries) = Cardinality(Y) + 1
  <2>1. LeftShape(e, Y, s, b, c)
    BY <1>1, <1>2, <1>3, LeftIs
  <2> QED
    BY <2>1 DEF LeftShape
<1>5. PICK o \in Y : Young(e, O, k + 1) = Y \ {o} /\ \A t \in Y : t # o => e[o].touched < e[t].touched
  <2>1. PICK o \in O : Goes(e, O, k, o)
    BY OneGoes
  <2> QED
    BY <1>3, <2>1 DEF Goes
<1>6. Oldest(c.entries) = o
  <2>0. o \in O /\ s \notin O /\ e[o].touched < e[s].touched /\ e[s].touched \in Int
    BY <1>3, <1>5 DEF Newest
  <2>1. \A t \in Y : e[t].touched \in Int
    BY <1>3 DEF Touched
  <2>2. ASSUME NEW t \in Y \union {s}, t # o
        PROVE  e[o].touched < e[t].touched /\ e[o].touched \in Int /\ e[t].touched \in Int
    BY <1>5, <2>0, <2>1, <2>2
  <2>3. \A t \in Y \union {s} : e[o].touched <= e[t].touched
    <3> SUFFICES ASSUME NEW t \in Y \union {s} PROVE e[o].touched <= e[t].touched
      OBVIOUS
    <3>1. CASE t = o
      BY <2>1, <3>1
    <3>2. CASE t # o
      BY <2>2, <3>2
    <3> QED
      BY <3>1, <3>2
  <2>4. \A u \in Y \union {s} : (\A t \in Y \union {s} : e[u].touched <= e[t].touched) => u = o
    BY <1>5, <2>2
  <2>5. /\ o \in DOMAIN c.entries
        /\ \A t \in DOMAIN c.entries : c.entries[o].touched <= c.entries[t].touched
    BY <1>4, <2>3
  <2>6. \A u \in DOMAIN c.entries :
          (\A t \in DOMAIN c.entries : c.entries[u].touched <= c.entries[t].touched) => u = o
    BY <1>4, <2>4
  <2> QED
    BY <2>5, <2>6, Zenon DEF Oldest
<1>7. ~ (c.used <= BaselineBudget /\ Cardinality(DOMAIN c.entries) <= BaselineEntries)
  <2>1. ~ (SumOver(e, Y) + b <= BaselineBudget /\ Cardinality(Y) < BaselineEntries)
    BY <1>3 DEF Fits
  <2> QED
    BY <1>3, <1>4, <2>1, VisualAssumption
<1>8. OldestOut(c) = Removed(c, o)
  BY <1>6, <1>7 DEF OldestOut
<1>9. o \in DOMAIN c.entries /\ c.entries[o] = e[o]
  BY <1>4, <1>5
<1>10. Removed(c, o) = [entries |-> Less(c.entries, o), used |-> c.used - e[o].bytes]
  BY <1>9 DEF Removed
<1>11. Less(c.entries, o) = [t \in (Y \ {o}) \union {s} |-> e[t]]
  <2>1. (Y \union {s}) \ {o} = (Y \ {o}) \union {s}
    <3>1. s # o
      BY <1>3, <1>5 DEF Newest
    <3> QED
      BY <3>1
  <2>2. Less(c.entries, o) = [t \in (Y \ {o}) \union {s} |-> c.entries[t]]
    BY <1>4, <2>1 DEF Less
  <2>3. \A t \in (Y \ {o}) \union {s} : c.entries[t] = e[t]
    BY <1>4
  <2> QED
    BY <2>2, <2>3
<1>12. c.used - e[o].bytes = SumOver(e, Y \ {o}) + b
  <2>1. SumOver(e, Y) = e[o].bytes + SumOver(e, Y \ {o})
    BY <1>3, <1>5, SumOfOne DEF SumsInAnyOrder
  <2>2. SumOver(e, Y \ {o}) \in Nat /\ e[o].bytes \in Nat
    BY <1>1, <1>3, <1>5, YoungestOf DEF Sized
  <2> QED
    BY <1>4, <2>1, <2>2
<1>13. LeftOf(e, O, s, b, k + 1) =
         [entries |-> [t \in (Y \ {o}) \union {s} |-> e[t]], used |-> SumOver(e, Y \ {o}) + b]
  BY <1>5 DEF LeftOf
<1> QED
  BY <1>2, <1>8, <1>10, <1>11, <1>12, <1>13

\* The turns of the eviction, one after another.
Evictions(f, base, n) == f = [k \in 0 .. n |-> IF k = 0 THEN base ELSE OldestOut(f[k - 1])]

LEMMA EvictionsExist ==
  ASSUME NEW base, NEW n \in Nat
  PROVE  \E f : Evictions(f, base, n)
<1> DEFINE T == {m \in Nat : ~ \E f : Evictions(f, base, m)}
<1>1. SUFFICES T = {}
  BY Zenon
<1>2. SUFFICES ASSUME T # {} PROVE FALSE
  OBVIOUS
<1>3. PICK m \in T : \A k \in T : m <= k
  <2>1. T \in SUBSET Nat
    OBVIOUS
  <2> QED
    BY <1>2, <2>1, LeastOfNaturals
<1>4. m \in Nat /\ ~ \E f : Evictions(f, base, m)
  OBVIOUS
<1>5. CASE m = 0
  <2> DEFINE f == [k \in 0 .. m |-> base]
  <2>1. f = [k \in 0 .. m |-> IF k = 0 THEN base ELSE OldestOut(f[k - 1])]
    BY <1>5
  <2> QED
    BY <1>4, <2>1, Zenon DEF Evictions
<1>6. CASE m # 0
  <2>1. m - 1 \in Nat /\ m - 1 \notin T
    BY <1>3, <1>4, <1>6
  <2>2. PICK g : Evictions(g, base, m - 1)
    BY <2>1, Zenon
  <2>3. \A k \in 0 .. m - 1 : g[k] = IF k = 0 THEN base ELSE OldestOut(g[k - 1])
    BY <2>2, Zenon DEF Evictions
  <2> DEFINE f == [k \in 0 .. m |-> IF k = m THEN OldestOut(g[m - 1]) ELSE g[k]]
  <2>4. ASSUME NEW k \in 0 .. m
        PROVE  f[k] = IF k = 0 THEN base ELSE OldestOut(f[k - 1])
    <3>1. CASE k = m
      <4>1. k - 1 \in 0 .. m /\ k - 1 # m
        BY <1>4, <1>6, <3>1
      <4>2. f[k - 1] = g[m - 1]
        BY <3>1, <4>1
      <4>3. f[k] = OldestOut(g[m - 1])
        BY <3>1
      <4> HIDE DEF f
      <4> QED
        BY <1>6, <3>1, <4>2, <4>3
    <3>2. CASE k = 0
      <4>1. f[k] = g[k] /\ k \in 0 .. m - 1
        BY <1>4, <1>6, <3>2
      <4>2. g[k] = base
        BY <2>3, <3>2, <4>1
      <4> HIDE DEF f
      <4> QED
        BY <3>2, <4>1, <4>2
    <3>3. CASE k # m /\ k # 0
      <4>1. k \in 0 .. m - 1 /\ k - 1 \in 0 .. m /\ k - 1 # m
        BY <1>4, <3>3
      <4>2. f[k] = g[k] /\ f[k - 1] = g[k - 1]
        BY <3>3, <4>1
      <4>3. g[k] = OldestOut(g[k - 1])
        BY <2>3, <3>3, <4>1
      <4> HIDE DEF f
      <4> QED
        BY <3>3, <4>2, <4>3
    <3> QED
      BY <3>1, <3>2, <3>3
  <2>5. f = [k \in 0 .. m |-> f[k]]
    OBVIOUS
  <2> HIDE DEF f
  <2>6. f = [k \in 0 .. m |-> IF k = 0 THEN base ELSE OldestOut(f[k - 1])]
    BY <2>4, <2>5
  <2> QED
    BY <1>4, <2>6, Zenon DEF Evictions
<1> QED
  BY <1>5, <1>6


\* The eviction ends where the projection stops: at the first turn that fits.
LEMMA EvictionIs ==
  ASSUME NEW e, NEW O, Touched(e, O), NEW s, Newest(e, O, s), NEW b \in Nat, b <= BaselineBudget
  PROVE  /\ Min(FitTurns(e, O, b)) \in FitTurns(e, O, b)
         /\ evict_to_budget(LeftOf(e, O, s, b, 0)) = LeftOf(e, O, s, b, Min(FitTurns(e, O, b)))
<1>1. PICK n \in Nat : n = Cardinality(O)
  BY YoungAtEnds
<1>2. PICK m \in 0 .. n : /\ m = Min(FitTurns(e, O, b)) /\ m \in FitTurns(e, O, b)
                          /\ \A k \in FitTurns(e, O, b) : m <= k
  <2>1. FitTurns(e, O, b) \in SUBSET Nat /\ FitTurns(e, O, b) # {}
    BY <1>1, LastFits DEF FitTurns
  <2>2. /\ Min(FitTurns(e, O, b)) \in FitTurns(e, O, b)
        /\ \A k \in FitTurns(e, O, b) : Min(FitTurns(e, O, b)) <= k
    BY <2>1, LeastOfNaturals
  <2>3. FitTurns(e, O, b) \subseteq 0 .. n
    BY <1>1 DEF FitTurns
  <2> QED
    BY <2>2, <2>3
<1> DEFINE L(k) == LeftOf(e, O, s, b, k)
<1>3. \A k \in 0 .. n : k < m => OldestOut(L(k)) = L(k + 1)
  <2> SUFFICES ASSUME NEW k \in 0 .. n, k < m PROVE OldestOut(L(k)) = L(k + 1)
    OBVIOUS
  <2>1. ~ Fits(e, O, b, k)
    BY <1>1, <1>2 DEF FitTurns
  <2>2. k \in 0 .. Cardinality(O) - 1
    BY <1>1, <1>2
  <2> QED
    BY <2>1, <2>2, LeftGoesOn
<1>4. OldestOut(L(m)) = L(m)
  BY <1>1, <1>2, LeftStays DEF FitTurns
<1>5. PICK base : base = L(0)
  OBVIOUS
<1>6. Cardinality(DOMAIN base.entries) = n + 1
  <2>1. Young(e, O, 0) = O
    BY YoungAtEnds
  <2>2. 0 \in 0 .. Cardinality(O)
    BY <1>1
  <2>3. LeftShape(e, O, s, b, base)
    BY <1>5, <2>1, <2>2, LeftIs
  <2> QED
    BY <1>1, <2>3 DEF LeftShape
<1> DEFINE F == CHOOSE f : f = [k \in 0 .. Cardinality(DOMAIN base.entries) |->
                  IF k = 0 THEN base ELSE OldestOut(f[k - 1])]
<1>7. evict_to_budget(base) = F[n + 1]
  BY <1>6 DEF evict_to_budget
<1>8. Evictions(F, base, n + 1)
  <2>1. n + 1 \in Nat
    OBVIOUS
  <2>2. \E f : Evictions(f, base, n + 1)
    BY <2>1, EvictionsExist
  <2>3. \E f : f = [k \in 0 .. Cardinality(DOMAIN base.entries) |->
                      IF k = 0 THEN base ELSE OldestOut(f[k - 1])]
    BY <1>6, <2>2, Zenon DEF Evictions
  <2>4. F = [k \in 0 .. Cardinality(DOMAIN base.entries) |-> IF k = 0 THEN base ELSE OldestOut(F[k - 1])]
    BY <2>3, Zenon
  <2> HIDE DEF F
  <2> QED
    BY <1>6, <2>4 DEF Evictions
<1> HIDE DEF F, L
<1>9. F[0] = base /\ \A k \in 1 .. n + 1 : F[k] = OldestOut(F[k - 1])
  BY <1>8 DEF Evictions
<1> DEFINE Ok(k) == F[k] = L(IF k <= m THEN k ELSE m)
           T == {k \in 0 .. n + 1 : ~ Ok(k)}
<1>10. T = {}
  <2> SUFFICES ASSUME T # {} PROVE FALSE
    OBVIOUS
  <2>1. PICK q \in T : \A k \in T : q <= k
    <3>1. T \in SUBSET Nat
      OBVIOUS
    <3> QED
      BY <3>1, LeastOfNaturals
  <2>2. q \in 0 .. n + 1 /\ ~ Ok(q)
    OBVIOUS
  <2>3. q # 0
    BY <1>2, <1>5, <1>9, <2>2
  <2>4. q - 1 \in 0 .. n /\ q \in 1 .. n + 1 /\ q - 1 \notin T
    <3> HIDE DEF T, Ok
    <3> QED
      BY <2>1, <2>2, <2>3
  <2>5. F[q - 1] = L(IF q - 1 <= m THEN q - 1 ELSE m) /\ F[q] = OldestOut(F[q - 1])
    BY <1>9, <2>4
  <2>6. CASE q - 1 < m
    <3>1. F[q] = L((q - 1) + 1)
      BY <1>3, <2>4, <2>5, <2>6
    <3>2. (q - 1) + 1 = q /\ q <= m
      BY <1>2, <2>4, <2>6
    <3> QED
      BY <2>2, <3>1, <3>2
  <2>7. CASE ~ (q - 1 < m)
    <3>1. F[q - 1] = L(m)
      <4>1. (IF q - 1 <= m THEN q - 1 ELSE m) = m
        BY <1>2, <2>4, <2>7
      <4> QED
        BY <2>5, <4>1
    <3>2. ~ (q <= m)
      BY <1>2, <2>4, <2>7
    <3> QED
      BY <1>4, <2>2, <2>5, <3>1, <3>2
  <2> QED
    BY <2>6, <2>7
<1>11. Ok(n + 1)
  <2>1. n + 1 \in 0 .. n + 1
    OBVIOUS
  <2> QED
    BY <1>10, <2>1
<1>12. F[n + 1] = L(m)
  <2>1. ~ (n + 1 <= m)
    BY <1>2
  <2> QED
    BY <1>11, <2>1
<1> QED
  BY <1>2, <1>5, <1>7, <1>12 DEF L

-----------------------------------------------------------------------------
(* The cache. *)

\* The cache as it always is: entries of the declared kind, no two touched at one
\* tick, their bytes counted, both limits kept.
Shelved(e, u, c) ==
  /\ e = [t \in DOMAIN e |-> e[t]] /\ DOMAIN e \subseteq BaselineSessions /\ IsFiniteSet(DOMAIN e)
  /\ \A t \in DOMAIN e :
       /\ e[t] \in [context : BaselineContexts, bytes : BaselineSizes, touched : 1 .. MaxBaselineTicks]
       /\ e[t].touched <= c
  /\ \A t, v \in DOMAIN e : e[t].touched = e[v].touched => t = v
  /\ u = SumOver(e, DOMAIN e) /\ u <= BaselineBudget
  /\ Cardinality(DOMAIN e) <= BaselineEntries
  /\ c \in 0 .. MaxBaselineTicks
Kept == Shelved(baselines, baseline_used, baseline_clock)

LEMMA ShelvedIs ==
  ASSUME NEW e, NEW u, NEW c, Shelved(e, u, c), NEW S \in SUBSET DOMAIN e
  PROVE  /\ Touched(e, S) /\ Sized(e, S) /\ Agrees(e, e, S) /\ IsFiniteSet(S)
         /\ u \in Nat /\ c \in Nat /\ SumOver(e, S) \in Nat
         /\ \A t \in S : e[t].touched <= c /\ e[t].touched \in Nat
<1>1. IsFiniteSet(S) /\ IsFiniteSet(DOMAIN e)
  BY FS_Subset DEF Shelved
<1>2. \A t \in DOMAIN e : e[t].bytes \in Nat /\ e[t].touched \in Nat /\ e[t].touched <= c
  BY VisualAssumption DEF Shelved
<1>3. \A t, v \in DOMAIN e : e[t].touched = e[v].touched => t = v
  BY DEF Shelved
<1>4. Touched(e, S) /\ Sized(e, S) /\ Agrees(e, e, S)
  BY <1>1, <1>2, <1>3 DEF Touched, Sized, Agrees
<1>5. SumOver(e, S) \in Nat
  BY <1>1, <1>4, SumsAgree
<1>6. u \in Nat
  <2>1. Agrees(e, e, DOMAIN e)
    BY <1>2 DEF Agrees
  <2>2. SumOver(e, DOMAIN e) \in Nat
    BY <1>1, <2>1, SumsAgree
  <2> QED
    BY <2>2 DEF Shelved
<1>7. c \in Nat
  BY VisualAssumption DEF Shelved
<1> QED
  BY <1>1, <1>2, <1>4, <1>5, <1>6, <1>7

\* Taking one entry out.
Without(e, s) == [t \in DOMAIN e \ {s} |-> e[t]]

LEMMA RemovedIs ==
  ASSUME NEW e, NEW u, NEW c, Shelved(e, u, c), NEW s
  PROVE  LET r == Removed([entries |-> e, used |-> u], s)
         IN /\ r.entries = Without(e, s) /\ r.used = SumOver(e, DOMAIN e \ {s})
            /\ r.used <= BaselineBudget
<1>1. PICK k : k = [entries |-> e, used |-> u] /\ k.entries = e /\ k.used = u
  <2>1. PICK k : k = [entries |-> e, used |-> u]
    OBVIOUS
  <2>2. k.entries = e /\ k.used = u
    BY <2>1
  <2> QED
    BY <2>1, <2>2
<1>2. CASE s \notin DOMAIN e
  <2>1. DOMAIN e \ {s} = DOMAIN e
    BY <1>2
  <2>2. Removed(k, s) = k
    BY <1>1, <1>2 DEF Removed
  <2>3. e = Without(e, s) /\ u = SumOver(e, DOMAIN e) /\ u <= BaselineBudget
    BY <2>1 DEF Shelved, Without
  <2> QED
    BY <1>1, <2>1, <2>2, <2>3
<1>3. CASE s \in DOMAIN e
  <2>1. Removed(k, s) = [entries |-> Less(e, s), used |-> u - e[s].bytes]
    BY <1>1, <1>3 DEF Removed
  <2>2. Less(e, s) = Without(e, s)
    BY DEF Less, Without
  <2>3. SumOver(e, DOMAIN e) = e[s].bytes + SumOver(e, DOMAIN e \ {s})
    <3>1. Sized(e, DOMAIN e)
      BY ShelvedIs
    <3> QED
      BY <1>3, <3>1, SumOfOne DEF SumsInAnyOrder
  <2>4. e[s].bytes \in Nat /\ SumOver(e, DOMAIN e \ {s}) \in Nat
    <3>1. Sized(e, DOMAIN e)
      BY ShelvedIs
    <3>2. DOMAIN e \ {s} \in SUBSET DOMAIN e
      OBVIOUS
    <3> QED
      BY <1>3, <3>1, <3>2, ShelvedIs DEF Sized
  <2>5. u = SumOver(e, DOMAIN e) /\ u <= BaselineBudget
    BY DEF Shelved
  <2>6. u - e[s].bytes = SumOver(e, DOMAIN e \ {s}) /\ u - e[s].bytes <= BaselineBudget
    BY <2>3, <2>4, <2>5, VisualAssumption
  <2> QED
    BY <1>1, <2>1, <2>2, <2>6
<1> QED
  BY <1>2, <1>3

LEMMA WithoutIsShelved ==
  ASSUME NEW e, NEW u, NEW c, Shelved(e, u, c), NEW s
  PROVE  LET r == Removed([entries |-> e, used |-> u], s) IN Shelved(r.entries, r.used, c)
<1>1. PICK r : /\ r = Removed([entries |-> e, used |-> u], s)
               /\ r.entries = Without(e, s) /\ r.used = SumOver(e, DOMAIN e \ {s})
               /\ r.used <= BaselineBudget
  BY RemovedIs
<1>2. PICK f, D : D = DOMAIN e \ {s} /\ f = [t \in D |-> e[t]] /\ DOMAIN f = D /\ f = r.entries
  BY <1>1 DEF Without
<1>3. \A t \in D : f[t] = e[t]
  BY <1>2
<1>4. f = [t \in D |-> f[t]]
  BY <1>2, <1>3
<1>5. D \subseteq DOMAIN e /\ IsFiniteSet(D) /\ Agrees(e, e, D)
  BY <1>2, ShelvedIs
<1>6. SumOver(e, D) = SumOver(f, D)
  BY <1>3, <1>5, SumsAgree DEF Agrees
<1>7. Cardinality(D) <= BaselineEntries
  <2>1. IsFiniteSet(DOMAIN e) /\ Cardinality(DOMAIN e) <= BaselineEntries
    BY DEF Shelved
  <2>2. Cardinality(D) <= Cardinality(DOMAIN e) /\ Cardinality(D) \in Nat /\ Cardinality(DOMAIN e) \in Nat
    BY <1>5, <2>1, FS_Subset, FS_CardinalityType
  <2> QED
    BY <2>1, <2>2, VisualAssumption
<1>8. \A t \in D : /\ f[t] \in [context : BaselineContexts, bytes : BaselineSizes,
                                touched : 1 .. MaxBaselineTicks]
                   /\ f[t].touched <= c
  BY <1>3, <1>5 DEF Shelved
<1>9. \A t, v \in D : f[t].touched = f[v].touched => t = v
  BY <1>3, <1>5 DEF Shelved
<1>10. D \subseteq BaselineSessions /\ c \in 0 .. MaxBaselineTicks
  BY <1>5 DEF Shelved
<1> QED
  BY <1>1, <1>2, <1>4, <1>5, <1>6, <1>7, <1>8, <1>9, <1>10 DEF Shelved

\* The entries with the new one among them.
Others(s) == DOMAIN baselines \ {s}
Entered(s, context, bytes) ==
  [t \in Others(s) \union {s} |->
     IF t = s THEN [context |-> context, bytes |-> bytes, touched |-> baseline_clock + 1]
     ELSE baselines[t]]

Same(e, f, S) == \A t \in S : e[t] = f[t]

LEMMA EnteredIs ==
  ASSUME Kept, NEW s, NEW context, NEW bytes \in Nat, NEW e, e = Entered(s, context, bytes)
  PROVE  /\ Touched(e, Others(s)) /\ Newest(e, Others(s), s)
         /\ Agrees(e, baselines, Others(s)) /\ IsFiniteSet(Others(s))
         /\ Same(e, baselines, Others(s))
         /\ e[s] = [context |-> context, bytes |-> bytes, touched |-> baseline_clock + 1]
<1>1. PICK O : O = Others(s) /\ O \subseteq DOMAIN baselines /\ s \notin O
  <2>1. Others(s) \subseteq DOMAIN baselines /\ s \notin Others(s)
    BY DEF Others
  <2> QED
    BY <2>1
<1>2. \A t \in O : e[t] = baselines[t]
  <2>1. e = [t \in O \union {s} |->
               IF t = s THEN [context |-> context, bytes |-> bytes, touched |-> baseline_clock + 1]
               ELSE baselines[t]]
    BY <1>1, Zenon DEF Entered
  <2> QED
    BY <1>1, <2>1
<1>3. e[s] = [context |-> context, bytes |-> bytes, touched |-> baseline_clock + 1]
  BY DEF Entered
<1>4. /\ Touched(baselines, O) /\ Agrees(baselines, baselines, O) /\ IsFiniteSet(O)
      /\ baseline_clock \in Nat
      /\ \A t \in O : baselines[t].touched <= baseline_clock /\ baselines[t].touched \in Nat
  BY <1>1, ShelvedIs DEF Kept
<1>5. Touched(e, O) /\ Agrees(e, baselines, O)
  BY <1>2, <1>4 DEF Touched, Agrees
<1>6. e[s].touched = baseline_clock + 1
  BY <1>3
<1>7. Newest(e, O, s)
  BY <1>1, <1>2, <1>4, <1>6 DEF Newest
<1> QED
  BY <1>1, <1>2, <1>3, <1>4, <1>5, <1>7 DEF Same

\* An insert that fits the budget ends at the first turn that fits.
LEMMA InsertedIs ==
  ASSUME Kept, NEW s, NEW context, NEW bytes \in Nat, bytes <= BaselineBudget,
         NEW e, e = Entered(s, context, bytes), NEW O, O = Others(s)
  PROVE  /\ Min(FitTurns(e, O, bytes)) \in FitTurns(e, O, bytes)
         /\ Inserted(s, context, bytes) = LeftOf(e, O, s, bytes, Min(FitTurns(e, O, bytes)))
<1>1. PICK r : /\ r = Removed(Cache, s)
               /\ r.entries = Without(baselines, s) /\ r.used = SumOver(baselines, O)
  <2>1. Cache = [entries |-> baselines, used |-> baseline_used]
    BY DEF Cache
  <2>2. LET r == Removed([entries |-> baselines, used |-> baseline_used], s)
        IN r.entries = Without(baselines, s) /\ r.used = SumOver(baselines, DOMAIN baselines \ {s})
    BY RemovedIs DEF Kept
  <2> QED
    BY <2>1, <2>2 DEF Others
<1>2. DOMAIN r.entries = O /\ \A t \in O : r.entries[t] = baselines[t]
  BY <1>1 DEF Without, Others
<1>3. Touched(e, O) /\ Newest(e, O, s) /\ Agrees(e, baselines, O) /\ IsFiniteSet(O)
  BY EnteredIs
<1>4. SumOver(e, O) = SumOver(baselines, O)
  BY <1>3, SumsAgree
<1>5. Young(e, O, 0) = O
  BY <1>3, YoungAtEnds
<1> DEFINE entry == [context |-> context, bytes |-> bytes, touched |-> baseline_clock + 1]
<1>6. [t \in DOMAIN r.entries \union {s} |-> IF t = s THEN entry ELSE r.entries[t]]
        = [t \in O \union {s} |-> e[t]]
  <2>1. \A t \in O \union {s} : e[t] = IF t = s THEN entry ELSE r.entries[t]
    BY <1>2 DEF Entered
  <2> HIDE DEF entry
  <2> QED
    BY <1>2, <2>1
<1>7. LeftOf(e, O, s, bytes, 0) = [entries |-> [t \in O \union {s} |-> e[t]],
                                   used |-> SumOver(e, O) + bytes]
  BY <1>5 DEF LeftOf
<1>8. ~ (bytes > BaselineBudget)
  BY VisualAssumption
<1>9. Inserted(s, context, bytes) =
        evict_to_budget(
          [entries |-> [t \in DOMAIN r.entries \union {s} |-> IF t = s THEN entry ELSE r.entries[t]],
           used |-> r.used + bytes])
  BY <1>1, <1>8, Zenon DEF Inserted
<1>10. Inserted(s, context, bytes) = evict_to_budget(LeftOf(e, O, s, bytes, 0))
  <2> HIDE DEF entry
  <2>1. r.used + bytes = SumOver(e, O) + bytes
    BY <1>1, <1>4
  <2> QED
    BY <1>6, <1>7, <1>9, <2>1, Zenon
<1> QED
  BY <1>3, <1>10, EvictionIs

\* The projection counts what the eviction leaves.
LEMMA SameAge ==
  ASSUME NEW e, NEW f, NEW O, Same(e, f, O)
  PROVE  Aged(e, O) = Aged(f, O) /\ \A k : Young(e, O, k) = Young(f, O, k)
<1>1. Aged(e, O) = Aged(f, O)
  BY DEF Aged, Same
<1> QED
  BY <1>1 DEF Young

LEMMA ProjectedIs ==
  ASSUME Kept, NEW s, NEW context, NEW bytes \in Nat, bytes <= BaselineBudget,
         NEW e, e = Entered(s, context, bytes), NEW O, O = Others(s)
  PROVE  projected_used_bytes_after_insert(s, bytes)
           = baseline_used - UsedBy(baselines)
               + (SumOver(e, Young(e, O, Min(FitTurns(e, O, bytes)))) + bytes)
<1>1. /\ Touched(e, O) /\ Newest(e, O, s) /\ Agrees(e, baselines, O) /\ IsFiniteSet(O)
      /\ Same(e, baselines, O)
  <2>1. /\ Touched(e, Others(s)) /\ Newest(e, Others(s), s)
        /\ Agrees(e, baselines, Others(s)) /\ IsFiniteSet(Others(s))
    BY EnteredIs
  <2>2. Same(e, baselines, Others(s))
    BY EnteredIs
  <2> QED
    BY <2>1, <2>2
<1>2. PICK n \in Nat : n = Cardinality(O)
  BY <1>1, FS_CardinalityType
<1> DEFINE Y(k) == {t \in O : Cardinality({v \in O : baselines[v].touched < baselines[t].touched}) >= k}
           B(k) == SumOver(baselines, Y(k)) + bytes
           fits == {k \in 0 .. n : B(k) <= BaselineBudget /\ Cardinality(Y(k)) < BaselineEntries}
<1>3. projected_used_bytes_after_insert(s, bytes) = baseline_used - UsedBy(baselines) + B(Min(fits))
  BY <1>2, Zenon DEF projected_used_bytes_after_insert, Others, SumOver
<1>4. \A k : Y(k) = Young(e, O, k)
  <2>1. \A t \in O : Place(O, Aged(baselines, O), t)
                       = Cardinality({v \in O : baselines[v].touched < baselines[t].touched})
    <3> SUFFICES ASSUME NEW t \in O
                 PROVE  Before(O, Aged(baselines, O), t)
                          = {v \in O : baselines[v].touched < baselines[t].touched}
      BY Zenon DEF Place
    <3> QED
      BY DEF Before, Aged
  <2>2. \A k : Y(k) = Young(baselines, O, k)
    BY <2>1 DEF Young
  <2>3. \A k : Young(e, O, k) = Young(baselines, O, k)
    BY <1>1, SameAge
  <2> HIDE DEF Y
  <2> QED
    BY <2>2, <2>3
<1> HIDE DEF Y
<1>5. ASSUME NEW k \in 0 .. n
      PROVE  B(k) = SumOver(e, Young(e, O, k)) + bytes
  <2>1. Young(e, O, k) \subseteq O /\ Sized(e, Young(e, O, k))
    BY <1>1, <1>2, YoungestOf
  <2>2. IsFiniteSet(Young(e, O, k)) /\ Agrees(e, baselines, Young(e, O, k))
    BY <1>1, <2>1 DEF Sized, Agrees
  <2>3. SumOver(e, Young(e, O, k)) = SumOver(baselines, Young(e, O, k))
    BY <2>2, SumsAgree
  <2> QED
    BY <1>4, <2>3
<1> HIDE DEF B
<1>6. fits = FitTurns(e, O, bytes)
  <2>1. \A k \in 0 .. n : (B(k) <= BaselineBudget /\ Cardinality(Y(k)) < BaselineEntries)
                            <=> Fits(e, O, bytes, k)
    BY <1>4, <1>5 DEF Fits
  <2>2. FitTurns(e, O, bytes) = {k \in 0 .. n : Fits(e, O, bytes, k)}
    BY <1>2 DEF FitTurns
  <2> QED
    BY <2>1, <2>2
<1> HIDE DEF fits
<1>7. Min(FitTurns(e, O, bytes)) \in 0 .. n
  <2>1. Min(FitTurns(e, O, bytes)) \in FitTurns(e, O, bytes)
    BY <1>1, EvictionIs
  <2> QED
    BY <1>2, <2>1 DEF FitTurns
<1>8. B(Min(fits)) = SumOver(e, Young(e, O, Min(FitTurns(e, O, bytes)))) + bytes
  BY <1>5, <1>6, <1>7
<1> QED
  BY <1>3, <1>8

\* What an insert that fits leaves.
LEMMA InsertedHolds ==
  ASSUME Kept, NEW s, NEW context, NEW bytes \in Nat, bytes <= BaselineBudget,
         NEW e, e = Entered(s, context, bytes), NEW i, i = Inserted(s, context, bytes)
  PROVE  \E D : /\ D \subseteq Others(s) /\ IsFiniteSet(D)
                /\ LeftShape(e, D, s, bytes, i)
                /\ i.used \in Nat /\ i.used <= BaselineBudget /\ Cardinality(D) < BaselineEntries
                /\ i.used = projected_used_bytes_after_insert(s, bytes)
<1>1. PICK O : O = Others(s)
  OBVIOUS
<1>2. Touched(e, O) /\ Newest(e, O, s)
  BY <1>1, EnteredIs
<1>3. PICK m : /\ m = Min(FitTurns(e, O, bytes)) /\ m \in FitTurns(e, O, bytes)
               /\ i = LeftOf(e, O, s, bytes, m)
  BY <1>1, InsertedIs
<1>4. m \in 0 .. Cardinality(O) /\ Fits(e, O, bytes, m)
  BY <1>3 DEF FitTurns
<1>5. PICK D : /\ D = Young(e, O, m) /\ D \subseteq O /\ Sized(e, D) /\ SumOver(e, D) \in Nat
  BY <1>2, <1>4, YoungestOf
<1>6. LeftShape(e, D, s, bytes, i)
  BY <1>2, <1>3, <1>4, <1>5, LeftIs
<1>7. i.used = SumOver(e, D) + bytes
  BY <1>6 DEF LeftShape
<1>8. i.used \in Nat /\ i.used <= BaselineBudget /\ Cardinality(D) < BaselineEntries
  BY <1>4, <1>5, <1>7 DEF Fits
<1>9. baseline_used - UsedBy(baselines) = 0
  <2>1. baseline_used \in Nat
    BY ShelvedIs DEF Kept
  <2>2. baseline_used = UsedBy(baselines)
    BY DEF Kept, Shelved, UsedBy, SumOver
  <2> QED
    BY <2>1, <2>2
<1>10. projected_used_bytes_after_insert(s, bytes)
         = baseline_used - UsedBy(baselines) + (SumOver(e, D) + bytes)
  BY <1>1, <1>3, <1>5, ProjectedIs
<1>11. i.used = projected_used_bytes_after_insert(s, bytes)
  BY <1>7, <1>8, <1>9, <1>10
<1> QED
  BY <1>1, <1>5, <1>6, <1>8, <1>11 DEF Sized

LEMMA BooksAgree ==
  ASSUME Kept
  PROVE  CacheBooksAgree
<1>1. /\ baseline_used = UsedBy(baselines) /\ baseline_used <= BaselineBudget
      /\ Cardinality(DOMAIN baselines) <= BaselineEntries
  BY DEF Kept, Shelved, UsedBy, SumOver
<1>2. ASSUME NEW s \in BaselineSessions, NEW context \in BaselineContexts,
             NEW bytes \in 1 .. BaselineBudget
      PROVE  /\ projected_used_bytes_after_insert(s, bytes) = Inserted(s, context, bytes).used
             /\ s \in DOMAIN Inserted(s, context, bytes).entries
  <2>1. bytes \in Nat /\ bytes <= BaselineBudget
    BY VisualAssumption
  <2>2. PICK e : e = Entered(s, context, bytes)
    OBVIOUS
  <2>3. PICK i : i = Inserted(s, context, bytes)
    OBVIOUS
  <2>4. PICK D : /\ LeftShape(e, D, s, bytes, i)
                 /\ i.used = projected_used_bytes_after_insert(s, bytes)
    BY <2>1, <2>2, <2>3, InsertedHolds
  <2>5. DOMAIN i.entries = D \union {s}
    BY <2>4 DEF LeftShape
  <2> QED
    BY <2>3, <2>4, <2>5
<1> QED
  BY <1>1, <1>2 DEF CacheBooksAgree

LEMMA InsertKeeps ==
  ASSUME Kept, insert
  PROVE  Kept'
<1>1. PICK s \in BaselineSessions, context \in BaselineContexts, bytes \in BaselineSizes :
        /\ baselines' = Inserted(s, context, bytes).entries
        /\ baseline_clock < MaxBaselineTicks
        /\ baseline_used' = Inserted(s, context, bytes).used
        /\ baseline_clock' = baseline_clock + IF bytes > BaselineBudget THEN 0 ELSE 1
  BY DEF insert
<1>2. bytes \in Nat /\ baseline_clock \in Nat /\ baseline_clock + 1 \in 0 .. MaxBaselineTicks
  <2>1. baseline_clock \in Nat
    BY ShelvedIs DEF Kept
  <2> QED
    BY <1>1, <2>1, VisualAssumption
<1>3. CASE bytes > BaselineBudget
  <2>1. PICK r : r = Removed([entries |-> baselines, used |-> baseline_used], s)
    OBVIOUS
  <2>2. Inserted(s, context, bytes) = r
    BY <1>3, <2>1, Zenon DEF Inserted, Cache
  <2>3. baselines' = r.entries /\ baseline_used' = r.used /\ baseline_clock' = baseline_clock
    BY <1>1, <1>2, <1>3, <2>2
  <2>4. Shelved(r.entries, r.used, baseline_clock)
    BY <2>1, WithoutIsShelved DEF Kept
  <2> QED
    BY <2>3, <2>4 DEF Kept
<1>4. CASE ~ (bytes > BaselineBudget)
  <2>1. bytes <= BaselineBudget /\ baseline_clock' = baseline_clock + 1
    BY <1>1, <1>2, <1>4, VisualAssumption
  <2>2. PICK e : e = Entered(s, context, bytes)
    OBVIOUS
  <2>3. PICK i : i = Inserted(s, context, bytes) /\ baselines' = i.entries /\ baseline_used' = i.used
    BY <1>1
  <2>4. PICK D : /\ D \subseteq Others(s) /\ IsFiniteSet(D) /\ LeftShape(e, D, s, bytes, i)
                 /\ i.used \in Nat /\ i.used <= BaselineBudget /\ Cardinality(D) < BaselineEntries
    BY <1>2, <2>1, <2>2, <2>3, InsertedHolds
  <2>5. PICK X, f : X = D \union {s} /\ f = i.entries /\ f = [t \in X |-> e[t]] /\ DOMAIN f = X
    BY <2>4 DEF LeftShape
  <2>6. /\ \A t \in D : e[t] = baselines[t]
        /\ e[s] = [context |-> context, bytes |-> bytes, touched |-> baseline_clock + 1]
    <3>1. /\ Same(e, baselines, Others(s))
          /\ e[s] = [context |-> context, bytes |-> bytes, touched |-> baseline_clock + 1]
      BY <1>2, <2>2, EnteredIs
    <3> QED
      BY <2>4, <3>1 DEF Same
  <2>7. D \subseteq DOMAIN baselines /\ s \notin D
    BY <2>4 DEF Others
  <2>8. /\ f[s] = [context |-> context, bytes |-> bytes, touched |-> baseline_clock + 1]
        /\ \A t \in D : f[t] = baselines[t]
    BY <2>5, <2>6
  <2>9. ASSUME NEW t \in X
        PROVE  /\ f[t] \in [context : BaselineContexts, bytes : BaselineSizes,
                            touched : 1 .. MaxBaselineTicks]
               /\ f[t].touched <= baseline_clock + 1
    <3>1. CASE t = s
      <4>1. baseline_clock + 1 \in 1 .. MaxBaselineTicks
        BY <1>2
      <4> QED
        BY <1>2, <2>8, <3>1, <4>1
    <3>2. CASE t # s
      <4>1. t \in D
        BY <2>5, <3>2
      <4>2. /\ baselines[t] \in [context : BaselineContexts, bytes : BaselineSizes,
                                 touched : 1 .. MaxBaselineTicks]
            /\ baselines[t].touched <= baseline_clock
        BY <2>7, <4>1 DEF Kept, Shelved
      <4>3. baselines[t].touched \in Nat
        BY <2>7, <4>1, ShelvedIs DEF Kept
      <4> QED
        BY <1>2, <2>8, <4>1, <4>2, <4>3
    <3> QED
      BY <3>1, <3>2
  <2>10. ASSUME NEW t \in D
         PROVE  f[t].touched \in Nat /\ f[t].touched <= baseline_clock
    <3>1. D \in SUBSET DOMAIN baselines
      BY <2>7
    <3>2. baselines[t].touched \in Nat /\ baselines[t].touched <= baseline_clock
      BY <3>1, ShelvedIs DEF Kept
    <3> QED
      BY <2>8, <3>2
  <2>11. f[s].touched = baseline_clock + 1
    BY <2>8
  <2>12. ASSUME NEW t \in X, NEW v \in X, f[t].touched = f[v].touched
         PROVE  t = v
    <3>1. CASE t = s \/ v = s
      BY <1>2, <2>5, <2>10, <2>11, <2>12, <3>1
    <3>2. CASE t # s /\ v # s
      <4>1. t \in D /\ v \in D
        BY <2>5, <3>2
      <4>2. baselines[t].touched = baselines[v].touched
        BY <2>8, <2>12, <4>1
      <4> QED
        BY <2>7, <4>1, <4>2 DEF Kept, Shelved
    <3> QED
      BY <3>1, <3>2
  <2>13. i.used = SumOver(f, X)
    <3>1. i.used = SumOver(e, D) + bytes
      BY <2>4 DEF LeftShape
    <3>2. IsFiniteSet(X)
      BY <2>4, <2>5, FS_AddElement
    <3>3. Sized(f, X)
      <4>1. \A t \in X : f[t].bytes \in Nat
        BY <2>9, VisualAssumption
      <4> QED
        BY <3>2, <4>1 DEF Sized
    <3>4. SumOver(f, X) = f[s].bytes + SumOver(f, X \ {s})
      BY <2>5, <3>3, SumOfOne DEF SumsInAnyOrder
    <3>5. X \ {s} = D /\ f[s].bytes = bytes
      BY <2>5, <2>7, <2>8
    <3>6. \A t \in D : e[t].bytes = f[t].bytes /\ e[t].bytes \in Nat
      BY <2>5, <2>6, <2>8, <3>3 DEF Sized
    <3>7. SumOver(e, D) = SumOver(f, D) /\ SumOver(e, D) \in Nat
      BY <2>4, <3>6, SumsAgree DEF Agrees
    <3>8. SumOver(f, X) = bytes + SumOver(e, D)
      BY <3>4, <3>5, <3>7
    <3> QED
      BY <1>2, <3>1, <3>7, <3>8
  <2>14. Cardinality(X) <= BaselineEntries /\ IsFiniteSet(X)
    <3>1. Cardinality(X) = Cardinality(D) + 1 /\ IsFiniteSet(X) /\ Cardinality(D) \in Nat
      BY <2>4, <2>5, <2>7, FS_AddElement, FS_CardinalityType
    <3> QED
      BY <2>4, <3>1, VisualAssumption
  <2>15. X \subseteq BaselineSessions
    BY <2>5, <2>7 DEF Kept, Shelved
  <2>16. f = [t \in X |-> f[t]]
    BY <2>5
  <2>17. Shelved(f, i.used, baseline_clock + 1)
    BY <1>2, <2>4, <2>5, <2>9, <2>12, <2>13, <2>14, <2>15, <2>16 DEF Shelved
  <2> QED
    BY <2>1, <2>3, <2>5, <2>17 DEF Kept
<1> QED
  BY <1>3, <1>4

LEMMA GetKeeps ==
  ASSUME Kept, get_compatible
  PROVE  Kept'
<1>1. PICK s \in BaselineSessions, context \in BaselineContexts :
        IF s \in DOMAIN baselines /\ baselines[s].context = context
        THEN /\ baseline_clock < MaxBaselineTicks
             /\ baseline_clock' = baseline_clock + 1
             /\ baselines' = [baselines EXCEPT ![s].touched = baseline_clock + 1]
             /\ UNCHANGED baseline_used
        ELSE /\ baselines' = Removed(Cache, s).entries
             /\ baseline_used' = Removed(Cache, s).used
             /\ UNCHANGED baseline_clock
  BY DEF get_compatible
<1>2. CASE ~ (s \in DOMAIN baselines /\ baselines[s].context = context)
  <2>1. PICK r : r = Removed([entries |-> baselines, used |-> baseline_used], s)
    OBVIOUS
  <2>2. baselines' = r.entries /\ baseline_used' = r.used /\ baseline_clock' = baseline_clock
    BY <1>1, <1>2, <2>1 DEF Cache
  <2>3. Shelved(r.entries, r.used, baseline_clock)
    BY <2>1, WithoutIsShelved DEF Kept
  <2> QED
    BY <2>2, <2>3 DEF Kept
<1>3. CASE s \in DOMAIN baselines /\ baselines[s].context = context
  <2>1. PICK X, f : /\ X = DOMAIN baselines /\ f = baselines'
                    /\ f = [baselines EXCEPT ![s].touched = baseline_clock + 1]
    BY <1>1, <1>3
  <2>2. baseline_clock' = baseline_clock + 1 /\ baseline_used' = baseline_used
    BY <1>1, <1>3
  <2>3. baseline_clock \in Nat /\ baseline_clock + 1 \in 1 .. MaxBaselineTicks
    <3>1. baseline_clock \in Nat
      BY ShelvedIs DEF Kept
    <3> QED
      BY <1>1, <1>3, <3>1, VisualAssumption
  <2>4. baselines = [t \in X |-> baselines[t]]
    BY <2>1 DEF Kept, Shelved
  <2>5. DOMAIN f = X /\ f = [t \in X |-> f[t]] /\ \A t \in X : t # s => f[t] = baselines[t]
    BY <2>1, <2>4
  <2>6. f[s] = [baselines[s] EXCEPT !.touched = baseline_clock + 1]
    BY <1>3, <2>1, <2>4
  <2>7. \A t \in X : /\ baselines[t] \in [context : BaselineContexts, bytes : BaselineSizes,
                                          touched : 1 .. MaxBaselineTicks]
                     /\ baselines[t].touched <= baseline_clock /\ baselines[t].touched \in Nat
    <3>1. \A t \in X : baselines[t].touched <= baseline_clock /\ baselines[t].touched \in Nat
      BY <2>1, ShelvedIs DEF Kept
    <3> QED
      BY <2>1, <3>1 DEF Kept, Shelved
  <2>8. /\ f[s] \in [context : BaselineContexts, bytes : BaselineSizes, touched : 1 .. MaxBaselineTicks]
        /\ f[s].touched = baseline_clock + 1 /\ f[s].bytes = baselines[s].bytes
    BY <1>3, <2>1, <2>3, <2>6, <2>7
  <2>9. \A t \in X : /\ f[t] \in [context : BaselineContexts, bytes : BaselineSizes,
                                  touched : 1 .. MaxBaselineTicks]
                     /\ f[t].touched <= baseline_clock + 1
    BY <2>3, <2>5, <2>7, <2>8
  <2>10. \A t, v \in X : f[t].touched = f[v].touched => t = v
    <3> SUFFICES ASSUME NEW t \in X, NEW v \in X, f[t].touched = f[v].touched PROVE t = v
      OBVIOUS
    <3>1. CASE t = s \/ v = s
      BY <2>3, <2>5, <2>7, <2>8, <3>1
    <3>2. CASE t # s /\ v # s
      <4>1. baselines[t].touched = baselines[v].touched
        BY <2>5, <3>2
      <4> QED
        BY <2>1, <4>1 DEF Kept, Shelved
    <3> QED
      BY <3>1, <3>2
  <2>11. SumOver(baselines, X) = SumOver(f, X) /\ IsFiniteSet(X)
    <3>1. IsFiniteSet(X) /\ Agrees(baselines, baselines, X)
      BY <2>1, ShelvedIs DEF Kept
    <3>2. Agrees(baselines, f, X)
      BY <2>5, <2>8, <3>1 DEF Agrees
    <3> QED
      BY <3>1, <3>2, SumsAgree
  <2>12. /\ X \subseteq BaselineSessions /\ baseline_used = SumOver(baselines, X)
         /\ baseline_used <= BaselineBudget /\ Cardinality(X) <= BaselineEntries
    BY <2>1 DEF Kept, Shelved
  <2>13. baseline_clock + 1 \in 0 .. MaxBaselineTicks
    BY <2>3
  <2>14. Shelved(f, baseline_used, baseline_clock + 1)
    BY <2>5, <2>9, <2>10, <2>11, <2>12, <2>13 DEF Shelved
  <2> QED
    BY <2>1, <2>2, <2>14 DEF Kept
<1> QED
  BY <1>2, <1>3

LEMMA InitKeeps ==
  ASSUME VisualInit
  PROVE  Kept
<1>1. /\ baselines = [s \in {} |-> 0] /\ baseline_used = 0 /\ baseline_clock = 0
  BY DEF VisualInit
<1>2. DOMAIN baselines = {} /\ baselines = [t \in {} |-> baselines[t]]
  BY <1>1
<1>3. IsFiniteSet({}) /\ Cardinality({}) = 0 /\ SumOver(baselines, {}) = 0
  BY FS_EmptySet, SumOfNone
<1>4. 0 <= BaselineBudget /\ 0 <= BaselineEntries /\ 0 \in 0 .. MaxBaselineTicks
  BY VisualAssumption
<1> QED
  BY <1>1, <1>2, <1>3, <1>4 DEF Kept, Shelved

-----------------------------------------------------------------------------
(* Every case examined is sound, and the cache stays as it is. *)

PageSound(k) ==
  /\ \A o \in DOMAIN k.rows : k.rows[o] # {}
  /\ UNION {k.rows[o] : o \in DOMAIN k.rows} = 0 .. k.height - 1
CaseSound(k) ==
  \/ k.kind = "packet" /\ PacketSound(k)
  \/ k.kind = "affected" /\ k.change \subseteq k.shown
  \/ k.kind = "target" /\ contains_rect(k.target.rect, AskedFor(k.path))
  \/ k.kind = "page" /\ PageSound(k)
Examined(s) == (s = {} \/ \E k : s = {k}) /\ \A k \in s : CaseSound(k)
VisualInv == Examined(sample) /\ Kept

LEMMA ExamineKeeps ==
  ASSUME VisualInv, NEW k, CaseSound(k), Examine(k)
  PROVE  VisualInv'
<1>1. sample' = {k} /\ UNCHANGED <<baselines, baseline_used, baseline_clock>>
  BY DEF Examine
<1>2. Examined(sample')
  BY <1>1 DEF Examined
<1>3. Kept'
  BY <1>1 DEF VisualInv, Kept
<1> QED
  BY <1>2, <1>3 DEF VisualInv

LEMMA PacketKeeps ==
  ASSUME VisualInv, capture_visual_packet
  PROVE  VisualInv'
<1>1. PICK k \in Packets : Examine(k)
  BY DEF capture_visual_packet
<1>2. PacketSound(k)
  BY PacketsAreSound
<1>3. CaseSound(k)
  BY <1>2 DEF CaseSound, PacketSound
<1> QED
  BY <1>1, <1>3, ExamineKeeps

LEMMA AffectedKeeps ==
  ASSUME VisualInv, persist_affected
  PROVE  VisualInv'
<1> DEFINE affected(change, plan) ==
             [kind |-> "affected", change |-> change, candidates |-> {},
              budget |-> MaxRegions, selected |-> {}, dropped |-> 0,
              shown |-> UNION {crop_css_rect(r) : r \in plan.regions}, committed |-> TRUE]
<1>1. PICK change \in PageChanges : Examine(affected(change, plan_changed_css_regions(change)))
  BY Zenon DEF persist_affected
<1>2. PICK plan : plan = plan_changed_css_regions(change) /\ PlanShows(plan, change)
  BY PlannedShows
<1>3. PICK k : k = affected(change, plan)
  OBVIOUS
<1>4. /\ k.kind = "affected" /\ k.change = change
      /\ k.shown = UNION {crop_css_rect(r) : r \in plan.regions}
  BY <1>3
<1>5. change \subseteq UNION {crop_css_rect(r) : r \in plan.regions}
  BY <1>2 DEF PlanShows
<1>6. CaseSound(k)
  BY <1>4, <1>5 DEF CaseSound
<1> QED
  BY <1>1, <1>2, <1>3, <1>6, ExamineKeeps

LEMMA TargetKeeps ==
  ASSUME VisualInv, capture_progressive_target
  PROVE  VisualInv'
<1>1. PICK path \in TreePaths :
        \E t \in ToSet(resolve_progressive_targets(path)) :
          Examine([kind |-> "target", path |-> path, target |-> t])
  BY DEF capture_progressive_target
<1>2. PICK s : s = resolve_progressive_targets(path) /\ AllHold(s, AskedFor(path))
  BY TargetsHold
<1>3. PICK t \in ToSet(s) : Examine([kind |-> "target", path |-> path, target |-> t])
  BY <1>1, <1>2
<1>4. PICK i \in 1 .. Len(s) : t = s[i]
  BY <1>2, <1>3 DEF ToSet, AllHold
<1>5. contains_rect(t.rect, AskedFor(path))
  BY <1>2, <1>4 DEF AllHold
<1>6. PICK k : k = [kind |-> "target", path |-> path, target |-> t] /\ Examine(k)
  BY <1>3
<1>7. k.kind = "target" /\ k.path = path /\ k.target = t
  BY <1>6
<1>8. CaseSound(k)
  BY <1>5, <1>7 DEF CaseSound
<1> QED
  BY <1>6, <1>8, ExamineKeeps

LEMMA PageKeeps ==
  ASSUME VisualInv, capture_full_page
  PROVE  VisualInv'
<1> DEFINE page(d, v, scroll, t) ==
             [kind |-> "page", height |-> Scaled(d, t, v),
              rows |-> [o \in plan_full_page(d, v, scroll) |->
                          stitch_full_page_tile(Scaled(d, t, v), v, o, t)]]
<1>1. PICK d \in PageHeights, v \in PageHeights, scroll \in PageHeights \union {0}, t \in TileHeights :
        /\ plan_full_page(d, v, scroll) # {} /\ Scaled(d, t, v) > 0
        /\ Examine(page(d, v, scroll, t))
  BY Zenon DEF capture_full_page
<1>2. d \in Nat \ {0} /\ v \in Nat \ {0} /\ t \in Nat \ {0}
  BY VisualAssumption
<1>3. PICK rows : rows = [o \in plan_full_page(d, v, scroll) |->
                            stitch_full_page_tile(Scaled(d, t, v), v, o, t)]
  OBVIOUS
<1>4. /\ \A o \in DOMAIN rows : rows[o] # {}
      /\ UNION {rows[o] : o \in DOMAIN rows} = 0 .. Scaled(d, t, v) - 1
  BY <1>1, <1>2, <1>3, PlannedIsStitched
<1>5. PICK k : k = [kind |-> "page", height |-> Scaled(d, t, v), rows |-> rows] /\ Examine(k)
  BY <1>1, <1>3
<1>6. k.kind = "page" /\ k.height = Scaled(d, t, v) /\ k.rows = rows
  BY <1>5
<1>7. CaseSound(k)
  BY <1>4, <1>6 DEF CaseSound, PageSound
<1> QED
  BY <1>5, <1>7, ExamineKeeps

LEMMA VisualNextKeeps ==
  ASSUME VisualInv, [VisualNext]_visVars
  PROVE  VisualInv'
<1>1. CASE insert
  <2>1. Kept' /\ sample' = sample
    BY <1>1, InsertKeeps DEF VisualInv, insert
  <2> QED
    BY <2>1 DEF VisualInv
<1>2. CASE get_compatible
  <2>1. Kept' /\ sample' = sample
    BY <1>2, GetKeeps DEF VisualInv, get_compatible
  <2> QED
    BY <2>1 DEF VisualInv
<1>3. CASE UNCHANGED visVars
  BY <1>3 DEF visVars, VisualInv, Kept
<1> QED
  BY <1>1, <1>2, <1>3, PacketKeeps, AffectedKeeps, TargetKeeps, PageKeeps DEF VisualNext

LEMMA VisualInvSuffices ==
  ASSUME VisualInv
  PROVE  VisualTypeOK /\ VisualEvidenceIsSound
<1>1. CacheBooksAgree
  BY BooksAgree DEF VisualInv
<1>2. \A k \in sample : CaseSound(k)
  BY DEF VisualInv, Examined
<1>3. ChangesAreShownOrCounted
  <2> SUFFICES ASSUME NEW k \in sample, k.kind \in {"packet", "affected"},
                      ~ (k.change \subseteq k.shown)
               PROVE  k.dropped > 0
    BY DEF ChangesAreShownOrCounted
  <2>1. CaseSound(k)
    BY <1>2
  <2> QED
    BY <2>1 DEF CaseSound, PacketSound
<1>4. PacketIsWellChosen
  <2> SUFFICES ASSUME NEW k \in sample, k.kind = "packet" PROVE PacketSound(k)
    BY DEF PacketIsWellChosen, PacketSound
  <2> QED
    BY <1>2 DEF CaseSound
<1>5. TargetsHoldTheElement
  BY <1>2 DEF TargetsHoldTheElement, CaseSound, AskedFor
<1>6. PageIsStitched
  <2> SUFFICES ASSUME NEW k \in sample, k.kind = "page" PROVE PageSound(k)
    BY DEF PageIsStitched, PageSound
  <2> QED
    BY <1>2 DEF CaseSound
<1>7. VisualTypeOK
  <2>1. Cardinality(sample) <= 1
    <3>1. CASE sample = {}
      <4>1. Cardinality({}) = 0
        BY FS_EmptySet
      <4> QED
        BY <3>1, <4>1
    <3>2. CASE \E k : sample = {k}
      <4>1. PICK k : sample = {k}
        BY <3>2
      <4>2. Cardinality({k}) = 1
        BY FS_Singleton
      <4> QED
        BY <4>1, <4>2
    <3> QED
      BY <3>1, <3>2 DEF VisualInv, Examined
  <2>2. baseline_used \in Nat
    BY ShelvedIs DEF VisualInv, Kept
  <2> QED
    BY <2>1, <2>2 DEF VisualInv, Kept, Shelved, VisualTypeOK
<1> QED
  BY <1>1, <1>3, <1>4, <1>5, <1>6, <1>7 DEF VisualEvidenceIsSound

\* Visual evidence shows what it is evidence of, in every state and for every
\* page, path, policy and budget (VisualEvidenceIsSound): the changed regions hold
\* every changed pixel or the packet counts what it left out, the packet spends its
\* budget on the best images and repeats none, a target holds the element asked
\* for, a planned page is stitched whole, and the baseline cache's books agree with
\* what its projection announced; the cache and the case examined keep their types.
THEOREM VisualEvidenceStaysSound == VisualSpec => [](VisualTypeOK /\ VisualEvidenceIsSound)
<1>1. VisualInit => VisualInv
  <2> SUFFICES ASSUME VisualInit PROVE VisualInv
    OBVIOUS
  <2>1. sample = {}
    BY DEF VisualInit
  <2> QED
    BY <2>1, InitKeeps DEF VisualInv, Examined
<1>2. VisualInv /\ [VisualNext]_visVars => VisualInv'
  BY VisualNextKeeps
<1>3. VisualInv => VisualTypeOK /\ VisualEvidenceIsSound
  BY VisualInvSuffices
<1> QED
  BY <1>1, <1>2, <1>3, PTL DEF VisualSpec
=============================================================================
