----------------------------- MODULE Responsive -----------------------------
(***************************************************************************)
(* The adaptive responsive search (crates/responsive, and its live probe   *)
(* in the desktop's visual_capture.rs): a page is laid out at a few widths *)
(* and the one width range where it starts or stops failing is bisected.   *)
(* The page is alive: its semantic state may change between two probes, a  *)
(* probe may fail, and the number of probes is capped.                     *)
(*                                                                         *)
(* The widths, the caps and the tolerance are the program's own.  A page   *)
(* state lays the page out well from a width on and breaks it below, or    *)
(* the other way round.  What a probe knows of the state is a fingerprint  *)
(* of the semantic tree, which several states may share.                   *)
(***************************************************************************)
EXTENDS Integers, Sequences, FiniteSetsExt, SequencesExt

CONSTANTS
  PageStyles,       \* [shape, at, wide]: how one state of the page breaks
  Fingerprints,     \* [print, whole]: the hash of each tree, and the trees hashed whole
  StartWidths,      \* CSS widths of the preview before the search
  FrameHeights,     \* pixel heights of captured frames tried
  SheetLimit        \* rows of a contact sheet its memory budget allows

Shapes == {"overflow", "collision", "removed", "truncated", "sound"}

\* The page's semantic trees: of its first and second state, as they are, and
\* with the elements a script adds or removes at the widths that break.
Trees == (1 .. 2) \X BOOLEAN

ASSUME ResponsiveConstants ==
  /\ \A s \in PageStyles : s.shape \in Shapes /\ s.at \in Nat /\ s.wide \in BOOLEAN
  /\ \A h \in Fingerprints : h.print \in [Trees -> Nat] /\ h.whole \subseteq Trees
  /\ StartWidths \subseteq Nat /\ FrameHeights \subseteq Nat /\ SheetLimit \in Nat

MinWidth == 320
MaxWidth == 1440
MaxProbes == 12
InitialCap == 6
Tolerance == 16
NearbyWidth == 96
ViewHeight == 600
Presets == <<320, 390, 768, 1440>>

VARIABLES
  page,             \* its present state, the style of each state, its fingerprints
  search,           \* the search: phase, widths left to probe, bracket, failure
  probes,           \* width |-> the observation and its verdict
  receipt,          \* {} or the ResponsiveAdaptiveReceipt
  sheet             \* {} or the contact sheet built

respVars == <<page, search, probes, receipt, sheet>>

--------------------------------------------------------------------------
(* What a probe observes *)

Box(x, y, w, h) == [x |-> x, y |-> y, width |-> w, height |-> h]
Node(ref, parent, rect, interactive) ==
  [ref |-> ref, parent |-> parent, rect |-> rect, interactive |-> interactive]

Broken(style, width) == IF style.wide THEN width >= style.at ELSE width < style.at

\* The nodes of the page laid out at a width: two controls in a body.
LaidOut(style, width) ==
  LET body == Node("body", "none", Box(0, 0, width, ViewHeight), FALSE)
      menu == Node("menu", "body", Box(10, 10, 80, 30), TRUE)
      send == Node("send", "body", Box(110, 10, 80, 30), TRUE)
      pushed == Node("send", "body", Box(width - 40, 10, 80, 30), TRUE)
      stacked == Node("send", "body", Box(30, 20, 80, 30), TRUE)
      shape == IF Broken(style, width) THEN style.shape ELSE "fluid"
  IN CASE shape = "overflow" -> {body, menu, pushed}
       [] shape = "collision" -> {body, menu, stacked}
       [] shape = "removed" -> {body, menu}
       [] OTHER -> {body, menu, send}

\* The tree of a state at a width: overflow and collision only move elements.
TreeOf(state, style, width) ==
  <<state, Broken(style, width) /\ style.shape \in {"removed", "truncated"}>>

\* responsive_observation_from_snapshot: past the node bound it is incomplete.
\* Of the state it keeps responsive_semantic_state_fingerprint, a hash of the
\* references, tags, roles, interactive flags and child counts of the tree's
\* first nodes: changes of text, class or style leave it, and trees may collide,
\* so which trees share one is free.  `state` is read by the properties alone.
Probed(width) ==
  LET style == page.styles[page.state]
      tree == TreeOf(page.state, style, width)
  IN [width |-> width, state |-> page.state, nodes |-> LaidOut(style, width),
      print |-> page.hash.print[tree], whole |-> tree \in page.hash.whole,
      complete |-> ~ (Broken(style, width) /\ style.shape = "truncated")]

BoxRight(r) == r.x + r.width
BoxBottom(r) == r.y + r.height
BoxArea(r) == r.width * r.height
overlap_area(a, b) ==
  Max({0, Min({BoxRight(a), BoxRight(b)}) - Max({a.x, b.x})})
    * Max({0, Min({BoxBottom(a), BoxBottom(b)}) - Max({a.y, b.y})})

Issue(kind, refs, class, widths) ==
  [kind |-> kind, refs |-> refs, class |-> class, widths |-> widths]

OutsideX(n, width) == n.rect.x < -1 \/ BoxRight(n.rect) > width + 1
OutsideY(n) == n.rect.y < -1 \/ BoxBottom(n.rect) > ViewHeight + 1
Exceeds(n, p) ==
  \/ n.rect.x < p.rect.x - 2 \/ BoxRight(n.rect) > BoxRight(p.rect) + 2
  \/ n.rect.y < p.rect.y - 2 \/ BoxBottom(n.rect) > BoxBottom(p.rect) + 2
Collide(a, b) ==
  /\ a.parent # b.ref /\ b.parent # a.ref
  /\ 4 * overlap_area(a.rect, b.rect) >= Min({BoxArea(a.rect), BoxArea(b.rect)})

IssuesOf(o) ==
  LET at(kind, refs, class) == Issue(kind, refs, class, {o.width})
  IN {at("HorizontalOverflow", {n.ref}, "deterministic") :
        n \in {n \in o.nodes : OutsideX(n, o.width)}}
     \union {at("TextOrControlOutsideViewport", {n.ref}, "deterministic") :
        n \in {n \in o.nodes : n.interactive /\ (OutsideX(n, o.width) \/ OutsideY(n))}}
     \union {at("Clipping", {n.ref, n.parent}, "suspected") :
        n \in {n \in o.nodes : \E p \in o.nodes : p.ref = n.parent /\ Exceeds(n, p)}}
     \union {at("ControlCollision", {ab[1].ref, ab[2].ref}, "deterministic") :
        ab \in {ab \in o.nodes \X o.nodes : /\ ab[1] # ab[2]
                                            /\ ab[1].interactive /\ ab[2].interactive
                                            /\ Collide(ab[1], ab[2])}}

\* evaluate_responsive_observation
evaluate_observation(o) ==
  LET issues == IssuesOf(o)
  IN [issues |-> issues,
      state |-> IF ~ o.complete THEN "inconclusive"
                ELSE IF \E i \in issues : i.class = "deterministic" THEN "fail" ELSE "pass"]

--------------------------------------------------------------------------
(* Which widths are probed *)

Sorted(widths) ==
  [i \in 1 .. Cardinality(widths) |->
     CHOOSE w \in widths : Cardinality({v \in widths : v < w}) = i - 1]
Distance(a, b) == IF a < b THEN b - a ELSE a - b

\* adaptive_sweep: the anchors, the ends, and the middle of every wide gap.
adaptive_sweep(anchors) ==
  LET widths == {w \in anchors : w \in MinWidth .. MaxWidth} \union {MinWidth, MaxWidth}
      next(w) == Min({v \in widths : v > w})
  IN widths \union {w + (next(w) - w) \div 2 :
                       w \in {w \in widths : w < MaxWidth /\ next(w) - w > 160}}

\* The candidate farthest from every selected width, the smaller one of two.
Farthest(selected, candidates) ==
  LET nearest(c) == Min({Distance(c, w) : w \in selected})
  IN CHOOSE c \in candidates : \A d \in candidates :
       nearest(d) < nearest(c) \/ (nearest(d) = nearest(c) /\ c <= d)

\* One more width, unless there are enough or none is left.
Filled(selected, candidates, cap) ==
  IF Cardinality(selected) >= cap \/ candidates \subseteq selected THEN selected
  ELSE selected \union {Farthest(selected, candidates \ selected)}

\* bounded_adaptive_sweep: thinned to the cap, or filled up to it.
bounded_adaptive_sweep(anchors, cap) ==
  LET wanted == {w \in anchors : w \in MinWidth .. MaxWidth} \union {MinWidth, MaxWidth}
      thinned == {Sorted(wanted)[((slot * (Cardinality(wanted) - 1)) \div (cap - 1)) + 1] :
                    slot \in 0 .. cap - 1}
      filled[k \in 0 .. cap] ==
        IF k = 0 THEN IF Cardinality(wanted) > cap THEN thinned ELSE wanted
        ELSE Filled(filled[k - 1], adaptive_sweep(anchors), cap)
  IN filled[cap]

clamped(width) == Max({MinWidth, Min({width, MaxWidth})})

--------------------------------------------------------------------------
(* What the probes add up to *)

ProbedWidths == Sorted(DOMAIN probes)
OnePrint == \A v, w \in DOMAIN probes : probes[v].seen.print = probes[w].seen.print
WholePrints == \A w \in DOMAIN probes : probes[w].seen.whole
Concrete == \A w \in DOMAIN probes : probes[w].verdict.state # "inconclusive"

\* The neighbouring widths between which the verdict changes.
Transitions ==
  {i \in 1 .. Len(ProbedWidths) - 1 :
     probes[ProbedWidths[i]].verdict.state # probes[ProbedWidths[i + 1]].verdict.state}

Unresolved(reason) == [kind |-> reason, lower |-> 0, upper |-> 0]

\* resolve_observed_transition
resolve_observed_transition ==
  IF Len(ProbedWidths) < 2 THEN Unresolved("insufficient_probe_evidence")
  ELSE IF ~ Concrete THEN Unresolved("inconclusive_probe_evidence")
  ELSE IF Transitions = {} THEN Unresolved("no_transition")
  ELSE IF Cardinality(Transitions) > 1 THEN Unresolved("non_monotonic_detector")
  ELSE LET i == Min(Transitions)
           lower == ProbedWidths[i]
           upper == ProbedWidths[i + 1]
       IN IF upper - lower > Tolerance
          THEN Unresolved("transition_not_resolved_within_tolerance")
          ELSE [kind |-> "resolved", lower |-> lower, upper |-> upper]

\* Mutant: the fingerprints are compared before the bisection only.
resolved_whatever_the_state == resolve_observed_transition

\* run_live_adaptive_responsive: one whole fingerprint, or nothing is resolved.
transition_of_the_search ==
  IF ~ WholePrints THEN Unresolved("semantic_state_fingerprint_incomplete")
  ELSE IF ~ OnePrint THEN Unresolved("semantic_state_drift") ELSE resolve_observed_transition

\* Two observations that can be compared (append_nearby_responsive_issues).
SamePrint(o, p) == o.whole /\ p.whole /\ o.print = p.print

Controls(o) == {n \in o.nodes : n.interactive}
RefsOf(nodes) == {n.ref : n \in nodes}

\* The centre moved by 30 % of the viewport, or the area by a factor of three.
Jumped(n, m, o, p) ==
  LET cx(k, v) == (1000 * (2 * k.rect.x + k.rect.width)) \div (2 * v.width)
      cy(k) == (1000 * (2 * k.rect.y + k.rect.height)) \div (2 * ViewHeight)
  IN \/ Max({Distance(cx(n, o), cx(m, p)), Distance(cy(n), cy(m))}) >= 300
     \/ Max({BoxArea(n.rect), BoxArea(m.rect)}) >= 3 * Min({BoxArea(n.rect), BoxArea(m.rect)})

\* append_nearby_responsive_issues
nearby_issues(previous, o) ==
  LET widths == {previous.width, o.width}
  IN IF ~ SamePrint(previous, o) \/ Distance(previous.width, o.width) > NearbyWidth THEN {}
     ELSE {Issue("UnexpectedDisappearance", {ref}, "suspected", widths) :
             ref \in (RefsOf(Controls(previous)) \ RefsOf(o.nodes))
                       \union (RefsOf(Controls(o)) \ RefsOf(previous.nodes))}
          \union {Issue("DramaticLayoutJump", {n.ref}, "deterministic", widths) :
             n \in {n \in o.nodes : \E m \in previous.nodes :
                      m.ref = n.ref /\ Jumped(n, m, o, previous)}}

\* analyze_responsive_series: a width that differs from both its neighbours.
local_issues(a, b, c) ==
  LET verdict(w) == probes[w].verdict.state
      widths == {a, b, c}
  IN IF /\ SamePrint(probes[a].seen, probes[b].seen)
        /\ SamePrint(probes[b].seen, probes[c].seen)
        /\ verdict(a) = verdict(c) /\ verdict(b) # verdict(a)
        /\ "inconclusive" \notin {verdict(a), verdict(b)}
     THEN {Issue("BreakpointLocalRegression", {}, "deterministic", widths)}
          \union {Issue("NearbyWidthInstability", {}, "inconclusive", widths) :
                    k \in {k \in {0} : b - a <= NearbyWidth /\ c - b <= NearbyWidth}}
     ELSE {}

analyze_responsive_series ==
  LET w == ProbedWidths
  IN (UNION {nearby_issues(probes[w[i]].seen, probes[w[i + 1]].seen) : i \in 1 .. Len(w) - 1})
       \union (UNION {local_issues(w[i], w[i + 1], w[i + 2]) : i \in 1 .. Len(w) - 2})

--------------------------------------------------------------------------
(* The search *)

NoSearch == search.phase = "idle" /\ sheet = {}

\* run_live_adaptive_responsive starts: the first widths are planned.
plan_search(width) ==
  /\ NoSearch
  /\ search' = [search EXCEPT
       !.phase = "sweep",
       !.left = Sorted(bounded_adaptive_sweep(ToSet(Presets) \union {clamped(width)}, InitialCap))]
  /\ \E now, later \in PageStyles, hash \in Fingerprints :
       page' = [page EXCEPT !.styles = <<now, later>>, !.hash = hash]
  /\ UNCHANGED <<probes, receipt, sheet>>

\* probe_width: the same width twice is one probe; a failure sticks, the cap's too.
Probe(width, outcome) ==
  IF width \in DOMAIN probes \/ search.failure # "none"
  THEN outcome = "ok" /\ UNCHANGED probes
  ELSE IF outcome = "ok" /\ Cardinality(DOMAIN probes) < MaxProbes
  THEN LET seen == Probed(width)
       IN probes' = [w \in DOMAIN probes \union {width} |->
                       IF w = width THEN [seen |-> seen, verdict |-> evaluate_observation(seen)]
                       ELSE probes[w]]
  ELSE UNCHANGED probes

FailureAfter(width, outcome) ==
  IF width \in DOMAIN probes \/ search.failure # "none" THEN search.failure
  ELSE IF Cardinality(DOMAIN probes) >= MaxProbes THEN "responsive_probe_cap_exceeded"
  ELSE IF outcome = "ok" THEN "none" ELSE outcome

\* The initial widths, in order; a failure ends the search.
probe_initial(outcome) ==
  LET width == Head(search.left)
      failure == FailureAfter(width, outcome)
  IN /\ search.phase = "sweep" /\ search.left # <<>>
     /\ Probe(width, outcome)
     /\ search' = [search EXCEPT !.left = Tail(@), !.failure = failure,
                                 !.phase = IF failure = "none" THEN @ ELSE "failed"]
     /\ UNCHANGED <<page, receipt, sheet>>

\* Exactly one concrete transition in one whole fingerprint is refined by
\* discover_breakpoint.
choose_bracket ==
  /\ search.phase = "sweep" /\ search.left = <<>>
  /\ search' = IF /\ Concrete /\ WholePrints /\ OnePrint
                  /\ Cardinality(Transitions) = 1
               THEN [search EXCEPT !.phase = "bisect",
                                   !.low = ProbedWidths[Min(Transitions)],
                                   !.high = ProbedWidths[Min(Transitions) + 1],
                                   !.low_fails =
                                     probes[ProbedWidths[Min(Transitions)]].verdict.state = "fail"]
               ELSE [search EXCEPT !.phase = "resolve"]
  /\ UNCHANGED <<page, probes, receipt, sheet>>

\* discover_breakpoint's loop condition.
narrow_enough == search.high - search.low <= Tolerance

\* LayoutProbe::fails_at: a probe that failed counts as one that did not break.
fails_at(width) == width \in DOMAIN probes' /\ probes'[width].verdict.state = "fail"

discover_breakpoint(outcome) ==
  LET mid == search.low + (search.high - search.low) \div 2
  IN /\ search.phase = "bisect" /\ ~ narrow_enough
     /\ Probe(mid, outcome)
     /\ search' = [search EXCEPT
          !.failure = FailureAfter(mid, outcome),
          !.low = IF fails_at(mid) = search.low_fails THEN mid ELSE @,
          !.high = IF fails_at(mid) = search.low_fails THEN @ ELSE mid]
     /\ UNCHANGED <<page, receipt, sheet>>

bracket_found ==
  /\ search.phase = "bisect" /\ narrow_enough
  /\ search' = [search EXCEPT !.phase = IF search.failure = "none" THEN "resolve" ELSE "failed"]
  /\ UNCHANGED <<page, probes, receipt, sheet>>

\* The receipt: the transition and every issue seen.
report ==
  /\ search.phase = "resolve"
  /\ search' = [search EXCEPT !.phase = "done"]
  /\ receipt' = {[transition |-> transition_of_the_search,
                  issues |-> (UNION {probes[w].verdict.issues : w \in DOMAIN probes})
                               \union analyze_responsive_series]}
  /\ UNCHANGED <<page, probes, sheet>>

\* The page turns into another state, once; its fingerprint may not show it.
page_drifts ==
  /\ search.phase \in {"sweep", "bisect"} /\ page.state = 1
  /\ page' = [page EXCEPT !.state = 2]
  /\ UNCHANGED <<search, probes, receipt, sheet>>

--------------------------------------------------------------------------
(* The contact sheet of the canonical presets *)

Gutter == 16

\* project_contact_sheet: the top of every frame.
project_contact_sheet(heights) ==
  LET top[i \in DOMAIN heights] == IF i = 1 THEN 0 ELSE top[i - 1] + heights[i - 1] + Gutter
  IN top

\* build_responsive_contact_sheet: the frames copied over the gutter, in order.
Painted(tops, heights, row) ==
  LET on == {i \in DOMAIN heights : row \in tops[i] .. tops[i] + heights[i] - 1}
  IN IF on = {} THEN 0 ELSE Max(on)

\* plan_canonical_sweep and build_responsive_contact_sheet within their budget.
build_responsive_contact_sheet ==
  \E requested \in (SUBSET (1 .. 4)) \ {{}} :
    \E heights \in [1 .. Cardinality(requested) -> FrameHeights] :
      LET tops == project_contact_sheet(heights)
          last == Len(heights)
          rows == tops[last] + heights[last]
      IN /\ NoSearch
         /\ rows <= SheetLimit
         /\ sheet' = {[presets |-> Sorted(requested), heights |-> heights,
                       rows |-> [row \in 0 .. rows - 1 |-> Painted(tops, heights, row)]]}
         /\ UNCHANGED <<page, search, probes, receipt>>

--------------------------------------------------------------------------

ResponsiveInit ==
  /\ page = [state |-> 1, styles |-> <<>>, hash |-> <<>>]
  /\ search = [phase |-> "idle", left |-> <<>>, low |-> 0, high |-> 0, low_fails |-> FALSE,
               failure |-> "none"]
  /\ probes = [w \in {} |-> 0]
  /\ receipt = {}
  /\ sheet = {}

ResponsiveNext ==
  \/ \E width \in StartWidths : plan_search(width)
  \/ \E outcome \in {"ok", "responsive_settle_failed"} :
       probe_initial(outcome) \/ discover_breakpoint(outcome)
  \/ choose_bracket \/ bracket_found \/ report
  \/ page_drifts
  \/ build_responsive_contact_sheet

ResponsiveSpec == ResponsiveInit /\ [][ResponsiveNext]_respVars

--------------------------------------------------------------------------
(* Properties *)

\* Type correctness; the search's bracket stays within the widths it may lay out.
ResponsiveTypeOK ==
  /\ page.state \in 1 .. 2 /\ (page.styles = <<>> \/ page.styles \in PageStyles \X PageStyles)
  /\ page.hash = <<>> \/ page.hash \in Fingerprints
  /\ search.phase \in {"idle", "sweep", "bisect", "resolve", "done", "failed"}
  /\ search.low \in 0 .. MaxWidth /\ search.high \in 0 .. MaxWidth
  /\ DOMAIN probes \subseteq MinWidth .. MaxWidth
  /\ Cardinality(receipt) <= 1 /\ Cardinality(sheet) <= 1

\* The tree a probe met, and whether two probes met trees that their whole
\* fingerprints do not tell apart.
TreeSeen(w) ==
  LET state == probes[w].seen.state IN TreeOf(state, page.styles[state], w)
SeenAlike(v, w) ==
  /\ {TreeSeen(v), TreeSeen(w)} \subseteq page.hash.whole
  /\ page.hash.print[TreeSeen(v)] = page.hash.print[TreeSeen(w)]

\* What the page in one of its states does at a width.
Fails(state, width) ==
  LET style == page.styles[state]
  IN Broken(style, width) /\ style.shape \in {"overflow", "collision"}

\* What a transition says of the page.
TransitionHolds(t) ==
  LET before == probes[t.lower].seen.state
      after == probes[t.upper].seen.state
  IN /\ \A v, w \in DOMAIN probes : SeenAlike(v, w)
     /\ Fails(before, t.lower) <=> ~ Fails(after, t.upper)
     /\ before = after => page.styles[before].at \in t.lower + 1 .. t.upper

\* A resolved transition is one of the page, as far as the fingerprint reaches:
\* from the first probe to the last nothing it reads has changed, the page failed
\* at one of the two widths reported and not at the other, each in the state it
\* was in when probed, and when that was one state, that state starts or stops
\* failing between them; whenever the page drifted and whichever probe failed.
TransitionIsReal ==
  \A r \in receipt : r.transition.kind = "resolved" => TransitionHolds(r.transition)

\* The probe cap is never what ends a search: the planner's widths leave enough
\* of it for the bisection to reach the tolerance.
SearchFitsTheCap ==
  /\ search.failure # "responsive_probe_cap_exceeded"
  /\ Cardinality(DOMAIN probes) <= MaxProbes

\* An issue that compares widths compares probes between which nothing that the
\* fingerprint reads has changed, however the page drifts between two probes.
IssuesAreOfOnePrint ==
  \A r \in receipt : \A i \in r.issues :
    \A v, w \in i.widths : v # w => SeenAlike(v, w)

\* The contact sheet shows every requested preset's frame whole, each at a place
\* of its own, however high the frames are.
SheetKeepsEveryFrame ==
  \A s \in sheet : \A i \in DOMAIN s.heights :
    Cardinality({row \in DOMAIN s.rows : s.rows[row] = i}) = s.heights[i]

\* What the responsive report says of the page is so.
ResponsiveReportIsSound ==
  TransitionIsReal /\ SearchFitsTheCap /\ IssuesAreOfOnePrint /\ SheetKeepsEveryFrame
=============================================================================
