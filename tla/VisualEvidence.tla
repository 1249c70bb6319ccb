--------------------------- MODULE VisualEvidence ---------------------------
(***************************************************************************)
(* From two frames of a page to the few images an agent is given: the      *)
(* changed-region planner and its baseline cache (crates/visual), the      *)
(* progressive targets around an element (crates/capture), the selection   *)
(* under an image budget (crates/token-budget), the full-page plan and its *)
(* stitching, and the desktop commands that put them together.             *)
(*                                                                         *)
(* A frame is the set of pixels that differ from the baseline; a rectangle *)
(* is in CSS units, PixelSize of them to a pixel, so that all geometry is  *)
(* exact: the rounding of f64 is left out.  One case of the pure part is   *)
(* put in `sample`; the cache is a state machine of its own.               *)
(***************************************************************************)
EXTENDS Integers, Sequences, FiniteSetsExt, SequencesExt

CONSTANTS
  FrameSize,        \* pixels of the square frame's side
  PixelSize,        \* CSS units per pixel
  TileSize,         \* ChangedRegionPolicy.tile_px
  MaxRegions,       \* ChangedRegionPolicy.max_regions
  PageChanges,      \* the sets of changed pixels tried
  TreePaths,        \* the paths from the root to the element asked for
  ImageBudgets,     \* PerceptionBudgetContract.image_regions tried
  PageHeights,      \* CSS heights of documents and viewports tried
  TileHeights,      \* pixel heights of one captured tile tried
  MaxTiles,         \* FullPagePolicy.max_tiles
  BaselineSessions, BaselineContexts, BaselineSizes,
  BaselineBudget,   \* byte_budget of the cache
  BaselineEntries,  \* max_entries of the cache
  MaxBaselineTicks  \* bound: touches of the cache

\* Rectangles may lie anywhere; the changed pixels are pixels of the frame.
Rects == [x : Int, y : Int, width : Int, height : Int]
Pixels == (0 .. FrameSize - 1) \X (0 .. FrameSize - 1)

ASSUME VisualAssumption ==
  /\ FrameSize \in Nat \ {0} /\ PixelSize \in Nat \ {0} /\ TileSize \in Nat \ {0}
  /\ MaxRegions \in Nat /\ ImageBudgets \subseteq Nat
  /\ PageChanges \subseteq SUBSET Pixels
  /\ TreePaths \subseteq
       Seq([rect : Rects, owner : STRING, component : STRING, section : BOOLEAN]) \ {<<>>}
  /\ PageHeights \subseteq Nat \ {0} /\ TileHeights \subseteq Nat \ {0} /\ MaxTiles \in Nat \ {0}
  /\ BaselineSizes \subseteq Nat /\ BaselineBudget \in Nat \ {0} /\ BaselineEntries \in Nat \ {0}
  /\ MaxBaselineTicks \in Nat

VARIABLES
  sample,           \* {} or the one case examined
  baselines,        \* VisualBaselineCache.entries, used_bytes and clock
  baseline_used,
  baseline_clock

visVars == <<sample, baselines, baseline_used, baseline_clock>>

--------------------------------------------------------------------------
(* Rectangles *)

Rect(x, y, w, h) == [x |-> x, y |-> y, width |-> w, height |-> h]
Right(r) == r.x + r.width
Bottom(r) == r.y + r.height
Area(r) == r.width * r.height
ViewportSide == FrameSize * PixelSize
WholeViewport == Rect(0, 0, ViewportSide, ViewportSide)

contains_rect(container, child) ==
  /\ container.x <= child.x /\ container.y <= child.y
  /\ Right(container) >= Right(child) /\ Bottom(container) >= Bottom(child)

\* crop_css_rect: the pixels of the clipped rectangle, floor to ceiling.
crop_css_rect(rect) ==
  LET clip(v) == Max({0, Min({v, ViewportSide})})
      ceil(v) == (v + PixelSize - 1) \div PixelSize
  IN {p \in Pixels :
        /\ p[1] \in clip(rect.x) \div PixelSize .. ceil(clip(Right(rect))) - 1
        /\ p[2] \in clip(rect.y) \div PixelSize .. ceil(clip(Bottom(rect))) - 1}

--------------------------------------------------------------------------
(* The changed-region planner *)

TileOf(c) == Rect((c[1] \div TileSize) * TileSize, (c[2] \div TileSize) * TileSize,
                  Min({TileSize, FrameSize - (c[1] \div TileSize) * TileSize}),
                  Min({TileSize, FrameSize - (c[2] \div TileSize) * TileSize}))

ReadingOrder(a, b) == a.y < b.y \/ (a.y = b.y /\ a.x < b.x)

\* A finite set as the sequence a sort makes of it, by a total order: a set of pairs.
Ranked(S, order) ==
  LET rank == [c \in S |-> Cardinality({d \in S : <<d, c>> \in order})]
  IN [i \in 1 .. Cardinality(S) |-> CHOOSE c \in S : rank[c] = i - 1]

\* changed_tiles, in the order of coalesce_regions' first sort.
changed_tiles(change) ==
  LET tiles == {TileOf(c) : c \in change}
  IN Ranked(tiles, {p \in tiles \X tiles : ReadingOrder(p[1], p[2])})

regions_overlap_or_edge_touch(a, b) ==
  LET x_overlap == a.x < Right(b) /\ b.x < Right(a)
      y_overlap == a.y < Bottom(b) /\ b.y < Bottom(a)
      x_touch == Right(a) = b.x \/ Right(b) = a.x
      y_touch == Bottom(a) = b.y \/ Bottom(b) = a.y
  IN \/ (x_overlap \/ x_touch) /\ y_overlap
     \/ y_touch /\ x_overlap

\* Mutant: the edges are forgotten: the union is as wide as the wider of the two.
merge_sizes(a, b) ==
  Rect(Min({a.x, b.x}), Min({a.y, b.y}), Max({a.width, b.width}), Max({a.height, b.height}))

merge_regions(a, b) ==
  LET x == Min({a.x, b.x})
      y == Min({a.y, b.y})
  IN Rect(x, y, Max({Right(a), Right(b)}) - x, Max({Bottom(a), Bottom(b)}) - y)

\* Vec::swap_remove
SwapRemove(s, i) == Front([s EXCEPT ![i] = Last(s)])

\* One turn of the loop: the first region near is absorbed, else the next is taken.
Coalesced(c) ==
  LET near == {i \in DOMAIN c.pending : regions_overlap_or_edge_touch(c.region, c.pending[i])}
  IN IF near # {}
     THEN [c EXCEPT !.region = merge_regions(c.region, c.pending[Min(near)]),
                    !.pending = SwapRemove(c.pending, Min(near))]
     ELSE [done |-> c.done \union {c.region}, region |-> Last(c.pending),
           pending |-> Front(c.pending)]

\* Every turn takes one pending region: after one turn less than there are tiles
\* the last region is left.
coalesce_regions(tiles) ==
  LET turn[k \in 0 .. Len(tiles) - 1] ==
        IF k = 0 THEN [done |-> {}, region |-> Last(tiles), pending |-> Front(tiles)]
        ELSE Coalesced(turn[k - 1])
      end == turn[Len(tiles) - 1]
  IN IF tiles = <<>> THEN {} ELSE end.done \union {end.region}

\* pixel_diff: the changed part of the frame, in percent.
changed_ratio(change) == (100 * Cardinality(change)) \div (FrameSize * FrameSize)

\* plan_changed_css_regions; the fallback ratio of the default policy is 35 %.
plan_changed_css_regions(change) ==
  LET regions == coalesce_regions(changed_tiles(change))
      Css(r) == Rect(r.x * PixelSize, r.y * PixelSize, r.width * PixelSize, r.height * PixelSize)
  IN IF change = {} THEN [kind |-> "unchanged", regions |-> {}]
     ELSE IF \/ changed_ratio(change) >= 35
             \/ Cardinality(regions) > MaxRegions
          THEN [kind |-> "viewport", regions |-> {WholeViewport}]
          ELSE [kind |-> "regions", regions |-> {Css(r) : r \in regions}]

--------------------------------------------------------------------------
(* The progressive targets *)

NoRect == Rect(0, 0, 0, 0)

\* validate_and_clip: NoRect stands for None.
validate_and_clip(r) ==
  LET left == Max({r.x, 0})
      top == Max({r.y, 0})
      width == Min({Right(r), ViewportSide}) - left
      height == Min({Bottom(r), ViewportSide}) - top
  IN IF r.width <= 0 \/ r.height <= 0 \/ width <= 0 \/ height <= 0
     THEN NoRect ELSE Rect(left, top, width, height)

\* expand by 120 units and clamp: the width is cut at the viewport's edge only.
expand(r) ==
  LET x == Max({r.x - 120, 0})
      y == Max({r.y - 120, 0})
  IN Rect(x, y, Min({r.width + 240, ViewportSide - x}), Min({r.height + 240, ViewportSide - y}))

\* The nearest proper ancestor with property P that holds the element on screen.
NearestHolder(path, P(_)) ==
  LET element == validate_and_clip(Last(path).rect)
      holders == {i \in 1 .. Len(path) - 1 :
                    /\ P(path[i])
                    /\ validate_and_clip(path[i].rect) # NoRect
                    /\ contains_rect(validate_and_clip(path[i].rect), element)}
  IN IF holders = {} THEN NoRect ELSE validate_and_clip(path[Max(holders)].rect)

\* Ownership decides when the element has it, else the source's component name.
resolve_component_ancestor(path) ==
  LET target == Last(path)
      SameOwner(n) == n.owner = target.owner
      SameComponent(n) == n.component = target.component
  IN IF target.owner # "none" THEN NearestHolder(path, SameOwner)
     ELSE IF target.component # "none" THEN NearestHolder(path, SameComponent)
     ELSE NoRect

resolve_section_ancestor(path) ==
  LET Boundary(n) == n.section IN NearestHolder(path, Boundary)

Target(kind, rect, confidence) == [kind |-> kind, rect |-> rect, confidence |-> confidence]

push_unique_target(targets, t) ==
  IF t.rect = NoRect \/ \E i \in DOMAIN targets : targets[i].rect = t.rect
  THEN targets ELSE Append(targets, t)

\* resolve_progressive_targets: <<>> when the element has no rectangle on screen.
resolve_progressive_targets(path) ==
  LET element == validate_and_clip(Last(path).rect)
      first == <<Target("element", expand(element), 1000)>>
      second == push_unique_target(first,
                  Target("component", resolve_component_ancestor(path), 950))
      third == push_unique_target(second,
                 Target("section", resolve_section_ancestor(path), 850))
  IN IF element = NoRect THEN <<>>
     ELSE Append(third, Target("viewport", WholeViewport, 1000))

--------------------------------------------------------------------------
(* The visual packet *)

rects_intersect(a, b) ==
  a.x < Right(b) /\ b.x < Right(a) /\ a.y < Bottom(b) /\ b.y < Bottom(a)

Candidate(source, rect, gain, confidence, relevance) ==
  [source |-> source, rect |-> rect, gain |-> gain, confidence |-> confidence,
   relevance |-> relevance]

\* The changed regions rank by whether they meet the element's neighbourhood.
ChangedCandidates(plan, targets) ==
  LET relevance(r) == IF targets = <<>> \/ rects_intersect(r, targets[1].rect)
                      THEN 1000 ELSE 650
      fallback == IF targets = <<>> THEN 700 ELSE 550
  IN CASE plan.kind = "regions" ->
            {Candidate("changed", r, 1000, 1000, relevance(r)) : r \in plan.regions}
       [] plan.kind = "viewport" -> {Candidate("viewport", WholeViewport, 700, 1000, fallback)}
       [] OTHER -> {}

visual_packet_candidates(plan, targets) ==
  LET gain == [element |-> 900, component |-> 800, section |-> 675, viewport |-> 450]
      relevance == [element |-> 1000, component |-> 925, section |-> 800, viewport |-> 550]
  IN ChangedCandidates(plan, targets)
       \union {Candidate(t.kind, t.rect, gain[t.kind], t.confidence, relevance[t.kind]) :
                 t \in ToSet(targets)}

source_rank == [changed |-> 0, element |-> 1, component |-> 2, section |-> 3, viewport |-> 4]
source_base_cost ==
  [changed |-> 25, element |-> 50, component |-> 100, section |-> 180, viewport |-> 300]

\* normalized_cost_milli
Cost(c) == source_base_cost[c.source]
             + Max({1, (Area(c.rect) * 1000 + Area(WholeViewport) - 1) \div Area(WholeViewport)})

\* utility_score, in units that keep its order and fit TLC's integers.
score_candidate(c) ==
  ((c.gain \div 25) * (c.confidence \div 50) * (c.relevance \div 25) * 60000) \div Cost(c)

\* compare_scored_candidates: the best candidate first.
Key(c) == <<-score_candidate(c), -c.gain, -c.confidence, -c.relevance, Cost(c),
            source_rank[c.source], c.rect.x, c.rect.y, c.rect.width, c.rect.height>>
Smaller(k, l) == LET i == Min({i \in 1 .. Len(k) + 1 : i > Len(k) \/ k[i] # l[i]})
                 IN i <= Len(k) /\ k[i] < l[i]
Outranks(c, d) == Smaller(Key(c), Key(d))
BestFirst(candidates) ==
  LET key == [c \in candidates |-> Key(c)]
  IN Ranked(candidates, {p \in candidates \X candidates : Smaller(key[p[1]], key[p[2]])})

\* overlap_fraction_of_smaller >= 0.85
evidence_is_redundant(a, b) ==
  LET w == Min({Right(a), Right(b)}) - Max({a.x, b.x})
      h == Min({Bottom(a), Bottom(b)}) - Max({a.y, b.y})
  IN w > 0 /\ h > 0 /\ 100 * w * h >= 85 * Min({Area(a), Area(b)})

\* select_visual_packet: greedy, best first, nothing that repeats a selected one.
Taken(chosen, c, budget) ==
  IF \/ Cardinality(chosen) >= budget
     \/ \E d \in chosen : evidence_is_redundant(d.rect, c.rect)
  THEN chosen ELSE chosen \union {c}

select_visual_packet(candidates, budget) ==
  LET ranked == BestFirst(candidates)
      chosen[k \in 0 .. Len(ranked)] ==
        IF k = 0 THEN {} ELSE Taken(chosen[k - 1], ranked[k], budget)
      selected == chosen[Len(ranked)]
  IN [selected |-> selected, dropped |-> Cardinality(candidates) - Cardinality(selected)]

\* persist_visual_packet_selection: the whole frame, or a crop of it.
Shown(c) == IF c.source = "viewport" THEN Pixels ELSE crop_css_rect(c.rect)

NoCase == sample = {} /\ baseline_clock = 0
Examine(case) ==
  /\ sample' = {case}
  /\ UNCHANGED <<baselines, baseline_used, baseline_clock>>

\* capture_visual_packet_authorized: plan, select, persist, advance the baseline;
\* the targets of a path are asked for only when there is an element.
PacketTargets(path) == IF path = <<>> THEN <<>> ELSE resolve_progressive_targets(path)

PacketOf(change, path, budget) ==
  LET candidates == visual_packet_candidates(plan_changed_css_regions(change), PacketTargets(path))
      choice == select_visual_packet(candidates, budget)
  IN [kind |-> "packet", change |-> change, candidates |-> candidates, budget |-> budget,
      selected |-> choice.selected, dropped |-> choice.dropped, committed |-> budget > 0,
      shown |-> UNION {Shown(c) : c \in choice.selected}]

Packets ==
  {PacketOf(change, path, budget) :
     change \in PageChanges, budget \in ImageBudgets,
     path \in {<<>>} \union {p \in TreePaths : PacketTargets(p) # <<>>}}

capture_visual_packet ==
  /\ NoCase
  /\ \E packet \in Packets : Examine(packet)

\* persist_verification_affected_visual_evidence: one crop per planned region.
persist_affected ==
  \E change \in PageChanges :
    LET plan == plan_changed_css_regions(change)
    IN /\ NoCase
       /\ Examine([kind |-> "affected", change |-> change, candidates |-> {},
                   budget |-> MaxRegions, selected |-> {}, dropped |-> 0,
                   shown |-> UNION {crop_css_rect(r) : r \in plan.regions},
                   committed |-> TRUE])

\* capture_progressive_target: the level may be unavailable.
capture_progressive_target ==
  \E path \in TreePaths, level \in {"element", "component", "section", "viewport"} :
    LET targets == resolve_progressive_targets(path)
    IN /\ NoCase
       /\ \E t \in ToSet(targets) :
            /\ t.kind = level
            /\ Examine([kind |-> "target", path |-> path, target |-> t])

--------------------------------------------------------------------------
(* The full page *)

\* f64::round of a * b / c
Scaled(a, b, c) == (2 * a * b + c) \div (2 * c)

\* plan_full_page: the offsets, or {} when the geometry or the budget refuses.
plan_full_page(document, viewport, scroll) ==
  LET last == Max({document - viewport, 0})
      offsets == {0, last} \union {k * viewport : k \in 1 .. MaxTiles}
      wanted == {o \in offsets : o <= last}
  IN IF \/ scroll > last
        \/ last > MaxTiles * viewport
        \/ Cardinality(wanted) > MaxTiles
     THEN {} ELSE wanted

\* stitch_full_page_tile: the output rows one tile is copied to; {} out of bounds.
stitch_full_page_tile(height, viewport, offset, tile) ==
  LET top == Scaled(offset, tile, viewport)
  IN IF top >= height THEN {} ELSE top .. top + Min({tile, height - top}) - 1

\* project_full_page_output and the stitching of every tile of the plan.
capture_full_page ==
  \E document, viewport \in PageHeights, scroll \in PageHeights \union {0}, tile \in TileHeights :
    LET offsets == plan_full_page(document, viewport, scroll)
        height == Scaled(document, tile, viewport)
    IN /\ NoCase
       /\ offsets # {} /\ height > 0
       /\ Examine([kind |-> "page", height |-> height,
                   rows |-> [o \in offsets |->
                               stitch_full_page_tile(height, viewport, o, tile)]])

--------------------------------------------------------------------------
(* The baseline cache *)

UsedBy(entries) == MapThenSumSet(LAMBDA s : entries[s].bytes, DOMAIN entries)
Less(entries, s) == [t \in DOMAIN entries \ {s} |-> entries[t]]
Oldest(entries) ==
  CHOOSE s \in DOMAIN entries : \A t \in DOMAIN entries : entries[s].touched <= entries[t].touched

\* VisualBaselineCache::remove
Removed(cache, s) ==
  IF s \notin DOMAIN cache.entries THEN cache
  ELSE [entries |-> Less(cache.entries, s), used |-> cache.used - cache.entries[s].bytes]

\* evict_to_budget: one turn, and as many as there are entries.
OldestOut(cache) ==
  IF cache.used <= BaselineBudget /\ Cardinality(DOMAIN cache.entries) <= BaselineEntries
  THEN cache ELSE Removed(cache, Oldest(cache.entries))

evict_to_budget(cache) ==
  LET turn[k \in 0 .. Cardinality(DOMAIN cache.entries)] ==
        IF k = 0 THEN cache ELSE OldestOut(turn[k - 1])
  IN turn[Cardinality(DOMAIN cache.entries)]

Cache == [entries |-> baselines, used |-> baseline_used]

\* VisualBaselineCache::insert
Inserted(s, context, bytes) ==
  LET without == Removed(Cache, s)
      entry == [context |-> context, bytes |-> bytes, touched |-> baseline_clock + 1]
  IN IF bytes > BaselineBudget THEN without
     ELSE evict_to_budget(
            [entries |-> [t \in DOMAIN without.entries \union {s} |->
                            IF t = s THEN entry ELSE without.entries[t]],
             used |-> without.used + bytes])

\* projected_used_bytes_after_insert: the oldest others go until it would fit.
projected_used_bytes_after_insert(s, bytes) ==
  LET others == DOMAIN baselines \ {s}
      Younger(k) == {t \in others :
                       Cardinality({u \in others : baselines[u].touched < baselines[t].touched}) >= k}
      Bytes(k) == MapThenSumSet(LAMBDA t : baselines[t].bytes, Younger(k)) + bytes
      fits == {k \in 0 .. Cardinality(others) :
                 Bytes(k) <= BaselineBudget /\ Cardinality(Younger(k)) < BaselineEntries}
  IN baseline_used - UsedBy(baselines) + Bytes(Min(fits))

insert ==
  \E s \in BaselineSessions, context \in BaselineContexts, bytes \in BaselineSizes :
    LET cache == Inserted(s, context, bytes)
    IN /\ baseline_clock < MaxBaselineTicks /\ sample = {}
       /\ baselines' = cache.entries /\ baseline_used' = cache.used
       /\ baseline_clock' = baseline_clock + IF bytes > BaselineBudget THEN 0 ELSE 1
       /\ UNCHANGED sample

\* get_compatible: a baseline of another context is dropped by the question.
get_compatible ==
  \E s \in BaselineSessions, context \in BaselineContexts :
    /\ sample = {}
    /\ IF s \in DOMAIN baselines /\ baselines[s].context = context
       THEN /\ baseline_clock < MaxBaselineTicks
            /\ baseline_clock' = baseline_clock + 1
            /\ baselines' = [baselines EXCEPT ![s].touched = baseline_clock + 1]
            /\ UNCHANGED baseline_used
       ELSE /\ baselines' = Removed(Cache, s).entries
            /\ baseline_used' = Removed(Cache, s).used
            /\ UNCHANGED baseline_clock
    /\ UNCHANGED sample

--------------------------------------------------------------------------

VisualInit ==
  /\ sample = {}
  /\ baselines = [s \in {} |-> 0]
  /\ baseline_used = 0
  /\ baseline_clock = 0

VisualNext ==
  \/ capture_visual_packet
  \/ persist_affected
  \/ capture_progressive_target
  \/ capture_full_page
  \/ insert
  \/ get_compatible

VisualSpec == VisualInit /\ [][VisualNext]_visVars

--------------------------------------------------------------------------
(* Properties *)

\* Type correctness of the cache and of the one case examined.
VisualTypeOK ==
  /\ Cardinality(sample) <= 1
  /\ DOMAIN baselines \subseteq BaselineSessions
  /\ \A s \in DOMAIN baselines :
       baselines[s] \in [context : BaselineContexts, bytes : BaselineSizes,
                         touched : 1 .. MaxBaselineTicks]
  /\ baseline_used \in Nat
  /\ baseline_clock \in 0 .. MaxBaselineTicks

\* capture_visual_packet moves the baseline past every change of the frame, and
\* trusted Verify reports its regions as all that changed.  So a changed pixel
\* that no image shows is never silent: the packet counts a dropped candidate.
ChangesAreShownOrCounted ==
  \A k \in sample :
    k.kind \in {"packet", "affected"} /\ k.committed /\ ~ (k.change \subseteq k.shown)
      => k.dropped > 0

\* select_visual_packet spends the image budget well: no two images repeat each
\* other, and whatever is left out repeats a better one or met a budget spent
\* on better ones.
PacketIsWellChosen ==
  \A k \in sample : k.kind = "packet" =>
    /\ Cardinality(k.selected) <= k.budget
    /\ \A c, d \in k.selected : c # d => ~ evidence_is_redundant(c.rect, d.rect)
    /\ \A c \in k.candidates \ k.selected :
         \/ Cardinality(k.selected) = k.budget /\ \A d \in k.selected : Outranks(d, c)
         \/ \E d \in k.selected : Outranks(d, c) /\ evidence_is_redundant(d.rect, c.rect)

\* capture_progressive_target: whatever level is captured, the image shows all of
\* the element that is on the screen.
TargetsHoldTheElement ==
  \A k \in sample : k.kind = "target" =>
    contains_rect(k.target.rect, validate_and_clip(Last(k.path).rect))

\* A full page that is planned is stitched whole: every tile lands inside the
\* output and every output row is copied from some tile, for whatever ratio of
\* CSS to device pixels.
PageIsStitched ==
  \A k \in sample : k.kind = "page" =>
    /\ \A o \in DOMAIN k.rows : k.rows[o] # {}
    /\ UNION {k.rows[o] : o \in DOMAIN k.rows} = 0 .. k.height - 1

\* The cache's byte count is that of its entries and within both limits, and the
\* projection the desktop asks admission for is what an insert then leaves, once
\* there is something to evict.
CacheBooksAgree ==
  /\ baseline_used = UsedBy(baselines)
  /\ baseline_used <= BaselineBudget
  /\ Cardinality(DOMAIN baselines) <= BaselineEntries
  /\ DOMAIN baselines # {} =>
       \A s \in BaselineSessions, context \in BaselineContexts, bytes \in 1 .. BaselineBudget :
         /\ projected_used_bytes_after_insert(s, bytes) = Inserted(s, context, bytes).used
         /\ s \in DOMAIN Inserted(s, context, bytes).entries

\* What becomes visual evidence shows what it is evidence of.
VisualEvidenceIsSound ==
  /\ ChangesAreShownOrCounted /\ PacketIsWellChosen
  /\ TargetsHoldTheElement /\ PageIsStitched /\ CacheBooksAgree
=============================================================================
