------------------------------ MODULE FixEdits ------------------------------
(***************************************************************************)
(* From the answer of the provider to the bytes of a fix and to the diff   *)
(* the developer reviews: build_source_excerpt, validate_provider_edit,    *)
(* build_fix_postimage and build_fix_diff of                               *)
(* apps/desktop/src-tauri/src/trusted_fix.rs.                              *)
(*                                                                         *)
(* A text is its lines and whether the last one is terminated; the weight  *)
(* of a line stands for its length in the rendered excerpt.                *)
(***************************************************************************)
EXTENDS Integers, Sequences, SequencesExt

CONSTANTS
  LineNames,     \* distinct contents of a line
  MaxLines,      \* lines of a source file, and of a replacement
  ExcerptRadius, \* FIX_SOURCE_RADIUS_LINES
  ExcerptBound,  \* MAX_FIX_SOURCE_EXCERPT_BYTES, in weights
  MaxEditSpan    \* MAX_FIX_ORIGINAL_LINES

ASSUME EditConstants ==
  MaxLines \in Nat \ {0} /\ ExcerptBound \in Nat \ {0} /\ ExcerptRadius \in Nat

VARIABLE eCase   \* an edit under way, a set of at most one element

editVars == <<eCase>>

Weight(line) == IF line = "long" THEN 2 ELSE 1
Text(lines, ends) == [lines |-> lines, ends |-> ends]
MinOf(a, b) == IF a < b THEN a ELSE b
MaxOf(a, b) == IF a > b THEN a ELSE b

-----------------------------------------------------------------------------
Rendered(text, s, e) == FoldLeft(LAMBDA n, line : n + Weight(line), 0, SubSeq(text.lines, s, e))

\* The loop of build_source_excerpt: drop the farther end until the lines fit,
\* <<0, 0>> when the selected line alone does not.
Narrowed(text, selected) ==
  LET N == Len(text.lines)
      narrow[w \in (1..selected) \X (selected..N)] ==
        LET s == w[1]
            e == w[2]
        IN  IF Rendered(text, s, e) <= ExcerptBound THEN w
            ELSE IF s = selected /\ e = selected THEN <<0, 0>>
            ELSE IF e - selected >= selected - s /\ e > selected THEN narrow[<<s, e - 1>>]
            ELSE narrow[<<s + 1, e>>]
  IN  narrow[<<MaxOf(selected - ExcerptRadius, 1), MinOf(selected + ExcerptRadius, N)>>]

\* build_source_excerpt: the lines around the selected one, as a window.
build_source_excerpt(text, selected) ==
  IF selected \in 1..Len(text.lines) THEN Narrowed(text, selected) ELSE <<0, 0>>

\* Mutant: the edit may run past the end of the excerpt.
validate_start_only(edit, window) ==
  /\ edit.first >= 1 /\ edit.first <= edit.last
  /\ edit.first >= window[1]
  /\ edit.last - edit.first + 1 <= MaxEditSpan

\* validate_provider_edit.
validate_provider_edit(edit, window) ==
  /\ edit.first >= 1 /\ edit.first <= edit.last
  /\ edit.first >= window[1] /\ edit.last <= window[2]
  /\ edit.last - edit.first + 1 <= MaxEditSpan

\* build_fix_postimage: the lines first .. last make way for the replacement; a
\* terminated slice is terminated again unless it is deleted.
build_fix_postimage(text, edit) ==
  LET n      == Len(text.lines)
      prefix == SubSeq(text.lines, 1, edit.first - 1)
      suffix == SubSeq(text.lines, edit.last + 1, n)
      repl   == edit.replacement
      ended  == edit.last < n \/ text.ends
  IN  Text(prefix \o repl.lines \o suffix,
           IF suffix # <<>> THEN text.ends
           ELSE IF repl.lines # <<>> THEN repl.ends \/ ended ELSE prefix # <<>>)

\* build_fix_diff: one hunk, from the edit and not from the postimage: a terminated
\* replacement splits into one more, empty, line.
build_fix_diff(text, edit) ==
  LET repl == edit.replacement
  IN  [removed |-> SubSeq(text.lines, edit.first, edit.last),
       added   |-> IF repl.lines = <<>> THEN <<>>
                   ELSE IF repl.ends THEN Append(repl.lines, "") ELSE repl.lines]

-----------------------------------------------------------------------------
Texts == {Text(l, t) : l \in UNION {[1..n -> LineNames] : n \in 1..MaxLines}, t \in BOOLEAN}
Replacements == {Text(<<>>, FALSE)} \cup
                {Text(l, t) : l \in {<<"new">>, <<"new", "new">>}, t \in BOOLEAN}

EditInit == eCase = {}

\* A source, a selected line, and what the provider answered; only an edit that is
\* accepted goes on.
propose_edit ==
  /\ eCase = {}
  /\ \E t \in Texts, selected \in 1..MaxLines, r \in Replacements :
     \E first, last \in 1..MaxLines :
       LET window == build_source_excerpt(t, selected)
           edit   == [first |-> first, last |-> last, replacement |-> r]
       IN  /\ window # <<0, 0>> /\ last <= Len(t.lines) /\ validate_provider_edit(edit, window)
           /\ eCase' = {[text |-> t, selected |-> selected, window |-> window, edit |-> edit]}

EditNext == propose_edit
EditSpec == EditInit /\ [][EditNext]_editVars

-----------------------------------------------------------------------------
\* What the provider was not shown cannot change: an accepted edit keeps every
\* line outside the excerpt, in its place before it and at the same distance from
\* the end after it, and the excerpt holds the selected line within its bound.
EditStaysInsideTheExcerpt ==
  \A k \in eCase :
    LET post  == build_fix_postimage(k.text, k.edit)
        above == k.window[1] - 1
        below == Len(k.text.lines) - k.window[2]
    IN  /\ k.window[1] <= k.selected /\ k.selected <= k.window[2]
        /\ Rendered(k.text, k.window[1], k.window[2]) <= ExcerptBound
        /\ SubSeq(post.lines, 1, above) = SubSeq(k.text.lines, 1, above)
        /\ Len(post.lines) >= above + below
        /\ SubSeq(post.lines, Len(post.lines) - below + 1, Len(post.lines))
             = SubSeq(k.text.lines, k.window[2] + 1, Len(k.text.lines))
        /\ below > 0 => post.ends = k.text.ends

\* The reviewed diff is the change: the source with the removed lines replaced by
\* the added ones is the postimage that is written.
\* The code does not keep this (README.md, Where code and text disagree).
ReviewedDiffIsTheChange ==
  \A k \in eCase :
    LET diff == build_fix_diff(k.text, k.edit)
    IN  SubSeq(k.text.lines, 1, k.edit.first - 1) \o diff.added
          \o SubSeq(k.text.lines, k.edit.last + 1, Len(k.text.lines))
        = build_fix_postimage(k.text, k.edit).lines
=============================================================================
