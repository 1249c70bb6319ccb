-------------------------- MODULE MCPostconditions --------------------------
(***************************************************************************)
(* Small instances of Postconditions.                                      *)
(***************************************************************************)
EXTENDS Postconditions

NoTwice == [of |-> 0, at |-> 1, elem |-> 1]

\* The trees of at most five elements, in document order.
TreeShapes ==
  {p \in UNION {[1..n -> 0..(n - 1)] : n \in 1..5} :
     /\ p[1] = 0 /\ \A i \in DOMAIN p : p[i] < i /\ (i > 1 => p[i] > 0)
     /\ \A i, j \in DOMAIN p : i < j => ~(p[i] < p[j] /\ p[j] < i)}

Tree(p, twice, matching, marked) ==
  [parent |-> p, twice |-> twice, matching |-> matching, marked |-> marked]

OneElement == Tree(<<0>>, NoTwice, {}, {})

\* Up to two elements that match and one that leaves debt; or an element that is
\* surfaced twice, anywhere among the children of another.
Plain ==
  UNION {{Tree(p, NoTwice, m, k) : m \in {S \in SUBSET DOMAIN p : Cardinality(S) <= 2},
                                   k \in {{}} \cup {{e} : e \in DOMAIN p}} : p \in TreeShapes}

Again(p) ==
  {w \in [of : DOMAIN p, at : 1..3, elem : DOMAIN p] :
     w.at <= Cardinality({i \in DOMAIN p : p[i] = w.of}) + 1}

UiTrees == Plain \cup UNION {{Tree(p, w, {e}, {}) : w \in Again(p), e \in DOMAIN p} : p \in TreeShapes}

Ref(family, version, form, want, count) ==
  [schema |-> <<family, version>>, form |-> form, want |-> want, count |-> count]

\* Contracts of each family and predicate, one that is not canonical, and one
\* that only an earlier build read.
UiContracts ==
  {Ref("native", 1, "canonical", "present", 0), Ref("native", 1, "canonical", "absent", 0),
   Ref("native", 2, "canonical", "equal", 2), Ref("native", 2, "canonical", "at_most", 1),
   Ref("native", 3, "canonical", "at_least", 0), Ref("native", 1, "reordered", "present", 0),
   Ref("payload", 1, "canonical", "replace_value", 0),
   Ref("web", 1, "canonical", "present", 0), Ref("web", 1, "canonical", "absent", 0)}

Earlier == {<<"native", 1>>, <<"native", 3>>}
=============================================================================
