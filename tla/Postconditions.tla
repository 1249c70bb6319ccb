---------------------------- MODULE Postconditions ---------------------------
(***************************************************************************)
(* From the interface an action left behind to the verdict on it: the      *)
(* bounded observation of the tree (the breadth-first walk of the Windows  *)
(* UIA worker, the depth-first walk of the page's instrumentation), the    *)
(* typed postcondition contracts of postcondition-contracts, their         *)
(* evaluation against what was observed, and the verdict the journal       *)
(* records. One observation at a time; an element either satisfies the     *)
(* contracts' matcher or not, and in a page the matcher is a reference,    *)
(* which elements of equal role, name, tag and ancestry share.             *)
(***************************************************************************)
EXTENDS Integers, Sequences, FiniteSets, SequencesExt

CONSTANTS
  PostTrees,       \* the interfaces: see TreeOK
  NodeBudget,      \* max_nodes, max_semantic_nodes
  DepthBudget,     \* max_depth, max_tree_depth
  PropertyBudget,  \* max_properties, in nodes
  ContractRefs,    \* postcondition references: see RefOK
  EarlierSchemas,  \* <<family, version>> that another build registered
  MaxContracts     \* MAX_POSTCONDITION_CONTRACTS

\* Elements are numbered in document order and given by their parents. In a
\* native tree the walker may surface one element a second time ("twice"): as
\* child number "at" of element "of". "marked" are the elements whose reading
\* leaves debt (a property unavailable, a custom control that says nothing of
\* itself), and in a page those that LocalView owns or that are not content.
TreeOK(t) ==
  /\ t.parent \in Seq(Nat) /\ t.parent # <<>> /\ t.parent[1] = 0
  /\ \A i \in DOMAIN t.parent : t.parent[i] < i /\ (i > 1 => t.parent[i] > 0)
  /\ \A i, j \in DOMAIN t.parent : i < j => ~(t.parent[i] < t.parent[j] /\ t.parent[j] < i)
  /\ t.matching \subseteq DOMAIN t.parent /\ t.marked \subseteq DOMAIN t.parent

RefOK(ref) ==
  /\ ref.schema[1] \in STRING /\ ref.schema[2] \in Nat
  /\ ref.form \in {"canonical", "reordered", "unknown_field", "empty_matcher"}
  /\ ref.want \in {"present", "absent", "equal", "at_least", "at_most", "replace_value"}
  /\ ref.schema[1] = "web" => ref.want \in {"present", "absent"}
  /\ ref.schema[1] = "native" => ref.want # "replace_value"
  /\ ref.count \in Nat

ASSUME PostconditionAssumption ==
  /\ \A t \in PostTrees : TreeOK(t)
  /\ NodeBudget \in Nat \ {0} /\ DepthBudget \in Nat /\ PropertyBudget \in Nat \ {0}
  /\ \A ref \in ContractRefs : RefOK(ref)
  /\ MaxContracts \in Nat \ {0}

VARIABLES
  pcProvider,   \* who observes: "native" or "web"
  pcTree,       \* the interface
  pcStep,       \* "observing", "observed" or "judged"
  pcQueue,      \* queue of observe_bounded_tree: elements and their depths
  pcSeen,       \* seen_runtime_ids
  pcNodes,      \* the nodes of the snapshot
  pcExhausted,  \* the bounds that rejected a node
  pcComplete,   \* completeness Established and no debt
  pcEvidence,   \* the status of each expected contract
  pcVerdict     \* the verdict of the postcondition receipt

pcVars == <<pcProvider, pcTree, pcStep, pcQueue, pcSeen, pcNodes, pcExhausted, pcComplete,
            pcEvidence, pcVerdict>>
pcWalkVars == <<pcQueue, pcSeen, pcNodes, pcExhausted>>

Elements(t) == DOMAIN t.parent
Depth(t) == LET d[e \in Elements(t)] == IF e = 1 THEN 0 ELSE 1 + d[t.parent[e]] IN d

\* The elements of a set, in document order.
InOrder(S) ==
  CHOOSE s \in [1..Cardinality(S) -> S] : \A i, j \in DOMAIN s : i < j => s[i] < s[j]

Offspring(t, e) == InOrder({i \in Elements(t) : t.parent[i] = e})

\* What GetFirstChildElement and GetNextSiblingElement enumerate below an element.
Kids(t, e) ==
  IF t.twice.of = e THEN InsertAt(Offspring(t, e), t.twice.at, t.twice.elem) ELSE Offspring(t, e)

Walk(e, depth) == [elem |-> e, depth |-> depth]

PostInit ==
  /\ pcTree \in PostTrees
  /\ pcProvider \in IF pcTree.twice.of = 0 THEN {"native", "web"} ELSE {"native"}
  /\ pcStep = "observing" /\ pcQueue = <<Walk(1, 0)>> /\ pcSeen = {} /\ pcNodes = {}
  /\ pcExhausted = {} /\ pcComplete = FALSE /\ pcEvidence = <<>> /\ pcVerdict = "none"

----------------------------------------------------------------------------
(* The snapshots.                                                          *)

\* SnapshotBudgetGuard::admit_node: every bound the node violates.
admit_node(depth) ==
  {b \in {"nodes", "depth", "properties"} :
     \/ b = "nodes" /\ Cardinality(pcNodes) >= NodeBudget
     \/ b = "depth" /\ depth > DepthBudget
     \/ b = "properties" /\ Cardinality(pcNodes) + 1 > PropertyBudget}

\* Mutant: no child is queued past the bound.
children_within_budget(kids, depth, held) ==
  SubSeq(kids, 1, Cardinality({k \in DOMAIN kids : held + k <= NodeBudget /\ depth < DepthBudget}))

\* The children of an admitted node that are queued, held being the nodes
\* admitted or queued before: those within the budget and one past it, so that
\* the guard will record what it rejects.
queued_children(kids, depth, held) ==
  SubSeq(kids, 1, Cardinality({k \in DOMAIN kids :
           held + k - 1 <= NodeBudget /\ (depth + 1 > DepthBudget => k = 1)}))

\* observe_bounded_tree, one round: an element seen before is neither emitted
\* nor traversed.
observe_bounded_tree ==
  /\ pcProvider = "native" /\ pcStep = "observing" /\ pcQueue # <<>>
  /\ LET item == Head(pcQueue)
         rest == Tail(pcQueue)
         rejected == admit_node(item.depth)
         kids == Kids(pcTree, item.elem)
     IN  IF item.elem \in pcSeen
         THEN pcQueue' = rest /\ UNCHANGED <<pcSeen, pcNodes, pcExhausted>>
         ELSE /\ pcSeen' = pcSeen \cup {item.elem}
              /\ pcExhausted' = pcExhausted \cup rejected
              /\ pcNodes' = IF rejected = {} THEN pcNodes \cup {item.elem} ELSE pcNodes
              /\ pcQueue' =
                   IF rejected # {} THEN rest
                   ELSE LET held   == Cardinality(pcNodes) + 1 + Len(rest)
                            queued == queued_children(kids, item.depth, held)
                        IN  rest \o [k \in DOMAIN queued |-> Walk(queued[k], item.depth + 1)]
  /\ UNCHANGED <<pcProvider, pcTree, pcStep, pcComplete, pcEvidence, pcVerdict>>

\* What the worker could not read of the nodes it admitted.
Debt == pcNodes \cap pcTree.marked

\* SemanticSnapshotCache::validate: a cut that claims to be established owes
\* nothing.
validate_cut(complete) == complete => pcExhausted = {} /\ Debt = {}

\* observe: the walk is over; any debt or exhausted bound makes the cut
\* incomplete, and the cache refuses a cut that claims otherwise.
publish ==
  /\ pcProvider = "native" /\ pcStep = "observing" /\ pcQueue = <<>>
  /\ pcStep' = "observed"
  /\ pcComplete' = (pcExhausted = {} /\ pcNodes # {} /\ Debt = {})
  /\ validate_cut(pcComplete')
  /\ UNCHANGED <<pcProvider, pcTree, pcWalkVars, pcEvidence, pcVerdict>>

\* semanticTree: depth first, until the cap of nodes is reached; what is not
\* content hides its subtree, and nothing says that a bound was hit.
semanticTree(t) ==
  LET visited[e \in 1..Len(t.parent)] ==
        /\ e \notin t.marked
        /\ e > 1 => visited[t.parent[e]]
        /\ Depth(t)[e] <= DepthBudget
        /\ Cardinality({f \in 1..(e - 1) : visited[f]}) < NodeBudget
  IN  {e \in Elements(t) : visited[e]}

\* The managed control records the page's snapshot as established, without debt.
reconciliation_snapshot ==
  /\ pcProvider = "web" /\ pcStep = "observing" /\ 1 \notin pcTree.marked
  /\ pcStep' = "observed" /\ pcComplete' = TRUE
  /\ pcNodes' = semanticTree(pcTree) /\ pcQueue' = <<>>
  /\ UNCHANGED <<pcProvider, pcTree, pcSeen, pcExhausted, pcEvidence, pcVerdict>>

----------------------------------------------------------------------------
(* The contracts.                                                          *)

STANDARD_SCHEMAS == {<<"native", 1>>, <<"native", 2>>, <<"payload", 1>>, <<"web", 1>>}

\* decode: a registered schema, exactly its fields, in canonical encoding.
decode(ref, schemas) == ref.schema \in schemas /\ ref.form = "canonical"

\* validate_postcondition_contracts and valid_postcondition_refs: what a plan
\* may expect; a managed page only what can be read off the page.
valid_postcondition_refs(refs, schemas) ==
  /\ Cardinality(refs) \in 1..MaxContracts
  /\ \A ref \in refs : decode(ref, schemas) /\ (pcProvider = "web" => ref.schema = <<"web", 1>>)

\* The predicate of a contract, of the number of elements that match.
Passes(ref, n) ==
  CASE ref.want = "present"  -> n > 0
    [] ref.want = "absent"   -> n = 0
    [] ref.want = "equal"    -> n = ref.count
    [] ref.want = "at_least" -> n >= ref.count
    [] ref.want = "at_most"  -> n <= ref.count

StatusOf(passes) == IF passes THEN "verified_pass" ELSE "verified_fail"
Matching(elements) == Cardinality(elements \cap pcTree.matching)

\* evaluate_native_semantic: of a complete cut only.
evaluate_native_semantic(ref) ==
  IF decode(ref, STANDARD_SCHEMAS) /\ ref.schema[1] = "native" /\ pcComplete
  THEN StatusOf(Passes(ref, Matching(pcNodes))) ELSE "unknown"

\* evaluate_web_semantic: the snapshot has no completeness to look at.
evaluate_web_semantic(ref) ==
  IF decode(ref, STANDARD_SCHEMAS) /\ ref.schema = <<"web", 1>>
  THEN StatusOf(Passes(ref, Matching(pcNodes))) ELSE "unknown"

\* The verdict a receipt's evidence forces.
verdict(evidence) ==
  CASE \E ref \in DOMAIN evidence : evidence[ref] = "verified_fail" -> "verified_unexpected"
    [] \A ref \in DOMAIN evidence : evidence[ref] = "verified_pass" -> "verified_expected"
    [] OTHER -> "reconciliation_required"

\* exact_observed_postconditions: one piece of evidence for each contract that
\* was admitted, and none for another.
exact_observed_postconditions(refs) ==
  [ref \in refs |-> IF pcProvider = "web" THEN evaluate_web_semantic(ref)
                    ELSE evaluate_native_semantic(ref)]

\* reconcile_consequential_postconditions, over the contracts the action was
\* admitted with, by this build or by the one that journaled it; a cut that is
\* not established is not reconciled.
reconcile_consequential_postconditions ==
  /\ pcStep = "observed" /\ pcComplete
  /\ \E refs \in {S \in SUBSET ContractRefs : Cardinality(S) <= MaxContracts} :
       /\ valid_postcondition_refs(refs, STANDARD_SCHEMAS) \/ valid_postcondition_refs(refs, EarlierSchemas)
       /\ pcEvidence' = exact_observed_postconditions(refs)
  /\ pcVerdict' = verdict(pcEvidence') /\ pcStep' = "judged"
  /\ UNCHANGED <<pcProvider, pcTree, pcWalkVars, pcComplete>>

PostNext ==
  \/ observe_bounded_tree \/ publish \/ reconciliation_snapshot
  \/ reconcile_consequential_postconditions

PostSpec == PostInit /\ [][PostNext]_pcVars

----------------------------------------------------------------------------
PostTypeOK ==
  /\ pcProvider \in {"native", "web"} /\ pcStep \in {"observing", "observed", "judged"}
  /\ pcNodes \subseteq Elements(pcTree) /\ Cardinality(pcNodes) <= NodeBudget
  /\ Len(pcQueue) <= NodeBudget + 1
  /\ DOMAIN pcEvidence \subseteq ContractRefs
  /\ \A ref \in DOMAIN pcEvidence : pcEvidence[ref] \in {"verified_pass", "verified_fail", "unknown"}
  /\ pcVerdict \in {"none", "verified_expected", "verified_unexpected", "reconciliation_required"}

\* The elements there are: a page's without those inside what is not content.
Whole(t, provider) ==
  LET shown[e \in 1..Len(t.parent)] ==
        (provider = "web" => e \notin t.marked) /\ (e > 1 => shown[t.parent[e]])
  IN  {e \in Elements(t) : shown[e]}

Truth(ref) == StatusOf(Passes(ref, Matching(Whole(pcTree, pcProvider))))

\* A status that was verified on the interface as it is, not on the part of it
\* that a budget let through: on Windows for every contract, where no element is
\* surfaced twice; on a page, where only what was found is known to be there. A
\* contract that this build does not read, or not of this provider, leaves the
\* action unverified.
PostconditionsFailClosed ==
  /\ \A ref \in DOMAIN pcEvidence :
       pcEvidence[ref] # "unknown" =>
         /\ decode(ref, STANDARD_SCHEMAS) /\ ref.schema[1] = pcProvider
         /\ \/ pcProvider = "native" /\ pcTree.twice.of # 0
            \/ pcProvider = "web" /\ (pcEvidence[ref] = "verified_pass" <=> ref.want = "absent")
            \/ pcEvidence[ref] = Truth(ref)
  /\ pcVerdict = "verified_expected" =>
       \A ref \in DOMAIN pcEvidence : pcEvidence[ref] = "verified_pass"

\* What README.md says of verification, that incomplete evidence does not become
\* success: an action verified as expected has every postcondition in the
\* interface as it is. The code does not keep this.
IncompleteEvidenceIsNoSuccess ==
  pcVerdict = "verified_expected" =>
    \A ref \in DOMAIN pcEvidence : Truth(ref) = "verified_pass"

=============================================================================
