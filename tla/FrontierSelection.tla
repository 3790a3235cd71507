-------------------------- MODULE FrontierSelection --------------------------
(* One stable-frontier pruning step through everything that reads it: the      *)
(* runtime pruners and the engine that checks their answer (stable_pruner.py,  *)
(* learned_pruner.py, pruner_rl.py, beam_search.py), the trace it leaves       *)
(* (search_trace.py), the offline examples, pairs and metrics made from traces *)
(* (pruner_training_data.py), and the update tool's check of a sampled step    *)
(* (tools/update_stable_pruner_rl_v2_impl.py).                                 *)
(*                                                                             *)
(* A frontier is a sequence of nodes [value, root, structural].  Of the        *)
(* features the learned score reads, those are kept that compare a node with   *)
(* its frontier or its root's group; the rank and deviation features read the  *)
(* same values.  Weights, values and scores are integers.  Positions are       *)
(* counted from 1.                                                             *)
EXTENDS Integers, Sequences, FiniteSets, FiniteSetsExt, StableRanking

CONSTANTS NoTarget,          \* the target of a node whose outcome was not observed
          TerminalWeight,    \* of a target from the end of the combat
          BootstrapWeight    \* of a target from the value of a leaf

FeatureNames == {"node_value", "value_gap_to_max", "root_group_size",
                 "root_group_value_gap_to_max", "structural", "beam_width"}

IndexSet(frontier) == 1..Len(frontier)

-----------------------------------------------------------------------------
(* Features and the learned score.                                             *)

Features(frontier, i, beamWidth) ==
  LET group == {j \in IndexSet(frontier) : frontier[j].root = frontier[i].root}
      best(S) == Max({frontier[j].value : j \in S})
  IN [node_value |-> frontier[i].value,
      value_gap_to_max |-> best(IndexSet(frontier)) - frontier[i].value,
      root_group_size |-> Cardinality(group),
      root_group_value_gap_to_max |-> best(group) - frontier[i].value,
      structural |-> IF frontier[i].structural THEN 1 ELSE 0,
      beam_width |-> beamWidth]

\* The rows of a frontier, in its order.
FeatureMatrix(frontier, beamWidth) ==
  [i \in IndexSet(frontier) |-> Features(frontier, i, beamWidth)]

LinearScore(weights, row) ==
  weights.node_value * row.node_value + weights.value_gap_to_max * row.value_gap_to_max
  + weights.root_group_size * row.root_group_size
  + weights.root_group_value_gap_to_max * row.root_group_value_gap_to_max
  + weights.structural * row.structural + weights.beam_width * row.beam_width

Scores(weights, rows) == [i \in DOMAIN rows |-> LinearScore(weights, rows[i])]

-----------------------------------------------------------------------------
(* The runtime pruners.                                                        *)

ValueTopK(frontier, k) == TopK([i \in IndexSet(frontier) |-> frontier[i].value], k)

LearnedTopK(weights, frontier, k) == TopK(Scores(weights, FeatureMatrix(frontier, k)), k)

\* The members of a sampled set, in the deterministic order of the base scores.
InBaseOrder(scores, sampled) ==
  LET drawn == Range(sampled)
  IN [p \in 1..Cardinality(drawn) |->
        CHOOSE i \in drawn : PlaceAmong(scores, drawn, i) = p - 1]

\* The orders Plackett-Luce can draw: every order without repetition.  With
\* nothing to prune nothing is drawn.
Draws(frontier, k) ==
  IF k >= Len(frontier) THEN {<<>>}
  ELSE {s \in [1..k -> IndexSet(frontier)] : \A p, q \in 1..k : p # q => s[p] # s[q]}

Probability(scores, sampled, temperature) == <<scores, sampled, temperature>>

\* What the sampling pruner returns, and the step it records if it drew.
Survivors(weights, frontier, k, sampled) ==
  LET scores == Scores(weights, FeatureMatrix(frontier, k))
  IN IF sampled = <<>> THEN Ranking(scores) ELSE InBaseOrder(scores, sampled)

\* Mutant: the drawn order is recorded as the returned one.
RecordedStepAsDrawn(weights, frontier, k, sampled, behavior) ==
  LET rows == FeatureMatrix(frontier, k)
      scores == Scores(weights, rows)
  IN [beam_width |-> k, rows |-> rows, behavior_scores |-> scores,
      sampled_indices |-> sampled, returned_indices |-> sampled,
      temperature |-> behavior.temperature, sampler_seed |-> behavior.sampler_seed,
      probability |-> Probability(scores, sampled, behavior.temperature)]

RecordedStep(weights, frontier, k, sampled, behavior) ==
  LET rows == FeatureMatrix(frontier, k)
      scores == Scores(weights, rows)
  IN [beam_width |-> k, rows |-> rows, behavior_scores |-> scores,
      sampled_indices |-> sampled, returned_indices |-> InBaseOrder(scores, sampled),
      temperature |-> behavior.temperature, sampler_seed |-> behavior.sampler_seed,
      probability |-> Probability(scores, sampled, behavior.temperature)]

-----------------------------------------------------------------------------
(* The engine's check of a pruner's answer and the trace it records.           *)

ValidIndices(indices, size) ==
  /\ \A p \in DOMAIN indices : indices[p] \in 1..size
  /\ \A p, q \in DOMAIN indices : p # q => indices[p] # indices[q]

PruneTrace(frontier, k, selected) ==
  [k |-> k, frontier_size |-> Len(frontier), selected_indices |-> selected,
   nodes |-> [i \in IndexSet(frontier) |->
                [index |-> i, kept |-> \E p \in DOMAIN selected : selected[p] = i,
                 view |-> frontier[i]]]]

\* A trace that is read back is the step that was taken, or is refused.
TraceIsConsistent(trace) ==
  /\ Len(trace.nodes) = trace.frontier_size
  /\ Len(trace.selected_indices) <= trace.k
  /\ ValidIndices(trace.selected_indices, trace.frontier_size)
  /\ \A i \in DOMAIN trace.nodes :
       /\ trace.nodes[i].index = i
       /\ trace.nodes[i].kept = \E p \in DOMAIN trace.selected_indices :
                                  trace.selected_indices[p] = i

NodeViews(trace) == [i \in DOMAIN trace.nodes |-> trace.nodes[i].view]
SelectedNodeViews(trace) ==
  [p \in DOMAIN trace.selected_indices |-> NodeViews(trace)[trace.selected_indices[p]]]

-----------------------------------------------------------------------------
(* Offline: a record [traces, targets] holds the prune steps of one decision    *)
(* and one row [step, node, value, source, width] for each of their nodes.     *)

\* A trace as it is read back: its order and its K are part of the step.
TraceIsReadable(trace) ==
  trace.selected_indices # NoTarget /\ trace.k > 0 /\ TraceIsConsistent(trace)

TargetKeys(targets) == {<<targets[r].step, targets[r].node>> : r \in DOMAIN targets}
TraceKeys(traces) ==
  UNION {{<<s, i>> : i \in DOMAIN traces[s].nodes} : s \in DOMAIN traces}

\* No two rows are of one node.
TargetsAreDistinct(targets) == Cardinality(TargetKeys(targets)) = Len(targets)

TargetOf(targets, s, i) ==
  targets[CHOOSE r \in DOMAIN targets : targets[r].step = s /\ targets[r].node = i]

TargetWidths(targets, s) ==
  {targets[r].width : r \in {q \in DOMAIN targets : targets[q].step = s}}

\* What a pair of the node counts at most; without a weight it has no target.
TargetWeight(row) ==
  CASE row.value = NoTarget -> NoTarget
    [] row.source = "terminal" -> TerminalWeight
    [] row.source = "value_bootstrap" -> BootstrapWeight
    [] OTHER -> NoTarget

RecordIsLoaded(record) ==
  /\ \A s \in DOMAIN record.traces : TraceIsReadable(record.traces[s])
  /\ TargetsAreDistinct(record.targets)
  /\ TargetKeys(record.targets) = TraceKeys(record.traces)
  /\ \A s \in DOMAIN record.traces : Cardinality(TargetWidths(record.targets, s)) = 1

NodeExample(features, row) ==
  LET weight == TargetWeight(row)
  IN [features |-> features, weight |-> weight,
      target |-> IF weight = NoTarget THEN NoTarget ELSE row.value]

\* Mutant: the nodes without a target are left out of the examples.
ExamplesOfLabelled(record, s) ==
  LET width == CHOOSE w \in TargetWidths(record.targets, s) : TRUE
      rows == FeatureMatrix(NodeViews(record.traces[s]), width)
      known == SelectSeq([i \in DOMAIN rows |-> i],
                 LAMBDA i : TargetWeight(TargetOf(record.targets, s, i)) # NoTarget)
  IN [width |-> width,
      nodes |-> [p \in DOMAIN known |->
                   NodeExample(rows[known[p]], TargetOf(record.targets, s, known[p]))]]

\* The whole frontier of a step, each node with its target, the rows at the
\* student's width.
Examples(record, s) ==
  LET width == CHOOSE w \in TargetWidths(record.targets, s) : TRUE
      rows == FeatureMatrix(NodeViews(record.traces[s]), width)
  IN [width |-> width,
      nodes |-> [i \in DOMAIN rows |-> NodeExample(rows[i], TargetOf(record.targets, s, i))]]

Labelled(nodes) == {i \in DOMAIN nodes : nodes[i].target # NoTarget}

\* <<better, worse>> for every two labelled nodes further apart than minGap.
Pairs(target, labelled, minGap) ==
  {p \in labelled \X labelled : target[p[1]] - target[p[2]] > minGap}

\* Each pair is judged in both directions, its difference and the opposite one,
\* and a score of zero calls the first node the better.
Correct(scores, pair) ==
  (IF scores[pair[1]] >= scores[pair[2]] THEN 1 ELSE 0)
  + (IF scores[pair[2]] >= scores[pair[1]] THEN 0 ELSE 1)

\* Mutant: a pair counts once, in the direction whose label is one.
AccuracyOneWay(scores, pairs, weight) ==
  LET worth(p) == Min({weight[p[1]], weight[p[2]]})
  IN [right |-> MapThenSumSet(LAMBDA p : worth(p) * (IF scores[p[1]] >= scores[p[2]] THEN 2 ELSE 0), pairs),
      all |-> MapThenSumSet(LAMBDA p : 2 * worth(p), pairs)]

\* The weighted pairwise accuracy, right out of all.
Accuracy(scores, pairs, weight) ==
  LET worth(p) == Min({weight[p[1]], weight[p[2]]})
  IN [right |-> MapThenSumSet(LAMBDA p : worth(p) * Correct(scores, p), pairs),
      all |-> MapThenSumSet(LAMBDA p : 2 * worth(p), pairs)]

NodeScores(weights, nodes) ==
  [i \in DOMAIN nodes |-> LinearScore(weights, nodes[i].features)]
OfflineSelection(weights, frontier) == TopK(NodeScores(weights, frontier.nodes), frontier.width)

\* The best labelled nodes, of equal targets the earlier ones.
TeacherSet(target, labelled, k) ==
  {i \in labelled : PlaceAmong(target, labelled, i) < k}

\* The metrics of a selection of k nodes, null where they cannot be told.
Recall(target, labelled, selected, k) == Cardinality(TeacherSet(target, labelled, k) \cap selected)
QualityIsKnown(labelled, selected, k) == Cardinality(labelled) >= k /\ selected \subseteq labelled
BestValueRegret(target, labelled, selected) ==
  Max({target[i] : i \in labelled}) - Max({target[i] : i \in selected})
SelectedValueGap(target, labelled, selected, k) ==   \* k times the mean gap
  MapThenSumSet(LAMBDA i : target[i], TeacherSet(target, labelled, k)) - MapThenSumSet(LAMBDA i : target[i], selected)

-----------------------------------------------------------------------------
(* The update tool reads a sampled step under a base artifact.                 *)

StepIsAccepted(step, weights, behavior) ==
  LET actual == Scores(weights, step.rows)
      size == Len(step.rows)
  IN /\ step.behavior_scores = actual
     /\ size > step.beam_width
     /\ ValidIndices(step.sampled_indices, size)
     /\ Len(step.sampled_indices) = step.beam_width
     /\ ValidIndices(step.returned_indices, size)
     /\ step.returned_indices = InBaseOrder(actual, step.sampled_indices)
     /\ step.temperature = behavior.temperature
     /\ step.sampler_seed = behavior.sampler_seed
     /\ step.probability = Probability(actual, step.sampled_indices, step.temperature)
=============================================================================
