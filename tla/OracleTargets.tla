---------------------------- MODULE OracleTargets ----------------------------
(***************************************************************************)
(* What the Oracle learns from one search (decision/oracle_search.py,      *)
(* decision/oracle_value_logging.py): the teacher's Beam search leaves a   *)
(* trace (decision/search_trace.py), and build_oracle_targets derives from *)
(* it a label for every root action and for every node of every pruned     *)
(* frontier, or says why there is none.                                    *)
(*                                                                         *)
(* The traversal is that of BeamSearch.tla with its trace recorded and the *)
(* calls, capacity and clean-up left out: a candidate may simply stay      *)
(* unsimulated, and the search may stop before any ply.  Scores are        *)
(* integers; a branch id is its place in `tree`, and a trace node id too.  *)
(* Equal scores are told apart by order: that of the beam, of the trace,   *)
(* and of the walk over a node's descendants.                              *)
(***************************************************************************)
EXTENDS Integers, Sequences, FiniteSets, FiniteSetsExt, SequencesExt

CONSTANTS
    BeamWidth,
    RootActions,                \* number of available actions at the root
    TopK, MaxDepth, MaxCont,
    Scores,                     \* what ValueModel may say of a state
    MaxIds                      \* bound on the candidates of one search

ASSUME OracleAssumption ==
    /\ {BeamWidth, RootActions, TopK, MaxDepth, MaxCont, MaxIds}
         \subseteq Nat \ {0}
    /\ RootActions <= MaxIds
    /\ Scores \subseteq Int \ {0}

VARIABLES
    exhaustive,     \* exhaustive_root_actions
    rootKind,       \* the root decision: "stable" or "cont"
    tree,           \* every candidate proposed, see Node
    proposed,       \* nodes with a PolicyProposalTrace
    pending,        \* candidates of this ply not simulated yet
    beam,           \* the nodes to expand, in survivor order
    waiting,
    trace,          \* the nodes with a ResolvedNodeTrace, in the order they were recorded
    prunes,         \* the StablePruneTraces: [frontier, kept], two sets of nodes
    pc,             \* "ply", "simulate", "choose", "end" (traced) or "raised"
    captured        \* ids whose DTO the value-logging engine kept (root_state_dtos)

search == <<exhaustive, rootKind>>
vars == <<search, tree, proposed, pending, beam, waiting, trace, prunes, pc, captured>>

Root == 0
Ids == DOMAIN tree
Beam == ToSet(beam)

\* "new" was proposed only; "stable" can be expanded and "stuck" is stable and cannot;
\* "cont" is an interactive choice; "won" is terminal with an exact utility and "over"
\* terminal without; "fault", "oos" and "limit" were dropped: no usable result, out of
\* the Beam's scope, or an interactive choice too many.
Scored == {"stable", "stuck", "won", "over"}
Outcomes == Scored \cup {"cont", "fault", "oos"}

RootNode == [parent |-> Root, action |-> Root, kind |-> rootKind, score |-> 0,
             combat |-> 0, steps |-> 0]
Node(i) == IF i = Root THEN RootNode ELSE tree[i]

\* An interactive choice does not consume combat depth; anything else resets the count.
Child(parent, id) ==
    LET n == Node(parent)
    IN  [parent |-> parent, action |-> IF parent = Root THEN id ELSE n.action,
         kind |-> "new", score |-> n.score,
         combat |-> IF n.kind = "cont" THEN n.combat ELSE n.combat + 1,
         steps  |-> IF n.kind = "cont" THEN n.steps + 1 ELSE 0]

\* Nodes that get a ResolvedNodeTrace.
Resolved == {i \in Ids : tree[i].kind \in Scored \cup {"cont"}}
Faults == {i \in Ids : tree[i].kind = "fault"}
Terminal(i) == Node(i).kind \in {"won", "over"}
Fresh(i) == Node(i).kind # "cont"
Finished(i) == Terminal(i) \/ Node(i).kind = "stuck"
                 \/ (Node(i).kind = "stable" /\ Node(i).combat >= MaxDepth)

----------------------------------------------------------------------------
(* The search and its trace.                                               *)

Init ==
    /\ exhaustive \in BOOLEAN /\ rootKind \in {"stable", "cont"}
    /\ tree = << >> /\ proposed = {} /\ pending = {}
    /\ beam = <<Root>> /\ waiting = {} /\ trace = << >> /\ prunes = << >>
    /\ pc = "ply" /\ captured = {}

\* The deadline, a call that failed, capacity or clean-up: the loop breaks at a ply, the
\* search ends normally and what it has is a result.
Stop ==
    /\ pc = "ply"
    /\ pc' = "end"
    /\ UNCHANGED <<search, tree, proposed, pending, beam, waiting, trace, prunes, captured>>

\* How many candidates each node of the beam may get.  For the root of an exhaustive
\* search the collector raises top_k to all its actions, and wants them all.
CandidateCounts(i) ==
    IF i # Root THEN 0 .. TopK
    ELSE IF exhaustive THEN {RootActions}
    ELSE 0 .. Min({TopK, RootActions})

\* One policy call for the beam: `slots` are the places in the beam of the nodes that the
\* candidates of this ply hang from, in its order.  A node without candidates is finished,
\* and no proposal of it is recorded; with no candidate at all the search ends.
Propose ==
    /\ pc = "ply"
    /\ \E slots \in UNION {[1 .. k -> DOMAIN beam] : k \in 0 .. MaxIds - Len(tree)} :
        LET parents == [k \in DOMAIN slots |-> beam[slots[k]]] IN
        /\ \A k, l \in DOMAIN slots : k < l => slots[k] <= slots[l]
        /\ \A b \in DOMAIN beam : Cardinality({k \in DOMAIN slots : slots[k] = b})
                                   \in CandidateCounts(beam[b])
        /\ tree' = tree \o [k \in DOMAIN parents |-> Child(parents[k], Len(tree) + k)]
        /\ pending' = {Len(tree) + k : k \in DOMAIN parents}
        /\ proposed' = proposed \cup {parents[k] : k \in DOMAIN parents}
        /\ pc' = IF parents = << >> THEN "end" ELSE "simulate"
    /\ UNCHANGED <<search, beam, waiting, trace, prunes, captured>>

\* Results arrive for a whole batch and are scored in the order of the candidates.  Only
\* a stable or terminal state has a score of its own; a choice keeps its parent's.  An
\* interactive choice past the limit leaves no trace.
Simulate ==
    /\ pc = "simulate"
    /\ LET id == Min(pending)
           late == tree[id].steps >= MaxCont
       IN /\ \E outcome \in Outcomes :
               \E score \in IF outcome \in Scored THEN Scores ELSE {tree[id].score} :
                  tree' = [tree EXCEPT
                    ![id].kind = IF outcome = "cont" /\ late THEN "limit" ELSE outcome,
                    ![id].score = score]
          /\ pending' = pending \ {id}
          /\ pc' = IF pending' = {} THEN "choose" ELSE "simulate"
    /\ UNCHANGED <<search, proposed, beam, waiting, trace, prunes, captured>>

\* A candidate is left without a result: dropped to fit the server's active branches, or
\* the deadline or a refusal came before its call, or before it was retried.
Unsent ==
    /\ pc = "simulate"
    /\ pending' = pending \ {Min(pending)}
    /\ pc' = IF pending' = {} THEN "choose" ELSE "simulate"
    /\ UNCHANGED <<search, tree, proposed, beam, waiting, trace, prunes, captured>>

Ply == {i \in Ids : tree[i].parent \in Beam}

\* Capacity drops the last candidates only: a gap before a result was left by the
\* deadline or a refusal, which end the search after this ply.
Interrupted ==
    \E i, j \in Ply : i < j /\ tree[i].kind = "new" /\ tree[j].kind # "new"
First(S) == Min(IF \A i \in S : Finished(i) THEN S ELSE {i \in S : ~Finished(i)})

\* _RootValueCapturingOracleEngine keeps the DTOs of the first fresh states below each
\* root action, those at the combat depth of the very first one.
Captured(S) ==
    {i \in S :
        LET kin(T) == {j \in T : tree[j].action = tree[i].action}
        IN  tree[i].combat = tree[First(IF kin(captured) # {} THEN kin(captured)
                                                              ELSE kin(S))].combat}

\* As many of a set as fit the beam, each once and in any order.
Selections(S) ==
    LET k == Min({BeamWidth, Cardinality(S)})
    IN  {s \in [1 .. k -> S] : \A i, j \in 1 .. k : i # j => s[i] # s[j]}

\* The end of a ply.  The trace records what can go on before what is finished.
\* Interactive choices go first, the earliest of them, and the stable nodes wait for
\* them; the choices beyond the beam's width are not pruned on record.  Else the pruner
\* keeps some of the frontier, the new nodes and the waiting ones, in an order of its
\* own.  Candidates of which none resolved end the search, with an error unless one was
\* out of scope; so does an empty beam.
Choose ==
    /\ pc = "choose"
    /\ LET alive == Ply \cap Resolved
           next == {i \in alive : ~Finished(i)}
           conts == {i \in next : ~Fresh(i)}
           stables == next \ conts
           kinds == {tree[i].kind : i \in Ply} \ {"new"}
       IN /\ captured' = captured \cup Captured({i \in alive : Fresh(i)})
          /\ trace' = trace \o SetToSortSeq(next, <) \o SetToSortSeq(alive \ next, <)
          /\ IF kinds # {} /\ kinds \subseteq {"fault", "oos"}
             THEN /\ pc' = IF "oos" \in kinds THEN "end" ELSE "raised"
                  /\ UNCHANGED <<beam, waiting, prunes>>
             ELSE /\ IF conts # {}
                     THEN /\ beam' \in {s \in Selections(conts) : \A k \in DOMAIN s :
                               \A i \in conts : i < s[k] => \E l \in 1 .. k - 1 : s[l] = i}
                          /\ waiting' = waiting \cup stables
                          /\ UNCHANGED prunes
                     ELSE LET all == stables \cup waiting
                          IN /\ beam' \in Selections(all)
                             /\ waiting' = {}
                             /\ prunes' = Append(prunes, [frontier |-> all, kept |-> Beam'])
                  /\ pc' = IF beam' = << >> \/ Interrupted THEN "end" ELSE "ply"
    /\ UNCHANGED <<search, tree, proposed, pending>>

Done == pc \in {"end", "raised"} /\ UNCHANGED vars

Next == Stop \/ Propose \/ Simulate \/ Unsent \/ Choose \/ Done

Spec == Init /\ [][Next]_vars

----------------------------------------------------------------------------
(* build_oracle_targets.                                                   *)

\* A node and the nodes it hangs from, up to the root's candidate.
Line(i) ==
    LET line[j \in Ids \cup {Root}] ==
            IF j \in Resolved THEN {j} \cup line[tree[j].parent] ELSE {}
    IN  line[i]

\* Mutant: a node counts as its own descendant.
DescendantsOrSelf(i) == {j \in Resolved : i \in Line(j)}
Descendants(i) == {j \in Resolved : i \in Line(tree[j].parent)}
\* Mutant: only a node at the full depth is an outcome.
LeafAtDepth(i) == Fresh(i) /\ Node(i).combat >= MaxDepth
Leaf(i) == Fresh(i) /\ \A j \in Resolved : tree[j].parent # i
OraclePruned == UNION {p.frontier \ p.kept : p \in ToSet(prunes)}

\* What a final outcome may be: neither a pruned node, which was never followed up, nor
\* one whose expansion came to nothing.
FinalLeaves(S) == {i \in S : Leaf(i)} \ (OraclePruned \cup proposed)

\* The two orders the outcomes are looked through: that of the trace, and that of a
\* breadth-first walk, which takes children in the order of the trace.
RecordedBefore(i, j) ==
    \E l \in DOMAIN trace : trace[l] = j /\ \E k \in 1 .. l - 1 : trace[k] = i
ReachedBefore(i, j) ==
    \/ Cardinality(Line(i)) < Cardinality(Line(j))
    \/ /\ Cardinality(Line(i)) = Cardinality(Line(j))
       /\ \E u \in Line(i), v \in Line(j) :
            tree[u].parent = tree[v].parent /\ RecordedBefore(u, v)
ByTrace == {p \in Resolved \X Resolved : RecordedBefore(p[1], p[2])}
BreadthFirst == {p \in Resolved \X Resolved : ReachedBefore(p[1], p[2])}

\* Mutant: the outcome found last.
BestIsLast(S, order) == Max(S)

\* The best by score; of equals the first in that order.
Best(S, order) ==
    LET best == {i \in S : \A j \in S : tree[i].score >= tree[j].score}
        place(i) == Cardinality({j \in best : <<j, i>> \in order})
    IN  CHOOSE i \in best : \A j \in best \ {i} : place(i) <= place(j)

\* Mutant: a fault spoils the node it was proposed from only.
FaultedParents == {tree[f].parent : f \in Faults}

\* A fault below a node spoils the node, and every node on the way up.
FaultedActions == {tree[f].action : f \in Faults}
FaultedNodes == UNION {Line(tree[f].parent) : f \in Faults}

\* Labels.  The score 0 stands for None: no state scores 0.
NoTarget(why, terminal) ==
    [score |-> 0, source |-> "no_target", best |-> Root, censored |-> TRUE,
     terminal |-> terminal, why |-> why]

Labelled(leaves, order) ==
    LET best == Best(leaves, order)
        exact == tree[best].kind = "won"
    IN  [score |-> tree[best].score, best |-> best, censored |-> ~exact,
         source |-> IF exact THEN "terminal" ELSE "value_bootstrap",
         terminal |-> \E i \in leaves : Terminal(i),
         why |-> IF exact THEN "none" ELSE "value_bootstrap"]

\* Why nothing below is a final outcome, S being the nodes below.
Lost(S) ==
    LET raw == {i \in S : Leaf(i)}
    IN  IF raw \cap OraclePruned # {} THEN "pruned"
        ELSE IF raw \cap proposed # {} THEN "expanded" ELSE "ended"

Candidate(a) == a \in Ids /\ tree[a].parent = Root
Below(a) == {i \in Resolved : tree[i].action = a}
Evaluated(a) == Candidate(a) /\ (Below(a) # {} \/ a \in FaultedActions)

\* _root_action_targets.  Each candidate of the root has an RNG hypothesis of its own, so
\* an action has one outcome and its mean is over one score.
RootTarget(a) ==
    LET leaves == FinalLeaves(Below(a))
    IN  IF ~Evaluated(a) THEN NoTarget("not_evaluated", FALSE)
        ELSE IF a \in FaultedActions
             THEN NoTarget("branch_fault", \E i \in leaves : Terminal(i))
        ELSE IF leaves = {} THEN NoTarget(Lost(Below(a)), FALSE)
        ELSE Labelled(leaves, ByTrace)

\* A node of a pruned frontier is judged by its descendants only, never by itself.
NodeTarget(p, i) ==
    LET leaves == FinalLeaves(Descendants(i))
    IN  IF i \in FaultedNodes THEN NoTarget("branch_fault", \E j \in leaves : Terminal(j))
        ELSE IF leaves = {}
             THEN NoTarget(IF i \notin p.kept THEN "pruned" ELSE Lost(Descendants(i)), FALSE)
        ELSE Labelled(leaves, BreadthFirst)

\* collect() gives targets; otherwise it raises, and the episode is lost with it.
Derives ==
    /\ pc = "end"
    /\ Root \in proposed
    /\ exhaustive => \A a \in 1 .. RootActions : Evaluated(a)

----------------------------------------------------------------------------
(* build_root_action_value_samples.                                        *)

\* The state a root action's label is attached to: of the captured ones at the least
\* combat depth, the one on the way to the best outcome; without one, the first.
SampleStates(a) ==
    LET kept == {i \in captured \cap Below(a) : Fresh(i)}
    IN  {i \in kept : \A j \in kept : tree[i].combat <= tree[j].combat}
SampleState(a) ==
    LET onTheWay == SampleStates(a) \cap Line(RootTarget(a).best)
    IN  IF onTheWay # {} THEN Max(onTheWay)
        ELSE Min({i \in SampleStates(a) :
                   \A j \in SampleStates(a) : Cardinality(Line(i)) <= Cardinality(Line(j))})

\* A non-terminal state's own bootstrap is no label for it.
Sample(a) ==
    LET target == RootTarget(a)
        state == SampleState(a)
    IN  IF target.source = "value_bootstrap" /\ target.best = state /\ ~Terminal(state)
        THEN NoTarget("self_bootstrap", FALSE)
        ELSE target

Samples == {a \in 1 .. RootActions : Evaluated(a) /\ SampleStates(a) # {}}

----------------------------------------------------------------------------
(* Properties.                                                             *)

Actions == {a \in 1 .. RootActions : Evaluated(a)}
IsLabel(t) == t.source # "no_target"
Under(i) == {j \in Ids : i = j \/ i \in Line(tree[j].parent)}

\* "Any recorded branch fault makes the affected RNG/stable subtree a no_target"
\* (build_oracle_targets): no label, of a root action, of a frontier node or of a value
\* sample, was derived from a subtree with a faulted branch anywhere in it, whichever
\* siblings survived.
NoLabelAboveAFault ==
    Derives =>
        /\ \A a \in Actions : (Under(a) \cap Faults # {}) => ~IsLabel(RootTarget(a))
        /\ \A p \in ToSet(prunes) : \A i \in p.frontier :
              (Under(i) \cap Faults # {}) => ~IsLabel(NodeTarget(p, i))
        /\ \A a \in Samples : (Under(a) \cap Faults # {}) => ~IsLabel(Sample(a))

\* The labels of one search agree (_root_action_targets and build_oracle_targets, which
\* look through the outcomes in different orders): a frontier node is never worth more
\* than the root action it came from, and exactly as much if the action's best outcome
\* lies below it; the two labels then differ at most in which of equally good outcomes
\* they name, and if they name the same one they are the same.
LabelsAgree ==
    Derives =>
        \A p \in ToSet(prunes) : \A i \in p.frontier :
            LET own == NodeTarget(p, i)
                root == RootTarget(tree[i].action)
            IN  /\ (IsLabel(own) /\ tree[i].action \notin FaultedActions) =>
                     IsLabel(root) /\ own.score <= root.score
                /\ (IsLabel(root) /\ root.best \in Descendants(i)) =>
                     /\ IsLabel(own) /\ own.score = root.score
                     /\ own.best = root.best => own = [root EXCEPT !.terminal = own.terminal]

\* "A node that the oracle itself pruned before follow-up receives no_target rather than
\* its current ValueModel state score, avoiding direct self-imitation": neither a label
\* nor the outcome it is taken from is the judgement of a node on itself, of a node the
\* pruner discarded, or of one that was expanded further.
NoSelfImitation ==
    Derives =>
        /\ \A p \in ToSet(prunes) : \A i \in p.frontier :
              LET t == NodeTarget(p, i)
              IN  /\ i \notin p.kept => ~IsLabel(t)
                  /\ IsLabel(t) => t.best # i /\ i \in Line(t.best)
        /\ \A a \in Actions :
              LET t == RootTarget(a)
              IN  IsLabel(t) => t.best \notin OraclePruned \cup proposed
        /\ \A a \in Samples :
              LET t == Sample(a)
              IN  IsLabel(t) =>
                    /\ SampleState(a) \in Line(t.best)
                    /\ t.best # SampleState(a) \/ Terminal(t.best)

\* A root action goes without a label only when something below it was really lost: a
\* fault, a candidate never simulated or dropped, a pruned node or a choice beyond the
\* beam.  A search that lost nothing labels all it evaluated.
LabelledUnlessLost ==
    Derives =>
        \A a \in Actions :
            \/ IsLabel(RootTarget(a))
            \/ \E i \in Under(a) : tree[i].kind \in {"new", "fault", "oos", "limit"}
            \/ Under(a) \cap OraclePruned # {}
            \/ \E i \in Under(a) : ~Fresh(i) /\ i \notin proposed
=============================================================================
