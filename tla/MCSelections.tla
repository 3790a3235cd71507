----------------------------- MODULE MCSelections -----------------------------
(* The pure algorithms of a decision over small inputs: candidate selection,   *)
(* the two value models and the selection of a frontier with everything that   *)
(* reads it.  A behaviour takes one case and answers it in one step; a         *)
(* property relates the case to the answer.                                    *)
EXTENDS CandidateSelection, FrontierSelection, ValueModels

CONSTANTS Refused,      \* the answer of a call that raises
          MaxRanked,    \* longest ranking with repeated ids
          MaxFrontier   \* nodes of a frontier

ASSUME CaseAssumption ==
  /\ MaxFrontier \in Nat \ {0}
  /\ NoTarget \notin Nat /\ NoTarget \notin Seq(Nat)
  \* Weights that are not positive are refused (pruner_training_data.py).
  /\ {TerminalWeight, BootstrapWeight} \subseteq Nat \ {0}

VARIABLES case, answer
caseVars == <<case, answer>>

Act(id, type) == [id |-> id, type |-> type, available |-> TRUE]
Sublists(seq) == {SelectSeq(seq, LAMBDA x : x \in S) : S \in SUBSET ToSet(seq)}

-----------------------------------------------------------------------------
(* Cases.                                                                      *)

\* A ranking of any policy over a menu, one of its cards perhaps not available.
Menu == <<Act("strike", "card"), Act("bash", "card"), Act("flask", "potion"),
          Act("end", "system"), Act("pick", "choice_card"), Act("confirm", "choice_confirm")>>
Menus ==
  Sublists(Menu)
  \cup {Append(m, [Act("clash", "card") EXCEPT !.available = FALSE]) :
          m \in Sublists(SubSeq(Menu, 3, 4))}
Rankings(ids) ==
  UNION {[1..n -> ids] : n \in 0..MaxRanked}
  \cup {s \in [1..(MaxRanked + 1) -> ids] : IsInjective(s)}
CoverageCases ==
  UNION {{[kind |-> "coverage", legal |-> legal, ranked |-> ranked, topK |-> k] :
            ranked \in Rankings(ToSet(Ids(legal))), k \in 1..4} : legal \in Menus}

\* A turn: cards of every kind with their costs, a potion, the end of the turn.
Card(id, type, rarity, cost) ==
  [id |-> id, type |-> type, rarity |-> rarity, upgraded |-> FALSE, level |-> None,
   cost |-> cost, target |-> "AnyEnemy"]
HandCards == <<Card("strike", "Attack", "Common", 1), Card("DEFEND", "Skill", "Rare", 2),
               Card("demon", "Power", "Rare", 3), Card("doubt", "Curse", None, 0)>>
PlayCard(c) == [id |-> c.id, type |-> "card", available |-> TRUE, card |-> c.id,
                cost |-> c.cost, target |-> c.target]
Flask == [id |-> "flask", type |-> "potion", available |-> TRUE, slot |-> 1, target |-> None]
Foe(damage) == [alive |-> TRUE, damage |-> damage, repeats |-> 1, index |-> 1]
TurnState(hp, block, energy, attacks) ==
  [hp |-> hp, maxHp |-> 10, block |-> block, energy |-> energy,
   enemies |-> [i \in DOMAIN attacks |-> Foe(attacks[i])], hand |-> HandCards,
   potions |-> <<"Rare">>, pending |-> None]
Turns ==
  {TurnState(hp, block, energy, attacks) :
     hp \in {0, 4, 8}, block \in {0, 4}, energy \in {None, 0, 1, 3},
     attacks \in {<<0>>, <<4>>, <<4, 8>>}}
TurnMenu(cards, potion) ==
  [i \in DOMAIN cards |-> PlayCard(cards[i])] \o potion \o <<Act("end", "system")>>
TurnCases ==
  {[kind |-> "propose", topK |-> k, legal |-> TurnMenu(cards, potion), dto |-> dto] :
     k \in {2, 6}, cards \in Sublists(HandCards), potion \in {<<>>, <<Flask>>}, dto \in Turns}

\* A pending choice with its published identity and meaning.
Option(id, type) == [id |-> id, type |-> type, rarity |-> "Rare", upgraded |-> FALSE,
                     level |-> 2]
PickCard(id, option) ==
  [id |-> id, type |-> "choice_card", available |-> TRUE, option |-> option]
Pendings ==
  {[semantics |-> [version |-> 1, wellFormed |-> TRUE, operation |-> operation],
    options |-> <<Option("o1", t1), Option("o2", t2)>>, selectedIds |-> chosen,
    selectedCount |-> count, minSelect |-> least, maxSelect |-> most] :
      operation \in {"gain", "discard", "scry"}, t1 \in {"Attack", "Curse"},
      t2 \in {"Skill", "Status"}, chosen \in {<<>>, <<"o3">>}, count \in 0..1,
      least \in 0..2, most \in {None, 1}}
ChoiceTurn(pending) == [TurnState(8, 0, 3, <<4>>) EXCEPT !.pending = pending]
ChoiceMenu == <<PickCard("k1", "o1"), PickCard("k2", "o2"), Act("confirm", "choice_confirm"),
                Act("skip", "choice_skip")>>
ChoiceCases(kind) ==
  {[kind |-> kind, topK |-> k, legal |-> legal, dto |-> ChoiceTurn(pending),
    explore |-> FALSE] :
      k \in {1, 4}, legal \in Sublists(ChoiceMenu), pending \in Pendings \cup {None}}

\* The targets of a pending card, of enemies with an attack each or of no known one.
Target(id, hp, block, enemy) ==
  [id |-> id, type |-> "choice_target", available |-> TRUE, hp |-> hp, block |-> block,
   maxHp |-> 10, enemy |-> enemy]
TwoFoes(attacks) ==
  [TurnState(8, 0, 3, attacks) EXCEPT
     !.enemies = [i \in 1..2 |-> [Foe(attacks[i]) EXCEPT !.index = i]]]
TargetCases ==
  {[kind |-> "propose", topK |-> k, dto |-> TwoFoes(attacks),
    legal |-> <<Target("t1", h1, 0, 1), Target("t2", h2, block, enemy),
                Act("skip", "choice_skip")>>] :
     k \in {1, 3}, h1 \in {0, 2, 5, 10}, h2 \in {1, 5, 9, 10}, block \in {0, 4},
     enemy \in {1, 2, None}, attacks \in {<<0, 8>>, <<8, 0>>, <<40, 50>>}}

\* The screens where the selector decides, greedy or exploring.
Room(id, room) == [id |-> id, type |-> "map_room", available |-> TRUE, room |-> room]
Rest(id, rest) == [id |-> id, type |-> "choice_rest_option", available |-> TRUE, rest |-> rest]
Event(id, lethal) ==
  [id |-> id, type |-> "choice_event_option", available |-> TRUE, lethal |-> lethal]
RewardCard(id, score) ==
  [id |-> id, type |-> "choice_reward_card", available |-> TRUE, score |-> score]
Screens ==
  {<<Act("take", "choice_reward_potion_take"), Act("replace", "choice_reward_potion_replace"),
     Act("leave", "choice_reward_skip"), RewardCard("r1", 1), RewardCard("r2", 2)>>,
   <<Room("elite", "Elite"), Room("rest", "RestSite"), Room("fight", "Monster"),
     Room("chest", "Treasure")>>,
   <<Rest("heal", "HEAL"), Rest("smith", "SMITH"), Rest("dig", "DIG")>>,
   <<Event("dies", TRUE), Event("lives", FALSE), Event("unknown", None),
     Act("end", "system")>>}
SelectorCases ==
  UNION {{[kind |-> "select", legal |-> legal, explore |-> explore,
           dto |-> [TurnState(5, 0, 3, <<4>>) EXCEPT !.hp = hp]] :
             legal \in {[i \in DOMAIN s |-> [s[i] EXCEPT !.available = (s[i].id # gone)]] :
                          s \in Sublists(screen), gone \in {None} \cup ToSet(Ids(screen))},
             hp \in {None} \cup 0..10, explore \in BOOLEAN} : screen \in Screens}

\* A frontier, the pruner's artifact, and the set a sampling pruner drew.
Weightings ==
  {[f \in FeatureNames |-> IF f = "node_value" THEN 1 ELSE 0],
   [f \in FeatureNames |-> CASE f = "root_group_size" -> -1 [] f = "structural" -> 2
                             [] f = "root_group_value_gap_to_max" -> -2 [] OTHER -> 0]}
Behaviors == {[temperature |-> t, sampler_seed |-> s] : t \in 1..2, s \in 1..2}
Frontiers(values) ==
  {[i \in 1..n |-> [value |-> v[i], root |-> r[i], structural |-> (i = marked)]] :
     n \in 1..MaxFrontier, v \in [1..MaxFrontier -> values],
     r \in {x \in [1..MaxFrontier -> 1..2] : x[1] = 1}, marked \in 0..1}
SampleCases(frontier) ==
  UNION {{[kind |-> "sample", frontier |-> frontier, k |-> k, weights |-> weights,
           drawn |-> drawn, behavior |-> [temperature |-> 1, sampler_seed |-> 1]] :
             weights \in Weightings, drawn \in Draws(frontier, k)} : k \in 1..2}

\* The second step of a record, a frontier of one root.
Other == <<[value |-> 1, root |-> 1, structural |-> FALSE],
           [value |-> 0, root |-> 1, structural |-> TRUE]>>
Outcomes == {[value |-> NoTarget, source |-> "no_target"], [value |-> 0, source |-> "terminal"],
             [value |-> 3, source |-> "value_bootstrap"], [value |-> 3, source |-> "unknown"]}
\* What may be wrong with a record.
Damages == {"none", "repeated", "missing", "stray", "widths", "unselected", "kept"}
TrainCases(frontier) ==
  {[kind |-> "train", frontier |-> frontier, k |-> k, weights |-> weights,
    outcomes |-> outcomes, damage |-> damage] :
      weights \in Weightings, k \in 1..2, damage \in Damages,
      outcomes \in [1..Len(frontier) -> Outcomes]}

\* Any scores a trained pruner may give, against any observed targets.
TeachCases ==
  {[kind |-> "teach", scores |-> scores, targets |-> targets, k |-> k, minGap |-> gap,
    weights |-> [i \in 1..MaxFrontier |-> IF i = 1 THEN TerminalWeight ELSE BootstrapWeight]] :
     scores \in [1..MaxFrontier -> 0..2], k \in 1..2, gap \in 0..1,
     targets \in [1..MaxFrontier -> {NoTarget} \cup 0..2]}

\* A combat state.
Enemy(alive, hp, damage) ==
  [alive |-> alive, hp |-> hp, maxHp |-> 12, block |-> 0, damage |-> damage,
   repeats |-> Missing, powers |-> <<>>]
Combat(hp, block, energy, turn, enemies) ==
  [hp |-> hp, maxHp |-> 50, block |-> block, energy |-> energy, maxEnergy |-> 3, turn |-> turn,
   outcome |-> Missing, transition |-> Missing, powers |-> <<>>, enemies |-> enemies]
ValueCases ==
  {[kind |-> "value", state |-> Combat(hp, block, energy, turn, enemies)] :
     hp \in {1, 20, 50}, block \in {0, 3}, energy \in {Missing, 0, 1, 3},
     turn \in {Missing, 1, 3},
     enemies \in {<<Enemy(Missing, h1, d1), Enemy(h2 > 0, h2, d2)>> :
                    h1 \in {1, 6, 12}, h2 \in {0, 8}, d1 \in {Missing, 7, 20}, d2 \in {0, 7}}}

-----------------------------------------------------------------------------
CaseInit ==
  /\ \/ case \in CoverageCases
     \/ case \in TurnCases
     \/ case \in TargetCases
     \/ case \in ChoiceCases("propose")
     \/ case \in ChoiceCases("select")
     \/ case \in SelectorCases
     \/ \E frontier \in Frontiers(0..2) : case \in SampleCases(frontier)
     \/ \E frontier \in Frontiers({0, 2}) : case \in TrainCases(frontier)
     \/ case \in TeachCases
     \/ case \in ValueCases
  /\ answer = None

Asked(kind) == answer = None /\ case.kind = kind

Cover ==
  /\ Asked("coverage")
  /\ \/ /\ RankingIsRefused(case.ranked, case.legal, case.topK)
        /\ answer' = Refused
     \/ /\ ~RankingIsRefused(case.ranked, case.legal, case.topK)
        /\ answer' = ApplyStructuralCoverage(case.ranked, case.legal, case.topK)
  /\ UNCHANGED case

Propose ==
  /\ Asked("propose")
  /\ answer' = PriorPropose(case.legal, case.dto, case.topK)
  /\ UNCHANGED case

Select ==
  /\ Asked("select")
  /\ answer' = SelectorChoices(case.legal, case.dto, case.explore)
  /\ UNCHANGED case

\* The sampling pruner answers the engine, which records the step.
Sample ==
  /\ Asked("sample")
  /\ LET kept == Survivors(case.weights, case.frontier, case.k, case.drawn)
     IN answer' = [kept |-> kept,
                   trace |-> PruneTrace(case.frontier, case.k, kept),
                   step |-> IF case.drawn = <<>> THEN None
                            ELSE RecordedStep(case.weights, case.frontier, case.k, case.drawn,
                                              case.behavior)]
  /\ UNCHANGED case

\* The value pruner ran in both steps; the record of the decision, damaged or
\* not, is loaded into examples of width k.
Targets(frontier, s, outcomes) ==
  [i \in DOMAIN frontier |-> [step |-> s, node |-> i, value |-> outcomes[i].value,
                              source |-> outcomes[i].source, width |-> case.k]]
WholeRecord ==
  LET seen == [i \in 1..2 |-> [value |-> i, source |-> "terminal"]]
  IN [traces |-> <<PruneTrace(Other, 1, ValueTopK(Other, 1)),
                   PruneTrace(case.frontier, 3 - case.k, ValueTopK(case.frontier, 3 - case.k))>>,
      targets |-> Targets(Other, 1, seen) \o Targets(case.frontier, 2, case.outcomes)]
Record ==
  LET whole == WholeRecord
      last == whole.targets[Len(whole.targets)]
      step == whole.traces[2]
  IN CASE case.damage = "repeated" ->
            [whole EXCEPT !.targets = Append(@, [last EXCEPT !.value = 9])]
       [] case.damage = "missing" -> [whole EXCEPT !.targets = Front(@)]
       [] case.damage = "stray" -> [whole EXCEPT !.targets = Append(@, [last EXCEPT !.step = 3])]
       [] case.damage = "widths" ->
            [whole EXCEPT !.targets = Append(Front(@), [last EXCEPT !.width = 3])]
       [] case.damage = "unselected" ->
            [whole EXCEPT !.traces = <<@[1], [step EXCEPT !.selected_indices = NoTarget]>>]
       [] case.damage = "kept" ->
            [whole EXCEPT !.traces =
               <<@[1], [step EXCEPT !.selected_indices = <<Len(case.frontier)>>]>>]
       [] OTHER -> whole

\* A record that is refused has no examples.
Train ==
  /\ Asked("train")
  /\ answer' = [record |-> Record,
                frontiers |-> IF RecordIsLoaded(Record) THEN [s \in 1..2 |-> Examples(Record, s)]
                              ELSE <<>>]
  /\ UNCHANGED case

Teach ==
  /\ Asked("teach")
  /\ answer' = TopSet(case.scores, case.k)
  /\ UNCHANGED case

Evaluate ==
  /\ Asked("value")
  /\ answer' = DamageRaceValue(case.state)
  /\ UNCHANGED case

CaseNext == Cover \/ Propose \/ Select \/ Sample \/ Train \/ Teach \/ Evaluate
CaseSpec == CaseInit /\ [][CaseNext]_caseVars

Answered(kind) == case.kind = kind /\ answer \notin {None, Refused}

-----------------------------------------------------------------------------
(* Properties.                                                                 *)

Answers == {answer[p].id : p \in DOMAIN answer}
OfferedIds(types) ==
  {case.legal[i].id : i \in {j \in DOMAIN case.legal :
                               case.legal[j].available /\ case.legal[j].type \in types}}

\* Whatever a policy ranks, its candidates after structural coverage are
\* distinct available actions, at most top_k.  With room for two, a combat turn
\* keeps the end of the turn and a card, with room for three a potion, and a
\* choice of a card keeps a way to complete it while those leave room.  What the
\* policy ranked keeps its order and its true rank, and gives way only from the
\* lowest place that is not itself needed (candidate_coverage.py).
BranchesAreKept ==
  Answered("coverage") =>
    LET fromPolicy == SelectSeq(answer, LAMBDA p : p.source = "policy")
        combat == /\ OfferedIds({"system"}) # {}
                  /\ OfferedIds({"card", "potion"}) # {}
        kept(types) == OfferedIds(types) # {} => Answers \cap OfferedIds(types) # {}
        first(id) == CHOOSE i \in DOMAIN case.ranked :
                       case.ranked[i] = id /\ \A j \in 1..(i - 1) : case.ranked[j] # id
        lone(id) == \E type \in {"system", "card", "potion", "choice_confirm"} :
                      Answers \cap OfferedIds({type}) = {id}
    IN /\ Cardinality(Answers) = Len(answer) /\ Len(answer) <= case.topK
       /\ Answers \subseteq OfferedIds({a.type : a \in ToSet(case.legal)})
       /\ case.topK >= 2 /\ combat => kept({"system"}) /\ kept({"card"})
       /\ case.topK >= 3 /\ combat => kept({"potion"})
       /\ case.topK >= (IF combat THEN 4 ELSE 2) /\ OfferedIds({"choice_card"}) # {}
            => kept(Completions)
       /\ \A p \in DOMAIN fromPolicy : fromPolicy[p].rank = first(fromPolicy[p].id)
       /\ \A p, q \in DOMAIN fromPolicy : p < q => fromPolicy[p].rank < fromPolicy[q].rank
       /\ \A i \in Examined(case.ranked, case.topK) :
            case.ranked[i] \notin Answers =>
              \A q \in DOMAIN fromPolicy :
                fromPolicy[q].rank > first(case.ranked[i]) => lone(fromPolicy[q].id)

\* Under an attack that would kill, the end of the turn is proposed after every
\* card that can be paid and every potion; while a choice lacks cards, its
\* completion is proposed after every card that can be chosen; and of two targets
\* the one closer to death comes first if it attacks no less (policy.py).
UrgentActionsLead ==
  Answered("propose") =>
    LET placeOf(id) == CHOOSE p \in DOMAIN answer : answer[p] = id
        before(id, later) == later \in ToSet(answer) =>
                               id \in ToSet(answer) /\ placeOf(id) < placeOf(later)
        paid(a) == \/ a.type = "potion"
                   \/ a.type = "card" /\ (case.dto.energy = None \/ a.cost <= case.dto.energy)
        lacking == case.dto.pending # None
                   /\ case.dto.pending.selectedCount < case.dto.pending.minSelect
        attack(a) == FoldLeft(LAMBDA sum, e : sum + (IF e.index = a.enemy THEN Attack(e) ELSE 0),
                              0, case.dto.enemies)
        targets == {a \in ToSet(case.legal) : a.type = "choice_target"}
    IN /\ case.dto.hp <= Incoming(case.dto) /\ case.dto.hp > 0 =>
            \A a \in ToSet(case.legal) : paid(a) => before(a.id, "end")
       /\ lacking => \A a \in ToSet(case.legal) : a.type = "choice_card" =>
                       before(a.id, "confirm") /\ before(a.id, "skip")
       /\ \A a, b \in targets :
            /\ a.hp + a.block < a.maxHp /\ attack(b) <= attack(a)
            /\ (a.hp + a.block) * b.maxHp < (b.hp + b.block) * a.maxHp
            => before(a.id, b.id)

\* The selector's pick, random ones included, is an available action and there
\* is one whenever an action is; it is no event option known to kill while
\* another is offered, gives up no potion while it can leave the reward, and
\* where it does not explore it heals below 70 % hp, meets no elite below half
\* hp while another room is open, and may pick the card that the search's policy
\* ranks first (heuristic_selector.py).
SelectorIsSafe ==
  Answered("select") =>
    LET all == OfferedIds({a.type : a \in ToSet(case.legal)})
        offered == {a \in ToSet(case.legal) : a.available}
        picks == {a.id : a \in answer}
        hurt(percent) == case.dto.hp # None /\ 100 * case.dto.hp < percent * case.dto.maxHp
        chosen == OfferedIds({"choice_card"})
        policy == PriorPropose(case.legal, case.dto, Len(case.legal))
        policyFirst == SelectSeq(policy, LAMBDA id : id \in chosen)[1]
    IN /\ picks \subseteq all /\ (all # {} => picks # {})
       /\ \A a \in answer :
            /\ a.type = "choice_event_option" /\ a.lethal = TRUE =>
                 \A b \in offered : b.type = "choice_event_option" => b.lethal = TRUE
            /\ a.type = "choice_reward_potion_replace" => OfferedIds({"choice_reward_skip"}) = {}
            /\ a.type = "choice_reward_skip" => OfferedIds({"choice_reward_potion_take"}) = {}
            /\ ~case.explore /\ a.type = "choice_rest_option" /\ hurt(70)
                 /\ "heal" \in all => a.rest = "HEAL"
            /\ ~case.explore /\ a.type = "map_room" /\ hurt(50) /\ a.room = "Elite" =>
                 \A b \in offered : b.type = "map_room" => b.room = "Elite"
       /\ chosen # {} => policyFirst \in picks

\* A sampled pruning step, from the pruner to the engine, the trace and the
\* updater: the survivors are those drawn, the engine's trace is consistent, and
\* the updater accepts the record under the artifact that wrote it and under no
\* artifact or behaviour that would have scored or drawn otherwise
\* (pruner_rl.py, update_stable_pruner_rl_v2_impl.py).
RecordedStepIsAccepted ==
  Answered("sample") =>
    /\ ValidIndices(answer.kept, Len(case.frontier))
    /\ TraceIsConsistent(answer.trace)
    /\ answer.step # None =>
         /\ ToSet(answer.kept) = ToSet(case.drawn)
         /\ answer.step.returned_indices = answer.kept
         /\ StepIsAccepted(answer.step, case.weights, case.behavior)
         /\ \A w \in Weightings, b \in Behaviors :
              StepIsAccepted(answer.step, w, b) =>
                /\ b = case.behavior
                /\ LearnedTopK(w, case.frontier, case.k)
                   = LearnedTopK(case.weights, case.frontier, case.k)

\* Offline, every node carries the outcome observed for it in its step, or none,
\* and the evaluation judges the selection the learned pruner would make at run
\* time on the same frontier, at the student's width, the nodes without an
\* outcome included.  A whole record is loaded; one with a row too few or too many,
\* or a trace without its selection, is refused.  A selection that recalls the teacher's has
\* its mean value, and one that has its mean value keeps the best node
\* (pruner_training_data.py, search_trace.py).
OfflineSelectsAsRuntime ==
  Answered("train") =>
    /\ case.damage = "none" => answer.frontiers # <<>>
    /\ case.damage \in {"repeated", "missing", "stray", "unselected"} => answer.frontiers = <<>>
    /\ answer.frontiers # <<>> =>
         LET loaded == answer.frontiers[2]
             target == [i \in DOMAIN loaded.nodes |-> loaded.nodes[i].target]
             labelled == Labelled(loaded.nodes)
             selected == ToSet(OfflineSelection(case.weights, loaded))
             size == Cardinality(selected)
             gap == SelectedValueGap(target, labelled, selected, size)
         IN /\ DOMAIN loaded.nodes = DOMAIN case.frontier
            /\ NodeViews(answer.record.traces[2]) = case.frontier
            /\ SelectedNodeViews(answer.record.traces[2])
               = [p \in DOMAIN ValueTopK(case.frontier, 3 - case.k) |->
                    case.frontier[ValueTopK(case.frontier, 3 - case.k)[p]]]
            /\ \A i \in DOMAIN case.frontier :
                 target[i] = IF case.outcomes[i].source = "unknown" THEN NoTarget
                             ELSE case.outcomes[i].value
            /\ OfflineSelection(case.weights, loaded)
               = LearnedTopK(case.weights, case.frontier, case.k)
            /\ OfflineSelection(case.weights, answer.frontiers[1])
               = LearnedTopK(case.weights, Other, case.k)
            /\ QualityIsKnown(labelled, selected, size) =>
                 /\ Recall(target, labelled, selected, size) = size => gap = 0
                 /\ gap >= BestValueRegret(target, labelled, selected)
                 /\ BestValueRegret(target, labelled, selected) >= 0

\* A pruner that judges every pair it is taught rightly, in both directions,
\* drops no labelled node for one whose target is lower by more than the pairs'
\* minimum gap, and where all it keeps is labelled it loses no more than that
\* against the best (pruner_training_data.py, train_stable_pruner.py).
PairsTeachSelection ==
  Answered("teach") =>
    LET labelled == {i \in DOMAIN case.targets : case.targets[i] # NoTarget}
        accuracy == Accuracy(case.scores, Pairs(case.targets, labelled, case.minGap),
                             [i \in labelled |-> case.weights[i]])
    IN accuracy.right = accuracy.all =>
         /\ \A kept \in labelled \cap answer, dropped \in labelled \ answer :
              case.targets[dropped] - case.targets[kept] <= case.minGap
         /\ answer \subseteq labelled =>
              BestValueRegret(case.targets, labelled, answer) <= case.minGap

\* Neither value model punishes what helps the player: a point of hp, block or
\* energy, a buff, a point of an enemy's hp lost, an enemy's death or the
\* victory (value.py, damage_race_value.py).
Better(o) ==
  {[o EXCEPT !.hp = @ + 1] : x \in {y \in {1} : o.hp < o.maxHp}}
  \cup {[o EXCEPT !.block = @ + 1], [o EXCEPT !.outcome = "victory"],
        [o EXCEPT !.powers = Append(@, [type |-> "Buff", amount |-> 2])]}
  \cup {[o EXCEPT !.energy = @ + 1] : x \in {y \in {1} : o.energy \in 0..2}}
  \cup {[o EXCEPT !.enemies[i].hp = @ - 1] :
          i \in {j \in DOMAIN o.enemies : o.enemies[j].alive # FALSE /\ o.enemies[j].hp > 1}}
  \cup {[o EXCEPT !.enemies[i].hp = 0, !.enemies[i].alive = FALSE] : i \in DOMAIN o.enemies}

MoreIsNeverWorse ==
  Answered("value") =>
    \A better \in Better(case.state) :
      /\ AtMost(answer, DamageRaceValue(better))
      /\ AtMost(HeuristicValue(case.state), HeuristicValue(better))

\* The closed form of the race's cost is its minimum over the energy given to the
\* attack in every turn.  And of the splits of a turn's energy none costs less than
\* the best of no block, exactly enough and all of it, unless the attack would kill
\* everything with energy to spare: that second kink is not compared
\* (damage_race_value.py, _remaining_loss and _turn_cost).
ClosedFormsAreMinima ==
  Answered("value") =>
    LET o == CombatObservation(case.state)
        left == Whole(RemainingEnemyHp(o))
        loss == RemainingLoss(left, IncomingBeforeBlock(o), DamagePerEnergy(o), Budget(o))
        race(attacking) == RaceObjective(left, IncomingBeforeBlock(o), DamagePerEnergy(o),
                                         Budget(o), attacking)
        splits == {s \in EnergySplits(Budget(o), BlockPerEnergy) : s[1] > 0}
    IN RemainingEnemyHp(o) > 0 =>
         /\ \A s \in splits : AtMost(loss, race(s))
         /\ \E s \in splits : AtMost(race(s), loss)
         /\ AtMost(Times(Whole(EnergyLeft(o)), DamagePerEnergy(o)), left) =>
              \A s \in EnergySplits(EnergyLeft(o), BlockPerEnergy) :
                AtMost(TurnCost(o), CostForSplit(o, s))
=============================================================================
