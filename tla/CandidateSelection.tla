------------------------- MODULE CandidateSelection -------------------------
(* What the player does with the legal actions of one decision: the prior      *)
(* policy that ranks them for Beam search (decision/policy.py), the structural *)
(* coverage applied to any policy's ranking (decision/candidate_coverage.py),  *)
(* and the selector that picks one action where no search runs (selection/).   *)
(*                                                                             *)
(* A legal action is a record with an id, a type and whether it is available,  *)
(* and the parameters its type has.  Scores are integers: quarter points in    *)
(* the policy, points times maxHp for rooms and rest sites, so that the ratios *)
(* of the code are exact.  A random pick is the set of the possible picks.     *)
EXTENDS Integers, Sequences, FiniteSets, SequencesExt, StableRanking

CONSTANT None    \* a missing id, rank, number or piece of metadata

Least(a, b) == IF a < b THEN a ELSE b
Greatest(a, b) == IF a > b THEN a ELSE b

AvailableActions(legal) == SelectSeq(legal, LAMBDA a : a.available)
OfTypes(actions, types) == SelectSeq(actions, LAMBDA a : a.type \in types)
Ids(actions) == [i \in DOMAIN actions |-> actions[i].id]

-----------------------------------------------------------------------------
(* Structural coverage of a ranking.                                           *)

Completions == {"choice_confirm", "choice_skip"}

Proposal(id, rank, source) == [id |-> id, rank |-> rank, source |-> source]

\* The positions of ranked the loop reads: up to its top_k-th distinct id.
Examined(ranked, topK) ==
  {i \in DOMAIN ranked : Cardinality(ToSet(SubSeq(ranked, 1, i - 1))) < topK}

PolicyProposals(ranked, topK) ==
  LET firsts == SelectSeq([i \in DOMAIN ranked |-> i],
                          LAMBDA i : /\ i \in Examined(ranked, topK)
                                     /\ \A j \in 1..(i - 1) : ranked[j] # ranked[i])
  IN [p \in DOMAIN firsts |-> Proposal(ranked[firsts[p]], firsts[p], "policy")]

\* The best selected action of one of the types, else the first available one.
BestOrFirst(selected, available, types) ==
  LET typed == ToSet(Ids(OfTypes(available, types)))
      inSelected == SelectSeq(Ids(selected), LAMBDA id : id \in typed)
      any == inSelected \o Ids(OfTypes(available, types))
  IN IF any = <<>> THEN None ELSE any[1]

RequiredIds(selected, available, topK) ==
  LET types == {available[i].type : i \in DOMAIN available}
      best(ts) == BestOrFirst(selected, available, ts)
      regular == "system" \in types /\ types \cap {"card", "potion"} # {}
      combat == IF ~regular THEN <<>>
                ELSE <<best({"system"}), best({"card"})>>
                     \o (IF topK >= 3 THEN <<best({"potion"})>> ELSE <<>>)
      choice == IF "choice_card" \in types THEN <<best(Completions)>> ELSE <<>>
      required == SelectSeq(combat \o choice, LAMBDA id : id # None)
  IN IF topK < 2 THEN <<>> ELSE SubSeq(required, 1, Least(topK, Len(required)))

\* Mutant: the last proposal gives way, needed or not.
InsertRequiredLast(proposals, id, protected, topK) ==
  LET new == Proposal(id, None, "structural_coverage")
  IN IF \E i \in DOMAIN proposals : proposals[i].id = id THEN proposals
     ELSE IF Len(proposals) < topK THEN Append(proposals, new)
     ELSE [i \in DOMAIN proposals |-> IF i = Len(proposals) THEN new ELSE proposals[i]]

\* One required id enters: appended while there is room, else in the place of
\* the last proposal that is not itself required.
InsertRequired(proposals, id, protected, topK) ==
  LET open == {i \in DOMAIN proposals : proposals[i].id \notin protected}
      new == Proposal(id, None, "structural_coverage")
  IN IF \E i \in DOMAIN proposals : proposals[i].id = id THEN proposals
     ELSE IF Len(proposals) < topK THEN Append(proposals, new)
     ELSE IF open = {} THEN proposals
     ELSE [i \in DOMAIN proposals |-> IF i = Max(open) THEN new ELSE proposals[i]]

RankingIsRefused(ranked, legal, topK) ==
  \E i \in Examined(ranked, topK) : ranked[i] \notin ToSet(Ids(AvailableActions(legal)))

ApplyStructuralCoverage(ranked, legal, topK) ==
  LET available == AvailableActions(legal)
      selected == PolicyProposals(ranked, topK)
      required == RequiredIds(selected, available, topK)
      insert(acc, id) == InsertRequired(acc, id, ToSet(required), topK)
  IN FoldLeft(insert, selected, required)

-----------------------------------------------------------------------------
(* The quality of a card and the preference over a pending card choice.        *)

CardTypeScore(t) ==
  CASE t = "Attack" -> 32 [] t = "Skill" -> 28 [] t = "Power" -> 24
    [] t = "Curse" -> -200 [] t = "Status" -> -140 [] OTHER -> 0

RarityScore(r) ==
  CASE r = "Rare" -> 12 [] r = "Uncommon" -> 6 [] r = "Common" -> 2 [] OTHER -> 0

UpgradeScore(card) ==
  (IF card.upgraded = TRUE THEN 8 ELSE 0)
  + (IF card.level # None /\ card.level > 1 THEN Least(8, 2 * (card.level - 1)) ELSE 0)

CardQuality(card) == CardTypeScore(card.type) + RarityScore(card.rarity) + UpgradeScore(card)

HighQuality == {"gain", "upgrade", "retrieve", "play", "replay"}
LowQuality == {"discard", "exhaust", "remove", "transform"}

\* A descriptor of another version, operation or with a malformed field reads
\* as the neutral unknown.
ParseChoiceSemantics(raw) ==
  IF raw.version = 1 /\ raw.wellFormed /\ raw.operation \in HighQuality \cup LowQuality
  THEN raw.operation ELSE "unknown"

\* The published identity of a pending choice is consistent.
IdentityValid(pending) ==
  LET options == [i \in DOMAIN pending.options |-> pending.options[i].id]
  IN /\ None \notin ToSet(options) \cup ToSet(pending.selectedIds)
     /\ pending.selectedCount = Len(pending.selectedIds)
     /\ Cardinality(ToSet(options)) = Len(options)
     /\ Cardinality(ToSet(pending.selectedIds)) = Len(pending.selectedIds)
     /\ ToSet(options) \cap ToSet(pending.selectedIds) = {}

\* The scores of the choice cards: for all of them or, when anything about the
\* choice cannot be trusted, for none.
ChoiceCardScores(actions, dto) ==
  LET cards == OfTypes(actions, {"choice_card"})
      operation == ParseChoiceSemantics(dto.pending.semantics)
      direction == IF operation \in HighQuality THEN 1 ELSE -1
      option(a) == CHOOSE o \in ToSet(dto.pending.options) : o.id = a.option
      usable == /\ dto.pending # None
                /\ operation # "unknown"
                /\ IdentityValid(dto.pending)
                /\ \A i \in DOMAIN cards :
                     \E o \in ToSet(dto.pending.options) : o.id = cards[i].option
                /\ \A i, j \in DOMAIN cards :
                     i # j => cards[i].option # cards[j].option /\ cards[i].id # cards[j].id
  IN IF cards = <<>> \/ ~usable THEN <<>>
     ELSE [id \in ToSet(Ids(cards)) |->
             direction * CardQuality(option(CHOOSE a \in ToSet(cards) : a.id = id))]

-----------------------------------------------------------------------------
(* The prior policy.  dto carries the observation the policy reads: hp, block, *)
(* energy, the enemies with their published attack, the hand, the potions and  *)
(* the pending choice.                                                         *)

Alive(dto) == SelectSeq(dto.enemies, LAMBDA e : e.alive)
Attack(enemy) == Greatest(0, enemy.damage) * Greatest(0, enemy.repeats)

Incoming(dto) ==
  LET total == FoldLeft(LAMBDA acc, e : acc + Attack(e), 0, Alive(dto))
  IN Greatest(0, total - dto.block)

\* min(1, danger_ratio) in quarters; exact where hp divides 4.
Danger(dto) == Least(4, (4 * Incoming(dto)) \div Greatest(1, dto.hp))
LethalThreat(dto) == dto.hp > 0 /\ Incoming(dto) >= dto.hp

AreaBonus(target, dto) ==
  IF target = "AllEnemies" /\ Len(Alive(dto)) > 1
  THEN 12 * Least(3, Len(Alive(dto)) - 1) ELSE 0

\* The metadata all the cards agree on.
CommonCard(cards) ==
  [f \in {"id", "type", "rarity", "upgraded", "level", "cost", "target"} |->
     IF cards # {} /\ \A c, d \in cards : c[f] = d[f]
     THEN (CHOOSE c \in cards : TRUE)[f] ELSE None]

\* The hand cards an action may mean, narrowed by its cost and target.
HandCard(action, dto) ==
  LET same == {i \in DOMAIN dto.hand : action.card # None /\ dto.hand[i].id = action.card}
      narrowed == {i \in same : /\ action.cost \in {None, dto.hand[i].cost}
                               /\ action.target \in {None, dto.hand[i].target}}
      meant == IF Cardinality(same) > 1 /\ narrowed # {} THEN narrowed ELSE same
  IN CommonCard({dto.hand[i] : i \in meant})

FirstOf(a, b) == IF a # None THEN a ELSE b

PlayableCardScore(action, dto) ==
  LET card == HandCard(action, dto)
      cost == FirstOf(action.cost, card.cost)
      danger == Danger(dto)
      costScore == IF cost = None THEN 0
                   ELSE 6 * Greatest(0, 2 - cost)
                        - (IF dto.energy # None /\ cost > dto.energy THEN 400 ELSE 0)
      dangerScore == CASE card.type = "Skill" -> 12 * danger
                       [] card.type = "Power" -> 7 * (4 - danger) - 10 * danger
                       [] card.type = "Attack" -> 4 * (4 - danger)
                       [] OTHER -> 0
      defendScore == IF FirstOf(action.card, card.id) = "DEFEND" THEN 10 * danger ELSE 0
  IN CardTypeScore(card.type) + RarityScore(card.rarity) + UpgradeScore(card)
     + costScore + dangerScore + defendScore + AreaBonus(FirstOf(action.target, card.target), dto)

\* The rarity of a slot outside the published potions is not known.
PotionScore(action, dto) ==
  LET rarity == IF action.slot # None /\ action.slot \in DOMAIN dto.potions
                THEN dto.potions[action.slot] ELSE None
  IN 30 * Danger(dto) + (IF LethalThreat(dto) THEN 60 ELSE 0) + AreaBonus(action.target, dto)
     - (CASE rarity = "Rare" -> 16 [] rarity = "Uncommon" -> 8 [] OTHER -> 0)

EndTurnScore(playable, dto) ==
  (IF playable = 0 THEN 120 ELSE 0)
  + (IF dto.energy = None THEN 0
     ELSE IF dto.energy <= 0 THEN 80
     ELSE IF playable > 0 THEN -Least(48, 16 * dto.energy) ELSE 0)
  + (IF Incoming(dto) <= 0 THEN 20 ELSE 0)
  - (IF LethalThreat(dto) THEN 140 ELSE 0)

\* A target is worth its nearness to death and the attack its death removes;
\* exact where maxHp divides 80.
TargetScore(action, dto) ==
  LET enemies == SelectSeq(dto.enemies, LAMBDA e : e.index = action.enemy)
      removed == IF enemies = <<>> THEN 0 ELSE Attack(enemies[1])
      maxHp == Greatest(1, action.maxHp)
      left == Greatest(0, maxHp - Greatest(0, action.hp) - Greatest(0, action.block))
  IN (80 * left) \div maxHp + Least(100, 3 * removed)

\* Mutant: the upper bound is looked at before the lower one.
CompletionScoreFull(type, pending) ==
  IF pending = None THEN IF type = "choice_confirm" THEN 32 ELSE 0
  ELSE IF pending.maxSelect # None /\ pending.selectedCount >= pending.maxSelect
  THEN IF type = "choice_confirm" THEN 160 ELSE 80
  ELSE IF pending.selectedCount < pending.minSelect THEN -400
  ELSE IF type = "choice_confirm" THEN 32 ELSE 0

CompletionScore(type, pending) ==
  IF pending = None THEN IF type = "choice_confirm" THEN 32 ELSE 0
  ELSE IF pending.selectedCount < pending.minSelect THEN -400
  ELSE IF pending.maxSelect # None /\ pending.selectedCount >= pending.maxSelect
  THEN IF type = "choice_confirm" THEN 160 ELSE 80
  ELSE IF type = "choice_confirm" THEN 32 ELSE 0

BaseScore(type) ==
  CASE type = "choice_target" -> 320 [] type = "card" -> 240 [] type = "choice_card" -> 220
    [] type = "choice_confirm" -> 128 [] type = "choice_skip" -> 48 [] type = "potion" -> 120
    [] type = "system" -> 40 [] OTHER -> -40

ActionScore(action, actions, dto) ==
  LET choiceScores == ChoiceCardScores(actions, dto)
  IN BaseScore(action.type) +
     (CASE action.type = "card" -> PlayableCardScore(action, dto)
        [] action.type = "potion" -> PotionScore(action, dto)
        [] action.type = "system" -> EndTurnScore(Len(OfTypes(actions, {"card"})), dto)
        [] action.type = "choice_target" -> TargetScore(action, dto)
        [] action.type = "choice_card" ->
             IF action.id \in DOMAIN choiceScores THEN choiceScores[action.id] ELSE 0
        [] action.type \in Completions -> CompletionScore(action.type, dto.pending)
        [] OTHER -> 0)

\* The ids of the top_k best available actions, best first.
PriorPropose(legal, dto, topK) ==
  LET actions == AvailableActions(legal)
      scores == [i \in DOMAIN actions |-> ActionScore(actions[i], actions, dto)]
      best == TopK(scores, topK)
  IN [p \in DOMAIN best |-> actions[best[p]].id]

-----------------------------------------------------------------------------
(* The selector.                                                               *)

BestScored(actions, scores) ==
  LET best == {a \in ToSet(actions) : a.id \in DOMAIN scores
                 /\ \A id \in DOMAIN scores : scores[a.id] >= scores[id]}
  IN IF best = {} THEN ToSet(actions) ELSE best

\* Points times maxHp; a rest site that cannot read the hp heals.
RestScore(action, dto) ==
  CASE action.rest \in {"HEAL", "MEND"} ->
         10 * (IF dto.hp = None THEN dto.maxHp
               ELSE Greatest(0, Least(dto.maxHp, dto.maxHp - Greatest(0, dto.hp))))
    [] action.rest = "SMITH" -> 3 * dto.maxHp
    [] OTHER -> 0

RoomScore(action, dto) ==
  LET base == CASE action.room = "Treasure" -> 6 [] action.room = "RestSite" -> 5
                [] action.room = "Shop" -> 3 [] action.room = "Unknown" -> 2
                [] action.room = "Elite" -> -2 [] OTHER -> 0
      urgency == IF dto.hp = None THEN 0
                 ELSE Greatest(0, dto.maxHp - 2 * Greatest(0, dto.hp))
  IN base * dto.maxHp + (CASE action.room = "RestSite" -> 10 * urgency
                           [] action.room = "Elite" -> -8 * urgency [] OTHER -> 0)

ScoresBy(actions, score(_)) ==
  [id \in ToSet(Ids(actions)) |-> score(CHOOSE a \in ToSet(actions) : a.id = id)]

\* Mutant: an option whose danger is not known counts as deadly.
SafeEventOptionsKnown(actions) ==
  LET safe == SelectSeq(actions, LAMBDA a : a.lethal = FALSE)
  IN IF safe = <<>> THEN actions ELSE safe

SafeEventOptions(actions) ==
  LET safe == SelectSeq(actions, LAMBDA a : a.lethal # TRUE)
  IN IF safe = <<>> THEN actions ELSE safe

\* The actions the selector may return: all its random picks, or with no
\* action available none.  explore says that epsilon is positive.
SelectorChoices(legal, dto, explore) ==
  LET actions == AvailableActions(legal)
      of(type) == OfTypes(actions, {type})
      offered(type) == of(type) # <<>>
      scored(type, scores) == BestScored(of(type), scores)
                              \cup (IF explore THEN ToSet(of(type)) ELSE {})
      restScore(a) == RestScore(a, dto)
      roomScore(a) == RoomScore(a, dto)
      rewardScore(a) == a.score
      playFirst == SelectSeq(<<"card", "choice_card", "choice_confirm", "choice_skip">>, offered)
      played == LET best == PriorPropose(of("card"), dto, 1)[1]
                IN {a \in ToSet(of("card")) : explore \/ a.id = best}
  IN IF actions = <<>> THEN {}
     ELSE IF offered("choice_reward_potion_take") THEN ToSet(of("choice_reward_potion_take"))
     ELSE IF offered("choice_reward_potion_replace")
     THEN ToSet(of(IF offered("choice_reward_skip") THEN "choice_reward_skip"
                   ELSE "choice_reward_potion_replace"))
     ELSE IF offered("map_room") THEN scored("map_room", ScoresBy(of("map_room"), roomScore))
     ELSE IF offered("choice_rest_option")
     THEN scored("choice_rest_option", ScoresBy(of("choice_rest_option"), restScore))
     ELSE IF offered("choice_event_option") THEN ToSet(SafeEventOptions(of("choice_event_option")))
     ELSE IF playFirst # <<>>
     THEN CASE playFirst[1] = "card" -> played
            [] playFirst[1] = "choice_card" ->
                 BestScored(of("choice_card"), ChoiceCardScores(actions, dto))
            [] OTHER -> ToSet(of(playFirst[1]))
     ELSE IF offered("choice_reward_card")
     THEN BestScored(of("choice_reward_card"), ScoresBy(of("choice_reward_card"), rewardScore))
     ELSE ToSet(actions)
=============================================================================
