----------------------------- MODULE ValueModels -----------------------------
(* The two hand-written scores of a resolved Combat state                      *)
(* (decision/value.py, decision/damage_race_value.py) over the observation     *)
(* both read (decision/combat_observation.py).                                 *)
(*                                                                             *)
(* A DTO is a record whose numbers and enemies' life may be missing; from it   *)
(* comes the observation, with every number in its range.  A value is a        *)
(* rational <<n, d>>, d > 0.  The adjustments of both models by the name of a  *)
(* power, empty by default, are left out.                                      *)
EXTENDS Integers, Sequences, SequencesExt

CONSTANTS
  Missing,             \* a number the DTO does not have
  BlockPerEnergy,      \* sigma: block one point of energy buys
  TurnAttrition,       \* c: hp every further turn costs
  DamagePrior,         \* damage per energy before a turn has completed
  MinDamagePerEnergy,
  PriorTurns           \* how many turns of observation the prior is worth

ASSUME ParametersArePositive ==
  {BlockPerEnergy, TurnAttrition, DamagePrior, MinDamagePerEnergy, PriorTurns} \subseteq Nat \ {0}

-----------------------------------------------------------------------------
\* Rationals in lowest terms.
Gcd[a \in Nat, b \in Nat] == IF b = 0 THEN a ELSE Gcd[b, a % b]
Ratio(n, d) == LET g == Gcd[IF n < 0 THEN -n ELSE n, d] IN <<n \div g, d \div g>>

Whole(n) == <<n, 1>>
Plus(p, q) == Ratio(p[1] * q[2] + q[1] * p[2], p[2] * q[2])
Minus(p, q) == Ratio(p[1] * q[2] - q[1] * p[2], p[2] * q[2])
Times(p, q) == Ratio(p[1] * q[1], p[2] * q[2])
Over(p, q) == Ratio(p[1] * q[2], p[2] * q[1])       \* q is positive
AtMost(p, q) == p[1] * q[2] <= q[1] * p[2]
Lesser(p, q) == IF AtMost(p, q) THEN p ELSE q
Larger(p, q) == IF AtMost(p, q) THEN q ELSE p
Positive(p) == Larger(Whole(0), p)

Total(f(_), seq) == FoldLeft(LAMBDA acc, x : acc + f(x), 0, seq)

-----------------------------------------------------------------------------
(* The observation.                                                            *)

Number(x, default) == IF x = Missing THEN default ELSE x
NoLess(n, x) == IF x < n THEN n ELSE x

EnemyObservation(enemy) ==
  [enemy EXCEPT
     !.alive = Number(@, TRUE),
     !.hp = NoLess(0, Number(@, 0)), !.maxHp = NoLess(1, Number(@, 1)),
     !.block = NoLess(0, Number(@, 0)),
     !.damage = NoLess(0, Number(@, 0)), !.repeats = NoLess(0, Number(@, 1))]

\* Energy, its maximum and the turn stay missing when they are.
CombatObservation(dto) ==
  [dto EXCEPT
     !.hp = NoLess(0, Number(@, 0)), !.maxHp = NoLess(1, Number(@, 1)),
     !.block = NoLess(0, Number(@, 0)),
     !.enemies = [i \in DOMAIN dto.enemies |-> EnemyObservation(dto.enemies[i])]]

AliveEnemies(o) == SelectSeq(o.enemies, LAMBDA e : e.alive)

IncomingBeforeBlock(o) ==
  LET attack(e) == e.damage * e.repeats IN Total(attack, AliveEnemies(o))

IncomingDamage(o) ==
  IF IncomingBeforeBlock(o) > o.block THEN IncomingBeforeBlock(o) - o.block ELSE 0

\* victory, defeat, or Missing while the combat goes on or its end is not told:
\* an outcome decides, else the transition of a completed combat.
TerminalOutcome(dto) ==
  IF dto.outcome = "run_victory" THEN "victory"
  ELSE IF dto.outcome \in {"victory", "defeat"} THEN dto.outcome
  ELSE IF dto.transition = "won" THEN "victory"
  ELSE IF dto.transition = "lost" THEN "defeat"
  ELSE Missing

\* What both models return for a finished combat.
TerminalUtility(dto) ==
  IF TerminalOutcome(dto) = "victory" THEN Whole(100000)
  ELSE IF TerminalOutcome(dto) = "defeat" THEN Whole(-100000) ELSE Missing

-----------------------------------------------------------------------------
(* HeuristicValueFunction: a weighted sum of features.                         *)

\* A power counts for its stacks, at most three of them.
TypedPowerScore(powers) ==
  LET n(p) == Number(p.amount, 1)
      stacks(p) == IF n(p) \in -3..3 THEN NoLess(-n(p), n(p)) ELSE 3
      score(p) == IF p.type = "Buff" THEN stacks(p)
                  ELSE IF p.type = "Debuff" THEN -stacks(p) ELSE 0
  IN Total(score, powers)

HeuristicValue(dto) ==
  LET o == CombatObservation(dto)
      hp(e) == e.hp
      maxHp(e) == e.maxHp
      powers(e) == TypedPowerScore(e.powers)
      enemyMax == Total(maxHp, o.enemies)
      effectiveHp == Ratio(o.hp - IncomingDamage(o), o.maxHp)
      enemyHp == Ratio(Total(hp, o.enemies), IF enemyMax = 0 THEN 1 ELSE enemyMax)
      small == -2 * Len(AliveEnemies(o)) + 2 * TypedPowerScore(o.powers)
               - 2 * Total(powers, AliveEnemies(o))
  IN IF TerminalUtility(dto) # Missing THEN TerminalUtility(dto)
     ELSE Plus(Minus(Times(Whole(40), effectiveHp), Times(Whole(30), enemyHp)), Whole(small))

-----------------------------------------------------------------------------
(* DamageRaceValueFunction: the hp the player is projected to end with.        *)

\* The energy of a turn: never zero, so that the rate stays finite.
Budget(o) ==
  IF o.maxEnergy # Missing /\ o.maxEnergy > 0 THEN o.maxEnergy
  ELSE IF o.energy # Missing /\ o.energy > 0 THEN o.energy ELSE 1

EnergyLeft(o) == IF o.energy = Missing \/ o.energy < 0 THEN 0 ELSE o.energy

\* The enemies that are alive hold this much hp and block.
RemainingEnemyHp(o) ==
  LET pool(e) == e.hp + e.block IN Total(pool, AliveEnemies(o))

\* Mutant: what a dead enemy lost is forgotten.
DamagePerEnergyAlive(o) ==
  LET lost(e) == IF e.maxHp > e.hp THEN e.maxHp - e.hp ELSE 0
      completed == IF o.turn = Missing \/ o.turn < 1 THEN 0 ELSE o.turn - 1
      prior == Budget(o) * PriorTurns
  IN Larger(Whole(MinDamagePerEnergy),
            Ratio(Total(lost, AliveEnemies(o)) + prior * DamagePrior,
                  Budget(o) * completed + prior))

\* What a point of energy has dealt in the completed turns, with the prior.
DamagePerEnergy(o) ==
  LET lost(e) == IF e.maxHp > e.hp THEN e.maxHp - e.hp ELSE 0
      completed == IF o.turn = Missing \/ o.turn < 1 THEN 0 ELSE o.turn - 1
      prior == Budget(o) * PriorTurns
  IN Larger(Whole(MinDamagePerEnergy),
            Ratio(Total(lost, o.enemies) + prior * DamagePrior,
                  Budget(o) * completed + prior))

\* Mutant: the kink, where the attack is blocked exactly, is not considered.
RemainingLossEndpoint(left, enemyDamage, damagePerEnergy, maxEnergy) ==
  LET race == Ratio(enemyDamage + TurnAttrition, maxEnergy)
  IN IF AtMost(left, Whole(0)) THEN Whole(0) ELSE Over(Times(left, race), damagePerEnergy)

\* The hp the rest of the race costs when left enemy hp remain after this turn.
RemainingLoss(left, enemyDamage, damagePerEnergy, maxEnergy) ==
  LET race == Ratio(enemyDamage + TurnAttrition, maxEnergy)
      spare == maxEnergy * BlockPerEnergy - enemyDamage      \* in points of block
      rate == IF spare > 0 THEN Lesser(race, Ratio(TurnAttrition * BlockPerEnergy, spare))
              ELSE race
  IN IF AtMost(left, Whole(0)) THEN Whole(0) ELSE Over(Times(left, rate), damagePerEnergy)

\* What the rest of the fight costs if this much of the energy goes to block.
CostForSplit(o, blocking) ==
  LET threat == Whole(IncomingDamage(o))
      leak == Positive(Minus(threat, Times(blocking, Whole(BlockPerEnergy))))
      attacking == Positive(Minus(Whole(EnergyLeft(o)), blocking))
      left == Positive(Minus(Whole(RemainingEnemyHp(o)), Times(attacking, DamagePerEnergy(o))))
  IN Plus(leak, RemainingLoss(left, IncomingBeforeBlock(o), DamagePerEnergy(o), Budget(o)))

ExactlyEnough(o) == Lesser(Whole(EnergyLeft(o)), Ratio(IncomingDamage(o), BlockPerEnergy))

TurnCost(o) ==
  IF RemainingEnemyHp(o) <= 0 THEN Whole(IncomingDamage(o))
  ELSE Lesser(CostForSplit(o, Whole(0)),
              Lesser(CostForSplit(o, ExactlyEnough(o)), CostForSplit(o, Whole(EnergyLeft(o)))))

DamageRaceValue(dto) ==
  LET o == CombatObservation(dto)
  IN IF TerminalUtility(dto) # Missing THEN TerminalUtility(dto)
     ELSE Minus(Whole(o.hp), TurnCost(o))

-----------------------------------------------------------------------------
(* Reference definitions.                                                      *)

\* What the race costs if attacking energy goes to the attack in every turn.
RaceObjective(left, enemyDamage, damagePerEnergy, maxEnergy, attacking) ==
  LET blocked == Times(Minus(Whole(maxEnergy), attacking), Whole(BlockPerEnergy))
      leak == Positive(Minus(Whole(enemyDamage), blocked))
  IN Over(Times(left, Plus(leak, Whole(TurnAttrition))), Times(attacking, damagePerEnergy))

\* The splits of energy into parts, and none of them.
EnergySplits(energy, parts) == {<<i, parts>> : i \in 0..(energy * parts)}
=============================================================================
