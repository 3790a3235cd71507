------------------------- MODULE OracleTargetsProofs -------------------------
(***************************************************************************)
(* Proofs about OracleTargets: whatever search the teacher made, however   *)
(* wide, deep or interrupted, the labels build_oracle_targets derives from *)
(* its trace are free of faults, agree with each other, imitate no         *)
(* judgement of the teacher on itself, and are missing only where          *)
(* something was lost.                                                     *)
(***************************************************************************)
EXTENDS OracleTargets, SequenceTheorems, FiniteSetTheorems, WellFoundedInduction, TLAPS

----------------------------------------------------------------------------
(* The inductive invariant.                                                *)

Kinds == Outcomes \cup {"new", "limit"}
NodeRecord == [parent : Nat, action : Nat, kind : Kinds, score : Int,
               combat : Nat, steps : Nat]

TypeOK ==
    /\ exhaustive \in BOOLEAN /\ rootKind \in {"stable", "cont"}
    /\ tree \in Seq(NodeRecord)
    /\ proposed \in SUBSET (Ids \cup {Root})
    /\ pending \in SUBSET Ids
    /\ Beam \in SUBSET (Resolved \cup {Root}) /\ waiting \in SUBSET Ids
    /\ prunes \in Seq([frontier : SUBSET Nat, kept : SUBSET Nat])
    /\ pc \in {"ply", "simulate", "choose", "end", "raised"}
    /\ captured \in SUBSET Ids

\* The combat depth of the first fresh states: an interactive choice consumes none, so
\* neither the root, if it is one, nor the choices below it count.
FirstDepth == IF rootKind = "cont" THEN 0 ELSE 1

\* The tree hangs together: a candidate has a lower parent that was resolved and whose
\* proposal was recorded, and takes its root action and its combat depth from it.
Hangs(i) ==
    LET up == tree[i].parent
    IN  /\ up < i /\ up \in Resolved \cup {Root} /\ up \in proposed
        /\ up = Root => tree[i].action = i /\ tree[i].combat = FirstDepth
        /\ up # Root =>
             /\ tree[i].action = tree[up].action
             /\ tree[i].combat = IF tree[up].kind = "cont" THEN tree[up].combat
                                                           ELSE tree[up].combat + 1
        /\ tree[i].action \in Ids /\ tree[tree[i].action].parent = Root
TreeInv == \A i \in Ids : Hangs(i)

\* Only a node with candidates has a recorded proposal.
ProposedInv == \A i \in proposed : \E j \in Ids : tree[j].parent = i

\* What awaits its result is a candidate of this ply.
PendingInv ==
    /\ pending \subseteq {i \in Ply : tree[i].kind = "new"}
    /\ pc = "simulate" <=> pending # {}

\* A node is in one place: the frontiers record stable nodes; what was pruned is never
\* proposed for, and neither is what waits or what this ply brought, until its turn.
Batch == pc \in {"simulate", "choose"}
FrontierInv ==
    /\ \A k \in DOMAIN prunes : \A i \in prunes[k].frontier :
          i \in Ids /\ tree[i].kind = "stable"
    /\ \A i \in waiting : tree[i].kind = "stable" /\ i \notin OraclePruned
    /\ OraclePruned \cap proposed = {}
    /\ pc = "ply" =>
         /\ (Beam \cup waiting) \cap proposed = {}
         /\ Beam \cap (waiting \cup OraclePruned) = {}
    /\ Batch => waiting \cap proposed = {}
    /\ Batch => Ply \cap (proposed \cup waiting \cup OraclePruned) = {}

\* The engine has captured every fresh state at the first depth but those of this ply,
\* and nothing deeper.
FirstFresh == {i \in Resolved : Fresh(i) /\ tree[i].combat = FirstDepth}
CapturedInv == captured = {i \in FirstFresh : ~(Batch /\ i \in Ply)}

IInv == TypeOK /\ TreeInv /\ ProposedInv /\ PendingInv /\ FrontierInv /\ CapturedInv

----------------------------------------------------------------------------
(* Numbers: smallest, largest and best of a set.                           *)

\* A nonempty set of numbers has a smallest member.
LEMMA SmallestExists ==
  ASSUME NEW T \in SUBSET Nat, T # {}
  PROVE  \E x \in T : \A y \in T : x <= y
<1> DEFINE below == {ss \in Nat \X Nat : ss[1] < ss[2]}
<1>1. IsWellFoundedOn(below, Nat)
  BY NatLessThanWellFounded DEF OpToRel
<1> HIDE DEF below
<1>2. PICK x \in T : \A y \in T : ~ (<<y, x>> \in below)
  BY <1>1, WFMin
<1>3. \A y \in T : <<y, x>> \in Nat \X Nat /\ ~ (<<y, x>>[1] < <<y, x>>[2])
  BY <1>2 DEF below
<1>4. \A y \in T : x <= y
  <2> TAKE y \in T
  <2>1. <<y, x>>[1] = y /\ <<y, x>>[2] = x
    OBVIOUS
  <2>2. ~ (y < x) /\ x \in Nat /\ y \in Nat
    BY <1>3, <2>1
  <2> QED BY <2>2
<1> QED BY <1>4

\* Min is that member.
LEMMA MinIsSmallest ==
  ASSUME NEW T \in SUBSET Nat, T # {}
  PROVE  Min(T) \in T /\ \A y \in T : Min(T) <= y
BY SmallestExists DEF Min

\* Of the indices up to n, some is best by any score.
LEMMA BestExists ==
  ASSUME NEW n \in Nat, NEW S \in SUBSET (1 .. n), S # {}, NEW f \in [S -> Int]
  PROVE  \E i \in S : \A j \in S : f[i] >= f[j]
<1> DEFINE upTo(m) == {i \in S : i <= m}
           lacking == {m \in Nat : upTo(m) # {}
                         /\ ~ \E i \in upTo(m) : \A j \in upTo(m) : f[i] >= f[j]}
<1>1. lacking = {}
  <2>1. SUFFICES ASSUME lacking # {} PROVE FALSE
    OBVIOUS
  <2>2. PICK m \in lacking : \A k \in lacking : m <= k
    <3>1. lacking \in SUBSET Nat
      OBVIOUS
    <3> HIDE DEF lacking
    <3> QED BY <2>1, <3>1, SmallestExists
  <2>3. m \in Nat /\ m - 1 \notin lacking
    BY <2>2
  <2>4. upTo(m) = IF m \in S THEN upTo(m - 1) \cup {m} ELSE upTo(m - 1)
    <3>1. \A i \in S : i \in Nat /\ (i <= m <=> (i <= m - 1 \/ i = m))
      BY <2>3
    <3> QED BY <3>1
  <2>5. CASE m \in S /\ upTo(m - 1) # {}
    <3>1. m - 1 \in Nat
      BY <2>3, <2>5
    <3>2. PICK i \in upTo(m - 1) : \A j \in upTo(m - 1) : f[i] >= f[j]
      BY <2>3, <2>5, <3>1
    <3>3. f[i] \in Int /\ f[m] \in Int
      BY <2>5, <3>2
    <3>4. CASE f[i] >= f[m]
      <4>1. \A j \in upTo(m) : f[i] >= f[j]
        BY <2>4, <2>5, <3>2, <3>4
      <4> QED BY <4>1, <2>2, <2>4, <3>2, <2>5
    <3>5. CASE f[m] >= f[i]
      <4>1. \A j \in upTo(m) : f[j] \in Int /\ f[m] >= f[j]
        BY <2>4, <2>5, <3>2, <3>3, <3>5
      <4> QED BY <4>1, <2>2, <2>4, <2>5
    <3> QED BY <3>3, <3>4, <3>5
  <2>6. CASE m \in S /\ upTo(m - 1) = {}
    <3>1. upTo(m) = {m}
      BY <2>4, <2>6
    <3>2. f[m] >= f[m]
      BY <2>6
    <3> QED BY <3>1, <3>2, <2>2
  <2>7. CASE m \notin S
    <3>1. upTo(m) = upTo(m - 1) /\ upTo(m) # {}
      BY <2>2, <2>4, <2>7
    <3>2. m - 1 \in Nat
      <4>1. PICK i \in S : i <= m - 1
        BY <3>1
      <4>2. i \in 1 .. n
        BY <4>1
      <4> QED BY <4>1, <4>2, <2>3
    <3> QED BY <3>1, <3>2, <2>2, <2>3
  <2> QED BY <2>5, <2>6, <2>7
<1>2. upTo(n) = S
  <2>1. \A i \in S : i <= n
    OBVIOUS
  <2> QED BY <2>1
<1>3. n \notin lacking
  BY <1>1
<1> HIDE DEF upTo
<1> QED BY <1>2, <1>3

\* The largest of them is their Max.
LEMMA MaxIsLargest ==
  ASSUME NEW n \in Nat, NEW S \in SUBSET (1 .. n), S # {}
  PROVE  Max(S) \in S /\ \A j \in S : Max(S) >= j
<1> DEFINE own == [i \in S |-> i]
<1>1. \E i \in S : \A j \in S : own[i] >= own[j]
  <2>1. own \in [S -> Int]
    OBVIOUS
  <2> HIDE DEF own
  <2> QED BY <2>1, BestExists
<1> QED BY <1>1 DEF Max

----------------------------------------------------------------------------
(* The line of a node.                                                     *)

\* What TypeOK says of the tree.
LEMMA TreeIsTyped ==
  ASSUME TypeOK
  PROVE  /\ Len(tree) \in Nat /\ Ids = 1 .. Len(tree) /\ Ids \subseteq Nat
         /\ Resolved \subseteq Ids /\ Root \notin Ids
         /\ \A i \in Ids : tree[i] \in NodeRecord
BY DEF TypeOK, Ids, Resolved, Root

\* A node's line is the node, if it was resolved, and its parent's line: the recursive
\* definition has a solution, the resolved nodes in every set that holds the node and the
\* parents of what it holds.
LEMMA LineUnfolds ==
  ASSUME TypeOK, TreeInv
  PROVE  \A j \in Ids \cup {Root} :
            Line(j) = IF j \in Resolved THEN {j} \cup Line(tree[j].parent) ELSE {}
<1> DEFINE D == Ids \cup {Root}
           closed(X, j) == j \in X /\ \A y \in X : y \in Resolved => tree[y].parent \in X
           W == [j \in D |-> {x \in Resolved : \A X \in SUBSET D : closed(X, j) => x \in X}]
           body(f) == [j \in D |-> IF j \in Resolved THEN {j} \cup f[tree[j].parent] ELSE {}]
           solution == CHOOSE f : f = body(f)
<1>1. Resolved \subseteq D /\ \A j \in Resolved : tree[j].parent \in D
  BY TreeIsTyped DEF TreeInv, Hangs
<1>2. ASSUME NEW j \in D
      PROVE  W[j] = IF j \in Resolved THEN {j} \cup W[tree[j].parent] ELSE {}
  <2>1. CASE j \notin Resolved
    <3>1. {j} \in SUBSET D /\ closed({j}, j)
      BY <2>1
    <3>2. W[j] \subseteq {j}
      BY <3>1
    <3> QED BY <3>2, <2>1
  <2>2. CASE j \in Resolved
    <3> DEFINE up == tree[j].parent
    <3>1. up \in D
      BY <2>2, <1>1
    <3>2. j \in W[j]
      BY <2>2
    <3>3. ASSUME NEW x \in W[up] PROVE x \in W[j]
      <4>1. \A X \in SUBSET D : closed(X, j) => closed(X, up)
        BY <2>2
      <4> QED BY <3>1, <4>1
    <3>4. ASSUME NEW x \in W[j], x # j PROVE x \in W[up]
      <4>1. ASSUME NEW X \in SUBSET D, closed(X, up) PROVE x \in X
        <5>1. X \cup {j} \in SUBSET D /\ closed(X \cup {j}, j)
          BY <4>1
        <5>2. x \in X \cup {j}
          BY <5>1
        <5> QED BY <5>2, <3>4
      <4>2. x \in Resolved
        OBVIOUS
      <4> QED BY <3>1, <4>1, <4>2
    <3>5. W[j] = {j} \cup W[up]
      BY <3>2, <3>3, <3>4
    <3> QED BY <2>2, <3>5
  <2> QED BY <2>1, <2>2
<1>3. W = body(W)
  <2> HIDE DEF D
  <2>1. \A j \in D : W[j] = body(W)[j]
    BY <1>2
  <2> QED BY <2>1
<1>4. solution = body(solution)
  <2> HIDE DEF W, body
  <2> QED BY <1>3
<1>5. \A j : Line(j) = solution[j]
  BY DEF Line
<1> HIDE DEF solution
<1> QED BY <1>1, <1>4, <1>5

\* A line leads down from a resolved node through resolved nodes of one root action.
LEMMA LineLeadsDown ==
  ASSUME TypeOK, TreeInv
  PROVE  \A j \in Ids \cup {Root} : \A x \in Line(j) :
            /\ j \in Resolved /\ x \in Resolved /\ x <= j
            /\ tree[x].action = tree[j].action
<1> DEFINE ok(j, x) == /\ j \in Resolved /\ x \in Resolved /\ x <= j
                       /\ tree[x].action = tree[j].action
           wrong == {j \in Ids \cup {Root} : ~ \A x \in Line(j) : ok(j, x)}
<1> SUFFICES ASSUME wrong # {} PROVE FALSE
  OBVIOUS
<1>1. wrong \in SUBSET Nat
  BY TreeIsTyped DEF Root
<1>2. PICK j \in wrong : \A k \in wrong : j <= k
  <2> HIDE DEF wrong
  <2> QED BY <1>1, SmallestExists
<1>3. PICK x \in Line(j) : ~ ok(j, x)
  BY <1>2
<1> DEFINE up == tree[j].parent
<1>4. j \in Resolved /\ Line(j) = {j} \cup Line(up)
  BY <1>3, LineUnfolds
<1>5. j \in Ids /\ j \in Nat /\ Hangs(j)
  BY <1>4, TreeIsTyped DEF TreeInv
<1>6. x # j
  BY <1>3, <1>4, <1>5
<1>7. x \in Line(up)
  BY <1>3, <1>4, <1>6
<1>8. up \in Ids \cup {Root} /\ up < j /\ up \in Nat
  BY <1>5, TreeIsTyped DEF Hangs, Root
<1>9. up \notin wrong
  BY <1>2, <1>5, <1>8
<1>10. ok(up, x)
  BY <1>7, <1>8, <1>9
<1>11. tree[j].action = tree[up].action /\ x \in Nat
  BY <1>5, <1>10, TreeIsTyped DEF Hangs, Root
<1> QED BY <1>3, <1>4, <1>5, <1>8, <1>10, <1>11

\* Whatever a node hangs from has a recorded proposal.
LEMMA WaysUpAreProposed ==
  ASSUME TypeOK, TreeInv
  PROVE  \A j \in Ids : \A x \in Line(tree[j].parent) : x \in proposed
<1> DEFINE wrong == {j \in Ids : ~ \A x \in Line(tree[j].parent) : x \in proposed}
<1> SUFFICES ASSUME wrong # {} PROVE FALSE
  OBVIOUS
<1>1. wrong \in SUBSET Nat
  BY TreeIsTyped
<1>2. PICK j \in wrong : \A k \in wrong : j <= k
  <2> HIDE DEF wrong
  <2> QED BY <1>1, SmallestExists
<1> DEFINE up == tree[j].parent
<1>3. PICK x \in Line(up) : x \notin proposed
  BY <1>2
<1>4. Hangs(j) /\ j \in Nat
  BY <1>2, TreeIsTyped DEF TreeInv
<1>5. up \in Ids \cup {Root} /\ up < j /\ up \in proposed
  BY <1>4, TreeIsTyped DEF Hangs
<1>6. up \in Resolved /\ Line(up) = {up} \cup Line(tree[up].parent)
  BY <1>3, <1>5, LineUnfolds
<1>7. up \in Ids /\ up \in Nat /\ x \in Line(tree[up].parent)
  BY <1>3, <1>5, <1>6, TreeIsTyped
<1>8. up \in wrong
  BY <1>3, <1>7
<1> QED BY <1>2, <1>4, <1>5, <1>7, <1>8

\* A line ends at the root's candidate it came from.
LEMMA LineEndsAtItsAction ==
  ASSUME TypeOK, TreeInv
  PROVE  \A j \in Resolved : tree[j].action \in Line(j)
<1> DEFINE wrong == {j \in Resolved : tree[j].action \notin Line(j)}
<1> SUFFICES ASSUME wrong # {} PROVE FALSE
  OBVIOUS
<1>1. wrong \in SUBSET Nat
  BY TreeIsTyped
<1>2. PICK j \in wrong : \A k \in wrong : j <= k
  <2> HIDE DEF wrong
  <2> QED BY <1>1, SmallestExists
<1> DEFINE up == tree[j].parent
<1>3. Hangs(j) /\ j \in Nat /\ Line(j) = {j} \cup Line(up)
  BY <1>2, TreeIsTyped, LineUnfolds DEF TreeInv
<1>4. CASE up = Root
  BY <1>2, <1>3, <1>4 DEF Hangs
<1>5. CASE up # Root
  <2>1. up \in Resolved /\ up \in Nat /\ up < j /\ tree[j].action = tree[up].action
    BY <1>3, <1>5, TreeIsTyped DEF Hangs
  <2>2. up \notin wrong
    BY <2>1, <1>2, <1>3
  <2> QED BY <2>1, <2>2, <1>2, <1>3
<1> QED BY <1>4, <1>5

\* The way down to a node passes a fresh state at the first depth, unless nothing on it
\* is fresh, in which case the node is still at that depth.
LEMMA FirstFreshIsPassed ==
  ASSUME TypeOK, TreeInv
  PROVE  \A j \in Resolved :
            tree[j].combat = FirstDepth \/ Line(j) \cap FirstFresh # {}
<1> DEFINE wrong == {j \in Resolved :
                       ~ (tree[j].combat = FirstDepth \/ Line(j) \cap FirstFresh # {})}
<1> SUFFICES ASSUME wrong # {} PROVE FALSE
  OBVIOUS
<1>1. wrong \in SUBSET Nat
  BY TreeIsTyped
<1>2. PICK j \in wrong : \A k \in wrong : j <= k
  <2> HIDE DEF wrong
  <2> QED BY <1>1, SmallestExists
<1> DEFINE up == tree[j].parent
<1>3. Hangs(j) /\ j \in Nat /\ Line(j) = {j} \cup Line(up)
  BY <1>2, TreeIsTyped, LineUnfolds DEF TreeInv
<1>4. up # Root
  BY <1>2, <1>3 DEF Hangs
<1>5. up \in Resolved /\ up \in Nat /\ up < j
  BY <1>3, <1>4, TreeIsTyped DEF Hangs
<1>6. up \notin wrong
  BY <1>5, <1>2, <1>3
<1>7. tree[up].combat = FirstDepth /\ Line(up) \cap FirstFresh = {}
  BY <1>5, <1>6, <1>2, <1>3
<1>8. up \in Line(up)
  BY <1>5, TreeIsTyped, LineUnfolds
<1>9. ~ Fresh(up) /\ Node(up) = tree[up]
  BY <1>4, <1>5, <1>7, <1>8 DEF FirstFresh, Node
<1>10. tree[j].combat = FirstDepth
  BY <1>3, <1>4, <1>7, <1>9 DEF Hangs, Fresh
<1> QED BY <1>10, <1>2

----------------------------------------------------------------------------
(* The invariant is inductive.                                             *)

LEMMA InitInv == Init => IInv
<1> SUFFICES ASSUME Init PROVE IInv
  OBVIOUS
<1> USE OracleAssumption DEF Init
<1>1. Ids = {} /\ Resolved = {} /\ Ply = {} /\ OraclePruned = {} /\ FirstFresh = {}
  <2>1. Ids = {} /\ DOMAIN prunes = {} /\ ToSet(prunes) = {}
    BY DEF Ids, ToSet
  <2> QED BY <2>1 DEF Resolved, Ply, OraclePruned, FirstFresh
<1>2. TypeOK
  <2>1. Beam = {Root}
    BY DEF Beam, ToSet
  <2> QED BY <1>1, <2>1 DEF TypeOK, Root
<1>3. TreeInv /\ ProposedInv /\ PendingInv /\ CapturedInv
  BY <1>1 DEF TreeInv, ProposedInv, PendingInv, CapturedInv
<1>4. FrontierInv
  BY <1>1 DEF FrontierInv, Batch
<1> QED BY <1>2, <1>3, <1>4 DEF IInv

\* What a candidate looks like when it is proposed.
LEMMA ChildIsTyped ==
  ASSUME TypeOK, TreeInv, NEW up \in Resolved \cup {Root}, NEW i \in Nat, up < i
  PROVE  LET c == Child(up, i)
         IN  /\ c \in NodeRecord /\ c.parent = up /\ c.kind = "new"
             /\ up = Root => c.action = i /\ c.combat = FirstDepth
             /\ up # Root =>
                  /\ c.action = tree[up].action
                  /\ c.combat = IF tree[up].kind = "cont" THEN tree[up].combat
                                                          ELSE tree[up].combat + 1
<1>1. CASE up = Root
  <2>1. Node(up) = RootNode /\ rootKind \in {"stable", "cont"}
    BY <1>1 DEF Node, TypeOK
  <2> QED BY <1>1, <2>1 DEF Child, RootNode, NodeRecord, Kinds, FirstDepth, Root
<1>2. CASE up # Root
  <2>1. Node(up) = tree[up] /\ tree[up] \in NodeRecord /\ up \in Nat
    BY <1>2, TreeIsTyped DEF Node
  <2> QED BY <1>2, <2>1 DEF Child, NodeRecord, Kinds
<1> QED BY <1>1, <1>2

\* A policy call lengthens the tree by candidates of the beam, and changes no node.
Grown(k, parents) ==
    /\ k \in Nat /\ parents \in [1 .. k -> Beam]
    /\ tree' \in Seq(NodeRecord) /\ Len(tree') = Len(tree) + k
    /\ Ids' = 1 .. Len(tree) + k
    /\ \A i \in Ids : tree'[i] = tree[i]
    /\ \A m \in 1 .. k : tree'[Len(tree) + m] = Child(parents[m], Len(tree) + m)
    /\ pending' = {Len(tree) + m : m \in 1 .. k}
    /\ proposed' = proposed \cup {parents[m] : m \in 1 .. k}
    /\ pc' = IF k = 0 THEN "end" ELSE "simulate"

LEMMA ProposeGrows ==
  ASSUME TypeOK, TreeInv, Propose
  PROVE  \E k \in Nat : \E parents \in [1 .. k -> Beam] : Grown(k, parents)
<1> DEFINE grows(parents) ==
        /\ tree' = tree \o [m \in DOMAIN parents |-> Child(parents[m], Len(tree) + m)]
        /\ pending' = {Len(tree) + m : m \in DOMAIN parents}
        /\ proposed' = proposed \cup {parents[m] : m \in DOMAIN parents}
        /\ pc' = IF parents = << >> THEN "end" ELSE "simulate"
<1>1. PICK k \in 0 .. MaxIds - Len(tree) : \E parents \in [1 .. k -> Beam] : grows(parents)
  <2>1. PICK k \in 0 .. MaxIds - Len(tree) : \E slots \in [1 .. k -> DOMAIN beam] :
          grows([m \in DOMAIN slots |-> beam[slots[m]]])
    BY DEF Propose
  <2>2. PICK slots \in [1 .. k -> DOMAIN beam] :
          grows([m \in DOMAIN slots |-> beam[slots[m]]])
    BY <2>1
  <2>3. [m \in DOMAIN slots |-> beam[slots[m]]] \in [1 .. k -> Beam]
    BY DEF Beam, ToSet
  <2> HIDE DEF grows
  <2> QED BY <2>2, <2>3
<1>2. PICK parents \in [1 .. k -> Beam] :
        /\ tree' = tree \o [m \in DOMAIN parents |-> Child(parents[m], Len(tree) + m)]
        /\ pending' = {Len(tree) + m : m \in DOMAIN parents}
        /\ proposed' = proposed \cup {parents[m] : m \in DOMAIN parents}
        /\ pc' = IF parents = << >> THEN "end" ELSE "simulate"
  BY <1>1
<1> DEFINE new == [m \in 1 .. k |-> Child(parents[m], Len(tree) + m)]
<1>3. k \in Nat /\ DOMAIN parents = 1 .. k /\ Len(tree) \in Nat
  BY TreeIsTyped, OracleAssumption
<1>4. tree \in Seq(NodeRecord) /\ Beam \subseteq Resolved \cup {Root}
  BY DEF TypeOK
<1>5. \A m \in 1 .. k : Child(parents[m], Len(tree) + m) \in NodeRecord
  <2> TAKE m \in 1 .. k
  <2>1. parents[m] \in Resolved \cup {Root}
    BY <1>4
  <2>2. parents[m] < Len(tree) + m /\ Len(tree) + m \in Nat
    BY <1>3, <2>1, TreeIsTyped DEF Root
  <2> QED BY <2>1, <2>2, ChildIsTyped
<1>6. new \in Seq(NodeRecord) /\ Len(new) = k
  <2> HIDE DEF NodeRecord
  <2>1. new \in [1 .. k -> NodeRecord]
    BY <1>5
  <2> QED BY <2>1, <1>3
<1>7. tree' = tree \o new
  BY <1>2, <1>3
<1> HIDE DEF new
<1>8. /\ tree' \in Seq(NodeRecord) /\ Len(tree') = Len(tree) + k
      /\ \A i \in 1 .. Len(tree) : tree'[i] = tree[i]
      /\ \A m \in 1 .. k : tree'[Len(tree) + m] = new[m]
  <2> HIDE DEF NodeRecord
  <2>1. tree' \in Seq(NodeRecord) /\ Len(tree') = Len(tree) + Len(new)
    BY <1>4, <1>6, <1>7, ConcatProperties
  <2>2. \A i \in 1 .. Len(tree) + Len(new) :
          tree'[i] = IF i <= Len(tree) THEN tree[i] ELSE new[i - Len(tree)]
    BY <1>4, <1>6, <1>7, ConcatProperties
  <2>3. \A m \in 1 .. k : Len(tree) + m \in 1 .. Len(tree) + k
                            /\ ~ (Len(tree) + m <= Len(tree)) /\ Len(tree) + m - Len(tree) = m
    BY <1>3
  <2>4. \A i \in 1 .. Len(tree) : i \in 1 .. Len(tree) + k /\ i <= Len(tree)
    BY <1>3
  <2> QED BY <2>1, <2>2, <2>3, <2>4, <1>6
<1>9. Ids' = 1 .. Len(tree) + k
  BY <1>8, <1>3 DEF Ids
<1>10. \A m \in 1 .. k : tree'[Len(tree) + m] = Child(parents[m], Len(tree) + m)
  BY <1>8 DEF new
<1>11. pc' = IF k = 0 THEN "end" ELSE "simulate"
  <2>1. parents = << >> <=> k = 0
    BY <1>3
  <2> QED BY <2>1, <1>2
<1>12. Grown(k, parents)
  BY <1>2, <1>3, <1>8, <1>9, <1>10, <1>11, TreeIsTyped DEF Grown
<1> QED BY <1>3, <1>12

\* A pruned node is a stable one of a recorded frontier.
LEMMA PrunedAreStable ==
  ASSUME FrontierInv
  PROVE  \A i \in OraclePruned : i \in Ids /\ tree[i].kind = "stable"
BY DEF FrontierInv, OraclePruned, ToSet

LEMMA ProposeKeepsInv ==
  ASSUME IInv, Propose
  PROVE  IInv'
<1> USE DEF IInv
<1>1. PICK k \in Nat : \E parents \in [1 .. k -> Beam] : Grown(k, parents)
  BY ProposeGrows
<1>2. PICK parents \in [1 .. k -> Beam] : Grown(k, parents)
  BY <1>1
<1> DEFINE n == Len(tree)
<1>3. n \in Nat /\ Ids = 1 .. n /\ Root \notin Ids /\ Resolved \subseteq Ids
  BY TreeIsTyped
<1>4. pc = "ply" /\ UNCHANGED <<search, Beam, waiting, prunes, captured>>
  BY DEF Propose, Beam
<1>5. /\ \A i \in Ids' : i \in Ids \/ \E m \in 1 .. k : i = n + m
      /\ \A m \in 1 .. k : n + m \in Ids' /\ n + m \notin Ids \cup {Root} /\ n + m \in Nat
      /\ Ids \subseteq Ids' /\ Root \notin Ids'
  <2>1. Ids' = 1 .. n + k
    BY <1>2 DEF Grown
  <2>2. \A i \in 1 .. n + k : i \in 1 .. n \/ i - n \in 1 .. k
    BY <1>3
  <2>3. \A i \in 1 .. n + k : i = n + (i - n)
    BY <1>3
  <2>4. \A m \in 1 .. k : /\ n + m \in 1 .. n + k /\ n + m \notin 1 .. n
                          /\ n + m # 0 /\ n + m \in Nat
    BY <1>3
  <2>5. 1 .. n \subseteq 1 .. n + k /\ 0 \notin 1 .. n + k
    BY <1>3
  <2> HIDE DEF n
  <2>6. \A i \in Ids' : i \in Ids \/ \E m \in 1 .. k : i = n + m
    BY <2>1, <2>2, <2>3, <1>3
  <2> QED BY <2>1, <2>4, <2>5, <2>6, <1>3 DEF Root
<1>6. \A i \in Ids : tree'[i] = tree[i]
  BY <1>2 DEF Grown
<1>7. \A m \in 1 .. k :
        /\ parents[m] \in Beam /\ parents[m] \in Resolved \cup {Root} /\ parents[m] < n + m
        /\ tree'[n + m] = Child(parents[m], n + m)
  <2> TAKE m \in 1 .. k
  <2>1. parents[m] \in Beam /\ parents[m] \in Resolved \cup {Root}
    BY DEF TypeOK
  <2>2. parents[m] < n + m
    <3> HIDE DEF n
    <3>1. parents[m] \in 1 .. n \/ parents[m] = 0
      BY <2>1, <1>3 DEF Root
    <3> QED BY <3>1, <1>3
  <2> QED BY <2>1, <2>2, <1>2 DEF Grown
<1>8. \A m \in 1 .. k :
        LET c == tree'[n + m]   up == parents[m]
        IN  /\ c \in NodeRecord /\ c.parent = up /\ c.kind = "new"
            /\ up = Root => c.action = n + m /\ c.combat = FirstDepth
            /\ up # Root =>
                 /\ c.action = tree[up].action
                 /\ c.combat = IF tree[up].kind = "cont" THEN tree[up].combat
                                                         ELSE tree[up].combat + 1
  <2> TAKE m \in 1 .. k
  <2> QED BY <1>5, <1>7, ChildIsTyped
<1>9. Resolved' = Resolved
  <2>1. \A i \in Ids' : i \in Resolved' => i \in Resolved
    BY <1>5, <1>6, <1>8 DEF Resolved, Scored
  <2>2. \A i \in Resolved : i \in Resolved'
    BY <1>5, <1>6 DEF Resolved
  <2> QED BY <2>1, <2>2 DEF Resolved
<1>10. Ply' = {n + m : m \in 1 .. k}
  <2>1. \A i \in Ids : tree'[i].parent \notin Beam
    BY <1>4, <1>6 DEF TreeInv, Hangs, FrontierInv
  <2>2. \A m \in 1 .. k : tree'[n + m].parent \in Beam
    BY <1>7, <1>8
  <2>3. Ply' = {i \in Ids' : tree'[i].parent \in Beam}
    BY <1>4 DEF Ply
  <2> QED BY <2>1, <2>2, <2>3, <1>5
<1>11. proposed' = proposed \cup {parents[m] : m \in 1 .. k}
  BY <1>2 DEF Grown
<1>12. pending' = Ply' /\ pc' = IF k = 0 THEN "end" ELSE "simulate"
  BY <1>2, <1>10 DEF Grown
<1>13. OraclePruned' = OraclePruned /\ FirstFresh' = FirstFresh
  <2>1. OraclePruned' = OraclePruned
    BY <1>4 DEF OraclePruned
  <2>2. \A i \in Resolved : Fresh(i)' = Fresh(i)
    BY <1>3, <1>6 DEF Fresh, Node
  <2>3. FirstFresh' = FirstFresh
    BY <2>2, <1>3, <1>4, <1>6, <1>9 DEF FirstFresh, FirstDepth, search
  <2> QED BY <2>1, <2>3
<1>14. TypeOK'
  <2>1. tree' \in Seq(NodeRecord)
    BY <1>2 DEF Grown
  <2>2. proposed' \in SUBSET (Ids \cup {Root})'
    <3>1. proposed \subseteq Ids \cup {Root} /\ \A m \in 1 .. k : parents[m] \in Ids \cup {Root}
      BY <1>3, <1>7 DEF TypeOK
    <3> QED BY <3>1, <1>5, <1>11 DEF Root
  <2>3. pending' \in SUBSET Ids'
    BY <1>12 DEF Ply
  <2>4. waiting' \in SUBSET Ids' /\ captured' \in SUBSET Ids'
    BY <1>4, <1>5 DEF TypeOK
  <2>5. Beam' \in SUBSET (Resolved \cup {Root})'
    BY <1>4, <1>9 DEF TypeOK, Root
  <2> QED BY <2>1, <2>2, <2>3, <2>4, <2>5, <1>4, <1>12 DEF TypeOK, search
<1>15. TreeInv'
  <2>1. ASSUME NEW i \in Ids PROVE Hangs(i)'
    <3>1. Hangs(i) /\ tree'[i] = tree[i]
      BY <1>6 DEF TreeInv
    <3>2. tree[i].action \in Ids /\ tree'[tree[i].action] = tree[tree[i].action]
      BY <3>1, <1>6 DEF Hangs
    <3>3. tree[i].parent # Root => tree'[tree[i].parent] = tree[tree[i].parent]
      BY <3>1, <1>3, <1>6 DEF Hangs
    <3> QED BY <3>1, <3>2, <3>3, <1>4, <1>5, <1>9, <1>11 DEF Hangs, FirstDepth, search, Root
  <2>2. ASSUME NEW m \in 1 .. k, NEW i \in Nat, i = n + m PROVE Hangs(i)'
    <3> DEFINE up == parents[m]
    <3> HIDE DEF n
    <3>1. /\ tree'[i].parent = up /\ up < i /\ up \in Resolved' \cup {Root}
          /\ up \in proposed' /\ i \in Ids'
      BY <2>2, <1>5, <1>7, <1>8, <1>9, <1>11
    <3>2. CASE up = Root
      <4>1. tree'[i].action = i /\ tree'[i].combat = FirstDepth'
        BY <2>2, <3>2, <1>4, <1>8 DEF FirstDepth, search
      <4> QED BY <3>1, <3>2, <4>1 DEF Hangs, Root
    <3>3. CASE up # Root
      <4>1. up \in Ids /\ Hangs(up) /\ tree'[up] = tree[up]
        BY <3>3, <1>3, <1>6, <1>7 DEF TreeInv
      <4>2. /\ tree'[i].action = tree'[up].action
            /\ tree'[i].combat = IF tree'[up].kind = "cont" THEN tree'[up].combat
                                                            ELSE tree'[up].combat + 1
        BY <2>2, <3>3, <4>1, <1>8
      <4>3. LET a == tree'[i].action IN a \in Ids' /\ tree'[a].parent = Root
        BY <4>1, <4>2, <1>5, <1>6 DEF Hangs
      <4> QED BY <3>1, <3>3, <4>2, <4>3 DEF Hangs, Root
    <3> QED BY <3>2, <3>3
  <2>3. \A i \in Ids' : Hangs(i)'
    <3> TAKE i \in Ids'
    <3>1. CASE i \in Ids
      BY <3>1, <2>1
    <3>2. CASE \E m \in 1 .. k : i = n + m
      <4>1. PICK m \in 1 .. k : i = n + m
        BY <3>2
      <4>2. i \in Nat
        BY <4>1, <1>5
      <4> QED BY <4>1, <4>2, <2>2
    <3> QED BY <3>1, <3>2, <1>5
  <2> QED BY <2>3 DEF TreeInv
<1>16. ProposedInv'
  <2>1. \A i \in proposed : \E j \in Ids' : tree'[j].parent = i
    BY <1>5, <1>6 DEF ProposedInv
  <2>2. \A m \in 1 .. k : \E j \in Ids' : tree'[j].parent = parents[m]
    BY <1>5, <1>8
  <2> QED BY <2>1, <2>2, <1>11 DEF ProposedInv
<1>17. PendingInv'
  <2>1. \A i \in Ply' : tree'[i].kind = "new"
    BY <1>8, <1>10
  <2>2. k # 0 <=> Ply' # {}
    BY <1>10
  <2> QED BY <2>1, <2>2, <1>12 DEF PendingInv
<1>18. FrontierInv'
  <2>1. \A q \in DOMAIN prunes' : \A i \in prunes'[q].frontier :
          i \in Ids' /\ tree'[i].kind = "stable"
    BY <1>4, <1>5, <1>6 DEF FrontierInv
  <2>2. \A i \in waiting' : tree'[i].kind = "stable" /\ i \notin OraclePruned'
    BY <1>4, <1>6, <1>13 DEF FrontierInv, TypeOK
  <2>3. OraclePruned' \cap proposed' = {} /\ waiting' \cap proposed' = {}
    BY <1>4, <1>7, <1>11, <1>13 DEF FrontierInv
  <2>4. Ply' \cap (proposed' \cup waiting' \cup OraclePruned') = {}
    <3>1. proposed' \cup waiting' \cup OraclePruned' \subseteq Ids \cup {Root}
      <4>1. /\ proposed \subseteq Ids \cup {Root}
            /\ \A m \in 1 .. k : parents[m] \in Ids \cup {Root}
        BY <1>3, <1>7 DEF TypeOK
      <4>2. waiting' \subseteq Ids /\ OraclePruned' \subseteq Ids
        BY <1>4, <1>13, PrunedAreStable DEF TypeOK
      <4> QED BY <4>1, <4>2, <1>11
    <3> QED BY <3>1, <1>5, <1>10
  <2>5. pc' # "ply"
    BY <1>12
  <2> QED BY <2>1, <2>2, <2>3, <2>4, <2>5 DEF FrontierInv
<1>19. CapturedInv'
  <2>1. captured' = FirstFresh'
    BY <1>4, <1>13 DEF CapturedInv, Batch
  <2>2. FirstFresh' \cap Ply' = {}
    <3>1. FirstFresh' \subseteq Ids
      BY <1>3, <1>13 DEF FirstFresh
    <3> QED BY <3>1, <1>5, <1>10
  <2> QED BY <2>1, <2>2 DEF CapturedInv
<1> QED BY <1>14, <1>15, <1>16, <1>17, <1>18, <1>19

\* A result tells the kind and the score of one candidate of this ply.
LEMMA SimulateKeepsInv ==
  ASSUME IInv, Simulate
  PROVE  IInv'
<1> USE DEF IInv
<1> DEFINE id == Min(pending)
<1>1. /\ pc = "simulate" /\ pending' = pending \ {id}
      /\ pc' = IF pending' = {} THEN "choose" ELSE "simulate"
      /\ UNCHANGED <<search, proposed, Beam, waiting, prunes, captured>>
  BY DEF Simulate, Beam
<1>2. id \in pending /\ id \in Ids /\ id \in Ply /\ tree[id].kind = "new"
  <2>1. pending \in SUBSET Nat /\ pending # {}
    BY <1>1, TreeIsTyped DEF TypeOK, PendingInv
  <2>2. id \in pending
    BY <2>1, MinIsSmallest
  <2> QED BY <2>2 DEF PendingInv, Ply
<1>3. \E K \in Kinds \ {"new"} : \E S \in Int :
        tree' = [tree EXCEPT ![id].kind = K, ![id].score = S]
  <2>1. PICK outcome \in Outcomes :
             \E score \in IF outcome \in Scored THEN Scores ELSE {tree[id].score} :
                tree' = [tree EXCEPT
                  ![id].kind = IF outcome = "cont" /\ tree[id].steps >= MaxCont
                               THEN "limit" ELSE outcome,
                  ![id].score = score]
    BY DEF Simulate
  <2>2. PICK score \in IF outcome \in Scored THEN Scores ELSE {tree[id].score} :
                tree' = [tree EXCEPT
                  ![id].kind = IF outcome = "cont" /\ tree[id].steps >= MaxCont
                               THEN "limit" ELSE outcome,
                  ![id].score = score]
    BY <2>1
  <2>3. score \in Int
    BY <1>2, TreeIsTyped, OracleAssumption DEF NodeRecord
  <2> DEFINE K == IF outcome = "cont" /\ tree[id].steps >= MaxCont THEN "limit" ELSE outcome
  <2>4. K \in Kinds \ {"new"}
    BY DEF Kinds, Outcomes, Scored
  <2> QED BY <2>2, <2>3, <2>4
<1> HIDE DEF id
<1>4. PICK K \in Kinds \ {"new"}, S \in Int :
        tree' = [tree EXCEPT ![id].kind = K, ![id].score = S]
  BY <1>3
<1> DEFINE node == [tree[id] EXCEPT !.kind = K, !.score = S]
<1>5. tree \in Seq(NodeRecord) /\ tree[id] \in NodeRecord /\ Len(tree) \in Nat
      /\ Ids = 1 .. Len(tree)
  BY <1>2, TreeIsTyped DEF TypeOK
<1>6. /\ node \in NodeRecord /\ node.kind = K /\ node.parent = tree[id].parent
      /\ node.action = tree[id].action /\ node.combat = tree[id].combat
  BY <1>5 DEF NodeRecord
<1>7. tree' = [tree EXCEPT ![id] = node]
  BY <1>4
<1> HIDE DEF node
<1>8. tree' \in Seq(NodeRecord) /\ Ids' = Ids
      /\ \A i \in Ids : tree'[i] = IF i = id THEN node ELSE tree[i]
  <2> HIDE DEF NodeRecord
  <2>1. tree' \in Seq(NodeRecord) /\ Len(tree') = Len(tree)
    BY <1>2, <1>5, <1>6, <1>7
  <2>2. \A i \in Ids : tree'[i] = IF i = id THEN node ELSE tree[i]
    BY <1>5, <1>7 DEF Ids
  <2>3. Ids' = Ids
    BY <2>1, <1>5 DEF Ids
  <2> QED BY <2>1, <2>2, <2>3
<1>9. \A i \in Ids : /\ tree'[i].parent = tree[i].parent /\ tree'[i].action = tree[i].action
                     /\ tree'[i].combat = tree[i].combat
                     /\ i # id => tree'[i] = tree[i]
                     /\ tree[i].kind # "new" => tree'[i].kind = tree[i].kind
  BY <1>2, <1>6, <1>8
<1>10. /\ id \notin Resolved /\ Resolved \subseteq Ids /\ Root \notin Ids
       /\ \A i \in Ids : i # id => (i \in Resolved' <=> i \in Resolved)
       /\ Resolved \subseteq Resolved' /\ Resolved' \subseteq Ids
  <2>1. id \notin Resolved
    BY <1>2 DEF Resolved, Scored
  <2>2. \A i \in Ids : i # id => (i \in Resolved' <=> i \in Resolved)
    BY <1>8, <1>9 DEF Resolved
  <2>3. Resolved \subseteq Ids /\ Resolved' \subseteq Ids
    BY <1>8 DEF Resolved
  <2> QED BY <2>1, <2>2, <2>3, TreeIsTyped
<1>11. Ply' = Ply
  BY <1>1, <1>8, <1>9 DEF Ply
<1>12. OraclePruned' = OraclePruned
  BY <1>1 DEF OraclePruned
<1>13. Batch /\ Batch'
  BY <1>1 DEF Batch
<1>14. TypeOK'
  <2>1. Beam' \in SUBSET (Resolved' \cup {Root})
    BY <1>1, <1>10 DEF TypeOK
  <2>2. pending' \in SUBSET Ids'
    BY <1>1, <1>8 DEF TypeOK
  <2> QED BY <2>1, <2>2, <1>1, <1>8 DEF TypeOK, search, Root
<1>15. TreeInv'
  <2> SUFFICES ASSUME NEW i \in Ids PROVE Hangs(i)'
    BY <1>8 DEF TreeInv
  <2>1. Hangs(i)
    BY DEF TreeInv
  <2>2. /\ tree[i].action \in Ids
        /\ tree'[tree[i].action].parent = tree[tree[i].action].parent
    BY <2>1, <1>9 DEF Hangs
  <2>3. tree[i].parent # Root => /\ tree[i].parent \in Ids
                                 /\ tree'[tree[i].parent] = tree[tree[i].parent]
    BY <2>1, <1>9, <1>10 DEF Hangs
  <2> QED BY <2>1, <2>2, <2>3, <1>1, <1>8, <1>9, <1>10 DEF Hangs, FirstDepth, search, Root
<1>16. ProposedInv'
  BY <1>1, <1>8, <1>9 DEF ProposedInv
<1>17. PendingInv'
  <2>1. \A i \in pending' : i \in Ply' /\ tree'[i].kind = "new"
    BY <1>1, <1>9, <1>11 DEF PendingInv, Ply
  <2> QED BY <2>1, <1>1 DEF PendingInv
<1>18. FrontierInv'
  <2>1. \A q \in DOMAIN prunes' : \A i \in prunes'[q].frontier :
          i \in Ids' /\ tree'[i].kind = "stable"
    BY <1>1, <1>8, <1>9 DEF FrontierInv
  <2>2. \A i \in waiting' : tree'[i].kind = "stable" /\ i \notin OraclePruned'
    BY <1>1, <1>9, <1>12 DEF FrontierInv, TypeOK
  <2>3. OraclePruned' \cap proposed' = {} /\ waiting' \cap proposed' = {}
    BY <1>1, <1>12, <1>13 DEF FrontierInv
  <2>4. Ply' \cap (proposed' \cup waiting' \cup OraclePruned') = {}
    BY <1>1, <1>11, <1>12, <1>13 DEF FrontierInv
  <2>5. pc' # "ply"
    BY <1>1
  <2> QED BY <2>1, <2>2, <2>3, <2>4, <2>5 DEF FrontierInv
<1>19. CapturedInv'
  <2>1. captured' = FirstFresh \ Ply
    BY <1>1, <1>13 DEF CapturedInv
  <2>2. \A i \in Ids \ Ply : i \in FirstFresh' <=> i \in FirstFresh
    <3> TAKE i \in Ids \ Ply
    <3>1. i # id /\ tree'[i] = tree[i] /\ i # Root /\ (i \in Resolved' <=> i \in Resolved)
      BY <1>2, <1>9, <1>10
    <3>2. Fresh(i)' = Fresh(i)
      BY <3>1 DEF Fresh, Node
    <3> QED BY <3>1, <3>2, <1>1 DEF FirstFresh, FirstDepth, search
  <2>3. FirstFresh' \subseteq Ids /\ FirstFresh \subseteq Ids
    BY <1>10 DEF FirstFresh
  <2>4. captured' = FirstFresh' \ Ply'
    BY <2>1, <2>2, <2>3, <1>11
  <2> QED BY <2>4, <1>13 DEF CapturedInv
<1> QED BY <1>14, <1>15, <1>16, <1>17, <1>18, <1>19

\* The search breaks off, leaves a candidate without a result, or stays as it ended.
LEMMA RestKeepsInv ==
  ASSUME IInv, Stop \/ Unsent \/ UNCHANGED vars
  PROVE  IInv'
<1> USE DEF IInv
<1>1. UNCHANGED <<search, tree, proposed, Beam, waiting, prunes, captured>>
  BY DEF Stop, Unsent, vars, Beam
<1>2. \/ pc = "ply" /\ pc' = "end" /\ pending' = pending
      \/ /\ pc = "simulate" /\ pending' \subseteq pending
         /\ pc' = IF pending' = {} THEN "choose" ELSE "simulate"
      \/ pc' = pc /\ pending' = pending
  BY DEF Stop, Unsent, vars
<1>3. /\ Ids' = Ids /\ Resolved' = Resolved /\ Ply' = Ply /\ OraclePruned' = OraclePruned
      /\ FirstFresh' = FirstFresh
  BY <1>1 DEF Ids, Resolved, Ply, OraclePruned, FirstFresh, Fresh, Node, RootNode, FirstDepth,
              search
<1>4. TypeOK'
  <2>1. pending' \in SUBSET Ids' /\ pc' \in {"ply", "simulate", "choose", "end", "raised"}
    BY <1>2, <1>3 DEF TypeOK
  <2> QED BY <2>1, <1>1, <1>3 DEF TypeOK, search, Root
<1>5. TreeInv' /\ ProposedInv'
  BY <1>1, <1>3 DEF TreeInv, Hangs, ProposedInv, FirstDepth, search, Root
<1>6. PendingInv'
  BY <1>1, <1>2, <1>3 DEF PendingInv
<1>7. (Batch' <=> Batch) /\ (pc' = "ply" => pc = "ply")
  BY <1>2 DEF Batch
<1>8. FrontierInv'
  BY <1>1, <1>3, <1>7 DEF FrontierInv
<1>9. CapturedInv'
  BY <1>1, <1>3, <1>7 DEF CapturedInv
<1> QED BY <1>4, <1>5, <1>6, <1>8, <1>9

\* Of the fresh states a ply resolved, the engine captures those at the first depth.
LEMMA CapturesTheFirst ==
  ASSUME IInv, Batch
  PROVE  Captured({i \in Ply \cap Resolved : Fresh(i)}) = Ply \cap FirstFresh
<1> USE DEF IInv
<1> DEFINE S == {i \in Ply \cap Resolved : Fresh(i)}
           kin(i, T) == {j \in T : tree[j].action = tree[i].action}
           from(i) == IF kin(i, captured) # {} THEN kin(i, captured) ELSE kin(i, S)
<1>1. Ids \subseteq Nat /\ Resolved \subseteq Ids /\ captured = FirstFresh \ Ply
  BY TreeIsTyped DEF CapturedInv
<1>2. ASSUME NEW T \in SUBSET Ids, T # {} PROVE First(T) \in T
  <2> DEFINE U == IF \A i \in T : Finished(i) THEN T ELSE {i \in T : ~Finished(i)}
  <2>1. U \in SUBSET Nat /\ U # {} /\ U \subseteq T
    BY <1>1, <1>2
  <2>2. First(T) = Min(U)
    BY DEF First
  <2> HIDE DEF U
  <2> QED BY <2>1, <2>2, MinIsSmallest
<1>3. ASSUME NEW i \in S, kin(i, captured) = {} PROVE tree[i].combat = FirstDepth
  <2>1. i \in Ids /\ Line(i) = {i} \cup Line(tree[i].parent)
    BY <1>1, LineUnfolds
  <2>2. CASE Line(i) \cap FirstFresh # {}
    <3>1. PICK x \in Line(i) : x \in FirstFresh
      BY <2>2
    <3>2. CASE x = i
      BY <3>1, <3>2 DEF FirstFresh
    <3>3. CASE x \in Line(tree[i].parent)
      <4>1. x \in proposed
        BY <2>1, <3>3, WaysUpAreProposed
      <4>2. x \notin Ply
        BY <4>1 DEF FrontierInv
      <4>3. tree[x].action = tree[i].action
        BY <2>1, <3>1, LineLeadsDown
      <4> QED BY <1>1, <1>3, <3>1, <4>2, <4>3
    <3> QED BY <2>1, <3>1, <3>2, <3>3
  <2> QED BY <2>2, <1>1, FirstFreshIsPassed
<1>4. ASSUME NEW i \in S PROVE tree[First(from(i))].combat = FirstDepth
  <2>1. CASE kin(i, captured) # {}
    <3>1. First(kin(i, captured)) \in kin(i, captured)
      BY <2>1, <1>1, <1>2 DEF FirstFresh
    <3>2. First(from(i)) \in FirstFresh
      BY <2>1, <3>1, <1>1
    <3> QED BY <3>2 DEF FirstFresh
  <2>2. CASE kin(i, captured) = {}
    <3>1. i \in kin(i, S)
      OBVIOUS
    <3>2. First(kin(i, S)) \in kin(i, S)
      BY <3>1, <1>1, <1>2
    <3>3. PICK j \in kin(i, S) : j = First(from(i))
      BY <2>2, <3>2
    <3>4. kin(j, captured) = {}
      BY <2>2, <3>3
    <3> QED BY <3>3, <3>4, <1>3
  <2> QED BY <2>1, <2>2
<1>5. Captured(S) = {i \in S : tree[i].combat = tree[First(from(i))].combat}
  BY DEF Captured
<1>6. Captured(S) = {i \in S : tree[i].combat = FirstDepth}
  <2> HIDE DEF S, from
  <2> QED BY <1>4, <1>5
<1> QED BY <1>6 DEF FirstFresh

\* What the next ply follows up or keeps waiting is not finished; if it is fresh it is
\* stable.
LEMMA UnfinishedFreshIsStable ==
  ASSUME TypeOK, NEW i \in Resolved, Fresh(i), ~Finished(i)
  PROVE  tree[i].kind = "stable"
<1>1. Node(i) = tree[i]
  BY TreeIsTyped DEF Node
<1> QED BY <1>1 DEF Resolved, Scored, Fresh, Finished, Terminal

\* The three ways a ply ends.
Unfinished == {i \in Ply \cap Resolved : ~Finished(i)}
Undecided == {i \in Unfinished : ~Fresh(i)}
Stables == Unfinished \ Undecided

LEMMA ChooseCases ==
  ASSUME Choose
  PROVE  \/ pc' \in {"end", "raised"} /\ UNCHANGED <<Beam, waiting, prunes>>
         \/ /\ Beam' \subseteq Undecided /\ waiting' = waiting \cup Stables
            /\ UNCHANGED prunes /\ pc' \in {"end", "ply"}
         \/ /\ Beam' \subseteq Stables \cup waiting /\ waiting' = {}
            /\ prunes' = Append(prunes, [frontier |-> Stables \cup waiting, kept |-> Beam'])
            /\ pc' \in {"end", "ply"}
<1> DEFINE alive == Ply \cap Resolved
           next == {i \in alive : ~Finished(i)}
           conts == {i \in next : ~Fresh(i)}
           all == (next \ conts) \cup waiting
           kinds == {tree[i].kind : i \in Ply} \ {"new"}
<1>1. conts = Undecided /\ next \ conts = Stables
  BY DEF Undecided, Stables, Unfinished
<1>2. CASE kinds # {} /\ kinds \subseteq {"fault", "oos"}
  BY <1>2 DEF Choose, Beam
<1>3. CASE ~ (kinds # {} /\ kinds \subseteq {"fault", "oos"})
  <2>1. /\ IF conts # {}
           THEN /\ beam' \in Selections(conts)
                /\ waiting' = waiting \cup (next \ conts)
                /\ UNCHANGED prunes
           ELSE /\ beam' \in Selections(all)
                /\ waiting' = {}
                /\ prunes' = Append(prunes, [frontier |-> all, kept |-> Beam'])
        /\ pc' \in {"end", "ply"}
    BY <1>3 DEF Choose
  <2>0. \A S : beam' \in Selections(S) => Beam' \subseteq S
    BY DEF Selections, Beam, ToSet
  <2> HIDE DEF conts, next, all
  <2>2. CASE conts # {}
    <3>1. Beam' \subseteq Undecided
      BY <2>0, <2>1, <2>2, <1>1
    <3> QED BY <3>1, <2>1, <2>2, <1>1
  <2>3. CASE conts = {}
    <3>1. all = Stables \cup waiting
      BY <1>1 DEF all
    <3>2. Beam' \subseteq Stables \cup waiting
      BY <2>0, <2>1, <2>3, <3>1
    <3> QED BY <3>1, <3>2, <2>1, <2>3
  <2> QED BY <2>2, <2>3
<1> QED BY <1>2, <1>3

LEMMA ChooseKeepsInv ==
  ASSUME IInv, Choose
  PROVE  IInv'
<1> USE DEF IInv
<1>1. pc = "choose" /\ Batch /\ UNCHANGED <<search, tree, proposed, pending>>
  BY DEF Choose, Batch
<1>2. captured' = captured \cup (Ply \cap FirstFresh)
  <2>1. captured' = captured \cup Captured({i \in Ply \cap Resolved : Fresh(i)})
    BY DEF Choose
  <2> QED BY <2>1, <1>1, CapturesTheFirst
<1>3. /\ Ids' = Ids /\ Resolved' = Resolved /\ FirstFresh' = FirstFresh
      /\ Ids \subseteq Nat /\ Resolved \subseteq Ids
  <2>1. Ids' = Ids /\ Resolved' = Resolved
    BY <1>1 DEF Ids, Resolved
  <2>2. FirstFresh' = FirstFresh
    BY <2>1, <1>1 DEF FirstFresh, Fresh, Node, RootNode, FirstDepth, search
  <2> QED BY <2>1, <2>2, TreeIsTyped
<1>4. /\ Undecided \subseteq Ply \cap Resolved /\ Stables \subseteq Ply \cap Resolved
      /\ Undecided \cap Stables = {}
      /\ \A i \in Stables : tree[i].kind = "stable"
  <2>1. Undecided \subseteq Ply \cap Resolved /\ Stables \subseteq Ply \cap Resolved
    BY DEF Undecided, Stables, Unfinished
  <2>2. Undecided \cap Stables = {}
    BY DEF Stables
  <2>3. \A i \in Stables : Fresh(i) /\ ~Finished(i)
    BY DEF Undecided, Stables, Unfinished
  <2> QED BY <2>1, <2>2, <2>3, UnfinishedFreshIsStable
<1>5. pc' \in {"end", "raised", "ply"} /\ ~Batch'
  <2>1. pc' \in {"end", "raised", "ply"}
    BY ChooseCases
  <2> QED BY <2>1 DEF Batch
<1>6. /\ waiting \cap proposed = {} /\ Ply \cap (proposed \cup waiting \cup OraclePruned) = {}
      /\ \A i \in waiting : i \in Ids /\ tree[i].kind = "stable" /\ i \notin OraclePruned
      /\ OraclePruned \cap proposed = {}
  BY <1>1 DEF FrontierInv, TypeOK
<1>7. TreeInv' /\ ProposedInv'
  BY <1>1, <1>3 DEF TreeInv, Hangs, ProposedInv, FirstDepth, search, Root
<1>8. PendingInv'
  <2>1. pending' = {}
    BY <1>1 DEF PendingInv
  <2> QED BY <2>1, <1>5 DEF PendingInv
<1>9. CapturedInv'
  <2>1. captured = FirstFresh \ Ply
    BY <1>1 DEF CapturedInv
  <2> QED BY <2>1, <1>2, <1>3, <1>5 DEF CapturedInv
<1>10. captured' \in SUBSET Ids
  BY <1>2, <1>3 DEF TypeOK, FirstFresh
<1>11. CASE pc' \in {"end", "raised"} /\ UNCHANGED <<Beam, waiting, prunes>>
  <2>1. TypeOK'
    BY <1>1, <1>3, <1>10, <1>11 DEF TypeOK, search, Root
  <2>2. OraclePruned' = OraclePruned
    BY <1>11 DEF OraclePruned
  <2>3. FrontierInv'
    BY <1>1, <1>3, <1>5, <1>11, <2>2 DEF FrontierInv
  <2> QED BY <1>7, <1>8, <1>9, <2>1, <2>3
<1>12. CASE /\ Beam' \subseteq Undecided /\ waiting' = waiting \cup Stables
            /\ UNCHANGED prunes /\ pc' \in {"end", "ply"}
  <2>1. TypeOK'
    <3>1. Beam' \in SUBSET (Resolved' \cup {Root}) /\ waiting' \in SUBSET Ids'
      BY <1>3, <1>4, <1>6, <1>12
    <3> QED BY <3>1, <1>1, <1>3, <1>10, <1>12 DEF TypeOK, search, Root
  <2>2. OraclePruned' = OraclePruned
    BY <1>12 DEF OraclePruned
  <2>3. \A i \in waiting' : tree'[i].kind = "stable" /\ i \notin OraclePruned'
    BY <1>1, <1>4, <1>6, <1>12, <2>2
  <2>4. (Beam' \cup waiting') \cap proposed' = {}
    BY <1>1, <1>4, <1>6, <1>12
  <2>5. Beam' \cap (waiting' \cup OraclePruned') = {}
    BY <1>4, <1>6, <1>12, <2>2
  <2>6. \A q \in DOMAIN prunes' : \A i \in prunes'[q].frontier :
          i \in Ids' /\ tree'[i].kind = "stable"
    BY <1>1, <1>3, <1>12 DEF FrontierInv
  <2>7. FrontierInv'
    BY <1>1, <1>5, <1>6, <2>2, <2>3, <2>4, <2>5, <2>6 DEF FrontierInv
  <2> QED BY <1>7, <1>8, <1>9, <2>1, <2>7
<1>13. CASE /\ Beam' \subseteq Stables \cup waiting /\ waiting' = {}
            /\ prunes' = Append(prunes, [frontier |-> Stables \cup waiting, kept |-> Beam'])
            /\ pc' \in {"end", "ply"}
  <2> DEFINE all == Stables \cup waiting
             entry == [frontier |-> all, kept |-> Beam']
             PruneRecord == [frontier : SUBSET Nat, kept : SUBSET Nat]
  <2>1. \A i \in all : i \in Ids /\ tree[i].kind = "stable" /\ i \notin proposed
                       /\ i \notin OraclePruned
    BY <1>3, <1>4, <1>6
  <2>2. entry \in PruneRecord
    BY <2>1, <1>3, <1>13
  <2>3. prunes \in Seq(PruneRecord) /\ Len(prunes) \in Nat /\ DOMAIN prunes = 1 .. Len(prunes)
    BY DEF TypeOK
  <2>4. entry.frontier = all /\ entry.kept = Beam'
    OBVIOUS
  <2> HIDE DEF entry, PruneRecord
  <2>5. /\ prunes' \in Seq(PruneRecord) /\ DOMAIN prunes' = 1 .. Len(prunes) + 1
        /\ \A q \in DOMAIN prunes : prunes'[q] = prunes[q]
        /\ prunes'[Len(prunes) + 1] = entry
    <3>1. prunes' = Append(prunes, entry)
      BY <1>13 DEF entry
    <3>2. prunes' \in Seq(PruneRecord) /\ Len(prunes') = Len(prunes) + 1
      BY <3>1, <2>2, <2>3
    <3>3. DOMAIN prunes' = 1 .. Len(prunes) + 1
      BY <3>2, <2>3
    <3> QED BY <3>1, <3>2, <3>3, <2>2, <2>3
  <2>6. \A q \in DOMAIN prunes' : q \in DOMAIN prunes \/ q = Len(prunes) + 1
    BY <2>3, <2>5
  <2>7. OraclePruned' \subseteq OraclePruned \cup (all \ Beam')
    <3>1. ASSUME NEW i \in OraclePruned' PROVE i \in OraclePruned \cup (all \ Beam')
      <4>1. PICK q \in DOMAIN prunes' : i \in prunes'[q].frontier \ prunes'[q].kept
        BY DEF OraclePruned, ToSet
      <4>2. CASE q \in DOMAIN prunes
        BY <4>1, <4>2, <2>5 DEF OraclePruned, ToSet
      <4>3. CASE q = Len(prunes) + 1
        BY <4>1, <4>3, <2>4, <2>5
      <4> QED BY <4>2, <4>3, <2>6
    <3> QED BY <3>1
  <2>8. \A q \in DOMAIN prunes' : \A i \in prunes'[q].frontier :
          i \in Ids' /\ tree'[i].kind = "stable"
    <3> TAKE q \in DOMAIN prunes'
    <3>1. CASE q \in DOMAIN prunes
      BY <3>1, <2>5, <1>1, <1>3 DEF FrontierInv
    <3>2. CASE q = Len(prunes) + 1
      BY <3>2, <2>1, <2>4, <2>5, <1>1, <1>3
    <3> QED BY <3>1, <3>2, <2>6
  <2>9. TypeOK'
    <3>1. Beam' \in SUBSET (Resolved' \cup {Root})
      <4>1. all \subseteq Resolved
        BY <1>4, <2>1 DEF Resolved, Scored
      <4> QED BY <4>1, <1>3, <1>13
    <3>2. waiting' \in SUBSET Ids'
      BY <1>13
    <3>3. prunes' \in Seq([frontier : SUBSET Nat, kept : SUBSET Nat])
      BY <2>5 DEF PruneRecord
    <3> QED BY <3>1, <3>2, <3>3, <1>1, <1>3, <1>10, <1>13 DEF TypeOK, search, Root
  <2>10. FrontierInv'
    <3> HIDE DEF all
    <3>1. OraclePruned' \cap proposed' = {}
      BY <1>1, <1>6, <2>1, <2>7
    <3>2. Beam' \cap OraclePruned' = {} /\ Beam' \cap proposed' = {}
      BY <1>1, <1>13, <2>1, <2>7 DEF all
    <3> QED BY <3>1, <3>2, <2>8, <1>5, <1>13 DEF FrontierInv
  <2> QED BY <1>7, <1>8, <1>9, <2>9, <2>10
<1> QED BY <1>11, <1>12, <1>13, ChooseCases

\* Every reachable state of the search satisfies the invariant.
THEOREM TargetsInvariant == Spec => []IInv
<1>1. Init => IInv
  BY InitInv
<1>2. IInv /\ [Next]_vars => IInv'
  <2> SUFFICES ASSUME IInv, [Next]_vars PROVE IInv'
    OBVIOUS
  <2>1. CASE Propose
    BY <2>1, ProposeKeepsInv
  <2>2. CASE Simulate
    BY <2>2, SimulateKeepsInv
  <2>3. CASE Choose
    BY <2>3, ChooseKeepsInv
  <2>4. CASE Stop \/ Unsent \/ UNCHANGED vars
    BY <2>4, RestKeepsInv
  <2> QED BY <2>1, <2>2, <2>3, <2>4 DEF Next, Done
<1> QED BY <1>1, <1>2, PTL DEF Spec

----------------------------------------------------------------------------
(* What the labels are taken from.                                         *)

\* A root action's subtree is what carries its name.
LEMMA SubtreeOfAnAction ==
  ASSUME TypeOK, TreeInv
  PROVE  \A a : Candidate(a) => \A j \in Ids : j \in Under(a) <=> tree[j].action = a
<1> SUFFICES ASSUME NEW a, Candidate(a), NEW j \in Ids
             PROVE  j \in Under(a) <=> tree[j].action = a
  OBVIOUS
<1> DEFINE up == tree[j].parent
<1>1. a \in Ids /\ tree[a].action = a /\ Hangs(j)
  BY DEF Candidate, TreeInv, Hangs
<1>2. up \in Ids \cup {Root} /\ up \in Resolved \cup {Root}
  BY <1>1, TreeIsTyped DEF Hangs
<1>3. ASSUME j \in Under(a) PROVE tree[j].action = a
  <2>1. CASE j = a
    BY <2>1, <1>1
  <2>2. CASE a \in Line(up)
    <3>1. up \in Resolved /\ tree[a].action = tree[up].action
      BY <2>2, <1>2, LineLeadsDown
    <3>2. up # Root
      BY <3>1, TreeIsTyped
    <3> QED BY <3>1, <3>2, <1>1 DEF Hangs
  <2> QED BY <1>3, <2>1, <2>2 DEF Under
<1>4. ASSUME tree[j].action = a PROVE j \in Under(a)
  <2>1. CASE up = Root
    BY <2>1, <1>1, <1>4 DEF Hangs, Under
  <2>2. CASE up # Root
    <3>1. up \in Resolved /\ tree[up].action = a
      BY <2>2, <1>1, <1>2, <1>4 DEF Hangs
    <3>2. a \in Line(up)
      BY <3>1, LineEndsAtItsAction
    <3> QED BY <3>2 DEF Under
  <2> QED BY <2>1, <2>2
<1> QED BY <1>3, <1>4

\* A fault anywhere below a root action makes it a faulted one, and no other does.
LEMMA FaultBelow ==
  ASSUME TypeOK, TreeInv, NEW a, Candidate(a)
  PROVE  a \in FaultedActions <=> Under(a) \cap Faults # {}
<1>1. Faults \subseteq Ids
  BY DEF Faults
<1> QED BY <1>1, SubtreeOfAnAction DEF FaultedActions

\* Every resolved node is below a candidate of the root that was evaluated, and its
\* descendants are below the same one.
LEMMA NodesAreBelow ==
  ASSUME TypeOK, TreeInv, NEW i \in Resolved
  PROVE  LET a == tree[i].action
         IN  /\ Candidate(a) /\ Evaluated(a) /\ i \in Below(a)
             /\ Descendants(i) \subseteq Below(a)
<1> DEFINE a == tree[i].action
<1>1. i \in Ids /\ Candidate(a)
  BY TreeIsTyped DEF TreeInv, Hangs, Candidate
<1>2. i \in Below(a) /\ Evaluated(a)
  BY <1>1 DEF Below, Evaluated
<1>3. ASSUME NEW j \in Descendants(i) PROVE j \in Below(a)
  <2>1. j \in Resolved /\ i \in Line(tree[j].parent) /\ j \in Ids /\ Hangs(j)
    BY TreeIsTyped DEF Descendants, TreeInv
  <2> DEFINE up == tree[j].parent
  <2>2. up \in Ids \cup {Root}
    BY <2>1, TreeIsTyped DEF Hangs
  <2>3. up \in Resolved /\ tree[i].action = tree[up].action
    BY <2>1, <2>2, LineLeadsDown
  <2>4. up # Root
    BY <2>3, TreeIsTyped
  <2> QED BY <2>1, <2>3, <2>4 DEF Below, Hangs
<1> QED BY <1>1, <1>2, <1>3

\* A node is on the way to its descendants, and none of them is the node itself.
LEMMA DescendantsHangBelow ==
  ASSUME TypeOK, TreeInv, NEW i, NEW j \in Descendants(i)
  PROVE  i \in Line(j) /\ j # i /\ i \in proposed
<1>1. j \in Resolved /\ i \in Line(tree[j].parent) /\ j \in Ids /\ Hangs(j) /\ j \in Nat
  BY TreeIsTyped DEF Descendants, TreeInv
<1>2. i \in Line(j)
  BY <1>1, LineUnfolds
<1>3. tree[j].parent \in Ids \cup {Root}
  BY <1>1, TreeIsTyped DEF Hangs
<1>4. i \in Resolved /\ i <= tree[j].parent /\ tree[j].parent < j
  BY <1>1, <1>3, LineLeadsDown DEF Hangs
<1>5. i \in Nat /\ tree[j].parent \in Nat
  BY <1>3, <1>4, TreeIsTyped DEF Root
<1>6. j # i
  BY <1>1, <1>4, <1>5
<1> QED BY <1>1, <1>2, <1>6, WaysUpAreProposed

\* The best of a nonempty set of nodes, in whatever order it is looked through, is a
\* member, and none is better.
LEMMA BestIsBest ==
  ASSUME TypeOK, NEW S \in SUBSET Ids, S # {}, NEW order
  PROVE  Best(S, order) \in S /\ \A j \in S : tree[Best(S, order)].score >= tree[j].score
<1> DEFINE top == {i \in S : \A j \in S : tree[i].score >= tree[j].score}
           place(i) == Cardinality({j \in top : <<j, i>> \in order})
           places == {place(i) : i \in top}
<1>1. top # {}
  <2> DEFINE f == [i \in S |-> tree[i].score]
  <2>1. f \in [S -> Int] /\ Len(tree) \in Nat /\ S \in SUBSET (1 .. Len(tree))
    BY TreeIsTyped DEF NodeRecord
  <2>2. \A i \in S : f[i] = tree[i].score
    OBVIOUS
  <2> HIDE DEF f
  <2>3. PICK i \in S : \A j \in S : f[i] >= f[j]
    BY <2>1, BestExists
  <2> QED BY <2>2, <2>3
<1>2. IsFiniteSet(top)
  <2>1. IsFiniteSet(Ids)
    BY TreeIsTyped, FS_Interval
  <2>2. top \subseteq Ids
    OBVIOUS
  <2> QED BY <2>1, <2>2, FS_Subset
<1> HIDE DEF top
<1>3. \A i \in top : place(i) \in Nat
  <2> TAKE i \in top
  <2>1. IsFiniteSet({j \in top : <<j, i>> \in order})
    BY <1>2, FS_Subset
  <2> QED BY <2>1, FS_CardinalityType
<1> HIDE DEF place
<1>4. \E i \in top : \A j \in top : place(i) <= place(j)
  <2>1. places \in SUBSET Nat /\ places # {}
    BY <1>1, <1>3
  <2>2. PICK x \in places : \A y \in places : x <= y
    <3> HIDE DEF places
    <3> QED BY <2>1, SmallestExists
  <2> QED BY <2>2
<1>5. Best(S, order) = CHOOSE i \in top : \A j \in top \ {i} : place(i) <= place(j)
  BY DEF Best, top, place
<1>6. Best(S, order) \in top
  BY <1>4, <1>5
<1> QED BY <1>6 DEF top

\* A root action has a label exactly when nothing below it faulted and it has a final
\* outcome.
LEMMA RootLabels ==
  ASSUME NEW a, Evaluated(a)
  PROVE  LET leaves == FinalLeaves(Below(a))
         IN  /\ IsLabel(RootTarget(a)) <=> a \notin FaultedActions /\ leaves # {}
             /\ IsLabel(RootTarget(a)) => RootTarget(a) = Labelled(leaves, ByTrace)
<1> DEFINE leaves == FinalLeaves(Below(a))
<1>1. IsLabel(Labelled(leaves, ByTrace))
  BY DEF IsLabel, Labelled
<1>2. \A why, terminal : ~IsLabel(NoTarget(why, terminal))
  BY DEF IsLabel, NoTarget
<1>3. RootTarget(a) =
        IF a \in FaultedActions
        THEN NoTarget("branch_fault", \E i \in leaves : Terminal(i))
        ELSE IF leaves = {} THEN NoTarget(Lost(Below(a)), FALSE) ELSE Labelled(leaves, ByTrace)
  BY DEF RootTarget
<1> HIDE DEF leaves
<1>4. CASE a \in FaultedActions
  BY <1>2, <1>3, <1>4 DEF leaves
<1>5. CASE a \notin FaultedActions /\ leaves = {}
  BY <1>2, <1>3, <1>5 DEF leaves
<1>6. CASE a \notin FaultedActions /\ leaves # {}
  BY <1>1, <1>3, <1>6 DEF leaves
<1> QED BY <1>4, <1>5, <1>6

\* And a frontier node likewise, by its descendants.
LEMMA NodeLabels ==
  ASSUME NEW p, NEW i
  PROVE  LET leaves == FinalLeaves(Descendants(i))
         IN  /\ IsLabel(NodeTarget(p, i)) <=> i \notin FaultedNodes /\ leaves # {}
             /\ IsLabel(NodeTarget(p, i)) => NodeTarget(p, i) = Labelled(leaves, BreadthFirst)
<1> DEFINE leaves == FinalLeaves(Descendants(i))
           why == IF i \notin p.kept THEN "pruned" ELSE Lost(Descendants(i))
<1>1. IsLabel(Labelled(leaves, BreadthFirst))
  BY DEF IsLabel, Labelled
<1>2. \A w, terminal : ~IsLabel(NoTarget(w, terminal))
  BY DEF IsLabel, NoTarget
<1>3. NodeTarget(p, i) =
        IF i \in FaultedNodes
        THEN NoTarget("branch_fault", \E j \in leaves : Terminal(j))
        ELSE IF leaves = {} THEN NoTarget(why, FALSE) ELSE Labelled(leaves, BreadthFirst)
  BY DEF NodeTarget
<1> HIDE DEF leaves, why
<1>4. CASE i \in FaultedNodes
  BY <1>2, <1>3, <1>4 DEF leaves
<1>5. CASE i \notin FaultedNodes /\ leaves = {}
  BY <1>2, <1>3, <1>5 DEF leaves
<1>6. CASE i \notin FaultedNodes /\ leaves # {}
  BY <1>1, <1>3, <1>6 DEF leaves
<1> QED BY <1>4, <1>5, <1>6

\* What frontier nodes are, wherever they were recorded.
LEMMA FrontierNodes ==
  ASSUME IInv, NEW p \in ToSet(prunes), NEW i \in p.frontier
  PROVE  /\ i \in Ids /\ tree[i].kind = "stable" /\ i \in Resolved
         /\ i \notin p.kept => i \in OraclePruned
<1>1. i \in Ids /\ tree[i].kind = "stable"
  BY DEF IInv, FrontierInv, ToSet
<1>2. i \in Resolved
  BY <1>1 DEF Resolved, Scored
<1> QED BY <1>1, <1>2 DEF OraclePruned

----------------------------------------------------------------------------
(* The four properties.                                                    *)

\* No label is derived from a subtree with a fault in it.
LEMMA CleanLabels == IInv => NoLabelAboveAFault
<1> SUFFICES ASSUME IInv PROVE NoLabelAboveAFault
  OBVIOUS
<1> USE DEF IInv
<1>1. ASSUME NEW a \in Actions, Under(a) \cap Faults # {} PROVE ~IsLabel(RootTarget(a))
  <2>1. Evaluated(a) /\ Candidate(a)
    BY DEF Actions, Evaluated
  <2> QED BY <2>1, <1>1, FaultBelow, RootLabels
<1>2. ASSUME NEW p \in ToSet(prunes), NEW i \in p.frontier, Under(i) \cap Faults # {}
      PROVE  ~IsLabel(NodeTarget(p, i))
  <2>1. PICK f \in Faults : f \in Under(i)
    BY <1>2
  <2>2. f # i
    BY <2>1, FrontierNodes DEF Faults
  <2>3. i \in Line(tree[f].parent)
    BY <2>1, <2>2 DEF Under
  <2>4. i \in FaultedNodes
    BY <2>3 DEF FaultedNodes
  <2> QED BY <2>4, NodeLabels
<1>3. ASSUME NEW a \in Samples, Under(a) \cap Faults # {} PROVE ~IsLabel(Sample(a))
  <2>1. a \in Actions
    BY DEF Samples, Actions
  <2>2. ~IsLabel(RootTarget(a))
    BY <2>1, <1>1, <1>3
  <2>3. ~IsLabel(NoTarget("self_bootstrap", FALSE))
    BY DEF IsLabel, NoTarget
  <2> QED BY <2>2, <2>3 DEF Sample
<1> QED BY <1>1, <1>2, <1>3 DEF NoLabelAboveAFault

\* Two labels taken from one outcome differ in their terminal flag at most.
LEMMA SameBestSameLabel ==
  ASSUME NEW D, NEW L, NEW o, NEW q, Best(D, o) = Best(L, q)
  PROVE  Labelled(D, o) = [Labelled(L, q) EXCEPT !.terminal = Labelled(D, o).terminal]
<1>1. ASSUME NEW sc, NEW b, NEW c, NEW so, NEW w, NEW t, NEW u
      PROVE  LET r == [score |-> sc, best |-> b, censored |-> c, source |-> so,
                       terminal |-> t, why |-> w]
                 x == [score |-> sc, best |-> b, censored |-> c, source |-> so,
                       terminal |-> u, why |-> w]
             IN  r = [x EXCEPT !.terminal = r.terminal]
  OBVIOUS
<1> DEFINE best == Best(L, q)
           sc == tree[best].score
           exact == tree[best].kind = "won"
           so == IF exact THEN "terminal" ELSE "value_bootstrap"
           w == IF exact THEN "none" ELSE "value_bootstrap"
           t == \E i \in D : Terminal(i)
           u == \E i \in L : Terminal(i)
<1>2. /\ Labelled(D, o) = [score |-> sc, best |-> best, censored |-> ~exact, source |-> so,
                            terminal |-> t, why |-> w]
      /\ Labelled(L, q) = [score |-> sc, best |-> best, censored |-> ~exact, source |-> so,
                            terminal |-> u, why |-> w]
  BY DEF Labelled
<1> HIDE DEF best, sc, exact, so, w, t, u
<1> QED BY <1>1, <1>2

\* A frontier node's label and its root action's: the node's outcomes are among the
\* action's, so they are no better, and if the best of them all is one of the node's, the
\* best of the node's is as good.
LEMMA AgreeingLabels == IInv => LabelsAgree
<1> SUFFICES ASSUME IInv, NEW p \in ToSet(prunes), NEW i \in p.frontier
             PROVE  LET own == NodeTarget(p, i)
                        root == RootTarget(tree[i].action)
                    IN  /\ (IsLabel(own) /\ tree[i].action \notin FaultedActions) =>
                             IsLabel(root) /\ own.score <= root.score
                        /\ (IsLabel(root) /\ root.best \in Descendants(i)) =>
                             /\ IsLabel(own) /\ own.score = root.score
                             /\ own.best = root.best =>
                                  own = [root EXCEPT !.terminal = own.terminal]
  BY DEF LabelsAgree
<1> USE DEF IInv
<1> DEFINE a == tree[i].action
           D == FinalLeaves(Descendants(i))
           L == FinalLeaves(Below(a))
           own == NodeTarget(p, i)
           root == RootTarget(a)
           first == Best(D, BreadthFirst)
           best == Best(L, ByTrace)
<1>1. i \in Resolved /\ i \in Ids
  BY FrontierNodes
<1>2. Candidate(a) /\ Evaluated(a) /\ Descendants(i) \subseteq Below(a)
  BY <1>1, NodesAreBelow
<1>3. D \subseteq L /\ L \in SUBSET Ids /\ D = L \cap Descendants(i)
  BY <1>2, TreeIsTyped DEF FinalLeaves, Below
<1>4. /\ IsLabel(root) <=> a \notin FaultedActions /\ L # {}
      /\ IsLabel(root) => root = Labelled(L, ByTrace)
  BY <1>2, RootLabels
<1>5. /\ IsLabel(own) <=> i \notin FaultedNodes /\ D # {}
      /\ IsLabel(own) => own = Labelled(D, BreadthFirst)
  BY NodeLabels
<1> HIDE DEF a, D, L, own, root
<1>6. ASSUME D # {}
      PROVE  /\ first \in D /\ best \in L
             /\ \A j \in D : tree[first].score >= tree[j].score
             /\ \A j \in L : tree[best].score >= tree[j].score
             /\ tree[first].score \in Int /\ tree[best].score \in Int
  <2>1. L # {} /\ D \in SUBSET Ids
    BY <1>3, <1>6
  <2>2. first \in D /\ \A j \in D : tree[first].score >= tree[j].score
    BY <2>1, <1>6, BestIsBest
  <2>3. best \in L /\ \A j \in L : tree[best].score >= tree[j].score
    BY <2>1, <1>3, BestIsBest
  <2>4. tree[first].score \in Int /\ tree[best].score \in Int
    BY <2>1, <2>2, <2>3, <1>3, TreeIsTyped DEF NodeRecord
  <2> QED BY <2>2, <2>3, <2>4
<1>7. ASSUME IsLabel(own), IsLabel(root)
      PROVE  own.score = tree[first].score /\ root.score = tree[best].score
  BY <1>4, <1>5, <1>7 DEF Labelled
<1>8. ASSUME IsLabel(own), a \notin FaultedActions
      PROVE  IsLabel(root) /\ own.score <= root.score
  <2>1. IsLabel(root) /\ D # {}
    BY <1>3, <1>4, <1>5, <1>8
  <2>2. first \in L
    BY <2>1, <1>3, <1>6
  <2>3. tree[best].score >= tree[first].score
    BY <2>1, <2>2, <1>6
  <2> HIDE DEF first, best
  <2> QED BY <2>1, <2>3, <1>6, <1>7, <1>8
<1>9. ASSUME IsLabel(root), root.best \in Descendants(i)
      PROVE  /\ IsLabel(own) /\ own.score = root.score
             /\ own.best = root.best => own = [root EXCEPT !.terminal = own.terminal]
  <2>1. a \notin FaultedActions /\ L # {} /\ root = Labelled(L, ByTrace) /\ root.best = best
    BY <1>4, <1>9 DEF Labelled
  <2>2. best \in D /\ D # {}
    BY <2>1, <1>3, <1>9, BestIsBest
  <2>3. i \notin FaultedNodes
    <3>1. SUFFICES ASSUME NEW f \in Faults, i \in Line(tree[f].parent) PROVE FALSE
      BY DEF FaultedNodes
    <3>2. f \in Ids /\ Hangs(f)
      BY DEF Faults, TreeInv
    <3>3. tree[f].parent \in Ids \cup {Root}
      BY <3>2, TreeIsTyped DEF Hangs
    <3>4. tree[f].parent \in Resolved /\ tree[i].action = tree[tree[f].parent].action
      BY <3>1, <3>3, LineLeadsDown
    <3>5. tree[f].action = a
      BY <3>2, <3>4, TreeIsTyped DEF Hangs, a
    <3> QED BY <3>5, <2>1 DEF FaultedActions
  <2>4. IsLabel(own) /\ own = Labelled(D, BreadthFirst) /\ own.best = first
    BY <2>2, <2>3, <1>5 DEF Labelled
  <2>5. own.score = root.score
    <3>1. tree[first].score >= tree[best].score /\ tree[best].score >= tree[first].score
      BY <2>2, <1>3, <1>6
    <3> HIDE DEF first, best
    <3> QED BY <3>1, <2>2, <2>4, <1>6, <1>7, <1>9
  <2>6. own.best = root.best => own = [root EXCEPT !.terminal = own.terminal]
    <3> SUFFICES ASSUME own.best = root.best
                 PROVE  own = [root EXCEPT !.terminal = own.terminal]
      OBVIOUS
    <3>1. first = best
      BY <2>1, <2>4
    <3> QED BY <3>1, <2>1, <2>4, SameBestSameLabel
  <2> QED BY <2>4, <2>5, <2>6
<1> QED BY <1>8, <1>9 DEF a, own, root

\* The outcome a label is taken from was neither discarded nor expanded.
LEMMA OutcomesAreFinal ==
  ASSUME IInv, NEW a, Evaluated(a), IsLabel(RootTarget(a))
  PROVE  /\ RootTarget(a).best \in Below(a) /\ Leaf(RootTarget(a).best)
         /\ RootTarget(a).best \notin OraclePruned \cup proposed
<1> DEFINE L == FinalLeaves(Below(a))
<1>1. L # {} /\ RootTarget(a).best = Best(L, ByTrace)
  BY RootLabels DEF Labelled
<1>2. L \in SUBSET Ids
  BY TreeIsTyped DEF IInv, FinalLeaves, Below
<1>3. Best(L, ByTrace) \in L
  BY <1>1, <1>2, BestIsBest DEF IInv
<1> QED BY <1>1, <1>3 DEF FinalLeaves

\* A sample's state is on the way to the outcome it is labelled with: the first fresh
\* state on that way was captured, and none was captured above it.
LEMMA SampleStateIsOnTheWay ==
  ASSUME IInv, Derives, NEW a \in Samples, IsLabel(RootTarget(a))
  PROVE  SampleState(a) \in Line(RootTarget(a).best)
<1> USE DEF IInv
<1> DEFINE best == RootTarget(a).best
           onTheWay == SampleStates(a) \cap Line(best)
           kept == {i \in captured \cap Below(a) : Fresh(i)}
<1>1. Evaluated(a) /\ captured = FirstFresh
  BY DEF Samples, Derives, CapturedInv, Batch
<1>2. best \in Below(a) /\ Leaf(best)
  BY <1>1, OutcomesAreFinal
<1> HIDE DEF best
<1>3. best \in Resolved /\ tree[best].action = a /\ Fresh(best) /\ best \in Ids
  BY <1>2, TreeIsTyped DEF Below, Leaf
<1>4. PICK x \in Line(best) : x \in FirstFresh
  <2>1. CASE tree[best].combat = FirstDepth
    <3>1. best \in Line(best)
      BY <1>3, LineUnfolds
    <3> QED BY <3>1, <2>1, <1>3 DEF FirstFresh
  <2>2. CASE Line(best) \cap FirstFresh # {}
    BY <2>2
  <2> QED BY <2>1, <2>2, <1>3, FirstFreshIsPassed
<1>5. x \in Resolved /\ tree[x].action = a
  BY <1>3, <1>4, LineLeadsDown
<1>6. x \in kept
  BY <1>1, <1>4, <1>5 DEF FirstFresh, Below
<1>7. \A j \in kept : tree[j].combat = FirstDepth
  BY <1>1 DEF FirstFresh
<1>8. FirstDepth <= FirstDepth
  BY DEF FirstDepth
<1>9. x \in SampleStates(a)
  <2>1. SampleStates(a) = {i \in kept : \A j \in kept : tree[i].combat <= tree[j].combat}
    BY DEF SampleStates
  <2> HIDE DEF kept
  <2> QED BY <2>1, <1>6, <1>7, <1>8
<1>10. onTheWay # {} /\ onTheWay \in SUBSET (1 .. Len(tree)) /\ Len(tree) \in Nat
  BY <1>4, <1>9, TreeIsTyped DEF SampleStates, Below
<1>11. SampleState(a) = Max(onTheWay)
  BY <1>10 DEF SampleState, best
<1> HIDE DEF onTheWay
<1>12. Max(onTheWay) \in onTheWay
  BY <1>10, MaxIsLargest
<1> QED BY <1>11, <1>12 DEF onTheWay, best

\* No label is the judgement of a node on itself, of a discarded node or of an expanded
\* one.
LEMMA NoImitation == IInv => NoSelfImitation
<1> SUFFICES ASSUME IInv, Derives PROVE NoSelfImitation
  BY DEF NoSelfImitation
<1> USE DEF IInv
<1>1. ASSUME NEW p \in ToSet(prunes), NEW i \in p.frontier, i \notin p.kept
      PROVE  ~IsLabel(NodeTarget(p, i))
  <2>1. i \in OraclePruned
    BY <1>1, FrontierNodes
  <2>2. i \notin proposed
    BY <2>1 DEF FrontierInv
  <2>3. Descendants(i) = {}
    BY <2>2, DescendantsHangBelow
  <2>4. FinalLeaves(Descendants(i)) = {}
    BY <2>3 DEF FinalLeaves
  <2> QED BY <2>4, NodeLabels
<1>2. ASSUME NEW p \in ToSet(prunes), NEW i \in p.frontier, IsLabel(NodeTarget(p, i))
      PROVE  NodeTarget(p, i).best # i /\ i \in Line(NodeTarget(p, i).best)
  <2> DEFINE D == FinalLeaves(Descendants(i))
  <2>1. D # {} /\ NodeTarget(p, i).best = Best(D, BreadthFirst)
    BY <1>2, NodeLabels DEF Labelled
  <2>2. D \in SUBSET Ids /\ D \subseteq Descendants(i)
    BY TreeIsTyped DEF FinalLeaves, Descendants
  <2> HIDE DEF D
  <2>3. Best(D, BreadthFirst) \in Descendants(i)
    BY <2>1, <2>2, BestIsBest
  <2> QED BY <2>1, <2>3, DescendantsHangBelow
<1>3. ASSUME NEW a \in Actions, IsLabel(RootTarget(a))
      PROVE  RootTarget(a).best \notin OraclePruned \cup proposed
  BY <1>3, OutcomesAreFinal DEF Actions
<1>4. ASSUME NEW a \in Samples, IsLabel(Sample(a))
      PROVE  LET t == Sample(a)
             IN  /\ SampleState(a) \in Line(t.best)
                 /\ t.best # SampleState(a) \/ Terminal(t.best)
  <2> DEFINE target == RootTarget(a)
             state == SampleState(a)
  <2>1. ~IsLabel(NoTarget("self_bootstrap", FALSE))
    BY DEF IsLabel, NoTarget
  <2>2. /\ Sample(a) = target
        /\ ~ (target.source = "value_bootstrap" /\ target.best = state /\ ~Terminal(state))
    BY <1>4, <2>1 DEF Sample
  <2>3. IsLabel(target) /\ Evaluated(a)
    BY <1>4, <2>2 DEF Samples
  <2>4. state \in Line(target.best)
    BY <2>3, SampleStateIsOnTheWay
  <2> DEFINE L == FinalLeaves(Below(a))
  <2>5. L # {} /\ target = Labelled(L, ByTrace)
    BY <2>3, RootLabels
  <2>6. Best(L, ByTrace) \in L /\ L \in SUBSET Ids
    <3>1. L \in SUBSET Ids
      BY TreeIsTyped DEF FinalLeaves, Below
    <3> QED BY <3>1, <2>5, BestIsBest
  <2>7. CASE tree[Best(L, ByTrace)].kind = "won"
    <3>1. target.best = Best(L, ByTrace) /\ Best(L, ByTrace) # Root
      BY <2>5, <2>6, TreeIsTyped DEF Labelled
    <3>2. Terminal(target.best)
      BY <3>1, <2>7 DEF Terminal, Node
    <3> QED BY <3>2, <2>2, <2>4
  <2>8. CASE tree[Best(L, ByTrace)].kind # "won"
    <3>1. target.source = "value_bootstrap"
      BY <2>5, <2>8 DEF Labelled
    <3> HIDE DEF target, state
    <3>2. target.best # state \/ Terminal(target.best)
      BY <3>1, <2>2
    <3> QED BY <3>2, <2>2, <2>4 DEF target, state
  <2> QED BY <2>7, <2>8
<1> QED BY <1>1, <1>2, <1>3, <1>4 DEF NoSelfImitation

\* An action whose label is missing: take the last node below it.  It has no resolved
\* child, so either it was expanded into candidates that were lost, or it is a choice
\* nobody followed up, or a pruned node, or else it was an outcome.
LEMMA LossesExplain == IInv => LabelledUnlessLost
<1> SUFFICES ASSUME IInv, NEW a \in Actions, ~IsLabel(RootTarget(a))
             PROVE  \/ \E i \in Under(a) : tree[i].kind \in {"new", "fault", "oos", "limit"}
                    \/ Under(a) \cap OraclePruned # {}
                    \/ \E i \in Under(a) : ~Fresh(i) /\ i \notin proposed
  BY DEF LabelledUnlessLost
<1> USE DEF IInv
<1>1. Evaluated(a) /\ Candidate(a)
  BY DEF Actions, Evaluated
<1>2. CASE a \in FaultedActions
  <2>1. PICK f \in Under(a) : f \in Faults
    BY <1>1, <1>2, FaultBelow
  <2> QED BY <2>1 DEF Faults
<1>3. CASE a \notin FaultedActions
  <2> DEFINE last == Max(Below(a))
  <2>1. Below(a) # {} /\ Below(a) \in SUBSET (1 .. Len(tree)) /\ Len(tree) \in Nat
    BY <1>1, <1>3, TreeIsTyped DEF Evaluated, Below
  <2>2. last \in Below(a) /\ \A j \in Below(a) : last >= j
    BY <2>1, MaxIsLargest
  <2> HIDE DEF last
  <2>3. last \in Resolved /\ last \in Ids /\ tree[last].action = a /\ last \in Nat
    BY <2>2, TreeIsTyped DEF Below
  <2>4. last \in Under(a)
    BY <2>3, <1>1, SubtreeOfAnAction
  <2>5. ASSUME NEW j \in Ids, tree[j].parent = last PROVE tree[j].action = a /\ j > last
    <3>1. Hangs(j) /\ last # Root /\ j \in Nat
      BY <2>3, TreeIsTyped DEF TreeInv
    <3> QED BY <3>1, <2>3, <2>5 DEF Hangs
  <2>6. \A j \in Resolved : tree[j].parent # last
    <3>1. SUFFICES ASSUME NEW j \in Resolved, tree[j].parent = last PROVE FALSE
      OBVIOUS
    <3>2. j \in Ids /\ j \in Nat
      BY TreeIsTyped
    <3>3. j \in Below(a) /\ j > last
      BY <3>1, <3>2, <2>5 DEF Below
    <3> QED BY <3>2, <3>3, <2>2, <2>3
  <2>7. CASE last \in proposed
    <3>1. PICK j \in Ids : tree[j].parent = last
      BY <2>7 DEF ProposedInv
    <3>2. j \in Under(a) /\ j \notin Resolved
      BY <3>1, <2>5, <2>6, <1>1, SubtreeOfAnAction
    <3>3. tree[j].kind \in Kinds /\ tree[j].kind \notin Scored \cup {"cont"}
      BY <3>1, <3>2, TreeIsTyped DEF Resolved, NodeRecord
    <3> QED BY <3>2, <3>3 DEF Kinds, Outcomes
  <2>8. CASE last \notin proposed /\ ~Fresh(last)
    BY <2>4, <2>8
  <2>9. CASE last \notin proposed /\ Fresh(last)
    <3>1. Leaf(last)
      BY <2>6, <2>9 DEF Leaf
    <3>2. FinalLeaves(Below(a)) = {}
      BY <1>1, <1>3, RootLabels
    <3>3. last \in OraclePruned
      BY <3>1, <3>2, <2>2, <2>9 DEF FinalLeaves
    <3> QED BY <3>3, <2>4
  <2> QED BY <2>7, <2>8, <2>9
<1> QED BY <1>2, <1>3

\* build_oracle_targets: whatever was searched, no root action, frontier node or value
\* sample has a label if any branch below it faulted.
THEOREM NoFaultIsLabelled == Spec => []NoLabelAboveAFault
BY TargetsInvariant, CleanLabels, PTL

\* The labels of one search agree: a frontier node is worth no more than its root action,
\* and exactly as much if the action's best outcome lies below it, though of equally good
\* outcomes the two may name different ones.
THEOREM LabelsAlwaysAgree == Spec => []LabelsAgree
BY TargetsInvariant, AgreeingLabels, PTL

\* "avoiding direct self-imitation": a label is never a node's judgement of itself, nor
\* one of a node that was pruned or expanded.
THEOREM TeacherNeverImitatesItself == Spec => []NoSelfImitation
BY TargetsInvariant, NoImitation, PTL

\* A root action that was evaluated has a label unless something below it was lost.
THEOREM MissingLabelsHaveACause == Spec => []LabelledUnlessLost
BY TargetsInvariant, LossesExplain, PTL
=============================================================================
