-------------------------- MODULE BeamSearchProofs --------------------------
(***************************************************************************)
(* One search, for any limits, any batch and any failures: its books, the  *)
(* branches it relies on, the leaves it compares and what it leaves at the *)
(* server.                                                                 *)
(***************************************************************************)
EXTENDS BeamSearch, FiniteSetTheorems, TLAPS

NodeRec == [parent : Nat, kind : {"new", "stable", "spent", "cont", "oos", "term", "fault"},
            combat : Nat, cont : Nat, turn : Nat]

\* A branch is entered in the books when it is admitted, every list holds admitted
\* branches, and only branches still to be submitted are outside the books.
ListsInv ==
    /\ tree \in Seq(NodeRec)
    /\ beam \cup waiting \cup finished \cup settledIds \cup scored \cup todo
         \subseteq allIds \cup {Root}
    /\ got \cup retry \cup fresh \subseteq allIds
    /\ pending \cap allIds = {}
    /\ released \subseteq allIds /\ held = allIds \ released
    /\ retry # {} => attempt < MaxAttempts

\* A node of the frontier resolved to a decision with room for one more step.
Expandable(i) ==
    /\ Node(i).kind # "fault" /\ Node(i).combat <= MaxDepth
    /\ Node(i).kind # "cont" => Node(i).combat < MaxDepth
    /\ Node(i).kind = "cont" => Node(i).cont < MaxCont

LimitInv ==
    /\ \A i \in beam \cup waiting : Expandable(i)
    /\ \A i \in pending \cup retry \cup got \cup finished : Node(i).combat <= MaxDepth
    /\ \A i \in todo : HasEndTurn(i) /\ Node(i).combat <= MaxDepth

\* Between its proposal and its submission a frontier is waiting for room.
Fitting == stage = "fit" /\ pc \in {"settle", "settling", "settle_free", "release"}

\* Whatever the client, the branches the search needs are held: its frontier, the parents
\* of what it has yet to submit or to retry, the results of the ply, and the leaves that
\* were not tried yet.
NeededInv ==
    /\ pc # "done" => beam \cup waiting \subseteq held \cup {Root}
    /\ Fitting \/ pc = "emulate" => \A b \in pending \cup retry : tree[b].parent \in beam
    /\ Fitting => got = {} /\ retry = {}
    /\ pc \in {"emulate", "score"} => got \subseteq held
    /\ pc = "settle_free" => fresh \cap (beam \cup waiting \cup finished \cup todo) = {}
    /\ Boundary /\ pc \notin {"cancel", "free", "done"} =>
         \A i \in todo \cup (finished \ settledIds) : SettleAction(i) => i \in held

\* The phases of settling: nothing is to be settled outside it, and what was a leaf when
\* it began counts as tried.
SettlingInv ==
    /\ pc \notin {"settling", "settle_free"} /\ error = "none" => todo = {}
    /\ pc \notin {"settling", "settle_free", "cancel", "free", "done"} => todo = {}
    /\ pc \in {"settle", "settling", "settle_free"} => Boundary
    /\ pc = "align" => setup.rule = "turn_aligned"
    /\ stage = "root" => pc \in {"settle", "settling", "settle_free", "cancel", "free", "done"}
    /\ pc = "release" => stage \in {"fit", "ply"}
    /\ Boundary /\ pc \in {"settling", "settle_free", "release"} => finished \subseteq settledIds
    /\ Boundary /\ pc = "settle" /\ stage = "root" => finished \subseteq settledIds

\* A tried leaf has its score past the turn boundary, or is in line for it, as long as
\* nothing has gone wrong.
LeavesInv ==
    Boundary /\ ~mishap /\ clock = "early" /\ error = "none" =>
      /\ \A i \in settledIds : SettleAction(i) => i \in scored \cup todo
      /\ stage = "root" /\ pc \in {"settling", "settle_free"} /\ HasEndTurn(Root) =>
           Root \in scored \cup todo
      /\ pc \in {"cancel", "free", "done"} =>
           /\ finished \subseteq settledIds \cup {Root}
           /\ HasEndTurn(Root) => Root \in scored

\* The slots in use: in a Whole Run instance only the frontier is held when a ply begins,
\* and a fitted frontier leaves room for every branch it has yet to submit or to retry.
RoomInv ==
    WholeRun =>
      /\ pc = "ply" => held \subseteq beam \cup waiting
      /\ Fitting => Cardinality(beam \ {Root}) + Cardinality(waiting)
                      + Cardinality(pending) <= Capacity
      /\ pc = "emulate" => Cardinality(Live \ finished) + Cardinality(pending)
                             + Cardinality(retry) <= Capacity

\* The clean-up goes as far as releasing only with a usable client, and the client is
\* unusable only after a failed call.
CleanInv ==
    /\ client # "ok" => mishap
    /\ pc = "done" /\ ~mishap /\ clock # "over" => held = {}

IInv == /\ TypeOK /\ ListsInv /\ LimitInv /\ NeededInv /\ SettlingInv /\ LeavesInv
        /\ RoomInv /\ CleanInv

----------------------------------------------------------------------------
(* The model's operators.                                                  *)

LEMMA MinOfTwo ==
  ASSUME NEW a \in Int, NEW b \in Int
  PROVE  Min({a, b}) \in {a, b} /\ Min({a, b}) <= a /\ Min({a, b}) <= b
<1>1. \E x \in {a, b} : \A y \in {a, b} : x <= y
  <2>1. CASE a <= b
    BY <2>1
  <2>2. CASE b <= a
    BY <2>2
  <2> QED
    BY <2>1, <2>2
<1> QED
  BY <1>1 DEF Min

LEMMA MaxOfTwo ==
  ASSUME NEW a \in Int, NEW b \in Int
  PROVE  Max({a, b}) \in {a, b} /\ Max({a, b}) >= a /\ Max({a, b}) >= b
<1>1. \E x \in {a, b} : \A y \in {a, b} : x >= y
  <2>1. CASE a >= b
    BY <2>1
  <2>2. CASE b >= a
    BY <2>2
  <2> QED
    BY <2>1, <2>2
<1> QED
  BY <1>1 DEF Max

\* A choice of at most n members is a subset, with no more than n of them.
LEMMA AtMostIsSubset ==
  ASSUME NEW n, NEW S, NEW T \in AtMost(n, S)
  PROVE  T \subseteq S
BY DEF AtMost, kSubset

LEMMA AtMostIsBounded ==
  ASSUME NEW n \in Int, NEW S, IsFiniteSet(S), NEW T \in AtMost(n, S)
  PROVE  Cardinality(T) <= n /\ Cardinality(T) \in Nat
<1>1. Cardinality(S) \in Nat
  BY FS_CardinalityType
<1>2. Cardinality(T) = Min({n, Cardinality(S)})
  BY DEF AtMost, kSubset
<1>3. IsFiniteSet(T)
  BY AtMostIsSubset, FS_Subset
<1>4. Cardinality(T) <= n
  BY <1>1, <1>2, MinOfTwo
<1> QED
  BY <1>3, <1>4, FS_CardinalityType

\* A relation that puts the members of S in one line.
Orders(S, precedes) ==
    /\ \A x \in S : <<x, x>> \notin precedes
    /\ \A x, y, z \in S : <<x, y>> \in precedes /\ <<y, z>> \in precedes
                            => <<x, z>> \in precedes
    /\ \A x, y \in S : x # y => <<x, y>> \in precedes \/ <<y, x>> \in precedes

\* Every place of the line is somebody's, so InOrder lists members of S only.
LEMMA InOrderIsInSet ==
  ASSUME NEW S, IsFiniteSet(S), NEW precedes, Orders(S, precedes),
         NEW k \in 1 .. Cardinality(S)
  PROVE  InOrder(S, precedes)[k] \in S
<1> DEFINE n == Cardinality(S)
           Before(x) == {y \in S : <<y, x>> \in precedes}
           rank == [x \in S |-> Rank(S, precedes, x)]
<1>1. n \in Nat /\ IsFiniteSet(0 .. n - 1) /\ Cardinality(0 .. n - 1) = n
  <2>1. n \in Nat
    BY FS_CardinalityType
  <2> HIDE DEF n
  <2> QED
    BY <2>1, FS_Interval
<1>2. \A x \in S : /\ IsFiniteSet(Before(x)) /\ Before(x) \in SUBSET S
                   /\ Rank(S, precedes, x) = Cardinality(Before(x))
                   /\ Rank(S, precedes, x) \in Nat
  BY FS_Subset, FS_CardinalityType DEF Rank
<1>3. \A x \in S : Rank(S, precedes, x) \in 0 .. n - 1
  <2> TAKE x \in S
  <2>1. x \notin Before(x) /\ x \in S
    BY DEF Orders
  <2>2. Cardinality(Before(x)) <= n /\ (n = Cardinality(Before(x)) => S = Before(x))
    BY <1>2, FS_Subset
  <2> HIDE DEF Before
  <2> QED
    BY <1>1, <1>2, <2>1, <2>2
<1>4. \A x, y \in S : <<x, y>> \in precedes => Rank(S, precedes, x) < Rank(S, precedes, y)
  <2> SUFFICES ASSUME NEW x \in S, NEW y \in S, <<x, y>> \in precedes
               PROVE  Rank(S, precedes, x) < Rank(S, precedes, y)
    OBVIOUS
  <2>1. Before(x) \in SUBSET Before(y) /\ x \in Before(y) /\ x \notin Before(x)
    BY DEF Orders
  <2>2. /\ Cardinality(Before(x)) <= Cardinality(Before(y))
        /\ Cardinality(Before(y)) = Cardinality(Before(x)) => Before(y) = Before(x)
    BY <1>2, <2>1, FS_Subset
  <2> HIDE DEF Before
  <2> QED
    BY <1>2, <2>1, <2>2
<1>5. \A x, y \in S : x # y => Rank(S, precedes, x) # Rank(S, precedes, y)
  <2> SUFFICES ASSUME NEW x \in S, NEW y \in S, x # y
               PROVE  Rank(S, precedes, x) # Rank(S, precedes, y)
    OBVIOUS
  <2>1. <<x, y>> \in precedes \/ <<y, x>> \in precedes
    BY DEF Orders
  <2>2. \/ Rank(S, precedes, x) < Rank(S, precedes, y)
        \/ Rank(S, precedes, y) < Rank(S, precedes, x)
    BY <1>4, <2>1
  <2>3. Rank(S, precedes, x) \in Nat /\ Rank(S, precedes, y) \in Nat
    BY <1>2
  <2> QED
    BY <2>2, <2>3
<1>6. rank \in Injection(S, 0 .. n - 1)
  BY <1>3, <1>5 DEF Injection, IsInjective
<1>7. rank \in Surjection(S, 0 .. n - 1)
  <2> HIDE DEF rank
  <2> QED
    BY <1>1, <1>6, FS_Injection
<1>8. k - 1 \in 0 .. n - 1
  BY <1>1
<1>9. \E x \in S : rank[x] = k - 1
  <2> HIDE DEF rank
  <2> QED
    BY <1>7, <1>8 DEF Surjection
<1> QED
  BY <1>9 DEF InOrder

LEMMA SortedIsInSet ==
  ASSUME NEW S, S \subseteq Int, IsFiniteSet(S), NEW k \in 1 .. Cardinality(S)
  PROVE  Sorted(S)[k] \in S
<1>1. Orders(S, Less(S))
  BY DEF Orders, Less
<1> QED
  BY <1>1, InOrderIsInSet DEF Sorted

\* What a frontier takes is a finite set of candidates, those of the nodes it keeps.
LEMMA TakenIsFinite ==
  ASSUME NEW open, IsFiniteSet(open), NEW take \in [open -> 0 .. TopK]
  PROVE  IsFiniteSet(Taken(take)) /\ SumTake(take) \in Nat
<1>1. IsFiniteSet(1 .. TopK)
  BY BeamAssumption, FS_Interval
<1>2. IsFiniteSet(open \X (1 .. TopK))
  BY <1>1, FS_Product
<1>3. Taken(take) \in SUBSET (open \X (1 .. TopK))
  BY DEF Taken
<1>4. IsFiniteSet(Taken(take))
  BY <1>2, <1>3, FS_Subset
<1> QED
  BY <1>4, FS_CardinalityType DEF SumTake

LEMMA SubmittedIsKept ==
  ASSUME NEW open, open \subseteq Int, IsFiniteSet(open), NEW take \in [open -> 0 .. TopK],
         NEW k \in 1 .. SumTake(take)
  PROVE  Submitted(take)[k] \in {n \in open : take[n] > 0}
<1> DEFINE C == Taken(take)
<1>1. \A c \in C : c \in open \X (1 .. TopK) /\ c[2] <= take[c[1]]
  BY DEF Taken
<1>2. Orders(C, BeamOrder(C))
  <2>1. \A c \in C : c[1] \in Int /\ c[2] \in Int /\ c = <<c[1], c[2]>>
    BY <1>1, BeamAssumption
  <2> HIDE DEF C
  <2>2. \A x, y \in C : <<x, y>> \in BeamOrder(C)
                          <=> x[1] < y[1] \/ (x[1] = y[1] /\ x[2] < y[2])
    BY DEF BeamOrder
  <2>3. \A x \in C : <<x, x>> \notin BeamOrder(C)
    BY <2>1, <2>2
  <2>4. \A x, y, z \in C : <<x, y>> \in BeamOrder(C) /\ <<y, z>> \in BeamOrder(C)
                             => <<x, z>> \in BeamOrder(C)
    BY <2>1, <2>2
  <2>5. \A x, y \in C : x # y => <<x, y>> \in BeamOrder(C) \/ <<y, x>> \in BeamOrder(C)
    <3> SUFFICES ASSUME NEW x \in C, NEW y \in C, x # y
                 PROVE  <<x, y>> \in BeamOrder(C) \/ <<y, x>> \in BeamOrder(C)
      OBVIOUS
    <3>1. x[1] # y[1] \/ x[2] # y[2]
      BY <2>1
    <3> QED
      BY <2>1, <2>2, <3>1
  <2> QED
    BY <2>3, <2>4, <2>5 DEF Orders
<1>3. InOrder(C, BeamOrder(C))[k] \in C
  <2> HIDE DEF C
  <2>1. IsFiniteSet(C) /\ k \in 1 .. Cardinality(C)
    BY TakenIsFinite DEF C, SumTake
  <2> QED
    BY <1>2, <2>1, InOrderIsInSet
<1>4. Submitted(take)[k] = InOrder(C, BeamOrder(C))[k][1]
  BY DEF Submitted
<1>5. \A c \in C : c[1] \in open /\ take[c[1]] > 0
  <2> TAKE c \in C
  <2>1. c[1] \in open /\ c[2] \in 1 .. TopK /\ c[2] <= take[c[1]]
    BY <1>1
  <2>2. TopK \in Nat /\ take[c[1]] \in 0 .. TopK
    BY <2>1, BeamAssumption
  <2> QED
    BY <2>1, <2>2
<1> HIDE DEF C
<1> QED
  BY <1>3, <1>4, <1>5

\* What the assumption on the constants says of the search at hand.
LEMMA InstanceFacts ==
  ASSUME setup \in Setups
  PROVE  /\ Capacity \in Nat \ {0} /\ BatchSize \in Nat \ {0}
         /\ setup.kinds \subseteq {"stable", "spent", "next", "cont", "oos", "term"}
         /\ setup.root \in {"stable", "spent", "cont"}
         /\ setup.rule \in {"plain", "turn_aligned", "turn_boundary"}
<1>1. setup \in [instance : {"combat", "whole_run"}, capacity : Nat \ {0},
                 rule : {"plain", "turn_aligned", "turn_boundary"},
                 root : {"stable", "spent", "cont"},
                 kinds : SUBSET {"stable", "spent", "next", "cont", "oos", "term"},
                 failures : SUBSET {"rejected", "invalid", "unsent", "lost", "faulted",
                                    "branch"}]
  BY BeamAssumption
<1>2. Capacity \in Nat \ {0} /\ MaxBatch \in Nat \ {0}
  BY <1>1, BeamAssumption DEF Capacity
<1>3. BatchSize \in Nat \ {0}
  BY <1>2, MinOfTwo DEF BatchSize
<1> QED
  BY <1>1, <1>2, <1>3

LEMMA SetupFacts ==
  ASSUME TypeOK
  PROVE  /\ Capacity \in Nat \ {0} /\ BatchSize \in Nat \ {0}
         /\ setup.kinds \subseteq {"stable", "spent", "next", "cont", "oos", "term"}
         /\ setup.root \in {"stable", "spent", "cont"}
         /\ setup.rule \in {"plain", "turn_aligned", "turn_boundary"}
BY InstanceFacts DEF TypeOK

\* The sets a search keeps are finite sets of integers.
LEMMA ListsAreFinite ==
  ASSUME TypeOK, NEW S, S \subseteq 0 .. Len(tree), tree \in Seq(NodeRec)
  PROVE  IsFiniteSet(S) /\ S \subseteq Int /\ Cardinality(S) \in Nat
<1>1. Len(tree) \in Nat
  OBVIOUS
<1>2. IsFiniteSet(0 .. Len(tree)) /\ S \in SUBSET (0 .. Len(tree))
  BY <1>1, FS_Interval
<1>3. IsFiniteSet(S)
  BY <1>2, FS_Subset
<1> QED
  BY <1>3, FS_CardinalityType

LEMMA NodeIsRecord ==
  ASSUME TypeOK, tree \in Seq(NodeRec), NEW i \in 0 .. Len(tree)
  PROVE  /\ Node(i) \in NodeRec
         /\ i # Root => Node(i) = tree[i]
         /\ Node(i).combat <= MaxDepth + 1 /\ Node(i).cont <= MaxCont + 1
<1>1. CASE i = Root
  <2>1. Node(i) = [parent |-> 0, kind |-> setup.root, combat |-> 0, cont |-> 0, turn |-> 0]
    BY <1>1 DEF Node, Root
  <2>2. setup.root \in {"stable", "spent", "cont"} /\ MaxDepth \in Nat /\ MaxCont \in Nat
    BY SetupFacts, BeamAssumption
  <2> QED
    BY <1>1, <2>1, <2>2 DEF NodeRec
<1>2. CASE i # Root
  <2>1. i \in 1 .. Len(tree) /\ Node(i) = tree[i]
    BY <1>2 DEF Node, Root
  <2>2. tree[i] \in NodeRec
    BY <2>1
  <2>3. tree[i].combat \in 0 .. MaxDepth + 1 /\ tree[i].cont \in 0 .. MaxCont + 1
    BY <2>1 DEF TypeOK
  <2> QED
    BY <2>1, <2>2, <2>3, BeamAssumption
<1> QED
  BY <1>1, <1>2

LEMMA ChildIsRecord ==
  ASSUME TypeOK, tree \in Seq(NodeRec), NEW i \in 0 .. Len(tree), Node(i).combat <= MaxDepth,
         Node(i).kind = "cont" => Node(i).cont <= MaxCont
  PROVE  /\ Child(i) \in NodeRec /\ Child(i).parent = i
         /\ Child(i).combat <= MaxDepth + 1 /\ Child(i).cont <= MaxCont + 1
         /\ Expandable(i) => Child(i).combat <= MaxDepth
<1>1. /\ Node(i).kind \in {"new", "stable", "spent", "cont", "oos", "term", "fault"}
      /\ Node(i).combat \in Nat /\ Node(i).cont \in Nat /\ Node(i).turn \in Nat
  BY NodeIsRecord DEF NodeRec
<1>2. MaxDepth \in Nat /\ MaxCont \in Nat /\ Len(tree) \in Nat
  BY BeamAssumption
<1>3. CASE Node(i).kind = "cont"
  <2>1. Child(i) = [parent |-> i, kind |-> "new", turn |-> Node(i).turn,
                    combat |-> Node(i).combat, cont |-> Node(i).cont + 1]
    BY <1>3 DEF Child
  <2> QED
    BY <1>1, <1>2, <1>3, <2>1 DEF NodeRec, Expandable
<1>4. CASE Node(i).kind # "cont"
  <2>1. Child(i) = [parent |-> i, kind |-> "new", turn |-> Node(i).turn,
                    combat |-> Node(i).combat + 1, cont |-> 0]
    BY <1>4 DEF Child
  <2> QED
    BY <1>1, <1>2, <1>4, <2>1 DEF NodeRec, Expandable
<1> QED
  BY <1>3, <1>4

LEMMA ResolveIsRecord ==
  ASSUME NEW n \in NodeRec, NEW kind \in {"stable", "spent", "next", "cont", "oos", "term",
                                          "fault"}
  PROVE  /\ Resolve(n, kind) \in NodeRec
         /\ Resolve(n, kind).parent = n.parent /\ Resolve(n, kind).combat = n.combat
         /\ Resolve(n, kind).cont = n.cont
         /\ Resolve(n, kind).kind = "fault" <=> kind = "fault"
<1>1. CASE kind = "next"
  <2>1. Resolve(n, kind) = [n EXCEPT !.kind = "stable", !.turn = n.turn + 1]
    BY <1>1 DEF Resolve
  <2> DEFINE m == [n EXCEPT !.kind = "stable"]
  <2>2. [n EXCEPT !.kind = "stable", !.turn = n.turn + 1] = [m EXCEPT !.turn = n.turn + 1]
    OBVIOUS
  <2>3. /\ m \in NodeRec /\ m.kind = "stable" /\ m.parent = n.parent
        /\ m.combat = n.combat /\ m.cont = n.cont /\ n.turn + 1 \in Nat
    BY DEF NodeRec
  <2> HIDE DEF m
  <2>4. [m EXCEPT !.turn = n.turn + 1] \in NodeRec
    BY <2>3 DEF NodeRec
  <2>5. /\ [m EXCEPT !.turn = n.turn + 1].parent = m.parent
        /\ [m EXCEPT !.turn = n.turn + 1].combat = m.combat
        /\ [m EXCEPT !.turn = n.turn + 1].cont = m.cont
        /\ [m EXCEPT !.turn = n.turn + 1].kind = m.kind
    BY <2>3 DEF NodeRec
  <2> QED
    BY <1>1, <2>1, <2>2, <2>3, <2>4, <2>5
<1>2. CASE kind # "next"
  <2>1. Resolve(n, kind) = [n EXCEPT !.kind = kind]
    BY <1>2 DEF Resolve
  <2>2. kind \in {"stable", "spent", "cont", "oos", "term", "fault"}
    BY <1>2
  <2>3. [n EXCEPT !.kind = kind] \in NodeRec
    BY <2>2 DEF NodeRec
  <2>4. [n EXCEPT !.kind = kind].kind = kind
    BY DEF NodeRec
  <2> QED
    BY <2>1, <2>3, <2>4 DEF NodeRec
<1> QED
  BY <1>1, <1>2

\* Nodes appended to the tree leave the others where they are.
LEMMA TreeGrows ==
  ASSUME NEW T \in Seq(NodeRec), NEW n \in Nat, NEW new \in [1 .. n -> NodeRec]
  PROVE  /\ T \o new \in Seq(NodeRec) /\ Len(T \o new) = Len(T) + n
         /\ \A i \in 1 .. Len(T) : (T \o new)[i] = T[i]
         /\ \A i \in Len(T) + 1 .. Len(T) + n : /\ i - Len(T) \in 1 .. n
                                                /\ (T \o new)[i] = new[i - Len(T)]
<1>1. new \in Seq(NodeRec) /\ Len(new) = n
  OBVIOUS
<1> QED
  BY <1>1

----------------------------------------------------------------------------
(* What the steps do to the tree.                                          *)

\* The part of TypeOK about the nodes.
TreeOK ==
    \A i \in 1 .. Len(tree) :
      /\ tree[i].parent \in 0 .. i - 1 /\ tree[i].turn \in Nat
      /\ tree[i].kind \in {"new", "stable", "spent", "cont", "oos", "term", "fault"}
      /\ tree[i].combat \in 0 .. MaxDepth + 1 /\ tree[i].cont \in 0 .. MaxCont + 1

\* Every node keeps its record, except those of `changed`.
Keeps(changed) ==
    /\ tree' \in Seq(NodeRec) /\ Len(tree') >= Len(tree)
    /\ TreeOK'
    /\ \A i \in (0 .. Len(tree)) \ changed : Node(i)' = Node(i)

LEMMA SameTree ==
  ASSUME TypeOK, tree \in Seq(NodeRec), tree' = tree, setup' = setup
  PROVE  Keeps({})
<1>1. TreeOK'
  BY DEF TreeOK, TypeOK
<1> QED
  BY <1>1 DEF Keeps, Node

LEMMA Grows ==
  ASSUME TypeOK, tree \in Seq(NodeRec), setup' = setup,
         NEW n \in Nat, NEW new \in [1 .. n -> NodeRec], tree' = tree \o new,
         \A k \in 1 .. n : /\ new[k].parent \in 0 .. Len(tree)
                           /\ new[k].combat <= MaxDepth + 1 /\ new[k].cont <= MaxCont + 1
  PROVE  /\ Keeps({}) /\ Len(tree') = Len(tree) + n
         /\ \A b \in Ids(n) : /\ Node(b)' = tree'[b]
                              /\ b - Len(tree) \in 1 .. n /\ tree'[b] = new[b - Len(tree)]
<1>1. Len(tree) \in Nat /\ MaxDepth \in Nat /\ MaxCont \in Nat
  BY BeamAssumption
<1>2. /\ tree' \in Seq(NodeRec) /\ Len(tree') = Len(tree) + n
      /\ \A i \in 1 .. Len(tree) : tree'[i] = tree[i]
      /\ \A i \in Len(tree) + 1 .. Len(tree) + n :
           i - Len(tree) \in 1 .. n /\ tree'[i] = new[i - Len(tree)]
  BY TreeGrows
<1>3. TreeOK'
  <2> SUFFICES ASSUME NEW i \in 1 .. Len(tree')
               PROVE  /\ tree'[i].parent \in 0 .. i - 1 /\ tree'[i].turn \in Nat
                      /\ tree'[i].kind \in {"new", "stable", "spent", "cont", "oos", "term",
                                            "fault"}
                      /\ tree'[i].combat \in 0 .. MaxDepth + 1
                      /\ tree'[i].cont \in 0 .. MaxCont + 1
    BY DEF TreeOK
  <2>1. CASE i \in 1 .. Len(tree)
    BY <1>2, <2>1 DEF TypeOK
  <2>2. CASE i \in Len(tree) + 1 .. Len(tree) + n
    <3>1. i - Len(tree) \in 1 .. n /\ tree'[i] = new[i - Len(tree)]
      BY <1>2, <2>2
    <3> DEFINE m == new[i - Len(tree)]
    <3>2. /\ m \in NodeRec /\ m.parent \in 0 .. Len(tree)
          /\ m.combat <= MaxDepth + 1 /\ m.cont <= MaxCont + 1
      BY <3>1
    <3> HIDE DEF m
    <3>3. /\ m.parent \in 0 .. i - 1 /\ m.turn \in Nat
          /\ m.combat \in 0 .. MaxDepth + 1 /\ m.cont \in 0 .. MaxCont + 1
          /\ m.kind \in {"new", "stable", "spent", "cont", "oos", "term", "fault"}
      BY <1>1, <2>2, <3>2 DEF NodeRec
    <3> QED
      BY <3>1, <3>3 DEF m
  <2> QED
    BY <1>1, <1>2, <2>1, <2>2
<1>4. \A i \in 0 .. Len(tree) : Node(i)' = Node(i)
  BY <1>1, <1>2 DEF Node, Root
<1>5. \A b \in Ids(n) : Node(b)' = tree'[b]
  BY <1>1 DEF Ids, Node, Root
<1>6. Keeps({})
  BY <1>1, <1>2, <1>3, <1>4 DEF Keeps
<1> QED
  BY <1>2, <1>5, <1>6 DEF Ids

\* The children of expandable nodes, appended in any order.
LEMMA ChildrenGrow ==
  ASSUME TypeOK, tree \in Seq(NodeRec), setup' = setup,
         NEW P, P \subseteq 0 .. Len(tree), \A p \in P : Expandable(p),
         NEW n \in Nat, NEW parents, parents = [k \in 1 .. n |-> parents[k]],
         \A k \in 1 .. n : parents[k] \in P,
         tree' = tree \o Children(parents)
  PROVE  /\ Keeps({}) /\ Len(tree') = Len(tree) + n
         /\ \A b \in Ids(n) : /\ tree'[b].parent \in P
                              /\ Node(b)' = tree'[b] /\ Node(b)'.combat <= MaxDepth
<1> DEFINE new == Children(parents)
<1>1. DOMAIN parents = 1 .. n
  OBVIOUS
<1>2. \A k \in 1 .. n : new[k] = Child(parents[k])
  BY <1>1 DEF Children
<1>3. \A p \in P : /\ Child(p) \in NodeRec /\ Child(p).parent = p
                   /\ Child(p).combat <= MaxDepth /\ Child(p).combat <= MaxDepth + 1
                   /\ Child(p).cont <= MaxCont + 1
  <2> TAKE p \in P
  <2>1. Node(p) \in NodeRec /\ MaxCont \in Nat /\ MaxDepth \in Nat
    BY NodeIsRecord, BeamAssumption
  <2>2. Node(p).combat <= MaxDepth /\ (Node(p).kind = "cont" => Node(p).cont <= MaxCont)
    BY <2>1 DEF Expandable, NodeRec
  <2> QED
    BY <2>2, ChildIsRecord
<1>4. new = [k \in 1 .. n |-> Child(parents[k])]
  BY <1>1 DEF Children
<1>5. new \in [1 .. n -> NodeRec]
  BY <1>3, <1>4
<1> HIDE DEF new
<1>6. tree' = tree \o new
  BY DEF new
<1>7. \A k \in 1 .. n : /\ new[k].parent \in 0 .. Len(tree)
                        /\ new[k].combat <= MaxDepth + 1 /\ new[k].cont <= MaxCont + 1
  BY <1>2, <1>3
<1>8. /\ Keeps({}) /\ Len(tree') = Len(tree) + n
      /\ \A b \in Ids(n) : /\ Node(b)' = tree'[b]
                           /\ b - Len(tree) \in 1 .. n /\ tree'[b] = new[b - Len(tree)]
  BY <1>5, <1>6, <1>7, Grows
<1>9. ASSUME NEW b \in Ids(n)
      PROVE  tree'[b].parent \in P /\ Node(b)' = tree'[b] /\ Node(b)'.combat <= MaxDepth
  <2> DEFINE p == parents[b - Len(tree)]
  <2>1. Node(b)' = tree'[b] /\ tree'[b] = Child(p) /\ p \in P
    BY <1>2, <1>8
  <2> HIDE DEF p
  <2>2. Child(p).parent \in P /\ Child(p).combat <= MaxDepth
    BY <1>3, <2>1
  <2> QED
    BY <2>1, <2>2
<1> QED
  BY <1>8, <1>9

\* The branches that end the turn of a set of leaves.
LEMMA EndTurnsGrow ==
  ASSUME TypeOK, tree \in Seq(NodeRec), setup' = setup,
         NEW S, S \subseteq 0 .. Len(tree),
         \A i \in S : HasEndTurn(i) /\ Node(i).combat <= MaxDepth,
         NEW outcome, \A k \in 1 .. Cardinality(S) : outcome[k] \in {"fault", "next"},
         tree' = tree \o [k \in 1 .. Cardinality(S) |->
                            Resolve(Child(Sorted(S)[k]), outcome[k])]
  PROVE  Keeps({}) /\ Len(tree') = Len(tree) + Cardinality(S)
<1> DEFINE n == Cardinality(S)
           new == [k \in 1 .. n |-> Resolve(Child(Sorted(S)[k]), outcome[k])]
<1>1. IsFiniteSet(S) /\ S \subseteq Int /\ n \in Nat
  BY ListsAreFinite
<1>2. \A k \in 1 .. n : Sorted(S)[k] \in S
  BY <1>1, SortedIsInSet
<1>3. \A i \in S : /\ Child(i) \in NodeRec /\ Child(i).parent = i
                   /\ Child(i).combat <= MaxDepth + 1 /\ Child(i).cont <= MaxCont + 1
  BY ChildIsRecord DEF HasEndTurn
<1>4. \A k \in 1 .. n : /\ new[k] \in NodeRec /\ new[k].parent \in 0 .. Len(tree)
                        /\ new[k].combat <= MaxDepth + 1 /\ new[k].cont <= MaxCont + 1
  <2> TAKE k \in 1 .. n
  <2> DEFINE c == Child(Sorted(S)[k])
  <2>1. /\ c \in NodeRec /\ c.parent \in 0 .. Len(tree)
        /\ c.combat <= MaxDepth + 1 /\ c.cont <= MaxCont + 1
    BY <1>2, <1>3
  <2>2. outcome[k] \in {"stable", "spent", "next", "cont", "oos", "term", "fault"}
    OBVIOUS
  <2>3. new[k] = Resolve(c, outcome[k])
    OBVIOUS
  <2> HIDE DEF c, new
  <2> QED
    BY <2>1, <2>2, <2>3, ResolveIsRecord
<1>5. new \in [1 .. n -> NodeRec]
  BY <1>4
<1> HIDE DEF new
<1>6. tree' = tree \o new
  BY DEF new
<1> QED
  BY <1>1, <1>4, <1>5, <1>6, Grows

----------------------------------------------------------------------------
(* What the steps that change the tree do.                                 *)

\* A frontier was proposed and fitted: some of the old one, with its children to submit.
Proposed ==
    /\ Keeps({})
    /\ pending' \cap (0 .. Len(tree)) = {} /\ pending' \subseteq 1 .. Len(tree')
    /\ beam' \subseteq beam /\ waiting' \subseteq waiting
    /\ finished \subseteq finished' /\ finished' \subseteq finished \cup beam \cup waiting
    /\ \A b \in pending' : tree'[b].parent \in beam' /\ Node(b)'.combat <= MaxDepth
    /\ retry' = {} /\ got' = {} /\ attempt' = 1 /\ fatal' = "none"
    /\ stage' = "fit" /\ pc' \in {"emulate", BeforeRelease}
    /\ WholeRun => Cardinality(beam' \ {Root}) + Cardinality(waiting')
                     + Cardinality(pending') <= Capacity
    /\ pc' = "emulate" => beam \cup waiting \subseteq finished' \cup beam' \cup waiting'

NothingProposed ==
    /\ beam' = {} /\ waiting' = waiting /\ pc' = "leaves" /\ stage' = stage
    /\ finished \subseteq finished' /\ finished' \subseteq finished \cup beam
    /\ UNCHANGED <<tree, batch>>

\* A fitted frontier, its waiting siblings and its children do not exceed the budget.
LEMMA FitsCapacity ==
  ASSUME TypeOK, tree \in Seq(NodeRec), WholeRun, NEW open, open \subseteq 0 .. Len(tree),
         NEW offer, NEW take \in [open -> 0 .. TopK], Fits(offer, take),
         NEW keep, KeepsWaiting(take, keep)
  PROVE  Cardinality({n \in open : take[n] > 0} \ {Root}) + Cardinality(keep)
           + SumTake(take) <= Capacity
<1> DEFINE kept == {n \in open : take[n] > 0} \ {Root}
           c == Cardinality(kept)
           s == SumTake(take)
<1>1. IsFiniteSet(open) /\ IsFiniteSet(kept) /\ c \in Nat
  BY ListsAreFinite
<1>2. s \in Nat /\ Capacity \in Nat
  BY <1>1, TakenIsFinite, SetupFacts
<1>3. c + s <= Capacity
  BY DEF Fits
<1>4. IsFiniteSet(waiting) /\ waiting \subseteq 0 .. Len(tree)
  <2>1. waiting \subseteq 0 .. Len(tree)
    BY DEF TypeOK
  <2> QED
    BY <2>1, ListsAreFinite
<1>5. keep \in AtMost(Max({0, Capacity - c - s}), waiting)
  BY DEF KeepsWaiting
<1> HIDE DEF c, s, kept
<1>6. Max({0, Capacity - c - s}) \in Int /\ Max({0, Capacity - c - s}) <= Capacity - c - s
  <2> DEFINE x == Capacity - c - s
  <2>1. x \in Int /\ 0 <= x
    BY <1>1, <1>2, <1>3
  <2> HIDE DEF x
  <2>2. Max({0, x}) \in {0, x}
    <3>1. 0 \in Int
      OBVIOUS
    <3> QED
      BY <2>1, <3>1, MaxOfTwo, Zenon
  <2>3. Max({0, x}) \in Int /\ Max({0, x}) <= x
    BY <2>1, <2>2
  <2> QED
    BY <2>3 DEF x
<1>7. Cardinality(keep) <= Max({0, Capacity - c - s}) /\ Cardinality(keep) \in Nat
  BY <1>4, <1>5, <1>6, AtMostIsBounded
<1>8. c + Cardinality(keep) + s <= Capacity
  BY <1>1, <1>2, <1>6, <1>7
<1> QED
  BY <1>8 DEF c, s, kept

LEMMA ProposeEffect ==
  ASSUME TypeOK, ListsInv, LimitInv, Propose
  PROVE  /\ Proposed \/ NothingProposed
         /\ UNCHANGED <<setup, settle, books, env, error>>
<1>0. UNCHANGED <<setup, settle, books, env, error>>
  BY DEF Propose, ctl
<1>1. PICK offer \in [{n \in beam : Searchable(n)} -> 0 .. TopK] :
        /\ \A n \in DOMAIN offer : offer[n] \in Candidates(n)
        /\ LET open == {n \in DOMAIN offer : offer[n] > 0}
               left == {n \in beam \ open : MacroResolved(n)}
           IN  IF open = {}
                 THEN /\ beam' = {}
                      /\ finished' = finished \cup left
                      /\ Break(IF DOMAIN offer = {} THEN "not_beam_searchable"
                                                    ELSE "no_candidates")
                      /\ UNCHANGED <<ctl, tree, waiting, batch>>
                 ELSE \E take \in [open -> 0 .. TopK], keep \in SUBSET waiting :
                        /\ Fits(offer, take) /\ KeepsWaiting(take, keep)
                        /\ Len(tree) + SumTake(take) <= MaxIds
                        /\ beam' = {n \in open : take[n] > 0}
                        /\ waiting' = keep
                        /\ finished' = finished \cup left
                             \cup {n \in (open \ beam') \cup (waiting \ keep) : MacroResolved(n)}
                        /\ tree' = tree \o Children(Submitted(take))
                        /\ pending' = Ids(SumTake(take))
                        /\ retry' = {} /\ got' = {} /\ attempt' = 1 /\ fatal' = "none"
                        /\ stage' = "fit"
                        /\ pc' = IF (\E n \in open : take[n] < offer[n]) \/ keep # waiting
                                   THEN BeforeRelease
                                   ELSE "emulate"
                        /\ UNCHANGED <<setup, depths, reason>>
  BY DEF Propose
<1> DEFINE open == {n \in DOMAIN offer : offer[n] > 0}
           left == {n \in beam \ open : MacroResolved(n)}
<1>2. open \subseteq beam /\ left \subseteq beam
  OBVIOUS
<1>3. CASE open = {}
  <2>1. /\ beam' = {} /\ finished' = finished \cup left /\ pc' = "leaves"
        /\ UNCHANGED <<ctl, tree, waiting, batch>>
    BY <1>1, <1>3 DEF Break
  <2> HIDE DEF open, left
  <2>2. NothingProposed
    BY <1>2, <2>1 DEF NothingProposed, ctl
  <2> QED
    BY <1>0, <2>2
<1>4. CASE open # {}
  <2>1. PICK take \in [open -> 0 .. TopK], keep \in SUBSET waiting :
          /\ Fits(offer, take) /\ KeepsWaiting(take, keep)
          /\ beam' = {n \in open : take[n] > 0}
          /\ waiting' = keep
          /\ finished' = finished \cup left
               \cup {n \in (open \ beam') \cup (waiting \ keep) : MacroResolved(n)}
          /\ tree' = tree \o Children(Submitted(take))
          /\ pending' = Ids(SumTake(take))
          /\ retry' = {} /\ got' = {} /\ attempt' = 1 /\ fatal' = "none"
          /\ stage' = "fit"
          /\ pc' = IF (\E n \in open : take[n] < offer[n]) \/ keep # waiting
                     THEN BeforeRelease
                     ELSE "emulate"
    BY <1>1, <1>4
  <2>2. open \subseteq 0 .. Len(tree) /\ Len(tree) \in Nat /\ tree \in Seq(NodeRec)
    BY <1>2 DEF TypeOK, ListsInv
  <2>3. IsFiniteSet(open) /\ open \subseteq Int
    BY <2>2, ListsAreFinite
  <2>4. SumTake(take) \in Nat
    BY <2>3, TakenIsFinite
  <2>5. \A k \in 1 .. SumTake(take) : Submitted(take)[k] \in beam'
    BY <2>1, <2>3, SubmittedIsKept
  <2>6. Submitted(take) = [k \in 1 .. SumTake(take) |-> Submitted(take)[k]]
    BY DEF Submitted
  <2>7. beam' \subseteq open /\ \A p \in beam' : Expandable(p)
    BY <1>2, <2>1 DEF LimitInv
  <2>8. /\ Keeps({}) /\ Len(tree') = Len(tree) + SumTake(take)
        /\ \A b \in Ids(SumTake(take)) : /\ tree'[b].parent \in beam'
                                         /\ Node(b)'.combat <= MaxDepth
    <3> DEFINE P == beam'
    <3>1. P \subseteq 0 .. Len(tree)
      BY <2>2, <2>7
    <3>2. \A p \in P : Expandable(p)
      BY <2>7
    <3>3. \A k \in 1 .. SumTake(take) : Submitted(take)[k] \in P
      BY <2>5
    <3>4. tree' = tree \o Children(Submitted(take)) /\ setup' = setup
      BY <1>0, <2>1
    <3>5. /\ Keeps({}) /\ Len(tree') = Len(tree) + SumTake(take)
          /\ \A b \in Ids(SumTake(take)) : /\ tree'[b].parent \in P
                                           /\ Node(b)' = tree'[b]
                                           /\ Node(b)'.combat <= MaxDepth
      <4> HIDE DEF P
      <4> QED
        BY <2>2, <2>4, <2>6, <3>1, <3>2, <3>3, <3>4, ChildrenGrow
    <3> QED
      BY <3>5
  <2>9. /\ pending' \cap (0 .. Len(tree)) = {} /\ pending' \subseteq 1 .. Len(tree')
        /\ Cardinality(pending') = SumTake(take)
    <3>1. pending' = Len(tree) + 1 .. Len(tree) + SumTake(take)
      BY <2>1 DEF Ids
    <3>2. Cardinality(pending') = SumTake(take)
      BY <2>2, <2>4, <3>1, FS_Interval
    <3> QED
      BY <2>2, <2>4, <2>8, <3>1, <3>2
  <2>10. WholeRun => Cardinality(beam' \ {Root}) + Cardinality(waiting')
                       + Cardinality(pending') <= Capacity
    <3> SUFFICES ASSUME WholeRun
                 PROVE  Cardinality(beam' \ {Root}) + Cardinality(waiting')
                          + Cardinality(pending') <= Capacity
      OBVIOUS
    <3>1. Cardinality({n \in open : take[n] > 0} \ {Root}) + Cardinality(keep)
            + SumTake(take) <= Capacity
      <4> HIDE DEF open
      <4> QED
        BY <2>1, <2>2, FitsCapacity
    <3> QED
      BY <2>1, <2>9, <3>1
  <2>11. pc' = "emulate" => beam \cup waiting \subseteq finished' \cup beam' \cup waiting'
    <3> SUFFICES ASSUME pc' = "emulate"
                 PROVE  beam \cup waiting \subseteq finished' \cup beam' \cup waiting'
      OBVIOUS
    <3>1. keep = waiting /\ \A n \in open : ~(take[n] < offer[n])
      BY <2>1 DEF BeforeRelease
    <3>2. \A n \in open : take[n] > 0
      <4> TAKE n \in open
      <4>1. offer[n] > 0 /\ offer[n] \in 0 .. TopK /\ take[n] \in 0 .. TopK /\ TopK \in Nat
        BY BeamAssumption
      <4> QED
        BY <3>1, <4>1
    <3>3. beam' = open
      BY <2>1, <3>2
    <3>4. \A n \in beam \ open : MacroResolved(n)
      <4> SUFFICES ASSUME NEW n \in beam \ open, Node(n).kind = "cont"
                   PROVE  FALSE
        BY DEF MacroResolved
      <4>1. n \in DOMAIN offer
        BY DEF Searchable
      <4>2. offer[n] \in 1 .. TopK
        BY <1>1, <4>1 DEF Candidates
      <4> QED
        BY <4>1, <4>2, BeamAssumption
    <3> QED
      BY <2>1, <3>1, <3>3, <3>4
  <2>12. /\ finished \subseteq finished' /\ finished' \subseteq finished \cup beam \cup waiting
         /\ beam' \subseteq beam /\ waiting' \subseteq waiting
    BY <1>2, <2>1, <2>7
  <2>13. \A b \in pending' : tree'[b].parent \in beam' /\ Node(b)'.combat <= MaxDepth
    BY <2>1, <2>8
  <2>14. /\ retry' = {} /\ got' = {} /\ attempt' = 1 /\ fatal' = "none"
         /\ stage' = "fit" /\ pc' \in {"emulate", BeforeRelease}
    BY <2>1
  <2> HIDE DEF open, left
  <2>15. Proposed
    BY <2>8, <2>9, <2>10, <2>11, <2>12, <2>13, <2>14 DEF Proposed
  <2> QED
    BY <1>0, <2>15
<1> QED
  BY <1>0, <1>3, <1>4

\* The faulted branches of an attempt become as many new ones, of the same parents.
LEMMA RetryEffect ==
  ASSUME TypeOK, ListsInv, LimitInv, NeededInv, RetryFaulted
  PROVE  /\ Keeps({})
         /\ pending' \cap (0 .. Len(tree)) = {} /\ pending' \subseteq 1 .. Len(tree')
         /\ Cardinality(pending') = Cardinality(retry)
         /\ \A b \in pending' : tree'[b].parent \in beam /\ Node(b)'.combat <= MaxDepth
         /\ attempt' \in 1 .. MaxAttempts /\ retry' = {}
<1> DEFINE n == Cardinality(retry)
           parents == [k \in 1 .. n |-> tree[Sorted(retry)[k]].parent]
<1>1. /\ tree \in Seq(NodeRec) /\ Len(tree) \in Nat /\ retry \subseteq 0 .. Len(tree)
      /\ beam \subseteq 0 .. Len(tree)
  BY DEF ListsInv, TypeOK
<1>2. IsFiniteSet(retry) /\ retry \subseteq Int /\ n \in Nat
  BY <1>1, ListsAreFinite
<1>3. /\ tree' = tree \o Children(parents) /\ pending' = Ids(n) /\ setup' = setup
      /\ retry # {} /\ retry' = {} /\ attempt' = attempt + 1 /\ pc = "emulate"
  BY DEF RetryFaulted, ctl
<1>4. \A k \in 1 .. n : parents[k] \in beam
  <2> TAKE k \in 1 .. n
  <2>1. Sorted(retry)[k] \in retry
    BY <1>2, SortedIsInSet
  <2> QED
    BY <1>3, <2>1 DEF NeededInv
<1>5. \A p \in beam : Expandable(p)
  BY DEF LimitInv
<1>6. parents = [k \in 1 .. n |-> parents[k]]
  OBVIOUS
<1> HIDE DEF parents, n
<1>7. /\ Keeps({}) /\ Len(tree') = Len(tree) + n
      /\ \A b \in Ids(n) : /\ tree'[b].parent \in beam
                           /\ Node(b)' = tree'[b] /\ Node(b)'.combat <= MaxDepth
  BY <1>1, <1>2, <1>3, <1>4, <1>5, <1>6, ChildrenGrow
<1>8. pending' = Len(tree) + 1 .. Len(tree) + n
  BY <1>3 DEF Ids
<1>9. Cardinality(pending') = n
  BY <1>1, <1>2, <1>8, FS_Interval
<1>10. attempt' \in 1 .. MaxAttempts
  <2>1. attempt < MaxAttempts /\ attempt \in 1 .. MaxAttempts /\ MaxAttempts \in Nat
    BY <1>3, BeamAssumption DEF ListsInv, TypeOK
  <2> QED
    BY <1>3, <2>1
<1>11. pending' \cap (0 .. Len(tree)) = {} /\ pending' \subseteq 1 .. Len(tree')
  BY <1>1, <1>2, <1>7, <1>8
<1>12. \A b \in pending' : tree'[b].parent \in beam /\ Node(b)'.combat <= MaxDepth
  BY <1>3, <1>7
<1> QED
  BY <1>3, <1>7, <1>9, <1>10, <1>11, <1>12 DEF n

\* A chunk of the frontier was admitted, and `bad` of its branches did not resolve.
Emulated(chunk, bad) ==
    /\ chunk \subseteq pending /\ bad \subseteq chunk /\ IsFiniteSet(chunk)
    /\ Keeps(chunk)
    /\ \A i \in chunk : /\ Node(i)'.kind = "fault" <=> i \in bad
                        /\ Node(i)'.combat = Node(i).combat
    /\ Len(tree') = Len(tree) /\ \A i \in 1 .. Len(tree) : tree'[i].parent = tree[i].parent
    /\ pending' = pending \ chunk
    /\ IF RetryAllowed
         THEN got' = got \cup (chunk \ bad) /\ retry' = retry \cup bad
         ELSE got' = got \cup chunk /\ retry' = retry
    /\ allIds' = allIds \cup chunk
    /\ held' = held \cup chunk

LEMMA ChunkEffect ==
  ASSUME TypeOK, ListsInv, LimitInv, EmulateChunk
  PROVE  \E chunk, bad : Emulated(chunk, bad)
<1>1. PICK chunk \in Chunks(BatchSize, pending) :
        \E result \in [chunk -> setup.kinds
                                  \cup (IF "branch" \in setup.failures THEN {"fault"} ELSE {})] :
          LET bad == {b \in chunk : result[b] = "fault"}
          IN  /\ tree' = [i \in DOMAIN tree |->
                            IF i \in chunk THEN Resolve(tree[i], result[i]) ELSE tree[i]]
              /\ pending' = pending \ chunk
              /\ IF RetryAllowed
                   THEN got' = got \cup (chunk \ bad) /\ retry' = retry \cup bad
                   ELSE got' = got \cup chunk /\ retry' = retry
              /\ allIds' = allIds \cup chunk
              /\ held' = held \cup chunk
  BY DEF EmulateChunk
<1>2. PICK result \in [chunk -> setup.kinds
                                  \cup (IF "branch" \in setup.failures THEN {"fault"} ELSE {})] :
          LET bad == {b \in chunk : result[b] = "fault"}
          IN  /\ tree' = [i \in DOMAIN tree |->
                            IF i \in chunk THEN Resolve(tree[i], result[i]) ELSE tree[i]]
              /\ pending' = pending \ chunk
              /\ IF RetryAllowed
                   THEN got' = got \cup (chunk \ bad) /\ retry' = retry \cup bad
                   ELSE got' = got \cup chunk /\ retry' = retry
              /\ allIds' = allIds \cup chunk
              /\ held' = held \cup chunk
  BY <1>1
<1> DEFINE bad == {b \in chunk : result[b] = "fault"}
<1>3. /\ tree \in Seq(NodeRec) /\ Len(tree) \in Nat /\ DOMAIN tree = 1 .. Len(tree)
      /\ chunk \subseteq pending /\ pending \subseteq 1 .. Len(tree)
  BY <1>1, AtMostIsSubset DEF ListsInv, TypeOK, Chunks
<1>4. IsFiniteSet(chunk)
  <2>1. chunk \subseteq 0 .. Len(tree)
    BY <1>3
  <2> QED
    BY <1>3, <2>1, ListsAreFinite
<1>5. \A i \in 1 .. Len(tree) :
        tree'[i] = IF i \in chunk THEN Resolve(tree[i], result[i]) ELSE tree[i]
  BY <1>2, <1>3
<1>6. \A i \in chunk : result[i] \in {"stable", "spent", "next", "cont", "oos", "term", "fault"}
  BY <1>2, SetupFacts
<1>7. ASSUME NEW i \in 1 .. Len(tree)
      PROVE  /\ tree[i] \in NodeRec /\ tree'[i] \in NodeRec /\ tree'[i].parent = tree[i].parent
             /\ tree'[i].combat = tree[i].combat /\ tree'[i].cont = tree[i].cont
             /\ i \notin chunk => tree'[i] = tree[i]
             /\ i \in chunk => (tree'[i].kind = "fault" <=> i \in bad)
  <2>1. tree[i] \in NodeRec
    BY <1>3
  <2>2. CASE i \in chunk
    <3>1. /\ result[i] \in {"stable", "spent", "next", "cont", "oos", "term", "fault"}
          /\ tree'[i] = Resolve(tree[i], result[i])
      BY <1>5, <1>6, <2>2
    <3> QED
      BY <2>1, <2>2, <3>1, ResolveIsRecord
  <2>3. CASE i \notin chunk
    BY <1>5, <2>1, <2>3
  <2> QED
    BY <2>1, <2>2, <2>3
<1>8. tree' \in [1 .. Len(tree) -> NodeRec]
  <2>1. tree' = [i \in 1 .. Len(tree) |-> tree'[i]]
    BY <1>2, <1>3
  <2> QED
    BY <1>7, <2>1
<1>9. tree' \in Seq(NodeRec) /\ Len(tree') = Len(tree)
  BY <1>3, <1>8
<1>10. \A i \in 0 .. Len(tree) : i # Root => Node(i) = tree[i] /\ Node(i)' = tree'[i]
  BY DEF Node
<1>11. setup' = setup
  BY DEF EmulateChunk, ctl
<1>12. TreeOK'
  <2> SUFFICES ASSUME NEW i \in 1 .. Len(tree)
               PROVE  /\ tree'[i].parent \in 0 .. i - 1 /\ tree'[i].turn \in Nat
                      /\ tree'[i].kind \in {"new", "stable", "spent", "cont", "oos", "term",
                                            "fault"}
                      /\ tree'[i].combat \in 0 .. MaxDepth + 1
                      /\ tree'[i].cont \in 0 .. MaxCont + 1
    BY <1>9 DEF TreeOK
  <2>1. /\ tree[i].parent \in 0 .. i - 1 /\ tree[i].combat \in 0 .. MaxDepth + 1
        /\ tree[i].cont \in 0 .. MaxCont + 1
    BY DEF TypeOK
  <2> QED
    BY <1>7, <2>1 DEF NodeRec
<1>13. Keeps(chunk)
  <2>1. ASSUME NEW i \in (0 .. Len(tree)) \ chunk
        PROVE  Node(i)' = Node(i)
    <3>1. CASE i = Root
      BY <1>11, <3>1 DEF Node
    <3>2. CASE i # Root
      <4>1. i \in 1 .. Len(tree) /\ i \notin chunk
        BY <1>3, <3>2 DEF Root
      <4> QED
        BY <1>7, <1>10, <3>2, <4>1
    <3> QED
      BY <3>1, <3>2
  <2>2. Len(tree') >= Len(tree)
    BY <1>3, <1>9
  <2> QED
    BY <1>9, <1>12, <2>1, <2>2 DEF Keeps
<1>14. \A i \in chunk : /\ Node(i)'.kind = "fault" <=> i \in bad
                        /\ Node(i)'.combat = Node(i).combat
  <2> TAKE i \in chunk
  <2>1. i \in 1 .. Len(tree) /\ i \in 0 .. Len(tree) /\ i # Root
    BY <1>3 DEF Root
  <2>2. Node(i) = tree[i] /\ Node(i)' = tree'[i]
    BY <1>10, <2>1
  <2>3. tree'[i].combat = tree[i].combat /\ (tree'[i].kind = "fault" <=> i \in bad)
    BY <1>7, <2>1
  <2> QED
    BY <2>2, <2>3
<1>15. Emulated(chunk, bad)
  <2>1. bad \subseteq chunk
    OBVIOUS
  <2>2. \A i \in 1 .. Len(tree) : tree'[i].parent = tree[i].parent
    BY <1>7
  <2> HIDE DEF bad
  <2>3. /\ pending' = pending \ chunk
        /\ IF RetryAllowed
             THEN got' = got \cup (chunk \ bad) /\ retry' = retry \cup bad
             ELSE got' = got \cup chunk /\ retry' = retry
        /\ allIds' = allIds \cup chunk
        /\ held' = held \cup chunk
    BY <1>2 DEF bad
  <2> QED
    BY <1>3, <1>4, <1>9, <1>13, <1>14, <2>1, <2>2, <2>3 DEF Emulated
<1> QED
  BY <1>15

\* The ids of n branches appended to the tree are new.
LEMMA NewIds ==
  ASSUME tree \in Seq(NodeRec), NEW n \in Nat, Len(tree') = Len(tree) + n
  PROVE  Ids(n) \cap (0 .. Len(tree)) = {} /\ Ids(n) \subseteq 1 .. Len(tree')
BY DEF Ids

\* A chunk of leaves was settled, but for those of `bad`.
Settled(chunk, bad) ==
    /\ chunk \subseteq todo /\ bad \subseteq chunk
    /\ Keeps({})
    /\ fresh' \cap (0 .. Len(tree)) = {} /\ fresh' \subseteq 1 .. Len(tree')
    /\ scored' = scored \cup (chunk \ bad)
    /\ mishap' = (mishap \/ bad # {})
    /\ todo' = todo \ chunk
    /\ allIds' = allIds \cup fresh' /\ held' = held \cup fresh'

LEMMA SettleEffect ==
  ASSUME TypeOK, ListsInv, LimitInv, SettleChunk
  PROVE  \E chunk, bad : Settled(chunk, bad)
<1>1. PICK chunk \in Chunks(width, todo) :
         /\ \E bad \in SUBSET chunk :
              /\ tree' = tree \o [k \in 1 .. Cardinality(chunk) |->
                            Resolve(Child(Sorted(chunk)[k]),
                                    IF Sorted(chunk)[k] \in bad THEN "fault" ELSE "next")]
              /\ scored' = scored \cup (chunk \ bad)
              /\ mishap' = (mishap \/ bad # {})
         /\ todo' = todo \ chunk
         /\ fresh' = Ids(Cardinality(chunk))
         /\ allIds' = allIds \cup fresh' /\ held' = held \cup fresh'
  BY DEF SettleChunk
<1>2. PICK bad \in SUBSET chunk :
         /\ tree' = tree \o [k \in 1 .. Cardinality(chunk) |->
                       Resolve(Child(Sorted(chunk)[k]),
                               IF Sorted(chunk)[k] \in bad THEN "fault" ELSE "next")]
         /\ scored' = scored \cup (chunk \ bad)
         /\ mishap' = (mishap \/ bad # {})
  BY <1>1
<1> DEFINE n == Cardinality(chunk)
           outcome == [k \in 1 .. n |-> IF Sorted(chunk)[k] \in bad THEN "fault" ELSE "next"]
<1>3. /\ tree \in Seq(NodeRec) /\ chunk \subseteq todo /\ chunk \subseteq 0 .. Len(tree)
      /\ \A i \in chunk : HasEndTurn(i) /\ Node(i).combat <= MaxDepth
  BY <1>1, AtMostIsSubset DEF ListsInv, LimitInv, TypeOK, Chunks
<1>4. n \in Nat
  BY <1>3, ListsAreFinite
<1>5. /\ tree' = tree \o [k \in 1 .. n |-> Resolve(Child(Sorted(chunk)[k]), outcome[k])]
      /\ \A k \in 1 .. n : outcome[k] \in {"fault", "next"}
  BY <1>2
<1>6. setup' = setup
  BY DEF SettleChunk, ctl
<1> HIDE DEF outcome
<1>7. Keeps({}) /\ Len(tree') = Len(tree) + n
  BY <1>3, <1>5, <1>6, EndTurnsGrow
<1> HIDE DEF n
<1>8. fresh' \cap (0 .. Len(tree)) = {} /\ fresh' \subseteq 1 .. Len(tree')
  BY <1>1, <1>3, <1>4, <1>7, NewIds DEF n
<1>9. Settled(chunk, bad)
  BY <1>1, <1>2, <1>3, <1>7, <1>8 DEF Settled
<1> QED
  BY <1>9

\* The lagging leaves were extended, or nothing was.
Aligned ==
    \E new : /\ new \cap (0 .. Len(tree)) = {} /\ new \subseteq 1 .. Len(tree')
             /\ allIds' = allIds \cup new /\ held' = held \cup new
             /\ scored' = scored \cup Lagging

LEMMA LaggingIsLeaves ==
  Lagging \subseteq finished /\ \A i \in Lagging : HasEndTurn(i)
BY DEF Lagging

LEMMA AlignEffect ==
  ASSUME TypeOK, ListsInv, LimitInv, Align
  PROVE  /\ Keeps({})
         /\ Aligned \/ UNCHANGED <<tree, scored, allIds, held>>
         /\ pc = "align" /\ pc' = "cancel"
         /\ UNCHANGED <<ctl, lists, batch, todo, width, fresh, settledIds, released>>
<1>1. /\ pc = "align" /\ pc' = "cancel"
      /\ UNCHANGED <<ctl, lists, batch, todo, width, fresh, settledIds, released>>
  BY DEF Align, books
<1>2. tree \in Seq(NodeRec) /\ setup' = setup
  BY <1>1 DEF ListsInv, ctl
<1>3. CASE UNCHANGED <<tree, scored, books>>
  BY <1>1, <1>2, <1>3, SameTree DEF books
<1>4. CASE /\ tree' = tree \o [k \in 1 .. Cardinality(Lagging) |->
                                 Resolve(Child(Sorted(Lagging)[k]), "next")]
           /\ scored' = scored \cup Lagging
           /\ allIds' = allIds \cup Ids(Cardinality(Lagging))
           /\ held' = held \cup Ids(Cardinality(Lagging))
  <2> DEFINE S == Lagging
             n == Cardinality(S)
             outcome == [k \in 1 .. n |-> "next"]
  <2>1. /\ S \subseteq 0 .. Len(tree)
        /\ \A i \in S : HasEndTurn(i) /\ Node(i).combat <= MaxDepth
    BY LaggingIsLeaves DEF TypeOK, LimitInv
  <2>2. /\ tree' = tree \o [k \in 1 .. n |-> Resolve(Child(Sorted(S)[k]), outcome[k])]
        /\ \A k \in 1 .. n : outcome[k] \in {"fault", "next"}
    BY <1>4
  <2> HIDE DEF outcome, S
  <2>3. n \in Nat
    BY <1>2, <2>1, ListsAreFinite
  <2>4. Keeps({}) /\ Len(tree') = Len(tree) + n
    BY <1>2, <2>1, <2>2, EndTurnsGrow
  <2>5. Ids(n) \cap (0 .. Len(tree)) = {} /\ Ids(n) \subseteq 1 .. Len(tree')
    BY <1>2, <2>3, <2>4, NewIds
  <2>6. Aligned
    BY <1>4, <2>5 DEF Aligned, S
  <2> QED
    BY <1>1, <2>4, <2>6
<1> QED
  BY <1>3, <1>4 DEF Align

----------------------------------------------------------------------------
(* What no step changes.                                                   *)

\* The steps that leave the nodes and every list of them alone.
Quiet == UNCHANGED <<setup, tree, lists, batch, books>>

LEMMA StepKeeps ==
  ASSUME IInv, [Next]_vars
  PROVE  /\ setup' = setup
         /\ \E changed : /\ changed \subseteq pending /\ Keeps(changed)
                          /\ \A i \in changed : /\ Node(i)'.combat = Node(i).combat
                                                /\ tree'[i].parent = tree[i].parent
<1> USE DEF IInv
<1>1. tree \in Seq(NodeRec)
  BY DEF ListsInv
<1>2. CASE UNCHANGED <<setup, tree>>
  BY <1>1, <1>2, SameTree
<1>3. CASE Propose
  <2>1. setup' = setup /\ (Proposed \/ NothingProposed)
    BY <1>3, ProposeEffect
  <2>2. CASE Proposed
    BY <2>1, <2>2 DEF Proposed
  <2>3. CASE NothingProposed
    BY <1>1, <2>1, <2>3, SameTree DEF NothingProposed
  <2> QED
    BY <2>1, <2>2, <2>3
<1>4. CASE EmulateChunk
  <2>1. PICK chunk, bad : Emulated(chunk, bad)
    BY <1>4, ChunkEffect
  <2>2. \A i \in chunk : tree'[i].parent = tree[i].parent
    BY <2>1 DEF Emulated, TypeOK
  <2> QED
    BY <1>4, <2>1, <2>2 DEF Emulated, EmulateChunk, ctl
<1>5. CASE RetryFaulted
  BY <1>5, RetryEffect DEF RetryFaulted, ctl
<1>6. CASE SettleChunk
  <2>1. PICK chunk, bad : Settled(chunk, bad)
    BY <1>6, SettleEffect
  <2> QED
    BY <1>6, <2>1 DEF Settled, SettleChunk, ctl
<1>7. CASE Align
  BY <1>7, AlignEffect DEF ctl
<1>8. CASE PlyOutOfTime \/ EmulateOutOfTime \/ EmulateDone \/ EmulateBroken \/ Tick
  BY <1>2, <1>8 DEF PlyOutOfTime, EmulateOutOfTime, EmulateDone, EmulateBroken, Tick, ctl,
                    Fatal, Raise
<1>9. CASE EmulateRejected
  BY <1>2, <1>9 DEF EmulateRejected, Fatal, Raise, ctl
<1>10. CASE Score
  BY <1>2, <1>10 DEF Score, ctl
<1>11. CASE SettleStart \/ SettleSkipped \/ SettleBroken \/ SettleDone
  BY <1>2, <1>11 DEF SettleStart, SettleSkipped, SettleBroken, SettleDone, Raise, ctl
<1>12. CASE SettleFree \/ Release
  BY <1>2, <1>12 DEF SettleFree, Release, Raise, ctl
<1>13. CASE CollectLeaves \/ CancelBranches \/ ReleaseBranches
  BY <1>2, <1>13 DEF CollectLeaves, CancelBranches, ReleaseBranches, ctl
<1>14. CASE UNCHANGED vars
  BY <1>2, <1>14 DEF vars, ctl
<1> QED
  BY <1>3, <1>4, <1>5, <1>6, <1>7, <1>8, <1>9, <1>10, <1>11, <1>12, <1>13, <1>14
     DEF Next, Step, Finished

\* An admitted branch, like the root, keeps its node.
LEMMA AdmittedNodesStay ==
  ASSUME IInv, [Next]_vars
  PROVE  \A i \in allIds \cup {Root} : Node(i)' = Node(i)
<1>1. PICK changed : changed \subseteq pending /\ Keeps(changed)
  BY StepKeeps
<1>2. allIds \cup {Root} \subseteq (0 .. Len(tree)) \ changed
  <2>1. Root \notin pending
    BY DEF IInv, TypeOK, Root
  <2>2. Len(tree) \in Nat
    BY DEF IInv, ListsInv
  <2> QED
    BY <1>1, <2>1, <2>2 DEF IInv, ListsInv, TypeOK, Root
<1> QED
  BY <1>1, <1>2 DEF Keeps

----------------------------------------------------------------------------
(* The ways a ply ends, and what a call may do to the client.              *)

\* The ply has a next frontier, or only leaves: those are results of the ply.
Scored ==
    /\ finished \subseteq finished' /\ finished' \subseteq finished \cup got
    /\ beam' \cup waiting' \subseteq waiting \cup got
    /\ \A i \in (beam' \cup waiting') \ waiting : Expandable(i)
    /\ pc' \in {"leaves", BeforeRelease} /\ error' = error
    /\ stage' = IF pc' = "leaves" THEN stage ELSE "ply"

\* It has none at all.
Fruitless ==
    /\ UNCHANGED <<stage, lists>>
    /\ \/ pc' = "leaves" /\ error' = error
       \/ pc' = "cancel" /\ error' = "raised"

LEMMA ScoreEffect ==
  ASSUME TypeOK, ListsInv, LimitInv, Score
  PROVE  /\ Scored \/ Fruitless
         /\ pc = "score" /\ UNCHANGED <<setup, tree, batch, settle, books, env>>
<1>1. pc = "score" /\ UNCHANGED <<tree, batch, settle, books, env>>
  BY DEF Score
<1> DEFINE usable == {i \in got : ~Dropped(i)}
           leaves == {i \in usable : NewLeaf(i)}
           next   == {i \in usable \ leaves : ~TooManySteps(i)}
           limit  == \E i \in usable \ leaves : TooManySteps(i)
           none   == got # {} /\ next = {} /\ leaves = {} /\ ~limit
<1>2. \/ Break("not_beam_searchable") /\ UNCHANGED <<ctl, lists, error>>
      \/ pc' = "cancel" /\ error' = "raised" /\ UNCHANGED <<ctl, lists, reason>>
      \/ /\ finished' = finished \cup leaves
         /\ NextFrontier(next) /\ PlyEnds(leaves, limit)
         /\ UNCHANGED <<setup, error>>
  BY DEF Score
<1>3. \A i \in next : i \in got /\ Expandable(i)
  <2> SUFFICES ASSUME NEW i \in got, ~Dropped(i), ~NewLeaf(i), ~TooManySteps(i)
               PROVE  Expandable(i)
    OBVIOUS
  <2>1. /\ Node(i) \in NodeRec /\ Node(i).combat <= MaxDepth
        /\ MaxDepth \in Nat /\ MaxCont \in Nat
    <3>1. i \in 0 .. Len(tree) /\ tree \in Seq(NodeRec)
      BY DEF TypeOK, ListsInv
    <3> QED
      BY <3>1, NodeIsRecord, BeamAssumption DEF LimitInv
  <2>2. Node(i).combat \in Nat /\ Node(i).cont \in Nat
    BY <2>1 DEF NodeRec
  <2>3. /\ Node(i).kind # "fault"
        /\ Node(i).kind # "cont" => ~(Node(i).combat >= MaxDepth)
        /\ Node(i).kind = "cont" => ~(Node(i).cont >= MaxCont)
    BY DEF Dropped, NewLeaf, DepthSpent, TooManySteps
  <2> QED
    BY <2>1, <2>2, <2>3 DEF Expandable
<1>4. leaves \subseteq got
  OBVIOUS
<1> HIDE DEF next, leaves, limit
<1>5. CASE /\ finished' = finished \cup leaves
           /\ NextFrontier(next) /\ PlyEnds(leaves, limit)
           /\ UNCHANGED <<setup, error>>
  <2>1. /\ beam' \cup waiting' \subseteq waiting \cup next
    <3> DEFINE conts == {i \in next : Node(i).kind = "cont"}
    <3>1. CASE conts # {}
      <4>1. waiting' = waiting \cup (next \ conts) /\ beam' \in AtMost(BeamWidth, conts)
        BY <1>5, <3>1 DEF NextFrontier
      <4> QED
        BY <4>1, AtMostIsSubset
    <3>2. CASE conts = {}
      <4>1. waiting' = {} /\ beam' \in AtMost(BeamWidth, next \cup waiting)
        BY <1>5, <3>2 DEF NextFrontier
      <4> QED
        BY <4>1, AtMostIsSubset
    <3> QED
      BY <3>1, <3>2
  <2>2. /\ pc' \in {"leaves", BeforeRelease}
        /\ stage' = IF pc' = "leaves" THEN stage ELSE "ply"
    BY <1>5 DEF PlyEnds, Break, BeforeRelease
  <2>3. Scored
    BY <1>3, <1>4, <1>5, <2>1, <2>2 DEF Scored
  <2> QED
    BY <1>1, <1>5, <2>3
<1>6. CASE \/ Break("not_beam_searchable") /\ UNCHANGED <<ctl, lists, error>>
           \/ pc' = "cancel" /\ error' = "raised" /\ UNCHANGED <<ctl, lists, reason>>
  BY <1>1, <1>6 DEF Fruitless, Break, ctl
<1> QED
  BY <1>2, <1>5, <1>6

LEMMA CallFailsEffect ==
  ASSUME NEW ways, CallFails(ways)
  PROVE  client' \in {"ok", "pending", "invalid"} /\ mishap' /\ clock' = clock
BY DEF CallFails

LEMMA RefusesEffect ==
  ASSUME NEW parents, NEW n, Refuses(parents, n)
  PROVE  client' \in {client, "ok", "pending", "invalid"} /\ mishap' /\ clock' = clock
<1>1. CASE CallFails({"rejected", "invalid"})
  BY <1>1, CallFailsEffect
<1> QED
  BY <1>1 DEF Refuses

\* What went wrong stays on record, and only a failed call disturbs the client.
HistoryGrows ==
    /\ client' \in {"ok", "pending", "invalid"} /\ clock' \in {"early", "late", "over"}
    /\ error' \in {"none", "raised", "blocked"}
    /\ client' # "ok" => mishap'
    /\ mishap => mishap'
    /\ clock # "early" => clock' # "early"
    /\ clock = "over" => clock' = "over"
    /\ error # "none" => error' # "none"

\* Either a call failed, or the client, the clock and the history are as they were.
CallOrNot == \/ client' \in {client, "ok", "pending", "invalid"} /\ mishap' /\ clock' = clock
             \/ UNCHANGED env

LEMMA CallKeepsHistory ==
  ASSUME TypeOK, CleanInv, CallOrNot, error' \in {error, "raised", "blocked"}
  PROVE  HistoryGrows
<1>1. CASE UNCHANGED env
  BY <1>1 DEF env, HistoryGrows, TypeOK, CleanInv
<1>2. CASE client' \in {client, "ok", "pending", "invalid"} /\ mishap' /\ clock' = clock
  BY <1>2 DEF HistoryGrows, TypeOK, CleanInv
<1> QED
  BY <1>1, <1>2 DEF CallOrNot

LEMMA EnvStep ==
  ASSUME IInv, [Next]_vars
  PROVE  HistoryGrows
<1> USE DEF IInv
<1>1. CASE UNCHANGED <<env, error>>
  BY <1>1, CallKeepsHistory DEF CallOrNot
<1>2. CASE Propose \/ PlyOutOfTime \/ EmulateChunk \/ RetryFaulted \/ EmulateDone \/ EmulateOutOfTime
  BY <1>1, <1>2 DEF Propose, PlyOutOfTime, EmulateChunk, RetryFaulted, EmulateDone,
                    EmulateOutOfTime, Fatal
<1>3. CASE EmulateRejected
  <2>1. CallOrNot
    BY <1>3, RefusesEffect DEF EmulateRejected, CallOrNot
  <2>2. error' \in {error, "raised"}
    BY <1>3 DEF EmulateRejected, Fatal, Raise
  <2> QED
    BY <2>1, <2>2, CallKeepsHistory
<1>4. CASE EmulateBroken
  BY <1>4, CallFailsEffect, CallKeepsHistory DEF EmulateBroken, Raise, CallOrNot
<1>5. CASE Score
  <2>1. UNCHANGED env /\ error' \in {error, "raised"}
    BY <1>5, ScoreEffect DEF Scored, Fruitless
  <2> QED
    BY <2>1, CallKeepsHistory DEF CallOrNot
<1>6. CASE SettleStart \/ SettleDone \/ CollectLeaves
  BY <1>1, <1>6 DEF SettleStart, SettleDone, CollectLeaves
<1>7. CASE SettleChunk
  <2>1. PICK chunk, bad : Settled(chunk, bad)
    BY <1>7, SettleEffect
  <2>2. client' = client /\ clock' = clock /\ error' = error /\ (mishap => mishap')
    BY <1>7, <2>1 DEF SettleChunk, Settled
  <2> QED
    BY <2>2 DEF HistoryGrows, TypeOK, CleanInv
<1>8. CASE SettleSkipped
  <2>1. CallOrNot /\ error' = error
    BY <1>8, RefusesEffect, CallFailsEffect DEF SettleSkipped, CallOrNot
  <2> QED
    BY <2>1, CallKeepsHistory
<1>9. CASE SettleBroken
  <2>1. CallOrNot /\ error' \in {"raised", "blocked"}
    BY <1>9, CallFailsEffect DEF SettleBroken, Raise, CallOrNot
  <2> QED
    BY <2>1, CallKeepsHistory
<1>10. CASE SettleFree
  <2>1. CallOrNot /\ error' \in {error, "raised"}
    BY <1>10, CallFailsEffect DEF SettleFree, Raise, Released, ReleaseSkipped, ReleaseRaises,
                                  CallOrNot
  <2> QED
    BY <2>1, CallKeepsHistory
<1>11. CASE Release
  <2>1. CallOrNot /\ error' \in {error, "raised"}
    BY <1>11, CallFailsEffect DEF Release, Released, ReleaseSkipped, ReleaseRaises, CallOrNot
  <2> QED
    BY <2>1, CallKeepsHistory
<1>12. CASE Align
  <2>1. CallOrNot /\ error' \in {error, "raised", "blocked"}
    BY <1>12, CallFailsEffect, RefusesEffect DEF Align, CallOrNot
  <2> QED
    BY <2>1, CallKeepsHistory
<1>13. CASE CancelBranches \/ ReleaseBranches
  <2>1. CallOrNot /\ error' \in {error, "raised"}
    BY <1>13, CallFailsEffect DEF CancelBranches, ReleaseBranches, Released, ReleaseSkipped,
                                  ReleaseRaises, CallOrNot
  <2> QED
    BY <2>1, CallKeepsHistory
<1>14. CASE Tick
  <2>1. /\ client' = client /\ mishap' = mishap /\ error' = error /\ clock # "over"
        /\ clock' = IF clock = "early" THEN "late" ELSE "over"
    BY <1>14 DEF Tick
  <2> QED
    BY <2>1 DEF HistoryGrows, TypeOK, CleanInv
<1>15. CASE UNCHANGED vars
  BY <1>1, <1>15 DEF vars
<1> QED
  BY <1>2, <1>3, <1>4, <1>5, <1>6, <1>7, <1>8, <1>9, <1>10, <1>11, <1>12, <1>13, <1>14,
     <1>15 DEF Next, Step, Finished

----------------------------------------------------------------------------
(* The steps that only move between phases, or settle and release.         *)

\* Nothing but the phase and the history changes, and todo only shrinks.
Passes == UNCHANGED <<setup, tree, lists, batch, width, fresh, settledIds, scored, books>>

LEMMA PhaseEffect ==
  /\ PlyOutOfTime => Passes /\ UNCHANGED <<todo, stage>> /\ pc = "ply" /\ pc' = "leaves"
  /\ EmulateBroken => Passes /\ UNCHANGED <<todo, stage>> /\ pc = "emulate"
                        /\ pc' = "cancel" /\ error' = "raised"
  /\ EmulateDone => Passes /\ UNCHANGED <<todo, stage>> /\ pc = "emulate" /\ pc' = "score"
                        /\ pending = {} /\ retry = {}
  /\ SettleSkipped => Passes /\ UNCHANGED <<pc, stage>> /\ pc = "settling"
                        /\ todo' \subseteq todo /\ mishap'
  /\ SettleBroken => Passes /\ UNCHANGED <<todo, stage>> /\ pc = "settling"
                        /\ pc' = "cancel" /\ error' # "none"
  /\ Tick => Passes /\ UNCHANGED <<todo, stage, pc, client, mishap, error>> /\ pc # "done"
  /\ CancelBranches => Passes /\ UNCHANGED <<todo, stage>> /\ pc = "cancel"
                        /\ pc' \in {"free", "done"}
<1>1. /\ PlyOutOfTime => Passes /\ UNCHANGED <<todo, stage>> /\ pc = "ply" /\ pc' = "leaves"
      /\ EmulateDone => Passes /\ UNCHANGED <<todo, stage>> /\ pc = "emulate"
                          /\ pc' = "score" /\ pending = {} /\ retry = {}
      /\ Tick => Passes /\ UNCHANGED <<todo, stage, pc, client, mishap, error>> /\ pc # "done"
      /\ CancelBranches => Passes /\ UNCHANGED <<todo, stage>> /\ pc = "cancel"
                        /\ pc' \in {"free", "done"}
  BY DEF PlyOutOfTime, EmulateDone, Tick, CancelBranches, Break, Passes, ctl, settle
<1>2. EmulateBroken => Passes /\ UNCHANGED <<todo, stage>> /\ pc = "emulate"
                        /\ pc' = "cancel" /\ error' = "raised"
  BY DEF EmulateBroken, Raise, Passes, ctl, settle
<1>3. SettleBroken => Passes /\ UNCHANGED <<todo, stage>> /\ pc = "settling"
                        /\ pc' = "cancel" /\ error' # "none"
  BY DEF SettleBroken, Raise, Passes, ctl, settle
<1>4. ASSUME SettleSkipped
      PROVE  Passes /\ UNCHANGED <<pc, stage>> /\ pc = "settling" /\ todo' \subseteq todo
               /\ mishap'
  <2>1. mishap'
    BY <1>4, RefusesEffect, CallFailsEffect DEF SettleSkipped
  <2>2. todo' \subseteq todo
    BY <1>4 DEF SettleSkipped, Skip
  <2> QED
    BY <1>4, <2>1, <2>2 DEF SettleSkipped, Passes, ctl
<1> QED
  BY <1>1, <1>2, <1>3, <1>4

LEMMA EmulateEndEffect ==
  ASSUME EmulateOutOfTime \/ EmulateRejected
  PROVE  /\ UNCHANGED <<setup, stage, tree, lists, pending, retry, got, attempt, settle, books>>
         /\ pc = "emulate"
         /\ \/ pc' = "score" /\ error' = error /\ fatal' \in {"time_budget", "rejected"}
            \/ pc' = "cancel" /\ error' = "raised" /\ fatal' = fatal
<1>1. CASE EmulateOutOfTime
  BY <1>1 DEF EmulateOutOfTime, Fatal, ctl
<1>2. CASE EmulateRejected
  <2>1. pc = "emulate" /\ (Fatal("rejected") \/ Raise("raised"))
    BY <1>2 DEF EmulateRejected
  <2>2. CASE Fatal("rejected")
    BY <2>1, <2>2 DEF Fatal, ctl
  <2>3. CASE Raise("raised")
    BY <2>1, <2>3 DEF Raise, ctl, batch
  <2> QED
    BY <2>1, <2>2, <2>3
<1> QED
  BY <1>1, <1>2

LEMMA SettleStartEffect ==
  ASSUME SettleStart
  PROVE  /\ UNCHANGED <<setup, stage, tree, lists, batch, fresh, scored, books, env, error>>
         /\ pc = "settle" /\ pc' = "settling" /\ width' = SettleWidth
         /\ IF stage = "root"
              THEN todo' = {i \in {Root} : HasEndTurn(i)} /\ settledIds' = settledIds
              ELSE /\ todo' = {i \in finished \ settledIds : SettleAction(i)}
                   /\ settledIds' = settledIds \cup finished
BY DEF SettleStart, Tried, ctl

LEMMA SettleDoneEffect ==
  ASSUME TypeOK, SettleDone
  PROVE  /\ UNCHANGED <<setup, tree, beam, waiting, batch, fresh, settledIds, scored,
                        books, env, error>>
         /\ pc = "settling" /\ (todo = {} \/ clock # "early")
         /\ todo' = {} /\ width' = 0
         /\ \/ /\ stage \in {"fit", "ply"} /\ stage' = stage /\ pc' = "release"
               /\ finished' = finished
            \/ stage = "end" /\ stage' = "root" /\ pc' = "settle" /\ finished' = finished
            \/ /\ stage = "root" /\ stage' = "root" /\ pc' = "cancel"
               /\ finished' = finished \cup (scored \cap {Root})
<1>1. /\ UNCHANGED <<setup, tree, beam, waiting, batch, fresh, settledIds, scored,
                     books, env, error>>
      /\ pc = "settling" /\ (todo = {} \/ clock # "early") /\ todo' = {} /\ width' = 0
  BY DEF SettleDone
<1>2. CASE stage \in {"fit", "ply"}
  BY <1>1, <1>2 DEF SettleDone
<1>3. CASE stage = "end"
  BY <1>1, <1>3 DEF SettleDone
<1>4. CASE stage = "root"
  BY <1>1, <1>4 DEF SettleDone
<1> QED
  BY <1>2, <1>3, <1>4 DEF TypeOK

\* Branches leave the server and are entered as released, or the books stay as they are.
Frees(ids) == \/ released' = released \cup ids /\ held' = held \ ids /\ allIds' = allIds
              \/ UNCHANGED books

LEMMA SettleFreeEffect ==
  ASSUME SettleFree
  PROVE  /\ UNCHANGED <<setup, stage, tree, lists, batch, todo, width, settledIds, scored>>
         /\ pc = "settle_free" /\ fresh' \subseteq fresh /\ Frees(fresh)
         /\ \/ pc' = "settling" /\ error' = error
            \/ pc' = "cancel" /\ error' = "raised" /\ UNCHANGED books
<1>1. CASE pc' = "settling"
  BY <1>1 DEF SettleFree, Raise, Released, ReleaseSkipped, Frees, ctl, books, settle
<1>2. CASE pc' # "settling"
  BY <1>2 DEF SettleFree, Raise, Frees, ctl, settle
<1> QED
  BY <1>1, <1>2

\* After a release that did not fail, only the frontier is left in the books.
LEMMA ReleaseEffect ==
  ASSUME TypeOK, ListsInv, Release
  PROVE  /\ UNCHANGED <<setup, stage, tree, lists, batch, settle>>
         /\ pc = "release" /\ Frees(Unneeded)
         /\ \/ pc' = "cancel" /\ error' = "raised"
            \/ pc' = "leaves" /\ error' = error
            \/ /\ pc' = (IF stage = "ply" THEN "ply" ELSE "emulate") /\ error' = error
               /\ WholeRun => held' \subseteq beam \cup waiting
<1>1. pc = "release" /\ UNCHANGED <<setup, stage, tree, lists, batch, settle>>
  BY DEF Release, ctl
<1>2. AfterRelease => pc' \in {"leaves", IF stage = "ply" THEN "ply" ELSE "emulate"}
  BY DEF AfterRelease, Break
<1>3. CASE (~WholeRun \/ Unneeded = {}) /\ AfterRelease /\ UNCHANGED <<books, env, error>>
  <2>1. WholeRun => held' \subseteq beam \cup waiting
    BY <1>3 DEF Unneeded, books, ListsInv
  <2> QED
    BY <1>1, <1>2, <1>3, <2>1 DEF Frees
<1>4. CASE Released(Unneeded) /\ AfterRelease /\ UNCHANGED error
  <2>1. held' \subseteq beam \cup waiting
    BY <1>4 DEF Released, Unneeded, ListsInv
  <2> QED
    BY <1>1, <1>2, <1>4, <2>1 DEF Released, Frees
<1>5. CASE UNCHANGED books /\ pc' = "leaves" /\ error' = error
  BY <1>1, <1>5 DEF Frees
<1>6. CASE UNCHANGED books /\ pc' = "cancel" /\ error' = "raised"
  BY <1>1, <1>6 DEF Frees
<1> QED
  BY <1>3, <1>4, <1>5, <1>6 DEF Release, Break, ReleaseSkipped

LEMMA CollectEffect ==
  ASSUME CollectLeaves
  PROVE  /\ UNCHANGED <<setup, tree, beam, waiting, batch, settle, books, env, error>>
         /\ pc = "leaves" /\ stage' = "end"
         /\ finished \subseteq finished' /\ finished' \subseteq finished \cup waiting \cup beam
         /\ pc' = CASE setup.rule = "plain" -> "cancel"
                    [] setup.rule = "turn_aligned" -> "align"
                    [] setup.rule = "turn_boundary" -> "settle"
BY DEF CollectLeaves

LEMMA CleanUpEffect ==
  ASSUME ReleaseBranches
  PROVE  /\ UNCHANGED <<setup, stage, tree, lists, batch, settle>>
         /\ pc = "free" /\ pc' = "done" /\ Frees(Remaining)
         /\ (Released(Remaining) \/ mishap' \/ (clock = "over" /\ clock' = "over"))
<1>1. /\ pc = "free" /\ pc' = "done" /\ UNCHANGED <<setup, stage, tree, lists, batch, settle>>
  BY DEF ReleaseBranches, ctl
<1>2. CASE Released(Remaining)
  BY <1>1, <1>2 DEF Released, Frees
<1>3. CASE ReleaseSkipped(clock = "over")
  BY <1>1, <1>3, CallFailsEffect DEF ReleaseSkipped, Frees, env
<1>4. CASE ReleaseRaises(clock = "over") /\ UNCHANGED books
  BY <1>1, <1>4, CallFailsEffect DEF ReleaseRaises, Frees
<1> QED
  BY <1>2, <1>3, <1>4 DEF ReleaseBranches

----------------------------------------------------------------------------
(* The books.                                                              *)

\* Freeing admitted branches keeps the books in order.
LEMMA FreesKeepsBooks ==
  ASSUME ListsInv, NEW ids, Frees(ids), ids \subseteq allIds
  PROVE  allIds' = allIds /\ released' \subseteq allIds' /\ held' = allIds' \ released'
BY DEF ListsInv, Frees, books

LEMMA ListsStep ==
  ASSUME IInv, [Next]_vars
  PROVE  ListsInv' /\ allIds' \cup pending' \subseteq 1 .. Len(tree')
<1> DEFINE Good == ListsInv' /\ allIds' \cup pending' \subseteq 1 .. Len(tree')
<1> USE DEF IInv
<1>1. /\ tree' \in Seq(NodeRec) /\ Len(tree') >= Len(tree)
      /\ Len(tree) \in Nat /\ Len(tree') \in Nat
      /\ allIds \cup pending \subseteq 1 .. Len(tree)
  BY StepKeeps DEF Keeps, ListsInv, TypeOK
<1>2. allIds \subseteq 1 .. Len(tree') /\ pending \subseteq 1 .. Len(tree')
  BY <1>1
<1>3. CASE Passes /\ todo' \subseteq todo
  BY <1>1, <1>2, <1>3 DEF Passes, lists, batch, books, ListsInv
<1>4. CASE Propose
  <2>1. (Proposed \/ NothingProposed) /\ UNCHANGED <<settle, books>>
    BY <1>4, ProposeEffect
  <2>2. CASE Proposed
    <3>1. pending' \cap allIds = {}
      BY <1>1, <2>2 DEF Proposed
    <3> QED
      BY <1>1, <1>2, <2>1, <2>2, <3>1 DEF Proposed, settle, books, ListsInv
  <2>3. CASE NothingProposed
    BY <1>1, <1>2, <2>1, <2>3 DEF NothingProposed, batch, settle, books, ListsInv
  <2> QED
    BY <2>1, <2>2, <2>3
<1>5. CASE EmulateOutOfTime \/ EmulateRejected
  BY <1>1, <1>2, <1>5, EmulateEndEffect DEF lists, settle, books, ListsInv
<1>6. CASE EmulateChunk
  <2>1. PICK chunk, bad : Emulated(chunk, bad)
    BY <1>6, ChunkEffect
  <2>2. UNCHANGED <<lists, attempt, settle, released>>
    BY <1>6 DEF EmulateChunk
  <2>3. held' = allIds' \ released' /\ pending' \cap allIds' = {}
    BY <1>1, <2>1, <2>2 DEF Emulated, ListsInv
  <2>4. got' \cup retry' \subseteq allIds' /\ (retry' # {} => attempt' < MaxAttempts)
    <3>1. CASE RetryAllowed
      BY <2>1, <2>2, <3>1 DEF Emulated, ListsInv, RetryAllowed
    <3>2. CASE ~RetryAllowed
      BY <2>1, <2>2, <3>2 DEF Emulated, ListsInv
    <3> QED
      BY <3>1, <3>2
  <2> QED
    BY <1>1, <1>2, <2>1, <2>2, <2>3, <2>4 DEF Emulated, lists, settle, ListsInv
<1>7. CASE RetryFaulted
  <2>1. /\ pending' \cap (0 .. Len(tree)) = {} /\ pending' \subseteq 1 .. Len(tree')
        /\ retry' = {}
    BY <1>7, RetryEffect
  <2>2. UNCHANGED <<lists, got, settle, books>>
    BY <1>7 DEF RetryFaulted
  <2>3. pending' \cap allIds = {}
    BY <1>1, <2>1
  <2> QED
    BY <1>1, <1>2, <2>1, <2>2, <2>3 DEF lists, settle, books, ListsInv
<1>8. CASE Score
  <2>1. (Scored \/ Fruitless) /\ UNCHANGED <<tree, batch, settle, books>>
    BY <1>8, ScoreEffect
  <2>2. /\ finished' \subseteq finished \cup got
        /\ beam' \cup waiting' \subseteq beam \cup waiting \cup got
    BY <2>1 DEF Scored, Fruitless, lists
  <2> QED
    BY <1>1, <1>2, <2>1, <2>2 DEF batch, settle, books, ListsInv
<1>9. CASE SettleStart
  <2>1. /\ UNCHANGED <<tree, lists, batch, fresh, scored, books>>
        /\ todo' \subseteq finished \cup {Root} /\ settledIds' \subseteq settledIds \cup finished
    BY <1>9, SettleStartEffect
  <2> QED
    BY <1>1, <1>2, <2>1 DEF lists, batch, books, ListsInv
<1>10. CASE SettleChunk
  <2>1. PICK chunk, bad : Settled(chunk, bad)
    BY <1>10, SettleEffect
  <2>2. UNCHANGED <<lists, batch, settledIds, released>>
    BY <1>10 DEF SettleChunk
  <2>3. fresh' \cap allIds = {} /\ fresh' \cap pending = {} /\ fresh' \cap released = {}
    BY <1>1, <2>1 DEF Settled, ListsInv
  <2>4. held' = allIds' \ released' /\ pending' \cap allIds' = {}
    BY <2>1, <2>2, <2>3 DEF Settled, ListsInv, batch
  <2> QED
    BY <1>1, <1>2, <2>1, <2>2, <2>4 DEF Settled, lists, batch, ListsInv
<1>11. CASE SettleDone
  <2>1. /\ UNCHANGED <<tree, beam, waiting, batch, fresh, settledIds, scored, books>>
        /\ todo' = {} /\ finished' \subseteq finished \cup {Root}
    BY <1>11, SettleDoneEffect
  <2> QED
    BY <1>1, <1>2, <2>1 DEF batch, books, ListsInv
<1>12. CASE SettleFree
  <2>1. /\ UNCHANGED <<tree, lists, batch, todo, width, settledIds, scored>>
        /\ fresh' \subseteq fresh /\ Frees(fresh)
    BY <1>12, SettleFreeEffect
  <2>2. fresh \subseteq allIds
    BY DEF ListsInv
  <2>3. allIds' = allIds /\ released' \subseteq allIds' /\ held' = allIds' \ released'
    BY <2>1, <2>2, FreesKeepsBooks
  <2> QED
    BY <1>1, <1>2, <2>1, <2>3 DEF lists, batch, ListsInv
<1>13. CASE Release \/ ReleaseBranches
  <2>1. UNCHANGED <<tree, lists, batch, settle>> /\ (Frees(Unneeded) \/ Frees(Remaining))
    BY <1>13, ReleaseEffect, CleanUpEffect
  <2>2. allIds' = allIds /\ released' \subseteq allIds' /\ held' = allIds' \ released'
    BY <2>1, FreesKeepsBooks DEF Unneeded, Remaining
  <2> QED
    BY <1>1, <1>2, <2>1, <2>2 DEF lists, batch, settle, ListsInv
<1>14. CASE CollectLeaves
  <2>1. /\ UNCHANGED <<tree, beam, waiting, batch, settle, books>>
        /\ finished' \subseteq finished \cup waiting \cup beam
    BY <1>14, CollectEffect
  <2> QED
    BY <1>1, <1>2, <2>1 DEF batch, settle, books, ListsInv
<1>15. CASE Align
  <2>1. /\ Aligned \/ UNCHANGED <<tree, scored, allIds, held>>
        /\ UNCHANGED <<lists, batch, todo, fresh, settledIds, released>>
    BY <1>15, AlignEffect
  <2>2. CASE Aligned
    <3>1. PICK new : /\ new \cap (0 .. Len(tree)) = {} /\ new \subseteq 1 .. Len(tree')
                     /\ allIds' = allIds \cup new /\ held' = held \cup new
                     /\ scored' = scored \cup Lagging
      BY <2>2 DEF Aligned
    <3>2. new \cap released = {} /\ new \cap pending = {}
      BY <1>1, <3>1 DEF ListsInv
    <3>3. held' = allIds' \ released' /\ pending' \cap allIds' = {}
      BY <2>1, <3>1, <3>2 DEF ListsInv, batch
    <3>4. scored' \subseteq allIds \cup {Root}
      BY <3>1, LaggingIsLeaves DEF ListsInv
    <3> QED
      BY <1>1, <1>2, <2>1, <3>1, <3>3, <3>4 DEF lists, batch, ListsInv
  <2>3. CASE UNCHANGED <<tree, scored, allIds, held>>
    BY <1>1, <1>2, <2>1, <2>3 DEF lists, batch, ListsInv
  <2> QED
    BY <2>1, <2>2, <2>3
<1>16. CASE \/ PlyOutOfTime \/ EmulateBroken \/ EmulateDone \/ SettleSkipped \/ SettleBroken
            \/ Tick \/ CancelBranches
  BY <1>3, <1>16, PhaseEffect
<1>17. CASE UNCHANGED vars
  BY <1>3, <1>17 DEF vars, Passes, settle, ctl
<1> QED
  BY <1>4, <1>5, <1>6, <1>7, <1>8, <1>9, <1>10, <1>11, <1>12, <1>13, <1>14, <1>15, <1>16,
     <1>17 DEF Next, Step, Finished

LEMMA SettleWidthIsBounded ==
  ASSUME TypeOK, ListsInv
  PROVE  SettleWidth \in 0 .. BatchSize
<1>1. BatchSize \in Nat \ {0} /\ Capacity \in Nat
  BY SetupFacts
<1>2. CASE WholeRun
  <2> DEFINE x == Capacity - Cardinality(allIds \ released)
             m == Min({BatchSize, x})
  <2>1. Cardinality(allIds \ released) \in Nat
    <3>1. allIds \ released \subseteq 0 .. Len(tree) /\ tree \in Seq(NodeRec)
      BY DEF TypeOK, ListsInv
    <3> QED
      BY <3>1, ListsAreFinite
  <2>2. x \in Int /\ BatchSize \in Int
    BY <1>1, <2>1
  <2> HIDE DEF x
  <2>3. m \in Int /\ m <= BatchSize
    BY <2>2, MinOfTwo
  <2> HIDE DEF m
  <2>4. Max({1, m}) \in {1, m} /\ Max({1, m}) >= 1
    <3>1. 1 \in Int
      OBVIOUS
    <3> QED
      BY <2>3, <3>1, MaxOfTwo, Zenon
  <2>5. SettleWidth = Max({1, m})
    BY <1>2 DEF SettleWidth, m, x
  <2> QED
    BY <1>1, <2>3, <2>4, <2>5
<1>3. CASE ~WholeRun
  BY <1>1, <1>3 DEF SettleWidth
<1> QED
  BY <1>2, <1>3

Pcs == {"ply", "emulate", "score", "settle", "settling", "settle_free", "release",
        "leaves", "align", "cancel", "free", "done"}

LEMMA PhaseStep ==
  ASSUME IInv, [Next]_vars
  PROVE  /\ pc' \in Pcs /\ stage' \in {"fit", "ply", "end", "root"}
         /\ width' \in 0 .. BatchSize /\ attempt' \in 1 .. MaxAttempts
         /\ fatal' \in {"none", "time_budget", "rejected"}
<1> USE DEF IInv
<1>1. /\ pc \in Pcs /\ stage \in {"fit", "ply", "end", "root"}
      /\ width \in 0 .. BatchSize /\ attempt \in 1 .. MaxAttempts
      /\ fatal \in {"none", "time_budget", "rejected"}
  BY DEF TypeOK, Pcs
<1>2. BatchSize \in Nat /\ 0 \in 0 .. BatchSize /\ 1 \in 1 .. MaxAttempts
  BY SetupFacts, BeamAssumption
<1>3. CASE \/ PlyOutOfTime \/ EmulateBroken \/ EmulateDone \/ SettleSkipped \/ SettleBroken
           \/ Tick \/ CancelBranches
  BY <1>1, <1>3, PhaseEffect DEF Passes, batch, Pcs
<1>4. CASE Propose
  <2>1. (Proposed \/ NothingProposed) /\ UNCHANGED <<settle>>
    BY <1>4, ProposeEffect
  <2> QED
    BY <1>1, <1>2, <2>1 DEF Proposed, NothingProposed, batch, settle, Pcs, BeforeRelease
<1>5. CASE EmulateOutOfTime \/ EmulateRejected
  BY <1>1, <1>5, EmulateEndEffect DEF settle, Pcs
<1>6. CASE EmulateChunk
  BY <1>1, <1>6 DEF EmulateChunk, ctl, settle
<1>7. CASE RetryFaulted
  <2>1. attempt' \in 1 .. MaxAttempts
    BY <1>7, RetryEffect
  <2> QED
    BY <1>1, <1>7, <2>1 DEF RetryFaulted, ctl, settle
<1>8. CASE Score
  BY <1>1, <1>8, ScoreEffect DEF Scored, Fruitless, batch, settle, Pcs, BeforeRelease
<1>9. CASE SettleStart
  BY <1>1, <1>9, SettleStartEffect, SettleWidthIsBounded DEF batch, Pcs
<1>10. CASE SettleChunk
  BY <1>1, <1>10 DEF SettleChunk, ctl, batch, Pcs
<1>11. CASE SettleDone
  <2>1. /\ width' = 0 /\ UNCHANGED batch
        /\ stage' \in {stage, "root"} /\ pc' \in {"release", "settle", "cancel"}
    BY <1>11, SettleDoneEffect
  <2> QED
    BY <1>1, <1>2, <2>1 DEF batch, Pcs
<1>12. CASE SettleFree
  BY <1>1, <1>12, SettleFreeEffect DEF batch, Pcs
<1>13. CASE Release
  BY <1>1, <1>13, ReleaseEffect DEF batch, settle, Pcs
<1>14. CASE CollectLeaves
  <2>1. UNCHANGED <<batch, settle>> /\ stage' = "end" /\ pc' \in {"cancel", "align", "settle"}
    BY <1>14, CollectEffect, SetupFacts
  <2> QED
    BY <1>1, <2>1 DEF batch, settle, Pcs
<1>15. CASE Align
  BY <1>1, <1>15, AlignEffect DEF ctl, batch, Pcs
<1>16. CASE ReleaseBranches
  BY <1>1, <1>16, CleanUpEffect DEF batch, settle, Pcs
<1>17. CASE UNCHANGED vars
  BY <1>1, <1>17 DEF vars, ctl, batch, settle
<1> QED
  BY <1>3, <1>4, <1>5, <1>6, <1>7, <1>8, <1>9, <1>10, <1>11, <1>12, <1>13, <1>14, <1>15,
     <1>16, <1>17 DEF Next, Step, Finished

LEMMA TypeStep ==
  ASSUME IInv, [Next]_vars
  PROVE  TypeOK'
<1>1. /\ pc' \in Pcs /\ stage' \in {"fit", "ply", "end", "root"}
      /\ width' \in 0 .. BatchSize /\ attempt' \in 1 .. MaxAttempts
      /\ fatal' \in {"none", "time_budget", "rejected"}
  BY PhaseStep
<1>2. setup' = setup /\ setup \in Setups /\ BatchSize' = BatchSize
  BY StepKeeps DEF IInv, TypeOK, BatchSize, Capacity
<1>3. HistoryGrows
  BY EnvStep
<1>4. TreeOK' /\ Len(tree') \in Nat
  BY StepKeeps DEF Keeps
<1>5. ListsInv' /\ allIds' \cup pending' \subseteq 1 .. Len(tree')
  BY ListsStep
<1>6. /\ beam' \cup waiting' \cup finished' \cup settledIds' \cup scored' \cup todo'
           \subseteq 0 .. Len(tree')
      /\ pending' \cup retry' \cup got' \cup fresh' \cup allIds' \cup released' \cup held'
           \subseteq 1 .. Len(tree')
  <2>1. /\ beam' \cup waiting' \cup finished' \cup settledIds' \cup scored' \cup todo'
             \subseteq allIds' \cup {Root}
        /\ got' \cup retry' \cup fresh' \subseteq allIds'
        /\ released' \subseteq allIds' /\ held' \subseteq allIds'
    BY <1>5 DEF ListsInv
  <2>2. allIds' \cup {Root} \subseteq 0 .. Len(tree')
    BY <1>4, <1>5 DEF Root
  <2> QED
    BY <1>5, <2>1, <2>2
<1> QED
  BY <1>1, <1>2, <1>3, <1>4, <1>6 DEF TypeOK, TreeOK, HistoryGrows, Pcs

----------------------------------------------------------------------------
(* The limits, and what the search needs.                                  *)

\* No branch changes its parent or its depth.
LEMMA DepthsStay ==
  ASSUME IInv, [Next]_vars
  PROVE  /\ \A i \in 0 .. Len(tree) : Node(i)'.combat = Node(i).combat
         /\ \A i \in 1 .. Len(tree) : tree'[i].parent = tree[i].parent
<1>1. PICK changed : /\ changed \subseteq pending /\ Keeps(changed)
                     /\ \A i \in changed : /\ Node(i)'.combat = Node(i).combat
                                           /\ tree'[i].parent = tree[i].parent
  BY StepKeeps
<1>2. \A i \in (0 .. Len(tree)) \ changed : Node(i)' = Node(i)
  BY <1>1 DEF Keeps
<1>3. \A i \in 1 .. Len(tree) : Node(i) = tree[i] /\ Node(i)' = tree'[i]
  BY DEF Node, Root
<1>4. ASSUME NEW i \in 1 .. Len(tree)
      PROVE  tree'[i].parent = tree[i].parent
  <2>1. CASE i \in changed
    BY <1>1, <2>1
  <2>2. CASE i \notin changed
    <3>1. i \in 0 .. Len(tree)
      BY DEF IInv, ListsInv
    <3>2. tree'[i] = tree[i]
      BY <1>2, <1>3, <2>2, <3>1
    <3> QED
      BY <3>2
  <2> QED
    BY <2>1, <2>2
<1> QED
  BY <1>1, <1>2, <1>4

LEMMA AdmittedKeepTheirState ==
  ASSUME IInv, [Next]_vars, NEW i \in allIds \cup {Root}
  PROVE  /\ Expandable(i)' <=> Expandable(i)
         /\ HasEndTurn(i)' <=> HasEndTurn(i)
         /\ SettleAction(i)' <=> SettleAction(i)
         /\ Node(i)'.combat = Node(i).combat /\ Node(i)'.kind = Node(i).kind
<1>1. Node(i)' = Node(i)
  BY AdmittedNodesStay
<1> QED
  BY <1>1 DEF Expandable, HasEndTurn, SettleAction, Crossed

\* Where the frontier of the next state comes from.
LEMMA FrontierStep ==
  ASSUME IInv, [Next]_vars
  PROVE  /\ beam' \cup waiting' \subseteq beam \cup waiting \cup got
         /\ \A i \in beam' \cup waiting' : Expandable(i)
         /\ ~Score => beam' \cup waiting' \subseteq beam \cup waiting
<1> USE DEF IInv
<1>1. \A i \in beam \cup waiting : Expandable(i)
  BY DEF LimitInv
<1>2. CASE UNCHANGED <<beam, waiting>>
  BY <1>1, <1>2
<1>3. CASE Propose
  BY <1>1, <1>3, ProposeEffect DEF Proposed, NothingProposed
<1>4. CASE Score
  BY <1>1, <1>4, ScoreEffect DEF Scored, Fruitless, lists
<1>5. CASE \/ PlyOutOfTime \/ EmulateBroken \/ EmulateDone \/ SettleSkipped \/ SettleBroken
           \/ Tick \/ CancelBranches
  BY <1>2, <1>5, PhaseEffect DEF Passes, lists
<1>6. CASE EmulateOutOfTime \/ EmulateRejected \/ EmulateChunk \/ RetryFaulted
  BY <1>2, <1>6, EmulateEndEffect DEF EmulateChunk, RetryFaulted, lists
<1>7. CASE SettleStart \/ SettleChunk \/ SettleDone \/ SettleFree
  BY <1>2, <1>7, SettleStartEffect, SettleDoneEffect, SettleFreeEffect DEF SettleChunk, lists
<1>8. CASE Release \/ CollectLeaves \/ Align \/ ReleaseBranches
  BY <1>2, <1>8, ReleaseEffect, CollectEffect, AlignEffect, CleanUpEffect DEF lists
<1>9. CASE UNCHANGED vars
  BY <1>2, <1>9 DEF vars, lists
<1> QED
  BY <1>3, <1>4, <1>5, <1>6, <1>7, <1>8, <1>9 DEF Next, Step, Finished

\* Where the leaves come from.
LEMMA LeafStep ==
  ASSUME IInv, [Next]_vars
  PROVE  /\ finished \subseteq finished'
         /\ finished' \subseteq finished \cup beam \cup waiting \cup got \cup {Root}
         /\ ~(Propose \/ Score \/ CollectLeaves \/ SettleDone) => finished' = finished
<1> USE DEF IInv
<1>1. CASE finished' = finished
  BY <1>1
<1>2. CASE Propose
  BY <1>2, ProposeEffect DEF Proposed, NothingProposed
<1>3. CASE Score
  BY <1>3, ScoreEffect DEF Scored, Fruitless, lists
<1>4. CASE CollectLeaves \/ SettleDone
  BY <1>4, CollectEffect, SettleDoneEffect
<1>5. CASE \/ PlyOutOfTime \/ EmulateBroken \/ EmulateDone \/ SettleSkipped \/ SettleBroken
           \/ Tick \/ CancelBranches
  BY <1>1, <1>5, PhaseEffect DEF Passes, lists
<1>6. CASE EmulateOutOfTime \/ EmulateRejected \/ EmulateChunk \/ RetryFaulted
  BY <1>1, <1>6, EmulateEndEffect DEF EmulateChunk, RetryFaulted, lists
<1>7. CASE SettleStart \/ SettleChunk \/ SettleFree
  BY <1>1, <1>7, SettleStartEffect, SettleFreeEffect DEF SettleChunk, lists
<1>8. CASE Release \/ Align \/ ReleaseBranches
  BY <1>1, <1>8, ReleaseEffect, AlignEffect, CleanUpEffect DEF lists
<1>9. CASE UNCHANGED vars
  BY <1>1, <1>9 DEF vars, lists
<1> QED
  BY <1>2, <1>3, <1>4, <1>5, <1>6, <1>7, <1>8, <1>9 DEF Next, Step, Finished

\* Where the branches of the ply come from.
LEMMA BatchStep ==
  ASSUME IInv, [Next]_vars
  PROVE  /\ \/ pending' \subseteq pending
            \/ \A b \in pending' : Node(b)'.combat <= MaxDepth
         /\ retry' \cup got' \subseteq retry \cup got \cup pending
<1> USE DEF IInv
<1>1. CASE UNCHANGED <<pending, retry, got>>
  BY <1>1
<1>2. CASE Propose
  <2>1. CASE Proposed
    BY <2>1 DEF Proposed
  <2>2. CASE NothingProposed
    BY <1>1, <2>2 DEF NothingProposed, batch
  <2> QED
    BY <1>2, <2>1, <2>2, ProposeEffect
<1>3. CASE EmulateChunk
  <2>1. PICK chunk, bad : Emulated(chunk, bad)
    BY <1>3, ChunkEffect
  <2>2. CASE RetryAllowed
    BY <2>1, <2>2 DEF Emulated
  <2>3. CASE ~RetryAllowed
    BY <2>1, <2>3 DEF Emulated
  <2> QED
    BY <2>2, <2>3
<1>4. CASE RetryFaulted
  <2>1. (\A b \in pending' : Node(b)'.combat <= MaxDepth) /\ retry' = {}
    BY <1>4, RetryEffect
  <2> QED
    BY <1>4, <2>1 DEF RetryFaulted
<1>5. CASE \/ PlyOutOfTime \/ EmulateBroken \/ EmulateDone \/ SettleSkipped \/ SettleBroken
           \/ Tick \/ CancelBranches
  BY <1>1, <1>5, PhaseEffect DEF Passes, batch
<1>6. CASE EmulateOutOfTime \/ EmulateRejected \/ Score
  BY <1>1, <1>6, EmulateEndEffect, ScoreEffect DEF batch
<1>7. CASE SettleStart \/ SettleChunk \/ SettleDone \/ SettleFree
  BY <1>1, <1>7, SettleStartEffect, SettleDoneEffect, SettleFreeEffect DEF SettleChunk, batch
<1>8. CASE Release \/ CollectLeaves \/ Align \/ ReleaseBranches
  BY <1>1, <1>8, ReleaseEffect, CollectEffect, AlignEffect, CleanUpEffect DEF batch
<1>9. CASE UNCHANGED vars
  BY <1>1, <1>9 DEF vars, batch
<1> QED
  BY <1>2, <1>3, <1>4, <1>5, <1>6, <1>7, <1>8, <1>9 DEF Next, Step, Finished

\* Settling takes leaves, or the root, and then only drops them.
LEMMA TodoStep ==
  ASSUME IInv, [Next]_vars
  PROVE  \/ todo' \subseteq todo
         \/ SettleStart /\ todo' \subseteq {i \in finished \cup {Root} : HasEndTurn(i)}
<1> USE DEF IInv
<1>1. CASE todo' = todo
  BY <1>1
<1>2. CASE SettleStart
  BY <1>2, SettleStartEffect DEF SettleAction
<1>3. CASE \/ PlyOutOfTime \/ EmulateBroken \/ EmulateDone \/ SettleSkipped \/ SettleBroken
           \/ Tick \/ CancelBranches
  BY <1>1, <1>3, PhaseEffect
<1>4. CASE Propose \/ EmulateOutOfTime \/ EmulateRejected \/ EmulateChunk \/ RetryFaulted \/ Score
  BY <1>1, <1>4, ProposeEffect, EmulateEndEffect, ScoreEffect
     DEF EmulateChunk, RetryFaulted, settle
<1>5. CASE SettleChunk
  <2>1. PICK chunk, bad : Settled(chunk, bad)
    BY <1>5, SettleEffect
  <2> QED
    BY <2>1 DEF Settled
<1>6. CASE SettleDone \/ SettleFree
  BY <1>6, SettleDoneEffect, SettleFreeEffect
<1>7. CASE Release \/ CollectLeaves \/ Align \/ ReleaseBranches
  BY <1>1, <1>7, ReleaseEffect, CollectEffect, AlignEffect, CleanUpEffect DEF settle
<1>8. CASE UNCHANGED vars
  BY <1>1, <1>8 DEF vars, settle
<1> QED
  BY <1>2, <1>3, <1>4, <1>5, <1>6, <1>7, <1>8 DEF Next, Step, Finished

LEMMA LimitStep ==
  ASSUME IInv, [Next]_vars
  PROVE  LimitInv'
<1> USE DEF IInv
<1>1. /\ beam \cup waiting \cup finished \cup todo \subseteq allIds \cup {Root}
      /\ got \cup retry \subseteq allIds
      /\ pending \cup retry \cup got \cup finished \subseteq 0 .. Len(tree)
  <2>1. pending \cup retry \cup got \subseteq 0 .. Len(tree) /\ finished \subseteq 0 .. Len(tree)
    BY DEF ListsInv, TypeOK
  <2> QED
    BY <2>1 DEF ListsInv
<1>2. \A i \in allIds \cup {Root} :
        /\ Expandable(i)' <=> Expandable(i)
        /\ HasEndTurn(i)' <=> HasEndTurn(i)
        /\ Node(i)'.combat = Node(i).combat
  BY AdmittedKeepTheirState
<1>3. \A i \in beam' \cup waiting' : Expandable(i)'
  <2>1. beam' \cup waiting' \subseteq allIds \cup {Root}
    BY <1>1, FrontierStep
  <2>2. \A i \in beam' \cup waiting' : Expandable(i)
    BY FrontierStep
  <2> QED
    BY <1>2, <2>1, <2>2
<1>4. Node(Root).combat <= MaxDepth
  BY BeamAssumption DEF Node
<1>5. \A i \in pending \cup retry \cup got \cup finished \cup beam \cup waiting \cup {Root} :
        Node(i).combat <= MaxDepth
  BY <1>4 DEF LimitInv, Expandable
<1>6. \A i \in pending' \cup retry' \cup got' \cup finished' : Node(i)'.combat <= MaxDepth
  <2>1. \A i \in pending \cup retry \cup got \cup finished \cup beam \cup waiting \cup {Root} :
          Node(i)'.combat <= MaxDepth
    <3>1. /\ \A i \in 0 .. Len(tree) : Node(i)'.combat = Node(i).combat
          /\ \A i \in allIds \cup {Root} : Node(i)'.combat = Node(i).combat
      BY <1>2, DepthsStay
    <3>2. ASSUME NEW i \in pending \cup retry \cup got \cup finished \cup beam \cup waiting
                             \cup {Root}
          PROVE  Node(i)'.combat = Node(i).combat
      <4>1. i \in 0 .. Len(tree) \/ i \in allIds \cup {Root}
        BY <1>1
      <4> QED
        BY <3>1, <4>1
    <3> QED
      BY <1>5, <3>2
  <2>2. \A i \in retry' \cup got' \cup finished' : Node(i)'.combat <= MaxDepth
    BY <2>1, BatchStep, LeafStep
  <2>3. \A i \in pending' : Node(i)'.combat <= MaxDepth
    BY <2>1, BatchStep
  <2> QED
    BY <2>2, <2>3
<1>7. \A i \in todo' : HasEndTurn(i)' /\ Node(i)'.combat <= MaxDepth
  <2>1. \A i \in todo' : i \in allIds \cup {Root} /\ HasEndTurn(i) /\ Node(i).combat <= MaxDepth
    <3>1. CASE todo' \subseteq todo
      BY <1>1, <3>1 DEF LimitInv
    <3>2. CASE todo' \subseteq {i \in finished \cup {Root} : HasEndTurn(i)}
      BY <1>1, <1>5, <3>2
    <3> QED
      BY <3>1, <3>2, TodoStep
  <2> QED
    BY <1>2, <2>1
<1> QED
  BY <1>3, <1>6, <1>7 DEF LimitInv

\* Whether a frontier waits for room only depends on the phase.
LEMMA FittingNext ==
  Fitting' <=> stage' = "fit" /\ pc' \in {"settle", "settling", "settle_free", "release"}
BY DEF Fitting

\* The frontier stays held until the clean-up.
LEMMA FrontierIsHeld ==
  ASSUME IInv, [Next]_vars, pc' # "done"
  PROVE  beam' \cup waiting' \subseteq held' \cup {Root}
<1> USE DEF IInv
<1>1. beam' \cup waiting' \subseteq beam \cup waiting \cup got
      /\ (~Score => beam' \cup waiting' \subseteq beam \cup waiting)
  BY FrontierStep
<1>2. CASE pc = "done"
  <2>1. UNCHANGED vars
    BY <1>2, PhaseEffect, ProposeEffect, EmulateEndEffect, ScoreEffect, SettleStartEffect,
       SettleDoneEffect, SettleFreeEffect, ReleaseEffect, CollectEffect, AlignEffect,
       CleanUpEffect
       DEF Next, Step, Finished, Propose, EmulateChunk, RetryFaulted, SettleChunk
  <2> QED
    BY <1>2, <2>1 DEF vars
<1>3. beam \cup waiting \subseteq held \cup {Root} \/ pc = "done"
  BY DEF NeededInv
<1>4. CASE pc # "done" /\ held \subseteq held'
  <2>1. CASE Score
    BY <1>1, <1>3, <1>4, <2>1, ScoreEffect DEF NeededInv
  <2>2. CASE ~Score
    BY <1>1, <1>3, <1>4, <2>2
  <2> QED
    BY <2>1, <2>2
<1>5. CASE UNCHANGED books
  BY <1>2, <1>4, <1>5 DEF books
<1>6. CASE Propose \/ RetryFaulted \/ Score \/ EmulateOutOfTime \/ EmulateRejected
  BY <1>5, <1>6, ProposeEffect, EmulateEndEffect, ScoreEffect DEF RetryFaulted
<1>7. CASE EmulateChunk
  <2>1. PICK chunk, bad : Emulated(chunk, bad)
    BY <1>7, ChunkEffect
  <2> QED
    BY <1>2, <1>4, <2>1 DEF Emulated
<1>8. CASE SettleChunk
  <2>1. PICK chunk, bad : Settled(chunk, bad)
    BY <1>8, SettleEffect
  <2> QED
    BY <1>2, <1>4, <2>1 DEF Settled
<1>9. CASE SettleStart \/ SettleDone \/ CollectLeaves
  BY <1>5, <1>9, SettleStartEffect, SettleDoneEffect, CollectEffect
<1>10. CASE SettleFree
  <2>1. pc = "settle_free" /\ Frees(fresh) /\ UNCHANGED lists
    BY <1>10, SettleFreeEffect
  <2>2. fresh \cap (beam \cup waiting) = {}
    BY <2>1 DEF NeededInv
  <2> QED
    BY <1>3, <2>1, <2>2 DEF Frees, lists, books
<1>11. CASE Release
  <2>1. pc = "release" /\ Frees(Unneeded) /\ UNCHANGED lists
    BY <1>11, ReleaseEffect
  <2> QED
    BY <1>3, <2>1 DEF Frees, Unneeded, lists, books
<1>12. CASE Align
  <2>1. pc = "align" /\ held \subseteq held'
    BY <1>12, AlignEffect DEF Aligned
  <2> QED
    BY <1>4, <2>1
<1>13. CASE ReleaseBranches
  BY <1>13, CleanUpEffect
<1>14. CASE \/ PlyOutOfTime \/ EmulateBroken \/ EmulateDone \/ SettleSkipped \/ SettleBroken
            \/ Tick \/ CancelBranches
  BY <1>5, <1>14, PhaseEffect DEF Passes
<1>15. CASE UNCHANGED vars
  BY <1>5, <1>15 DEF vars
<1> QED
  BY <1>6, <1>7, <1>8, <1>9, <1>10, <1>11, <1>12, <1>13, <1>14, <1>15
     DEF Next, Step, Finished

\* The parent of what is to be submitted or retried stays in the frontier.
LEMMA ParentsStay ==
  ASSUME IInv, [Next]_vars, Fitting' \/ pc' = "emulate"
  PROVE  /\ \A b \in pending' \cup retry' : tree'[b].parent \in beam'
         /\ Fitting' => got' = {} /\ retry' = {}
<1> USE DEF IInv
<1>1. /\ pc' \in {"settle", "settling", "settle_free", "release", "emulate"}
      /\ Fitting' => stage' = "fit" /\ pc' # "emulate"
  BY FittingNext
<1>2. /\ pending \cup retry \subseteq 1 .. Len(tree)
      /\ \A i \in 1 .. Len(tree) : tree'[i].parent = tree[i].parent
  BY DepthsStay DEF TypeOK
<1>3. CASE /\ UNCHANGED <<beam, pending, retry, got>> /\ (Fitting \/ pc = "emulate")
           /\ Fitting' => Fitting
  <2>1. \A b \in pending \cup retry : tree[b].parent \in beam
    BY <1>3 DEF NeededInv
  <2>2. \A b \in pending \cup retry : tree'[b].parent \in beam
    BY <1>2, <2>1
  <2>3. Fitting => got = {} /\ retry = {}
    BY DEF NeededInv
  <2> QED
    BY <1>3, <2>2, <2>3
<1>4. CASE Propose
  BY <1>1, <1>4, ProposeEffect DEF Proposed, NothingProposed
<1>5. CASE EmulateChunk
  <2>1. PICK chunk, bad : Emulated(chunk, bad)
    BY <1>5, ChunkEffect
  <2>2. pc = "emulate" /\ pc' = "emulate" /\ beam' = beam
    BY <1>5 DEF EmulateChunk, lists
  <2>3. pending' \cup retry' \subseteq pending \cup retry
    <3>1. CASE RetryAllowed
      BY <2>1, <3>1 DEF Emulated
    <3>2. CASE ~RetryAllowed
      BY <2>1, <3>2 DEF Emulated
    <3> QED
      BY <3>1, <3>2
  <2>4. \A b \in pending \cup retry : tree[b].parent \in beam
    BY <2>2 DEF NeededInv
  <2> QED
    BY <1>1, <1>2, <2>2, <2>3, <2>4
<1>6. CASE RetryFaulted
  <2>1. (\A b \in pending' : tree'[b].parent \in beam) /\ retry' = {}
    BY <1>6, RetryEffect
  <2>2. pc' = "emulate" /\ beam' = beam
    BY <1>6 DEF RetryFaulted, lists
  <2> QED
    BY <1>1, <2>1, <2>2
<1>7. CASE EmulateOutOfTime \/ EmulateRejected \/ CollectLeaves \/ Align \/ ReleaseBranches
  <2>1. pc' \in {"score", "cancel", "done"} \/ (stage' = "end" /\ pc' # "emulate")
    BY <1>7, EmulateEndEffect, CollectEffect, AlignEffect, CleanUpEffect, SetupFacts
  <2> QED
    BY <1>1, <2>1
<1>8. CASE Score
  <2>1. pc' \in {"leaves", "cancel"} \/ (stage' = "ply" /\ pc' # "emulate")
    BY <1>8, ScoreEffect DEF Scored, Fruitless, BeforeRelease
  <2> QED
    BY <1>1, <2>1
<1>9. CASE SettleStart
  BY <1>1, <1>3, <1>9, SettleStartEffect DEF Fitting, lists, batch
<1>10. CASE SettleChunk
  <2>1. pc = "settling" /\ pc' = "settle_free" /\ UNCHANGED <<stage, lists, batch>>
    BY <1>10 DEF SettleChunk, ctl
  <2> QED
    BY <1>1, <1>3, <2>1 DEF Fitting, lists, batch
<1>11. CASE SettleDone
  BY <1>1, <1>3, <1>11, SettleDoneEffect DEF Fitting, lists, batch
<1>12. CASE SettleFree
  BY <1>1, <1>3, <1>12, SettleFreeEffect DEF Fitting, lists, batch
<1>13. CASE Release
  <2>1. /\ UNCHANGED <<stage, lists, batch>> /\ pc = "release" /\ stage # "ply"
        /\ pc' = "emulate"
    BY <1>1, <1>13, ReleaseEffect
  <2>2. stage = "fit"
    BY <2>1 DEF SettlingInv
  <2> QED
    BY <1>1, <1>3, <2>1, <2>2 DEF Fitting, lists, batch
<1>14. CASE \/ PlyOutOfTime \/ EmulateBroken \/ EmulateDone \/ SettleSkipped \/ SettleBroken
            \/ Tick \/ CancelBranches
  <2>1. Passes /\ UNCHANGED <<pc, stage>>
    BY <1>1, <1>14, PhaseEffect
  <2> QED
    BY <1>1, <1>3, <2>1 DEF Passes, Fitting, lists, batch
<1>15. CASE UNCHANGED vars
  BY <1>1, <1>3, <1>15 DEF vars, Fitting, ctl, lists, batch
<1> QED
  BY <1>4, <1>5, <1>6, <1>7, <1>8, <1>9, <1>10, <1>11, <1>12, <1>13, <1>14, <1>15
     DEF Next, Step, Finished

LEMMA ResultsAreHeld ==
  ASSUME IInv, [Next]_vars, pc' \in {"emulate", "score"}
  PROVE  got' \subseteq held'
<1> USE DEF IInv
<1>1. CASE pc = "emulate" /\ UNCHANGED <<got, held>>
  BY <1>1 DEF NeededInv
<1>2. CASE Propose
  BY <1>2, ProposeEffect DEF Proposed, NothingProposed
<1>3. CASE EmulateChunk
  <2>1. PICK chunk, bad : Emulated(chunk, bad)
    BY <1>3, ChunkEffect
  <2>2. got \subseteq held
    BY <1>3 DEF EmulateChunk, NeededInv
  <2>3. got' \subseteq got \cup chunk
    BY <2>1 DEF Emulated
  <2> QED
    BY <2>1, <2>2, <2>3 DEF Emulated
<1>4. CASE RetryFaulted
  BY <1>1, <1>4 DEF RetryFaulted, books
<1>5. CASE EmulateOutOfTime \/ EmulateRejected
  BY <1>1, <1>5, EmulateEndEffect DEF books
<1>6. CASE Score
  BY <1>6, ScoreEffect DEF Scored, Fruitless, BeforeRelease
<1>7. CASE SettleStart \/ SettleChunk \/ SettleDone \/ SettleFree
  BY <1>7, SettleStartEffect, SettleDoneEffect, SettleFreeEffect DEF SettleChunk
<1>8. CASE Release
  <2>1. pc = "release" /\ stage # "ply" /\ UNCHANGED batch
    BY <1>8, ReleaseEffect
  <2>2. got = {}
    BY <2>1 DEF SettlingInv, NeededInv, Fitting
  <2> QED
    BY <2>1, <2>2 DEF batch
<1>9. CASE CollectLeaves \/ Align \/ ReleaseBranches
  BY <1>9, CollectEffect, AlignEffect, CleanUpEffect, SetupFacts
<1>10. CASE Tick \/ EmulateDone
  <2>1. Passes /\ pc \in {"emulate", "score"}
    BY <1>10, PhaseEffect
  <2> QED
    BY <2>1 DEF Passes, batch, books, NeededInv
<1>11. CASE PlyOutOfTime \/ EmulateBroken \/ SettleSkipped \/ SettleBroken \/ CancelBranches
  BY <1>11, PhaseEffect
<1>12. CASE UNCHANGED vars
  BY <1>12 DEF vars, batch, books, NeededInv
<1> QED
  BY <1>2, <1>3, <1>4, <1>5, <1>6, <1>7, <1>8, <1>9, <1>10, <1>11, <1>12
     DEF Next, Step, Finished

\* The branches a settling chunk made are none of the search's nodes.
LEMMA FreshIsApart ==
  ASSUME IInv, [Next]_vars, pc' = "settle_free"
  PROVE  fresh' \cap (beam' \cup waiting' \cup finished' \cup todo') = {}
<1> USE DEF IInv
<1>1. CASE UNCHANGED <<pc, fresh, lists, todo>>
  BY <1>1 DEF NeededInv, lists
<1>2. CASE SettleChunk
  <2>1. PICK chunk, bad : Settled(chunk, bad)
    BY <1>2, SettleEffect
  <2>2. UNCHANGED lists
    BY <1>2 DEF SettleChunk
  <2>3. beam \cup waiting \cup finished \cup todo \subseteq 0 .. Len(tree)
    BY DEF TypeOK
  <2> QED
    BY <2>1, <2>2, <2>3 DEF Settled, lists
<1>3. CASE Propose \/ EmulateOutOfTime \/ EmulateRejected \/ EmulateChunk \/ RetryFaulted \/ Score
  BY <1>3, ProposeEffect, EmulateEndEffect, ScoreEffect
     DEF Proposed, NothingProposed, Scored, Fruitless, BeforeRelease, EmulateChunk, RetryFaulted
<1>4. CASE SettleStart \/ SettleDone \/ SettleFree
  BY <1>4, SettleStartEffect, SettleDoneEffect, SettleFreeEffect
<1>5. CASE Release \/ CollectLeaves \/ Align \/ ReleaseBranches
  BY <1>5, ReleaseEffect, CollectEffect, AlignEffect, CleanUpEffect, SetupFacts
<1>6. CASE Tick
  BY <1>1, <1>6, PhaseEffect DEF Passes
<1>7. CASE \/ PlyOutOfTime \/ EmulateBroken \/ EmulateDone \/ SettleSkipped \/ SettleBroken
           \/ CancelBranches
  BY <1>7, PhaseEffect
<1>8. CASE UNCHANGED vars
  BY <1>1, <1>8 DEF vars, settle
<1> QED
  BY <1>2, <1>3, <1>4, <1>5, <1>6, <1>7, <1>8 DEF Next, Step, Finished

\* settledIds grows only when settling begins, by all the leaves there are.
LEMMA TriedStep ==
  ASSUME IInv, [Next]_vars
  PROVE  settledIds' = settledIds \/ (SettleStart /\ settledIds' = settledIds \cup finished)
<1> USE DEF IInv
<1>1. CASE SettleStart
  BY <1>1, SettleStartEffect
<1>2. CASE Propose \/ EmulateOutOfTime \/ EmulateRejected \/ EmulateChunk \/ RetryFaulted \/ Score
  BY <1>2, ProposeEffect, EmulateEndEffect, ScoreEffect DEF EmulateChunk, RetryFaulted, settle
<1>3. CASE SettleChunk \/ SettleDone \/ SettleFree
  BY <1>3, SettleDoneEffect, SettleFreeEffect DEF SettleChunk
<1>4. CASE Release \/ CollectLeaves \/ Align \/ ReleaseBranches
  BY <1>4, ReleaseEffect, CollectEffect, AlignEffect, CleanUpEffect DEF settle
<1>5. CASE \/ PlyOutOfTime \/ EmulateBroken \/ EmulateDone \/ SettleSkipped \/ SettleBroken
           \/ Tick \/ CancelBranches
  BY <1>5, PhaseEffect DEF Passes
<1>6. CASE UNCHANGED vars
  BY <1>6 DEF vars, settle
<1> QED
  BY <1>1, <1>2, <1>3, <1>4, <1>5, <1>6 DEF Next, Step, Finished

\* With turn_boundary_scoring, a release finds every leaf tried.
LEMMA ReleaseComesAfter ==
  ASSUME IInv, Boundary, pc = "release"
  PROVE  todo = {} /\ finished \subseteq settledIds
BY DEF IInv, SettlingInv

\* Held leaves stay held while they may still be settled.
LEMMA UntriedLeavesAreHeld ==
  ASSUME IInv, [Next]_vars, Boundary, pc' \notin {"cancel", "free", "done"},
         NEW i \in todo' \cup (finished' \ settledIds'), SettleAction(i)'
  PROVE  i \in held'
<1> USE DEF IInv
<1>1. i \in allIds /\ SettleAction(i) /\ i # Root
  <2>1. beam \cup waiting \cup finished \cup got \cup todo \subseteq allIds \cup {Root}
    BY DEF ListsInv
  <2>2. i \in allIds \cup {Root}
    BY <2>1, TodoStep, LeafStep
  <2> QED
    BY <2>2, AdmittedKeepTheirState DEF SettleAction
<1>2. pc \notin {"cancel", "free", "done"} =>
        \A j \in todo \cup (finished \ settledIds) : SettleAction(j) => j \in held
  BY DEF NeededInv
<1>3. CASE held \subseteq held' /\ todo' \subseteq todo /\ finished' = finished
             /\ settledIds' = settledIds /\ pc \notin {"cancel", "free", "done"}
  BY <1>1, <1>2, <1>3
<1>4. CASE Propose
  <2>1. /\ UNCHANGED <<settle, books>> /\ pc = "ply"
        /\ finished' \subseteq finished \cup beam \cup waiting
    BY <1>4, ProposeEffect DEF Proposed, NothingProposed, Propose
  <2>2. beam \cup waiting \subseteq held \cup {Root}
    BY <2>1 DEF NeededInv
  <2> QED
    BY <1>1, <1>2, <2>1, <2>2 DEF settle, books
<1>5. CASE Score
  <2>1. /\ UNCHANGED <<settle, books>> /\ pc = "score" /\ finished' \subseteq finished \cup got
    BY <1>5, ScoreEffect DEF Scored, Fruitless, lists
  <2>2. got \subseteq held
    BY <2>1 DEF NeededInv
  <2> QED
    BY <1>1, <1>2, <2>1, <2>2 DEF settle, books
<1>6. CASE CollectLeaves
  <2>1. /\ UNCHANGED <<settle, books>> /\ pc = "leaves"
        /\ finished' \subseteq finished \cup waiting \cup beam
    BY <1>6, CollectEffect
  <2>2. beam \cup waiting \subseteq held \cup {Root}
    BY <2>1 DEF NeededInv
  <2> QED
    BY <1>1, <1>2, <2>1, <2>2 DEF settle, books
<1>7. CASE SettleStart
  <2>1. UNCHANGED <<lists, books>> /\ pc = "settle"
    BY <1>7, SettleStartEffect
  <2>2. CASE stage = "root"
    <3>1. todo' \subseteq {Root} /\ settledIds' = settledIds
      BY <1>7, <2>2, SettleStartEffect
    <3> QED
      BY <1>1, <1>2, <2>1, <3>1 DEF lists, books
  <2>3. CASE stage # "root"
    <3>1. todo' \subseteq finished \ settledIds /\ settledIds' = settledIds \cup finished
      BY <1>7, <2>3, SettleStartEffect
    <3> QED
      BY <1>1, <1>2, <2>1, <3>1 DEF lists, books
  <2> QED
    BY <2>2, <2>3
<1>8. CASE SettleDone
  <2>1. /\ UNCHANGED <<settledIds, books>> /\ pc = "settling" /\ todo' = {}
        /\ finished' \subseteq finished \cup {Root}
    BY <1>8, SettleDoneEffect
  <2> QED
    BY <1>1, <1>2, <2>1 DEF books
<1>9. CASE EmulateChunk
  <2>1. PICK chunk, bad : Emulated(chunk, bad)
    BY <1>9, ChunkEffect
  <2>2. UNCHANGED <<lists, settle>> /\ pc = "emulate"
    BY <1>9 DEF EmulateChunk
  <2> QED
    BY <1>3, <2>1, <2>2 DEF Emulated, lists, settle
<1>10. CASE RetryFaulted \/ EmulateOutOfTime \/ EmulateRejected
  <2>1. UNCHANGED <<lists, settle, books>> /\ pc = "emulate"
    BY <1>10, EmulateEndEffect DEF RetryFaulted
  <2> QED
    BY <1>3, <2>1 DEF lists, settle, books
<1>11. CASE SettleChunk
  <2>1. PICK chunk, bad : Settled(chunk, bad)
    BY <1>11, SettleEffect
  <2>2. UNCHANGED <<lists, settledIds>> /\ pc = "settling"
    BY <1>11 DEF SettleChunk
  <2> QED
    BY <1>3, <2>1, <2>2 DEF Settled, lists
<1>12. CASE SettleFree
  <2>1. UNCHANGED <<lists, todo, settledIds>> /\ pc = "settle_free" /\ Frees(fresh)
    BY <1>12, SettleFreeEffect
  <2>2. fresh \cap (finished \cup todo) = {}
    BY <2>1 DEF NeededInv
  <2> QED
    BY <1>1, <1>2, <2>1, <2>2 DEF Frees, lists, books
<1>13. CASE Release
  <2>1. UNCHANGED <<lists, settle>> /\ pc = "release"
    BY <1>13, ReleaseEffect
  <2> QED
    BY <2>1, ReleaseComesAfter DEF lists, settle
<1>14. CASE Align \/ ReleaseBranches
  BY <1>14, AlignEffect, CleanUpEffect
<1>15. CASE \/ PlyOutOfTime \/ EmulateBroken \/ EmulateDone \/ SettleSkipped \/ SettleBroken
            \/ Tick \/ CancelBranches
  <2>1. Passes /\ todo' \subseteq todo /\ pc \notin {"cancel", "free", "done"}
    BY <1>15, PhaseEffect
  <2> QED
    BY <1>3, <2>1 DEF Passes, lists, books
<1>16. CASE UNCHANGED vars
  BY <1>3, <1>16 DEF vars, lists, settle, books
<1> QED
  BY <1>4, <1>5, <1>6, <1>7, <1>8, <1>9, <1>10, <1>11, <1>12, <1>13, <1>14, <1>15, <1>16
     DEF Next, Step, Finished

LEMMA NeededStep ==
  ASSUME IInv, [Next]_vars
  PROVE  NeededInv'
<1>1. pc' # "done" => beam' \cup waiting' \subseteq held' \cup {Root}
  BY FrontierIsHeld
<1>2. /\ Fitting' \/ pc' = "emulate" => \A b \in pending' \cup retry' : tree'[b].parent \in beam'
      /\ Fitting' => got' = {} /\ retry' = {}
  BY ParentsStay
<1>3. pc' \in {"emulate", "score"} => got' \subseteq held'
  BY ResultsAreHeld
<1>4. pc' = "settle_free" => fresh' \cap (beam' \cup waiting' \cup finished' \cup todo') = {}
  BY FreshIsApart
<1>5. Boundary' <=> Boundary
  BY StepKeeps DEF Boundary
<1>6. Boundary /\ pc' \notin {"cancel", "free", "done"} =>
        \A i \in todo' \cup (finished' \ settledIds') : SettleAction(i)' => i \in held'
  BY UntriedLeavesAreHeld
<1> QED
  BY <1>1, <1>2, <1>3, <1>4, <1>5, <1>6 DEF NeededInv

LEMMA SettlingStep ==
  ASSUME IInv, [Next]_vars
  PROVE  SettlingInv'
<1> USE DEF IInv
<1>1. (Boundary' <=> Boundary) /\ setup' = setup
  BY StepKeeps DEF Boundary
<1>2. error # "none" => error' # "none"
  BY EnvStep DEF HistoryGrows
<1>3. CASE UNCHANGED <<pc, stage, todo, finished, settledIds>>
  BY <1>1, <1>2, <1>3 DEF SettlingInv
<1>4. CASE Propose
  <2>1. /\ UNCHANGED <<settle, error>> /\ pc = "ply"
        /\ \/ stage' = "fit" /\ pc' \in {"emulate", BeforeRelease}
           \/ stage' = stage /\ pc' = "leaves"
    BY <1>4, ProposeEffect DEF Proposed, NothingProposed, Propose
  <2>2. stage # "root" /\ todo = {}
    BY <2>1 DEF SettlingInv
  <2>3. pc' \in {"emulate", "leaves"} \/ (pc' = "settle" /\ Boundary) \/ (pc' = "release" /\ ~Boundary)
    BY <2>1 DEF BeforeRelease
  <2> QED
    BY <1>1, <2>1, <2>2, <2>3 DEF SettlingInv, settle
<1>5. CASE Score
  <2>1. /\ UNCHANGED settle /\ pc = "score"
        /\ \/ stage' = stage /\ pc' = "leaves"
           \/ stage' = "ply" /\ pc' = BeforeRelease
           \/ stage' = stage /\ pc' = "cancel"
    BY <1>5, ScoreEffect DEF Scored, Fruitless, BeforeRelease
  <2>2. stage # "root" /\ todo = {}
    BY <2>1 DEF SettlingInv
  <2>3. pc' \in {"leaves", "cancel"} \/ (pc' = "settle" /\ Boundary) \/ (pc' = "release" /\ ~Boundary)
    BY <2>1 DEF BeforeRelease
  <2> QED
    BY <1>1, <2>1, <2>2, <2>3 DEF SettlingInv, settle
<1>6. CASE EmulateChunk \/ RetryFaulted
  BY <1>3, <1>6 DEF EmulateChunk, RetryFaulted, ctl, lists, settle
<1>7. CASE EmulateOutOfTime \/ EmulateRejected
  <2>1. UNCHANGED <<stage, settle>> /\ pc = "emulate" /\ pc' \in {"score", "cancel"}
    BY <1>7, EmulateEndEffect
  <2> QED
    BY <1>1, <2>1 DEF SettlingInv, settle
<1>8. CASE SettleStart
  <2>1. UNCHANGED <<stage, lists>> /\ pc = "settle" /\ pc' = "settling"
    BY <1>8, SettleStartEffect
  <2>2. Boundary /\ (stage = "root" => finished \subseteq settledIds)
    BY <2>1 DEF SettlingInv
  <2>3. finished' \subseteq settledIds'
    BY <1>8, <2>1, <2>2, SettleStartEffect DEF lists
  <2> QED
    BY <1>1, <2>1, <2>2, <2>3 DEF SettlingInv
<1>9. CASE SettleChunk
  <2>1. UNCHANGED <<stage, lists, settledIds>> /\ pc = "settling" /\ pc' = "settle_free"
    BY <1>9 DEF SettleChunk, ctl
  <2> QED
    BY <1>1, <2>1 DEF SettlingInv, lists
<1>10. CASE SettleDone
  <2>1. /\ UNCHANGED settledIds /\ pc = "settling" /\ todo' = {}
        /\ \/ stage \in {"fit", "ply"} /\ stage' = stage /\ pc' = "release" /\ finished' = finished
           \/ stage' = "root" /\ pc' = "settle" /\ finished' = finished
           \/ stage' = "root" /\ pc' = "cancel"
    BY <1>10, SettleDoneEffect
  <2>2. Boundary /\ finished \subseteq settledIds
    BY <2>1 DEF SettlingInv
  <2> QED
    BY <1>1, <2>1, <2>2 DEF SettlingInv
<1>11. CASE SettleFree
  <2>1. /\ UNCHANGED <<stage, lists, todo, settledIds>> /\ pc = "settle_free"
        /\ pc' = "settling" \/ (pc' = "cancel" /\ error' = "raised")
    BY <1>11, SettleFreeEffect
  <2> QED
    BY <1>1, <2>1 DEF SettlingInv, lists
<1>12. CASE Release
  <2>1. /\ UNCHANGED <<stage, settle>> /\ pc = "release"
        /\ pc' \in {"cancel", "leaves", "ply", "emulate"}
    BY <1>12, ReleaseEffect
  <2> QED
    BY <1>1, <2>1 DEF SettlingInv, settle
<1>13. CASE CollectLeaves
  <2>1. /\ UNCHANGED settle /\ pc = "leaves" /\ stage' = "end"
        /\ \/ pc' = "cancel"
           \/ pc' = "align" /\ setup.rule = "turn_aligned"
           \/ pc' = "settle" /\ setup.rule = "turn_boundary"
    BY <1>13, CollectEffect, SetupFacts
  <2> QED
    BY <1>1, <2>1 DEF SettlingInv, settle, Boundary
<1>14. CASE Align
  <2>1. UNCHANGED <<stage, todo>> /\ pc = "align" /\ pc' = "cancel"
    BY <1>14, AlignEffect DEF ctl
  <2> QED
    BY <1>1, <2>1 DEF SettlingInv
<1>15. CASE ReleaseBranches \/ CancelBranches
  <2>1. UNCHANGED <<stage, todo>> /\ pc \in {"cancel", "free"} /\ pc' \in {"free", "done"}
    BY <1>15, CleanUpEffect, PhaseEffect DEF settle
  <2> QED
    BY <1>1, <1>2, <2>1 DEF SettlingInv
<1>16. CASE SettleSkipped
  <2>1. Passes /\ UNCHANGED <<pc, stage>> /\ pc = "settling"
    BY <1>16, PhaseEffect
  <2> QED
    BY <1>1, <2>1 DEF SettlingInv, Passes, lists
<1>17. CASE SettleBroken
  <2>1. UNCHANGED stage /\ pc' = "cancel" /\ error' # "none"
    BY <1>17, PhaseEffect
  <2> QED
    BY <1>1, <2>1 DEF SettlingInv
<1>18. CASE PlyOutOfTime \/ EmulateBroken \/ EmulateDone
  <2>1. UNCHANGED <<todo, stage>> /\ pc \in {"ply", "emulate"} /\ pc' \in {"leaves", "cancel", "score"}
    BY <1>18, PhaseEffect
  <2> QED
    BY <1>1, <2>1 DEF SettlingInv
<1>19. CASE Tick
  BY <1>3, <1>19, PhaseEffect DEF Passes, lists
<1>20. CASE UNCHANGED vars
  BY <1>3, <1>20 DEF vars, ctl, lists, settle
<1> QED
  BY <1>4, <1>5, <1>6, <1>7, <1>8, <1>9, <1>10, <1>11, <1>12, <1>13, <1>14, <1>15, <1>16,
     <1>17, <1>18, <1>19, <1>20 DEF Next, Step, Finished

----------------------------------------------------------------------------
(* The leaves.                                                             *)

Undisturbed == ~mishap /\ clock = "early" /\ error = "none"

LEMMA UndisturbedBefore ==
  ASSUME IInv, [Next]_vars, Undisturbed'
  PROVE  Undisturbed
BY EnvStep DEF Undisturbed, HistoryGrows, IInv, TypeOK

\* While nothing goes wrong, what is scored or in line for it stays so.
LEMMA InLineStays ==
  ASSUME IInv, [Next]_vars, Undisturbed'
  PROVE  scored \cup todo \subseteq scored' \cup todo'
<1> USE DEF IInv
<1>1. ~mishap' /\ clock = "early" /\ error' = "none"
  BY UndisturbedBefore DEF Undisturbed
<1>2. CASE UNCHANGED <<scored, todo>>
  BY <1>2
<1>3. CASE Propose \/ EmulateOutOfTime \/ EmulateRejected \/ EmulateChunk \/ RetryFaulted \/ Score
  BY <1>2, <1>3, ProposeEffect, EmulateEndEffect, ScoreEffect
     DEF EmulateChunk, RetryFaulted, settle
<1>4. CASE SettleStart
  <2>1. scored' = scored /\ pc = "settle"
    BY <1>4, SettleStartEffect
  <2>2. todo = {}
    BY <2>1 DEF SettlingInv
  <2> QED
    BY <2>1, <2>2
<1>5. CASE SettleChunk
  <2>1. PICK chunk, bad : Settled(chunk, bad)
    BY <1>5, SettleEffect
  <2>2. bad = {}
    BY <1>1, <2>1 DEF Settled
  <2> QED
    BY <2>1, <2>2 DEF Settled
<1>6. CASE SettleDone
  BY <1>1, <1>6, SettleDoneEffect
<1>7. CASE SettleFree
  BY <1>2, <1>7, SettleFreeEffect
<1>8. CASE SettleSkipped
  BY <1>1, <1>8, PhaseEffect
<1>9. CASE Release \/ CollectLeaves \/ ReleaseBranches
  BY <1>2, <1>9, ReleaseEffect, CollectEffect, CleanUpEffect DEF settle
<1>10. CASE Align
  BY <1>10, AlignEffect DEF Aligned
<1>11. CASE PlyOutOfTime \/ EmulateBroken \/ EmulateDone \/ SettleBroken \/ Tick \/ CancelBranches
  BY <1>2, <1>11, PhaseEffect DEF Passes
<1>12. CASE UNCHANGED vars
  BY <1>2, <1>12 DEF vars, settle
<1> QED
  BY <1>3, <1>4, <1>5, <1>6, <1>7, <1>8, <1>9, <1>10, <1>11, <1>12 DEF Next, Step, Finished

\* The root is settled on its own, and only then does an undisturbed search end.
LEMMA RootIsInLine ==
  ASSUME IInv, [Next]_vars, Boundary, Undisturbed',
         stage' = "root", pc' \in {"settling", "settle_free"}, HasEndTurn(Root)
  PROVE  Root \in scored' \cup todo'
<1> USE DEF IInv
<1>1. Undisturbed /\ scored \cup todo \subseteq scored' \cup todo'
  BY UndisturbedBefore, InLineStays
<1>2. CASE stage = "root" /\ pc \in {"settling", "settle_free"}
  BY <1>1, <1>2 DEF LeavesInv, Undisturbed
<1>3. CASE SettleStart
  <2>1. stage = "root" /\ todo' = {i \in {Root} : HasEndTurn(i)}
    BY <1>3, SettleStartEffect
  <2> QED
    BY <2>1
<1>4. CASE SettleChunk
  BY <1>2, <1>4 DEF SettleChunk, ctl
<1>5. CASE SettleDone \/ SettleFree
  BY <1>2, <1>5, SettleDoneEffect, SettleFreeEffect
<1>6. CASE Propose \/ EmulateOutOfTime \/ EmulateRejected \/ EmulateChunk \/ RetryFaulted \/ Score
  BY <1>6, ProposeEffect, EmulateEndEffect, ScoreEffect
     DEF Proposed, NothingProposed, Scored, Fruitless, BeforeRelease, EmulateChunk, RetryFaulted
<1>7. CASE Release \/ CollectLeaves \/ Align \/ ReleaseBranches
  BY <1>7, ReleaseEffect, CollectEffect, AlignEffect, CleanUpEffect
<1>8. CASE SettleSkipped \/ Tick
  BY <1>2, <1>8, PhaseEffect DEF Passes
<1>9. CASE PlyOutOfTime \/ EmulateBroken \/ EmulateDone \/ SettleBroken \/ CancelBranches
  BY <1>9, PhaseEffect
<1>10. CASE UNCHANGED vars
  BY <1>2, <1>10 DEF vars, ctl
<1> QED
  BY <1>3, <1>4, <1>5, <1>6, <1>7, <1>8, <1>9, <1>10 DEF Next, Step, Finished

LEMMA EndIsSettled ==
  ASSUME IInv, [Next]_vars, Boundary, Undisturbed', pc' \in {"cancel", "free", "done"}
  PROVE  /\ finished' \subseteq settledIds' \cup {Root}
         /\ HasEndTurn(Root) => Root \in scored'
<1> USE DEF IInv
<1>1. Undisturbed /\ ~mishap' /\ clock = "early" /\ error' = "none"
  BY UndisturbedBefore DEF Undisturbed
<1>2. CASE pc \in {"cancel", "free", "done"} /\ UNCHANGED <<finished, settledIds, scored>>
  BY <1>1, <1>2 DEF LeavesInv, Undisturbed
<1>3. CASE SettleDone
  <2>1. /\ UNCHANGED <<settledIds, scored>> /\ pc = "settling" /\ todo = {}
        /\ stage = "root" /\ finished' \subseteq finished \cup {Root}
    BY <1>1, <1>3, SettleDoneEffect
  <2>2. finished \subseteq settledIds
    BY <2>1 DEF SettlingInv
  <2>3. HasEndTurn(Root) => Root \in scored \cup todo
    BY <1>1, <2>1 DEF LeavesInv, Undisturbed
  <2> QED
    BY <2>1, <2>2, <2>3
<1>4. CASE Align
  BY <1>4, AlignEffect DEF SettlingInv, Boundary
<1>5. CASE CollectLeaves
  BY <1>5, CollectEffect DEF Boundary
<1>6. CASE Propose \/ EmulateOutOfTime \/ EmulateRejected \/ EmulateChunk \/ RetryFaulted \/ Score
  BY <1>1, <1>6, ProposeEffect, EmulateEndEffect, ScoreEffect
     DEF Proposed, NothingProposed, Scored, Fruitless, BeforeRelease, EmulateChunk, RetryFaulted
<1>7. CASE SettleStart \/ SettleChunk \/ SettleFree \/ Release
  BY <1>1, <1>7, SettleStartEffect, SettleFreeEffect, ReleaseEffect DEF SettleChunk
<1>8. CASE ReleaseBranches \/ CancelBranches
  BY <1>2, <1>8, CleanUpEffect, PhaseEffect DEF Passes, lists, settle
<1>9. CASE PlyOutOfTime \/ EmulateBroken \/ EmulateDone \/ SettleSkipped \/ SettleBroken
  BY <1>1, <1>9, PhaseEffect
<1>10. CASE Tick
  BY <1>2, <1>10, PhaseEffect DEF Passes, lists
<1>11. CASE UNCHANGED vars
  BY <1>2, <1>11 DEF vars, lists, settle
<1> QED
  BY <1>3, <1>4, <1>5, <1>6, <1>7, <1>8, <1>9, <1>10, <1>11 DEF Next, Step, Finished

LEMMA LeavesStep ==
  ASSUME IInv, [Next]_vars
  PROVE  LeavesInv'
<1>1. /\ Boundary' <=> Boundary
      /\ HasEndTurn(Root)' <=> HasEndTurn(Root)
  BY StepKeeps, AdmittedKeepTheirState DEF Boundary
<1> SUFFICES ASSUME Boundary, Undisturbed'
             PROVE  /\ \A i \in settledIds' : SettleAction(i)' => i \in scored' \cup todo'
                    /\ stage' = "root" /\ pc' \in {"settling", "settle_free"} /\ HasEndTurn(Root) =>
                         Root \in scored' \cup todo'
                    /\ pc' \in {"cancel", "free", "done"} =>
                         /\ finished' \subseteq settledIds' \cup {Root}
                         /\ HasEndTurn(Root) => Root \in scored'
  BY <1>1 DEF LeavesInv, Undisturbed
<1>2. ASSUME NEW i \in settledIds', SettleAction(i)'
      PROVE  i \in scored' \cup todo'
  <2>1. i \in settledIds \/ (SettleStart /\ i \in finished)
    BY TriedStep
  <2>2. i \in allIds \cup {Root}
    BY <2>1 DEF IInv, ListsInv
  <2>3. SettleAction(i)
    BY <1>2, <2>2, AdmittedKeepTheirState
  <2>4. CASE i \in settledIds
    BY <2>3, <2>4, UndisturbedBefore, InLineStays DEF IInv, LeavesInv, Undisturbed
  <2>5. CASE SettleStart /\ i \in finished /\ i \notin settledIds
    <3>1. settledIds' # settledIds
      BY <1>2, <2>5
    <3> QED
      BY <2>3, <2>5, <3>1, SettleStartEffect
  <2> QED
    BY <2>1, <2>4, <2>5
<1> QED
  BY <1>2, RootIsInLine, EndIsSettled

----------------------------------------------------------------------------
(* The clean-up.                                                           *)

LEMMA CleanStep ==
  ASSUME IInv, [Next]_vars
  PROVE  CleanInv'
<1> USE DEF IInv
<1>1. client' # "ok" => mishap'
  BY EnvStep DEF HistoryGrows
<1> SUFFICES ASSUME pc' = "done", ~mishap', clock' # "over"
             PROVE  held' = {}
  BY <1>1 DEF CleanInv
<1>2. ~mishap /\ clock # "over"
  BY EnvStep DEF HistoryGrows
<1>3. CASE pc = "done" /\ held' = held
  BY <1>2, <1>3 DEF CleanInv
<1>4. CASE CancelBranches
  <2>1. Remaining = {} \/ Unusable \/ clock = "over" \/ mishap'
    BY <1>4, CallFailsEffect DEF CancelBranches
  <2>2. ~Unusable
    BY <1>2 DEF CleanInv, Unusable
  <2>3. Remaining = {} /\ held' = held
    BY <1>2, <1>4, <2>1, <2>2 DEF CancelBranches, books
  <2> QED
    BY <2>3 DEF Remaining, ListsInv
<1>5. CASE ReleaseBranches
  <2>1. Released(Remaining)
    BY <1>2, <1>5, CleanUpEffect
  <2> QED
    BY <2>1 DEF Released, Remaining, ListsInv
<1>6. CASE Propose \/ EmulateOutOfTime \/ EmulateRejected \/ EmulateChunk \/ RetryFaulted \/ Score
  BY <1>6, ProposeEffect, EmulateEndEffect, ScoreEffect
     DEF Proposed, NothingProposed, Scored, Fruitless, BeforeRelease, EmulateChunk, RetryFaulted
<1>7. CASE SettleStart \/ SettleChunk \/ SettleDone \/ SettleFree \/ Release
  BY <1>7, SettleStartEffect, SettleDoneEffect, SettleFreeEffect, ReleaseEffect
     DEF SettleChunk, IInv
<1>8. CASE CollectLeaves \/ Align
  BY <1>8, CollectEffect, AlignEffect, SetupFacts
<1>9. CASE \/ PlyOutOfTime \/ EmulateBroken \/ EmulateDone \/ SettleSkipped \/ SettleBroken
           \/ Tick
  BY <1>9, PhaseEffect
<1>10. CASE UNCHANGED vars
  BY <1>3, <1>10 DEF vars, books
<1> QED
  BY <1>4, <1>5, <1>6, <1>7, <1>8, <1>9, <1>10 DEF Next, Step, Finished

----------------------------------------------------------------------------
(* The budget of a Whole Run instance.                                     *)

LEMMA UnionBound ==
  ASSUME NEW S, NEW T, NEW U, IsFiniteSet(S), IsFiniteSet(T), U \subseteq S \cup T
  PROVE  /\ IsFiniteSet(U) /\ Cardinality(U) \in Nat
         /\ Cardinality(S) \in Nat /\ Cardinality(T) \in Nat
         /\ Cardinality(U) <= Cardinality(S) + Cardinality(T)
<1>1. /\ IsFiniteSet(S \cup T)
      /\ Cardinality(S \cup T) = Cardinality(S) + Cardinality(T) - Cardinality(S \cap T)
  BY FS_Union
<1>2. IsFiniteSet(U) /\ Cardinality(U) <= Cardinality(S \cup T)
  BY <1>1, FS_Subset
<1>3. IsFiniteSet(S \cap T)
  BY FS_Subset
<1>4. /\ Cardinality(S) \in Nat /\ Cardinality(T) \in Nat /\ Cardinality(U) \in Nat
      /\ Cardinality(S \cap T) \in Nat /\ Cardinality(S \cup T) \in Nat
  BY <1>1, <1>2, <1>3, FS_CardinalityType
<1> QED
  BY <1>1, <1>2, <1>4

\* A frontier begins to wait for room when it is proposed, and does not change until it
\* is submitted.
LEMMA FittingStays ==
  ASSUME IInv, [Next]_vars, Fitting'
  PROVE  Propose \/ (Fitting /\ UNCHANGED <<beam, waiting, pending, retry>>)
<1> USE DEF IInv
<1>1. stage' = "fit" /\ pc' \in {"settle", "settling", "settle_free", "release"}
  BY FittingNext
<1>2. CASE Propose
  BY <1>2
<1>3. CASE EmulateOutOfTime \/ EmulateRejected \/ EmulateChunk \/ RetryFaulted \/ Score
  BY <1>1, <1>3, EmulateEndEffect, ScoreEffect
     DEF Scored, Fruitless, BeforeRelease, EmulateChunk, RetryFaulted
<1>4. CASE SettleStart \/ SettleDone \/ SettleFree
  BY <1>1, <1>4, SettleStartEffect, SettleDoneEffect, SettleFreeEffect DEF Fitting, lists, batch
<1>5. CASE SettleChunk
  BY <1>1, <1>5 DEF SettleChunk, Fitting, ctl, lists, batch
<1>6. CASE Release \/ CollectLeaves \/ Align \/ ReleaseBranches
  BY <1>1, <1>6, ReleaseEffect, CollectEffect, AlignEffect, CleanUpEffect
<1>7. CASE SettleSkipped \/ Tick
  BY <1>1, <1>7, PhaseEffect DEF Passes, Fitting, lists, batch
<1>8. CASE PlyOutOfTime \/ EmulateBroken \/ EmulateDone \/ SettleBroken \/ CancelBranches
  BY <1>1, <1>8, PhaseEffect
<1>9. CASE UNCHANGED vars
  BY <1>1, <1>9 DEF vars, ctl, lists, batch, Fitting
<1> QED
  BY <1>2, <1>3, <1>4, <1>5, <1>6, <1>7, <1>8, <1>9 DEF Next, Step, Finished

LEMMA PlyStart ==
  ASSUME IInv, [Next]_vars, WholeRun, pc' = "ply"
  PROVE  held' \subseteq beam' \cup waiting'
<1> USE DEF IInv
<1>1. CASE pc = "ply" /\ UNCHANGED <<held, beam, waiting>>
  BY <1>1 DEF RoomInv
<1>2. CASE Release
  BY <1>2, ReleaseEffect DEF lists
<1>3. CASE Propose \/ EmulateOutOfTime \/ EmulateRejected \/ EmulateChunk \/ RetryFaulted \/ Score
  BY <1>3, ProposeEffect, EmulateEndEffect, ScoreEffect
     DEF Proposed, NothingProposed, Scored, Fruitless, BeforeRelease, EmulateChunk, RetryFaulted
<1>4. CASE SettleStart \/ SettleChunk \/ SettleDone \/ SettleFree
  BY <1>4, SettleStartEffect, SettleDoneEffect, SettleFreeEffect DEF SettleChunk
<1>5. CASE CollectLeaves \/ Align \/ ReleaseBranches
  BY <1>5, CollectEffect, AlignEffect, CleanUpEffect, SetupFacts
<1>6. CASE Tick
  BY <1>1, <1>6, PhaseEffect DEF Passes, lists, books
<1>7. CASE \/ PlyOutOfTime \/ EmulateBroken \/ EmulateDone \/ SettleSkipped \/ SettleBroken
           \/ CancelBranches
  BY <1>7, PhaseEffect
<1>8. CASE UNCHANGED vars
  BY <1>1, <1>8 DEF vars, lists, books
<1> QED
  BY <1>2, <1>3, <1>4, <1>5, <1>6, <1>7, <1>8 DEF Next, Step, Finished

\* What is live and no leaf at the server, when only a frontier is.
LEMMA OnlyTheFrontierIsLive ==
  ASSUME TypeOK, ListsInv, NEW H, H \subseteq allIds, NEW B, B \subseteq 0 .. Len(tree),
         NEW W, W \subseteq 0 .. Len(tree), H \subseteq B \cup W
  PROVE  /\ Cardinality(H) \in Nat
         /\ Cardinality(H) <= Cardinality(B \ {Root}) + Cardinality(W)
         /\ Cardinality(B \ {Root}) \in Nat /\ Cardinality(W) \in Nat
<1>1. tree \in Seq(NodeRec) /\ Root \notin allIds
  BY DEF TypeOK, ListsInv, Root
<1>2. IsFiniteSet(B \ {Root}) /\ IsFiniteSet(W)
  BY <1>1, ListsAreFinite
<1>3. H \subseteq (B \ {Root}) \cup W
  BY <1>1
<1> QED
  BY <1>2, <1>3, UnionBound

LEMMA SubmittedFits ==
  ASSUME IInv, [Next]_vars, WholeRun, pc' = "emulate"
  PROVE  Cardinality((Live \ finished)') + Cardinality(pending') + Cardinality(retry') <= Capacity
<1> USE DEF IInv
<1>1. (Live \ finished)' = {b \in held' : Node(b)'.kind # "fault"} \ finished'
  BY DEF Live
<1>2. /\ tree \in Seq(NodeRec) /\ Capacity \in Nat /\ held \subseteq allIds
      /\ pending \subseteq 0 .. Len(tree) /\ retry \subseteq 0 .. Len(tree)
      /\ beam \subseteq 0 .. Len(tree) /\ waiting \subseteq 0 .. Len(tree)
      /\ Live \ finished \subseteq 0 .. Len(tree)
  BY SetupFacts DEF ListsInv, TypeOK, Live
<1>3. /\ IsFiniteSet(pending) /\ Cardinality(pending) \in Nat
      /\ IsFiniteSet(retry) /\ Cardinality(retry) \in Nat
      /\ IsFiniteSet(Live \ finished) /\ Cardinality(Live \ finished) \in Nat
  BY <1>2, ListsAreFinite
<1>4. \A b \in held : Node(b)' = Node(b)
  BY <1>2, AdmittedNodesStay
<1>5. Cardinality({}) = 0
  BY FS_EmptySet
<1>6. CASE /\ pc = "emulate" /\ UNCHANGED <<held, pending, retry, finished>>
  <2>1. (Live \ finished)' = Live \ finished
    BY <1>1, <1>4, <1>6 DEF Live
  <2> QED
    BY <1>6, <2>1 DEF RoomInv
<1>7. CASE Propose
  <2>1. Proposed /\ held' = held /\ pc = "ply"
    BY <1>7, ProposeEffect DEF NothingProposed, books, Propose
  <2>2. held \subseteq beam \cup waiting
    BY <2>1 DEF RoomInv
  <2> DEFINE H == (Live \ finished)'
  <2>3. H \subseteq beam' \cup waiting' /\ H \subseteq allIds
    BY <1>1, <1>2, <2>1, <2>2 DEF Proposed
  <2>4. beam' \subseteq 0 .. Len(tree) /\ waiting' \subseteq 0 .. Len(tree)
    BY <1>2, <2>1 DEF Proposed
  <2>5. Cardinality(beam' \ {Root}) + Cardinality(waiting') + Cardinality(pending') <= Capacity
    BY <2>1 DEF Proposed
  <2>6. Cardinality(pending') \in Nat
    <3>1. pending' \subseteq 1 .. Len(tree') /\ Len(tree') \in Nat
      BY <2>1 DEF Proposed, Keeps
    <3>2. IsFiniteSet(1 .. Len(tree'))
      BY <3>1, FS_Interval
    <3>3. IsFiniteSet(pending')
      BY <3>1, <3>2, FS_Subset
    <3> QED
      BY <3>3, FS_CardinalityType
  <2> HIDE DEF H
  <2>7. /\ Cardinality(H) \in Nat
        /\ Cardinality(H) <= Cardinality(beam' \ {Root}) + Cardinality(waiting')
        /\ Cardinality(beam' \ {Root}) \in Nat /\ Cardinality(waiting') \in Nat
    BY <2>3, <2>4, OnlyTheFrontierIsLive
  <2>8. Cardinality(retry') = 0
    BY <1>5, <2>1 DEF Proposed
  <2>9. Cardinality(H) + Cardinality(pending') + Cardinality(retry') <= Capacity
    BY <1>2, <2>5, <2>6, <2>7, <2>8
  <2> QED
    BY <2>9 DEF H
<1>8. CASE Release
  <2>1. /\ UNCHANGED <<lists, batch>> /\ pc = "release" /\ stage # "ply"
        /\ held' \subseteq beam \cup waiting /\ held' \subseteq held
    BY <1>8, ReleaseEffect DEF Frees, books
  <2>2. Fitting /\ retry = {}
    BY <2>1 DEF SettlingInv, Fitting, NeededInv
  <2>3. Cardinality(beam \ {Root}) + Cardinality(waiting) + Cardinality(pending) <= Capacity
    BY <2>2 DEF RoomInv
  <2> DEFINE H == (Live \ finished)'
  <2>4. H \subseteq beam \cup waiting /\ H \subseteq allIds
    BY <1>1, <1>2, <2>1
  <2> HIDE DEF H
  <2>5. /\ Cardinality(H) \in Nat
        /\ Cardinality(H) <= Cardinality(beam \ {Root}) + Cardinality(waiting)
        /\ Cardinality(beam \ {Root}) \in Nat /\ Cardinality(waiting) \in Nat
    BY <1>2, <2>4, OnlyTheFrontierIsLive
  <2>6. pending' = pending /\ Cardinality(retry') = 0
    BY <1>5, <2>1, <2>2 DEF batch
  <2>7. Cardinality(H) + Cardinality(pending') + Cardinality(retry') <= Capacity
    BY <1>2, <1>3, <2>3, <2>5, <2>6
  <2> QED
    BY <2>7 DEF H
<1>9. CASE EmulateChunk
  <2>1. PICK chunk, bad : Emulated(chunk, bad)
    BY <1>9, ChunkEffect
  <2>2. pc = "emulate" /\ finished' = finished
    BY <1>9 DEF EmulateChunk, lists
  <2>3. Cardinality(Live \ finished) + Cardinality(pending) + Cardinality(retry) <= Capacity
    BY <2>2 DEF RoomInv
  <2>4. (Live \ finished)' \subseteq (Live \ finished) \cup (chunk \ bad)
    BY <1>1, <1>4, <2>1, <2>2 DEF Emulated, Live
  <2>5. /\ IsFiniteSet(chunk) /\ IsFiniteSet(bad) /\ IsFiniteSet(chunk \ bad)
        /\ Cardinality(chunk \ bad) = Cardinality(chunk) - Cardinality(bad)
        /\ Cardinality(chunk) \in Nat /\ Cardinality(bad) \in Nat
    <3>1. IsFiniteSet(chunk) /\ bad \in SUBSET chunk /\ chunk \cap bad = bad
      BY <2>1 DEF Emulated
    <3>2. IsFiniteSet(bad)
      BY <3>1, FS_Subset
    <3>3. /\ IsFiniteSet(chunk \ bad)
          /\ Cardinality(chunk \ bad) = Cardinality(chunk) - Cardinality(chunk \cap bad)
      BY <3>1, FS_Difference
    <3> QED
      BY <3>1, <3>2, <3>3, FS_CardinalityType
  <2>6. /\ Cardinality((Live \ finished)') \in Nat
        /\ Cardinality((Live \ finished)')
             <= Cardinality(Live \ finished) + Cardinality(chunk) - Cardinality(bad)
    <3> DEFINE H == (Live \ finished)'
    <3>0. H \subseteq (Live \ finished) \cup (chunk \ bad)
      BY <2>4
    <3> HIDE DEF H
    <3>1. /\ Cardinality(H) \in Nat
          /\ Cardinality(H) <= Cardinality(Live \ finished) + Cardinality(chunk \ bad)
      BY <1>3, <2>5, <3>0, UnionBound
    <3> QED
      BY <1>3, <2>5, <3>1 DEF H
  <2>7. Cardinality(pending') = Cardinality(pending) - Cardinality(chunk)
    <3>1. pending' = pending \ chunk /\ pending \cap chunk = chunk
      BY <2>1 DEF Emulated
    <3>2. Cardinality(pending \ chunk) = Cardinality(pending) - Cardinality(pending \cap chunk)
      BY <1>3, FS_Difference
    <3> QED
      BY <3>1, <3>2
  <2>8. Cardinality(retry') \in Nat /\ Cardinality(retry') <= Cardinality(retry) + Cardinality(bad)
    <3>1. retry' \subseteq retry \cup bad
      <4>1. CASE RetryAllowed
        BY <2>1, <4>1 DEF Emulated
      <4>2. CASE ~RetryAllowed
        BY <2>1, <4>2 DEF Emulated
      <4> QED
        BY <4>1, <4>2
    <3> QED
      BY <1>3, <2>5, <3>1, UnionBound
  <2> QED
    BY <1>2, <1>3, <2>3, <2>5, <2>6, <2>7, <2>8
<1>10. CASE RetryFaulted
  <2>1. Cardinality(pending') = Cardinality(retry) /\ retry' = {}
    BY <1>10, RetryEffect
  <2>2. pc = "emulate" /\ pending = {} /\ finished' = finished /\ held' = held
    BY <1>10 DEF RetryFaulted, lists, books
  <2>3. (Live \ finished)' = Live \ finished
    BY <1>1, <1>4, <2>2 DEF Live
  <2>4. Cardinality(Live \ finished) + Cardinality(pending) + Cardinality(retry) <= Capacity
    BY <2>2 DEF RoomInv
  <2>5. Cardinality(pending) = 0 /\ Cardinality(retry') = 0
    BY <1>5, <2>1, <2>2
  <2>6. Cardinality(Live \ finished) + Cardinality(pending') + Cardinality(retry') <= Capacity
    BY <1>2, <1>3, <2>1, <2>4, <2>5
  <2> QED
    BY <2>3, <2>6
<1>11. CASE EmulateOutOfTime \/ EmulateRejected \/ Score
  BY <1>11, EmulateEndEffect, ScoreEffect DEF Scored, Fruitless, BeforeRelease
<1>12. CASE SettleStart \/ SettleChunk \/ SettleDone \/ SettleFree
  BY <1>12, SettleStartEffect, SettleDoneEffect, SettleFreeEffect DEF SettleChunk
<1>13. CASE CollectLeaves \/ Align \/ ReleaseBranches
  BY <1>13, CollectEffect, AlignEffect, CleanUpEffect, SetupFacts
<1>14. CASE Tick
  BY <1>6, <1>14, PhaseEffect DEF Passes, lists, batch, books
<1>15. CASE \/ PlyOutOfTime \/ EmulateBroken \/ EmulateDone \/ SettleSkipped \/ SettleBroken
            \/ CancelBranches
  BY <1>15, PhaseEffect
<1>16. CASE UNCHANGED vars
  BY <1>6, <1>16 DEF vars, lists, batch, books
<1> QED
  BY <1>7, <1>8, <1>9, <1>10, <1>11, <1>12, <1>13, <1>14, <1>15, <1>16
     DEF Next, Step, Finished

LEMMA RoomStep ==
  ASSUME IInv, [Next]_vars
  PROVE  RoomInv'
<1>1. (WholeRun' <=> WholeRun) /\ Capacity' = Capacity
  BY StepKeeps DEF WholeRun, Capacity
<1>2. WholeRun /\ Fitting' => Cardinality((beam \ {Root})') + Cardinality(waiting')
                                + Cardinality(pending') <= Capacity
  <2> SUFFICES ASSUME WholeRun, Fitting'
               PROVE  Cardinality((beam \ {Root})') + Cardinality(waiting')
                        + Cardinality(pending') <= Capacity
    OBVIOUS
  <2>1. CASE Propose
    BY <2>1, ProposeEffect, FittingNext DEF IInv, Proposed, NothingProposed, Root
  <2>2. CASE Fitting /\ UNCHANGED <<beam, waiting, pending, retry>>
    BY <2>2 DEF IInv, RoomInv, Root
  <2> QED
    BY <2>1, <2>2, FittingStays
<1> QED
  BY <1>1, <1>2, PlyStart, SubmittedFits DEF RoomInv, Root

----------------------------------------------------------------------------
(* The theorems.                                                           *)

LEMMA InitIInv ==
  ASSUME Init
  PROVE  IInv
<1>1. setup \in Setups /\ tree = << >> /\ Len(tree) = 0
  BY DEF Init
<1>2. /\ {MaxBatch, MaxDepth, MaxCont, MaxAttempts} \subseteq Nat \ {0}
      /\ Cardinality({}) = 0
  BY BeamAssumption, FS_EmptySet
<1>3. setup.root \in {"stable", "spent", "cont"} /\ Capacity \in Nat \ {0}
      /\ BatchSize \in Nat \ {0}
  BY <1>1, InstanceFacts
<1>4. TypeOK
  BY <1>1, <1>2, <1>3 DEF Init, TypeOK, Root
<1>5. ListsInv
  BY <1>1 DEF Init, ListsInv
<1>6. Expandable(Root)
  <2>1. Node(Root) = [parent |-> 0, kind |-> setup.root, combat |-> 0, cont |-> 0, turn |-> 0]
    BY DEF Node, Root
  <2> QED
    BY <1>2, <1>3, <2>1 DEF Expandable
<1>7. LimitInv
  BY <1>6 DEF Init, LimitInv
<1>8. NeededInv /\ SettlingInv /\ LeavesInv /\ CleanInv
  BY DEF Init, NeededInv, SettlingInv, LeavesInv, CleanInv, Fitting
<1>9. RoomInv
  BY DEF Init, RoomInv, Fitting
<1> QED
  BY <1>4, <1>5, <1>7, <1>8, <1>9 DEF IInv

THEOREM IInvHolds == Spec => []IInv
<1>1. Init => IInv
  BY InitIInv
<1>2. IInv /\ [Next]_vars => IInv'
  <2> SUFFICES ASSUME IInv, [Next]_vars
               PROVE  IInv'
    OBVIOUS
  <2>1. TypeOK' /\ ListsInv' /\ LimitInv' /\ NeededInv'
    BY TypeStep, ListsStep, LimitStep, NeededStep
  <2>2. SettlingInv' /\ LeavesInv' /\ RoomInv' /\ CleanInv'
    BY SettlingStep, LeavesStep, RoomStep, CleanStep
  <2> QED
    BY <2>1, <2>2 DEF IInv
<1> QED
  BY <1>1, <1>2, PTL DEF Spec

\* The books of the search are the server's, whatever was refused, retried, skipped or
\* settled, and what _fit_whole_run_frontier_to_active_capacity let through fits the slots
\* of a Whole Run instance at every chunk and retry of the ply.
THEOREM BooksAlwaysAgree == Spec => []BooksAgree
<1>1. ASSUME IInv
      PROVE  BooksAgree
  <2>1. TypeOK /\ held = allIds \ released
    BY <1>1 DEF IInv, ListsInv
  <2>2. ASSUME WholeRun, pc = "emulate"
        PROVE  Cardinality(Live \ finished) + Cardinality(pending) <= Capacity
    <3>1. Cardinality(Live \ finished) + Cardinality(pending) + Cardinality(retry) <= Capacity
      BY <1>1, <2>2 DEF IInv, RoomInv
    <3>2. /\ Live \ finished \subseteq 0 .. Len(tree) /\ pending \subseteq 0 .. Len(tree)
          /\ retry \subseteq 0 .. Len(tree) /\ tree \in Seq(NodeRec)
      BY <1>1 DEF IInv, TypeOK, ListsInv, Live
    <3>3. /\ Cardinality(Live \ finished) \in Nat /\ Cardinality(pending) \in Nat
          /\ Cardinality(retry) \in Nat /\ Capacity \in Nat
      BY <2>1, <3>2, ListsAreFinite, SetupFacts
    <3> QED
      BY <3>1, <3>3
  <2> QED
    BY <2>1, <2>2 DEF BooksAgree
<1> QED
  BY <1>1, IInvHolds, PTL

\* No release takes away what the search still needs: its frontier, the parents of the
\* branches it is about to request, or a leaf it has yet to settle.
THEOREM NeededIsAlwaysHeld == Spec => []NeededIsHeld
<1>1. ASSUME IInv
      PROVE  NeededIsHeld
  <2>1. pc \in {"ply", "emulate", "release"} => beam \cup waiting \subseteq held \cup {Root}
    BY <1>1 DEF IInv, NeededInv
  <2>2. ASSUME pc = "emulate", NEW b \in pending
        PROVE  tree[b].parent \in Live \cup {Root}
    <3>1. tree[b].parent \in beam /\ beam \subseteq held \cup {Root}
      BY <1>1, <2>2 DEF IInv, NeededInv
    <3>2. Node(tree[b].parent).kind # "fault"
      BY <1>1, <3>1 DEF IInv, LimitInv, Expandable
    <3> QED
      BY <3>1, <3>2 DEF Live
  <2>3. ASSUME Boundary, pc \notin {"cancel", "free", "done"},
               NEW i \in todo \cup (finished \ settledIds), SettleAction(i)
        PROVE  i \in Live
    <3>1. i \in held
      BY <1>1, <2>3 DEF IInv, NeededInv
    <3> QED
      BY <2>3, <3>1 DEF SettleAction, HasEndTurn, Live
  <2> QED
    BY <2>1, <2>2, <2>3 DEF NeededIsHeld
<1> QED
  BY <1>1, IInvHolds, PTL

\* A turn_boundary_scoring search that ended undisturbed compares leaves on the same side
\* of the turn boundary.
THEOREM LeavesAreComparable == Spec => []LeavesComparable
<1>1. ASSUME IInv
      PROVE  LeavesComparable
  <2> SUFFICES ASSUME Boundary, pc = "done", error = "none", ~mishap, clock = "early"
               PROVE  /\ \A i \in finished : SettleAction(i) => i \in scored
                      /\ HasEndTurn(Root) => Root \in scored
    BY DEF LeavesComparable
  <2>1. /\ \A i \in settledIds : SettleAction(i) => i \in scored \cup todo
        /\ finished \subseteq settledIds \cup {Root}
        /\ HasEndTurn(Root) => Root \in scored
    BY <1>1 DEF IInv, LeavesInv
  <2>2. todo = {}
    BY <1>1 DEF IInv, SettlingInv
  <2> QED
    BY <2>1, <2>2 DEF SettleAction
<1> QED
  BY <1>1, IInvHolds, PTL

\* A search that ends in time, no call of it having failed, leaves no branch behind.
THEOREM NothingEverLeaks == Spec => []NothingLeaks
<1>1. IInv => NothingLeaks
  BY DEF IInv, CleanInv, NothingLeaks
<1> QED
  BY <1>1, IInvHolds, PTL
=============================================================================
