----------------------------- MODULE BeamSearch -----------------------------
(***************************************************************************)
(* One search of BeamSearchEngine (decision/beam_search.py) against an RL  *)
(* server: the ply loop, the frontier kept inside the server's active      *)
(* branch budget, the local retries of faulted branches, the per-ply       *)
(* settling and releasing of branches, and the clean-up in `finally`.      *)
(*                                                                         *)
(* The search is one coroutine, so an action is the code between two       *)
(* awaits, or less.  Its environment is the clock, the outcome of every    *)
(* client call, and the decision each simulated branch lands on.           *)
(*                                                                         *)
(* A state score only orders nodes: any ranking is possible, so "the best  *)
(* n of S" is any n members of S.  A branch id is its place in `tree`.     *)
(***************************************************************************)
EXTENDS Integers, Sequences, FiniteSets, FiniteSetsExt

CONSTANTS
    MaxBatch,       \* BeamSearchConfig.max_batch_size
    BeamWidth, TopK, MaxDepth, MaxCont, MaxAttempts,
    Setups,         \* the searches explored: instance type and published capacity
                    \* (max_emulate_actions_items), leaf rule, kind of the root decision,
                    \* kinds a branch may resolve to, what may go wrong
    MaxIds          \* bound on the branch ids of one search

ASSUME BeamAssumption ==
    /\ {MaxBatch, BeamWidth, TopK, MaxDepth, MaxCont, MaxAttempts, MaxIds}
         \subseteq Nat \ {0}
    /\ Setups \subseteq
         [instance : {"combat", "whole_run"},
          capacity : Nat \ {0},
          rule     : {"plain", "turn_aligned", "turn_boundary"},
          root     : {"stable", "spent", "cont"},
          kinds    : SUBSET {"stable", "spent", "next", "cont", "oos", "term"},
          failures : SUBSET {"rejected", "invalid", "unsent", "lost", "faulted", "branch"}]

VARIABLES
    setup,      \* which of Setups this search is
    pc, stage,  \* where the coroutine is, and on whose behalf it settles or releases
    tree,       \* every branch id this search allocated, with its node
    beam, waiting, finished,
    pending,    \* branches of the frontier not yet submitted in this attempt
    retry,      \* branches that faulted in this attempt (retry_sources)
    got,        \* branches with a final result (final_meta_by_order)
    attempt, fatal,
    todo, width, fresh, settledIds, scored,   \* settling: see SettleStart
    allIds, released,                         \* the search's own books
    held,       \* branches registered at the server and not released
    client,     \* "ok", "pending" (pending_retry) or "invalid" (session_invalid)
    clock,      \* "early", "late" (search deadline) or "over" (overall deadline)
    depths, reason, error,
    mishap      \* history: some call failed or some settling branch faulted

ctl     == <<setup, stage, depths>>
lists   == <<beam, waiting, finished>>
batch   == <<pending, retry, got, attempt, fatal>>
settle  == <<todo, width, fresh, settledIds, scored>>
books   == <<allIds, released, held>>
env     == <<client, clock, mishap>>
vars    == <<ctl, pc, tree, lists, batch, settle, books, env, reason, error>>

Root == 0
Capacity == setup.capacity
WholeRun == setup.instance = "whole_run"
Boundary == setup.rule = "turn_boundary"
Unusable == client # "ok"

Node(i) == IF i = Root
             THEN [parent |-> Root, kind |-> setup.root, combat |-> 0, cont |-> 0, turn |-> 0]
             ELSE tree[i]

\* The decisions a node can stand at: "stable" has cards to play and End Turn, "spent"
\* only End Turn, "cont" is an interactive choice, "oos" is outside the Beam's scope and
\* "term" is terminal; "new" is not simulated yet and "fault" did not resolve.
Searchable(i) == Node(i).kind \in {"stable", "spent", "cont"}
MacroResolved(i) == Node(i).kind # "cont"
HasEndTurn(i) == Node(i).kind \in {"stable", "spent"}
Crossed(i) == Node(i).turn > 0

\* What the policy may propose: nothing when End Turn, which turn_boundary_scoring never
\* expands, is the only action.
Candidates(i) == IF Boundary /\ Node(i).kind = "spent" THEN {0} ELSE 1 .. TopK

\* The node a candidate of i leads to, before its result is in: an interactive choice
\* does not consume combat depth, anything else does and resets the step count.
Child(i) ==
    LET n == Node(i)
    IN  [parent |-> i, kind |-> "new", turn |-> n.turn,
         combat |-> IF n.kind = "cont" THEN n.combat ELSE n.combat + 1,
         cont   |-> IF n.kind = "cont" THEN n.cont + 1 ELSE 0]

Resolve(n, kind) ==
    IF kind = "next" THEN [n EXCEPT !.kind = "stable", !.turn = @ + 1]
                     ELSE [n EXCEPT !.kind = kind]

Children(parents) == [k \in DOMAIN parents |-> Child(parents[k])]
Ids(n) == Len(tree) + 1 .. Len(tree) + n

\* The members of a finite set in the order `precedes`, a set of pairs: each at the place
\* after those that precede it.
Rank(S, precedes, x) == Cardinality({y \in S : <<y, x>> \in precedes})
InOrder(S, precedes) ==
    [k \in 1 .. Cardinality(S) |-> CHOOSE x \in S : Rank(S, precedes, x) = k - 1]
Less(S) == {p \in S \X S : p[1] < p[2]}
Sorted(S) == InOrder(S, Less(S))
AtMost(n, S) == kSubset(Min({n, Cardinality(S)}), S)

----------------------------------------------------------------------------
(* The RL server, as the search uses it. *)

\* A faulted branch owns no slot; a released one is unknown.
Live == {b \in held : Node(b).kind # "fault"}

\* Admission is all-or-nothing: every parent is a live branch or the root, and a Whole
\* Run instance never holds more than Capacity branches.
Admits(parents, n) ==
    /\ parents \subseteq Live \cup {Root}
    /\ WholeRun => Cardinality(Live) + n <= Capacity

\* The client refuses a call by itself while a retry is pending or the session is invalid
\* (RuntimeError), and a batch wider than the published limit (ValueError).
Blocked(n) == Unusable \/ n > Capacity

\* A call that fails in one of the ways `ways`, leaving the client as it then is.  What
\* the server did with a call whose outcome was lost no longer matters here: no call of
\* this search succeeds afterwards.
CallFails(ways) ==
    \E w \in ways \cap setup.failures :
       /\ client' = CASE w = "lost" -> "pending" [] w = "invalid" -> "invalid" [] OTHER -> "ok"
       /\ mishap' = TRUE
       /\ UNCHANGED clock

Refuses(parents, n) ==
    \/ /\ ~Admits(parents, n)
       /\ mishap' = TRUE /\ UNCHANGED <<client, clock>>
    \/ CallFails({"rejected", "invalid"})

----------------------------------------------------------------------------
Init ==
    /\ setup \in Setups
    /\ pc = "ply" /\ stage = "ply"
    /\ tree = << >>
    /\ beam = {Root} /\ waiting = {} /\ finished = {}
    /\ pending = {} /\ retry = {} /\ got = {} /\ attempt = 1 /\ fatal = "none"
    /\ todo = {} /\ width = 0 /\ fresh = {} /\ settledIds = {} /\ scored = {}
    /\ allIds = {} /\ released = {} /\ held = {}
    /\ client = "ok" /\ clock = "early" /\ mishap = FALSE
    /\ depths = 0 /\ reason = "max_depth" /\ error = "none"

\* The two deadlines of a search, each of which may pass between any two steps.
Tick ==
    /\ pc # "done" /\ clock # "over"
    /\ clock' = IF clock = "early" THEN "late" ELSE "over"
    /\ UNCHANGED <<ctl, pc, tree, lists, batch, settle, books, client, mishap, reason, error>>

\* `break`: the loop ends for reason r and the leaves are collected.
Break(r) == pc' = "leaves" /\ reason' = r

\* An exception leaves the loop; only the clean-up in `finally` still runs.
Raise(e) ==
    /\ pc' = "cancel" /\ error' = e
    /\ UNCHANGED <<ctl, tree, lists, batch, settle, books, reason>>

----------------------------------------------------------------------------
(* The top of the loop: propose a frontier and fit it to the budget. *)

PlyOutOfTime ==
    /\ pc = "ply" /\ clock # "early"
    /\ Break("time_budget")
    /\ UNCHANGED <<ctl, tree, lists, batch, settle, books, env, error>>

\* The candidates a frontier takes, and their order: by node, then by candidate.
Taken(take) == {c \in (DOMAIN take) \X (1 .. TopK) : c[2] <= take[c[1]]}
SumTake(take) == Cardinality(Taken(take))
BeamOrder(C) ==
    {p \in C \X C : \/ p[1][1] < p[2][1]
                    \/ p[1][1] = p[2][1] /\ p[1][2] < p[2][2]}

\* How many of each node's candidates (offer) a Whole Run frontier may submit (take):
\* nodes in beam order, a live parent costing a slot besides its children, until the
\* budget is spent.
Fits(offer, take) ==
    LET kept == {n \in DOMAIN take : take[n] > 0}
        used == Cardinality(kept \ {Root}) + SumTake(take)
        cut  == {n \in kept : take[n] < offer[n]}
    IN  IF ~WholeRun THEN take = offer
        ELSE /\ \A n \in kept : take[n] <= offer[n]
             /\ used <= Capacity /\ Cardinality(cut) <= 1
             /\ cut # {} => used = Capacity
             /\ kept # DOMAIN take => used + 1 >= Capacity

\* The waiting siblings the rest of the budget allows.
KeepsWaiting(take, kept) ==
    IF WholeRun
      THEN kept \in AtMost(Max({0, Capacity - Cardinality({n \in DOMAIN take : take[n] > 0}
                                                            \ {Root}) - SumTake(take)}),
                           waiting)
      ELSE kept = waiting

\* The parents of the submitted children, in beam order.
Submitted(take) ==
    [k \in 1 .. SumTake(take) |-> InOrder(Taken(take), BeamOrder(Taken(take)))[k][1]]

\* Seeded bug: branches are released before the leaves among them are settled.
BeforeReleaseNothing == "release"

\* Settling comes before any release of the ply.
BeforeRelease == IF Boundary THEN "settle" ELSE "release"

\* search(): searchability, _propose_frontier, _fit_whole_run_frontier_to_active_capacity.
Propose ==
    /\ pc = "ply" /\ clock = "early"
    /\ \E offer \in [{n \in beam : Searchable(n)} -> 0 .. TopK] :
         /\ \A n \in DOMAIN offer : offer[n] \in Candidates(n)
         /\ LET open == {n \in DOMAIN offer : offer[n] > 0}
                left == {n \in beam \ open : MacroResolved(n)}
            IN  IF open = {}
                  THEN /\ beam' = {}
                       /\ finished' = finished \cup left
                       /\ Break(IF DOMAIN offer = {} THEN "not_beam_searchable"
                                                     ELSE "no_candidates")
                       /\ UNCHANGED <<ctl, tree, waiting, batch>>
                  ELSE \E take \in [open -> 0 .. TopK], keep \in SUBSET waiting :
                         /\ Fits(offer, take) /\ KeepsWaiting(take, keep)
                         /\ Len(tree) + SumTake(take) <= MaxIds
                         /\ beam' = {n \in open : take[n] > 0}
                         /\ waiting' = keep
                         /\ finished' = finished \cup left
                              \cup {n \in (open \ beam') \cup (waiting \ keep) : MacroResolved(n)}
                         /\ tree' = tree \o Children(Submitted(take))
                         /\ pending' = Ids(SumTake(take))
                         /\ retry' = {} /\ got' = {} /\ attempt' = 1 /\ fatal' = "none"
                         /\ stage' = "fit"
                         /\ pc' = IF (\E n \in open : take[n] < offer[n]) \/ keep # waiting
                                    THEN BeforeRelease
                                    ELSE "emulate"
                         /\ UNCHANGED <<setup, depths, reason>>
    /\ UNCHANGED <<settle, books, env, error>>

----------------------------------------------------------------------------
(* _emulate_depth_batch *)

BatchSize == Min({MaxBatch, Capacity})
Chunks(n, S) == AtMost(n, S)

Fatal(f) ==
    /\ fatal' = f /\ pc' = "score"
    /\ UNCHANGED <<ctl, tree, lists, pending, retry, got, attempt, settle, books, reason, error>>

EmulateOutOfTime ==
    /\ pc = "emulate" /\ pending # {} /\ clock # "early"
    /\ Fatal("time_budget")
    /\ UNCHANGED env

RetryAllowed == attempt < MaxAttempts

\* A chunk is admitted: each branch resolves to some decision or faults.  A fault is
\* retried under a fresh branch id, or stands once the attempts are used up.
EmulateChunk ==
    /\ pc = "emulate" /\ clock = "early"
    /\ \E chunk \in Chunks(BatchSize, pending) :
         /\ chunk # {} /\ ~Blocked(Cardinality(chunk))
         /\ Admits({tree[b].parent : b \in chunk}, Cardinality(chunk))
         /\ \E result \in [chunk -> setup.kinds \cup (IF "branch" \in setup.failures THEN {"fault"} ELSE {})] :
              LET bad == {b \in chunk : result[b] = "fault"}
              IN  /\ tree' = [i \in DOMAIN tree |->
                                IF i \in chunk THEN Resolve(tree[i], result[i]) ELSE tree[i]]
                  /\ pending' = pending \ chunk
                  /\ IF RetryAllowed
                       THEN got' = got \cup (chunk \ bad) /\ retry' = retry \cup bad
                       ELSE got' = got \cup chunk /\ retry' = retry
                  /\ allIds' = allIds \cup chunk
                  /\ held' = held \cup chunk
    /\ UNCHANGED <<ctl, pc, lists, attempt, fatal, settle, released, env, reason, error>>

\* RequestRejectedError: the ply ends with what earlier chunks returned, unless it left
\* the client unusable.
EmulateRejected ==
    /\ pc = "emulate" /\ clock = "early"
    /\ \E chunk \in Chunks(BatchSize, pending) :
         /\ chunk # {} /\ ~Blocked(Cardinality(chunk))
         /\ Refuses({tree[b].parent : b \in chunk}, Cardinality(chunk))
    /\ IF client' = "ok" THEN Fatal("rejected") ELSE Raise("raised")

\* TransportError and RequestFaultedError are not caught here.  The client is usable
\* whenever a frontier is submitted: a settling that left it unusable leaves branches to
\* release, and that release ends the loop.
EmulateBroken ==
    /\ pc = "emulate" /\ pending # {} /\ clock = "early" /\ ~Unusable
    /\ CallFails({"unsent", "lost", "faulted"})
    /\ Raise("raised")

\* The next attempt resubmits the faulted candidates under fresh ids (_make_retry_item).
RetryFaulted ==
    /\ pc = "emulate" /\ pending = {} /\ retry # {}
    /\ Len(tree) + Cardinality(retry) <= MaxIds
    /\ tree' = tree \o Children([k \in 1 .. Cardinality(retry) |-> tree[Sorted(retry)[k]].parent])
    /\ pending' = Ids(Cardinality(retry))
    /\ retry' = {} /\ attempt' = attempt + 1
    /\ UNCHANGED <<ctl, pc, lists, got, fatal, settle, books, env, reason, error>>

EmulateDone ==
    /\ pc = "emulate" /\ pending = {} /\ retry = {}
    /\ pc' = "score"
    /\ UNCHANGED <<ctl, tree, lists, batch, settle, books, env, reason, error>>

----------------------------------------------------------------------------
(* _score_frontier and the rest of the ply *)

\* Where a resolved branch goes: dropped, a leaf (newly_finished), or the next frontier.
Dropped(i) == \/ Node(i).kind = "fault"
              \/ Node(i).kind = "oos" /\ WholeRun
TooManySteps(i) == Node(i).kind = "cont" /\ Node(i).cont >= MaxCont
Stops(i) == Node(i).kind = "term" \/ (Boundary /\ Crossed(i))
DepthSpent(i) == ~Stops(i) /\ Node(i).kind # "cont" /\ Node(i).combat >= MaxDepth
NewLeaf(i) == Stops(i) \/ DepthSpent(i)

\* The new frontier: interactive choices first, their stable siblings waiting for them;
\* once no choice is open, the pruner picks from all stable nodes.
NextFrontier(next) ==
    LET conts == {i \in next : Node(i).kind = "cont"}
    IN  IF conts # {}
          THEN /\ waiting' = waiting \cup (next \ conts)
               /\ beam' \in AtMost(BeamWidth, conts)
          ELSE /\ waiting' = {}
               /\ beam' \in AtMost(BeamWidth, next \cup waiting)

\* Whether the loop goes on.  An empty frontier leaves nothing waiting either, so the
\* code's fallback to the waiting nodes is never taken.
PlyEnds(leaves, limit) ==
    \/ /\ fatal # "none"
       /\ Break(fatal) /\ UNCHANGED <<stage, depths>>
    \/ /\ fatal = "none" /\ beam' = {}
       /\ Break(IF limit THEN "max_continuation_steps"
                ELSE IF \E i \in leaves : DepthSpent(i) THEN "max_depth" ELSE "beam_exhausted")
       /\ depths' = depths + 1 /\ UNCHANGED stage
    \/ /\ fatal = "none" /\ beam' # {}
       /\ pc' = BeforeRelease /\ stage' = "ply"
       /\ depths' = depths + 1 /\ UNCHANGED reason

\* _score_frontier, and AllBranchesFaultedError when it has no survivor at all.
Score ==
    /\ pc = "score"
    /\ LET usable == {i \in got : ~Dropped(i)}
           leaves == {i \in usable : NewLeaf(i)}
           next   == {i \in usable \ leaves : ~TooManySteps(i)}
           limit  == \E i \in usable \ leaves : TooManySteps(i)
           none   == got # {} /\ next = {} /\ leaves = {} /\ ~limit
       IN  \/ /\ none /\ WholeRun /\ \E i \in got : Node(i).kind = "oos"
              /\ Break("not_beam_searchable") /\ UNCHANGED <<ctl, lists, error>>
           \/ /\ none /\ ~(WholeRun /\ \E i \in got : Node(i).kind = "oos")
              /\ pc' = "cancel" /\ error' = "raised" /\ UNCHANGED <<ctl, lists, reason>>
           \/ /\ ~none
              /\ finished' = finished \cup leaves
              /\ NextFrontier(next) /\ PlyEnds(leaves, limit)
              /\ UNCHANGED <<setup, error>>
    /\ UNCHANGED <<tree, batch, settle, books, env>>

----------------------------------------------------------------------------
(* turn_boundary_scoring: settling leaves, one End Turn each *)

\* The leaves that a forced End Turn would settle (_turn_boundary_settle_action).
SettleAction(i) == i # Root /\ HasEndTurn(i) /\ ~Crossed(i)

\* Seeded bug: nodes still in the frontier count as tried.
TriedWithBeam == settledIds \cup finished \cup beam

\* A leaf is tried once, whether or not it needed settling (settled_branch_ids).
Tried == settledIds \cup finished

\* The width of a settling chunk: what the request limit and the free slots allow, but
\* never less than one (_settle_batch).
SettleWidth ==
    IF WholeRun
      THEN Max({1, Min({BatchSize, Capacity - Cardinality(allIds \ released)})})
      ELSE BatchSize

\* _settle_pending_leaves marks every leaf as tried and settles those that need it;
\* _settle_root_as_a_leaf settles the root alone.
SettleStart ==
    /\ pc = "settle"
    /\ IF stage = "root"
         THEN todo' = {i \in {Root} : HasEndTurn(i)} /\ settledIds' = settledIds
         ELSE /\ todo' = {i \in finished \ settledIds : SettleAction(i)}
              /\ settledIds' = Tried
    /\ width' = SettleWidth
    /\ pc' = "settling"
    /\ UNCHANGED <<ctl, tree, lists, batch, fresh, scored, books, env, reason, error>>

\* A chunk is admitted.  The branches it created serve only to be scored, and a leaf
\* whose branch faulted keeps its unsettled score.
SettleChunk ==
    /\ pc = "settling" /\ clock = "early"
    /\ \E chunk \in Chunks(width, todo) :
         /\ chunk # {} /\ ~Blocked(Cardinality(chunk))
         /\ Admits(chunk, Cardinality(chunk))
         /\ Len(tree) + Cardinality(chunk) <= MaxIds
         /\ \E bad \in SUBSET chunk :
              /\ bad # {} => "branch" \in setup.failures
              /\ tree' = tree \o [k \in 1 .. Cardinality(chunk) |->
                            Resolve(Child(Sorted(chunk)[k]),
                                    IF Sorted(chunk)[k] \in bad THEN "fault" ELSE "next")]
              /\ scored' = scored \cup (chunk \ bad)
              /\ mishap' = (mishap \/ bad # {})
         /\ todo' = todo \ chunk
         /\ fresh' = Ids(Cardinality(chunk))
         /\ allIds' = allIds \cup fresh' /\ held' = held \cup fresh'
    /\ pc' = "settle_free"
    /\ UNCHANGED <<ctl, lists, batch, width, settledIds, released, client, clock, reason, error>>

\* Seeded bug: the chunk that failed stays first in line.
SkipNothing(chunk) == todo

\* What is left to settle after a chunk that failed.
Skip(chunk) == IF client' = "ok" THEN todo \ chunk ELSE {}

\* RequestRejectedError and TransportError skip the chunk, or all of them if the client
\* is no longer usable.
SettleSkipped ==
    /\ pc = "settling" /\ clock = "early"
    /\ \E chunk \in Chunks(width, todo) :
         /\ chunk # {} /\ ~Blocked(Cardinality(chunk))
         /\ \/ Refuses(chunk, Cardinality(chunk))
            \/ CallFails({"unsent", "lost"})
         /\ todo' = Skip(chunk)
    /\ UNCHANGED <<ctl, pc, tree, lists, batch, width, fresh, settledIds, scored,
                   books, reason, error>>

SettleBroken ==
    /\ pc = "settling" /\ todo # {} /\ clock = "early"
    /\ \/ /\ Unusable
          /\ Raise("blocked") /\ UNCHANGED env
       \/ /\ ~Unusable
          /\ CallFails({"faulted"}) /\ Raise("raised")

\* Nothing is left to settle, or no time.
SettleDone ==
    /\ pc = "settling" /\ (todo = {} \/ clock # "early")
    /\ todo' = {} /\ width' = 0
    /\ CASE stage \in {"fit", "ply"} -> pc' = "release" /\ stage' = stage /\ finished' = finished
         [] stage = "end"  -> pc' = "settle" /\ stage' = "root" /\ finished' = finished
         [] stage = "root" -> /\ pc' = "cancel" /\ stage' = stage
                              /\ finished' = finished \cup (scored \cap {Root})
    /\ UNCHANGED <<setup, depths, tree, beam, waiting, batch, fresh, settledIds, scored,
                   books, env, reason, error>>

----------------------------------------------------------------------------
(* Releasing branches: _cleanup_call and its three callers *)

\* Seeded bug: the release is not entered in the books.
ReleasedUnrecorded(ids) ==
    /\ held' = held \ ids
    /\ UNCHANGED <<allIds, released, env>>

\* A release_branches that went through.
Released(ids) ==
    /\ released' = released \cup ids
    /\ held' = held \ ids
    /\ UNCHANGED <<allIds, env>>

\* One that was not sent, or came back refused: the branches stay.
ReleaseSkipped(deadlinePassed) ==
    /\ \/ /\ deadlinePassed
          /\ UNCHANGED env
       \/ /\ ~deadlinePassed
          /\ CallFails({"rejected", "unsent"})
    /\ UNCHANGED books

ReleaseRaises(deadlinePassed) ==
    ~deadlinePassed /\ CallFails({"invalid", "lost", "faulted"})

\* _release_settled_branches, after each settling chunk of a Whole Run instance.
SettleFree ==
    /\ pc = "settle_free"
    /\ \/ /\ pc' = "settling" /\ fresh' = {}
          /\ \/ (~WholeRun /\ UNCHANGED <<books, env>>)
             \/ (WholeRun /\ clock = "early" /\ Released(fresh))
             \/ (WholeRun /\ ReleaseSkipped(clock # "early"))
          /\ UNCHANGED <<ctl, tree, lists, batch, todo, width, settledIds, scored, reason, error>>
       \/ /\ WholeRun
          /\ ReleaseRaises(clock # "early") /\ Raise("raised")

\* The branches no list of the search needs any more.
Unneeded == allIds \ (released \cup beam \cup waiting)

\* After a release of the fit stage the frontier is submitted, if any of it is left.
AfterRelease ==
    IF stage = "ply" THEN pc' = "ply" /\ reason' = reason
    ELSE IF pending = {} THEN Break("active_branch_capacity")
                         ELSE pc' = "emulate" /\ reason' = reason

\* _release_unneeded_whole_run_branches
Release ==
    /\ pc = "release"
    /\ \/ /\ ~WholeRun \/ Unneeded = {}
          /\ AfterRelease /\ UNCHANGED <<books, env, error>>
       \/ /\ WholeRun /\ Unneeded # {} /\ ~Unusable /\ clock = "early"
          /\ Released(Unneeded) /\ AfterRelease /\ UNCHANGED error
       \/ /\ WholeRun /\ Unneeded # {}
          /\ \/ (Unusable /\ UNCHANGED <<books, env>>)
             \/ (~Unusable /\ ReleaseSkipped(clock # "early"))
          /\ Break("active_branch_cleanup_failed") /\ UNCHANGED error
       \/ /\ WholeRun /\ Unneeded # {} /\ ~Unusable
          /\ ReleaseRaises(clock # "early")
          /\ pc' = "cancel" /\ error' = "raised" /\ UNCHANGED <<books, reason>>
    /\ UNCHANGED <<ctl, tree, lists, batch, settle>>

----------------------------------------------------------------------------
(* After the loop *)

CollectLeaves ==
    /\ pc = "leaves"
    /\ finished' = finished \cup waiting \cup {i \in beam : MacroResolved(i)}
    /\ pc' = CASE setup.rule = "plain" -> "cancel"
               [] setup.rule = "turn_aligned" -> "align"
               [] setup.rule = "turn_boundary" -> "settle"
    /\ stage' = "end"
    /\ UNCHANGED <<setup, depths, tree, beam, waiting, batch, settle, books, env, reason, error>>

\* The leaves _align_leaf_turns extends by their End Turn: those of the earliest turn
\* among the leaves, when some other leaf is further on.
Lagging ==
    LET extendable == {i \in finished : i # Root /\ HasEndTurn(i)}
        earliest   == {i \in extendable : \A j \in extendable : Node(i).turn <= Node(j).turn}
    IN  IF earliest = extendable THEN {} ELSE earliest

\* One batch for all of them, whatever the limits; its branches wait for the clean-up.
Align ==
    /\ pc = "align"
    /\ \/ /\ Lagging = {} \/ clock # "early"
          /\ pc' = "cancel"
          /\ UNCHANGED <<tree, scored, books, env, error>>
       \/ /\ Lagging # {} /\ clock = "early" /\ Blocked(Cardinality(Lagging))
          /\ pc' = "cancel" /\ error' = "blocked"
          /\ UNCHANGED <<tree, scored, books, env>>
       \/ /\ Lagging # {} /\ clock = "early" /\ ~Blocked(Cardinality(Lagging))
          /\ Admits(Lagging, Cardinality(Lagging))
          /\ Len(tree) + Cardinality(Lagging) <= MaxIds
          /\ tree' = tree \o [k \in 1 .. Cardinality(Lagging) |->
                                Resolve(Child(Sorted(Lagging)[k]), "next")]
          /\ scored' = scored \cup Lagging
          /\ allIds' = allIds \cup Ids(Cardinality(Lagging))
          /\ held' = held \cup Ids(Cardinality(Lagging))
          /\ pc' = "cancel"
          /\ UNCHANGED <<released, env, error>>
       \/ /\ Lagging # {} /\ clock = "early" /\ ~Blocked(Cardinality(Lagging))
          /\ \/ (Refuses(Lagging, Cardinality(Lagging)) /\ error' = error)
             \/ (CallFails({"unsent", "lost"}) /\ error' = error)
             \/ (CallFails({"faulted"}) /\ error' = "raised")
          /\ pc' = "cancel"
          /\ UNCHANGED <<tree, scored, books>>
    /\ UNCHANGED <<ctl, lists, batch, todo, width, fresh, settledIds, reason>>

\* Seeded bug: the clean-up forgets the leaves.
RemainingButLeaves == allIds \ (released \cup finished)

\* The branches _cleanup is given: all those not known to be released.
Remaining == allIds \ released

\* _cleanup, in `finally`: cancel the remaining branches, then release them, unless the
\* client is unusable, the overall deadline has passed or the cancellation failed.
CancelBranches ==
    /\ pc = "cancel"
    /\ \/ /\ Remaining = {} \/ Unusable \/ clock = "over"
          /\ pc' = "done" /\ UNCHANGED <<env, error>>
       \/ /\ Remaining # {} /\ ~Unusable /\ clock # "over"
          /\ \/ (pc' = "free" /\ UNCHANGED <<env, error>>)
             \/ (CallFails({"rejected", "unsent"}) /\ pc' = "done" /\ UNCHANGED error)
             \/ /\ CallFails({"invalid", "lost", "faulted"}) /\ pc' = "done"
                /\ error' = IF error = "none" THEN "raised" ELSE error
    /\ UNCHANGED <<ctl, tree, lists, batch, settle, books, reason>>

ReleaseBranches ==
    /\ pc = "free"
    /\ pc' = "done"
    /\ \/ (clock # "over" /\ Released(Remaining) /\ UNCHANGED error)
       \/ (ReleaseSkipped(clock = "over") /\ UNCHANGED error)
       \/ /\ ReleaseRaises(clock = "over") /\ UNCHANGED books
          /\ error' = IF error = "none" THEN "raised" ELSE error
    /\ UNCHANGED <<ctl, tree, lists, batch, settle, reason>>

Step ==
    \/ PlyOutOfTime \/ Propose
    \/ EmulateOutOfTime \/ EmulateChunk \/ EmulateRejected \/ EmulateBroken
    \/ RetryFaulted \/ EmulateDone
    \/ Score
    \/ SettleStart \/ SettleChunk \/ SettleSkipped \/ SettleBroken \/ SettleDone
    \/ SettleFree \/ Release
    \/ CollectLeaves \/ Align \/ CancelBranches \/ ReleaseBranches

Finished == pc = "done" /\ UNCHANGED vars

Next == Step \/ Tick \/ Finished

\* Every await of the search is bounded by timeout_s and the code between two awaits
\* runs to its end, so the coroutine always takes its next step.
Spec == Init /\ [][Next]_vars /\ WF_vars(Step)

----------------------------------------------------------------------------
TypeOK ==
    /\ setup \in Setups
    /\ pc \in {"ply", "emulate", "score", "settle", "settling", "settle_free", "release",
              "leaves", "align", "cancel", "free", "done"}
    /\ stage \in {"fit", "ply", "end", "root"} /\ width \in 0 .. BatchSize
    /\ \A i \in 1 .. Len(tree) :
         /\ tree[i].parent \in 0 .. i - 1 /\ tree[i].turn \in Nat
         /\ tree[i].kind \in {"new", "stable", "spent", "cont", "oos", "term", "fault"}
         /\ tree[i].combat \in 0 .. MaxDepth + 1 /\ tree[i].cont \in 0 .. MaxCont + 1
    /\ beam \cup waiting \cup finished \cup settledIds \cup scored \cup todo
         \subseteq 0 .. Len(tree)
    /\ pending \cup retry \cup got \cup fresh \cup allIds \cup released \cup held
         \subseteq 1 .. Len(tree)
    /\ attempt \in 1 .. MaxAttempts /\ fatal \in {"none", "time_budget", "rejected"}
    /\ client \in {"ok", "pending", "invalid"} /\ clock \in {"early", "late", "over"}
    /\ error \in {"none", "raised", "blocked"}

\* What the search believes it still holds is what the server holds, after any number of
\* partial batches, refusals and skipped releases; only an uncertain call may break this.
\* By these books _fit_whole_run_frontier_to_active_capacity makes room: leaves aside, what
\* is live and what is still to be submitted fit the budget at every chunk and every retry
\* of a ply.  (And every variable keeps its type.)
BooksAgree ==
    /\ TypeOK
    /\ client = "ok" => held = allIds \ released
    /\ client = "ok" /\ WholeRun /\ pc = "emulate" =>
         Cardinality(Live \ finished) + Cardinality(pending) <= Capacity

\* Nothing the search still needs has been released: its frontier, the parents of the
\* branches it is about to request, and - "this has to run before branches are released"
\* in _settle_pending_leaves - every leaf that is still to be settled.
NeededIsHeld ==
    client = "ok" =>
      /\ pc \in {"ply", "emulate", "release"} => beam \cup waiting \subseteq held \cup {Root}
      /\ pc = "emulate" => \A b \in pending : tree[b].parent \in Live \cup {Root}
      /\ Boundary /\ pc \notin {"cancel", "free", "done"} =>
           \A i \in todo \cup (finished \ settledIds) : SettleAction(i) => i \in Live

\* With turn_boundary_scoring the leaves a search compares were all scored past the turn
\* boundary, unless a call failed, a settling branch faulted or time ran out.
LeavesComparable ==
    Boundary /\ pc = "done" /\ error = "none" /\ ~mishap /\ clock = "early" =>
      /\ \A i \in finished : SettleAction(i) => i \in scored
      /\ HasEndTurn(Root) => Root \in scored

\* A search that ends in time with no failed call leaves no branch at the server.
NothingLeaks == pc = "done" /\ ~mishap /\ clock # "over" => held = {}

\* Every search returns.
Terminates == <>(pc = "done")
=============================================================================
