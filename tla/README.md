# A TLA+ model of STS2_Training

STS2_Training plays Slay the Spire 2 runs against an external game server (RL),
searches with simulated branches, records what it did as training data, trains a
learned pruner from it, and shows running games in a browser. This directory holds TLA+
models of the parts whose correctness depends on order, loss, cancellation, limits,
crashes and ties, the TLC configurations that check them, and TLAPS proofs of the safety
properties of every part that has state, and of what the selection of a frontier promises.

Paths are relative to the repository; `api/` and the like are below
`src/sts2_training/`.

## 1. The system

| Component | State it keeps | Operations | Talks to |
|---|---|---|---|
| RL server (another repository) | epoch of the process, one ledger per session (last sequence, stored answer), instances, root Decision, Branches | executes framed requests | the client's stream |
| `AsyncTrainingApiClient` (`api/async_client.py`) | next sequence, pending retry, invalid flag, deferred cleanup record, operation lock, instance id | start, get, emulate, commit, cancel, release, status, close, `retry_request`, `defer_branch_cleanup_after_retry` | connection, contract, audit |
| `TcpConnection` (`api/tcp_connection.py`) | stream, pinned epoch, closed flag | connect + hello, exchange, disconnect | RL |
| `ApiContract`, `SelectionAudit` (`api/contract.py`, `selection_log.py`) | cached Decisions per Branch, logger | validate answers, remember and forget Decisions, write one record per action | client, JSONL file |
| `BeamSearchEngine` (`decision/beam_search.py`) | frontier, leaves, books of created and released Branches, deadlines | one search | client |
| Event search (`decision/event_branch_search.py`) | created Branches, values of the options tried | `best_event_option` | client |
| `CombatDecisionEngine` (`decision/engine.py`) | outcome of one decision | `decide`, `decide_and_commit` | searches, selector, client |
| `EpisodeRunner`, self play (`runner/episode.py`, `self_play.py`) | decisions made, log, result | start, loop, close, label | engine, client, log |
| Oracle search (`decision/oracle_search.py`, `oracle_value_logging.py`) | trace of the teacher's search, captured states | search, derive targets and value samples | Beam search |
| Oracle collection (`runner/oracle_collection.py`) | JSONL file with rollback | teacher search per Decision, one atomic episode | client, Oracle search |
| RL server pool (`runner/rl_server_pool.py`) | processes, ports, logs | start, probe, stop | operating system |
| Floor-reach evaluation (`runner/floor_reach_eval.py`, `tools/evaluate_whole_run.py`) | index of the next run, results, conditions | play runs on pinned workers, report | pool, client |
| Policy and coverage, selector (`decision/policy.py`, `candidate_coverage.py`, `heuristic_selector.py`) | none | rank actions, complete the ranking, pick one | searches, engine |
| Value models (`decision/value.py`, `damage_race_value.py`) | none | score a state | searches |
| Stable pruner (`decision/*pruner*.py`, `search_trace.py`, `pruner_training_data.py`) | weights of an artifact | select a frontier, sample, trace, read back | Beam search, tools |
| Pruner learning (`runner/stable_pruner_*.py`, `tools/*stable_pruner*.py`) | artifacts, logs, staging | collect pairs, stage, plan, train, rewrite | each other, through files |
| Visualizer (`visualizer/`) | lifecycle state, reader offset, event store; per tab a cursor | start, refresh, status, poll | runner process, its log, browsers |
| Run-state features, data tools (`training/`, `tools/`, `scripts/`) | files | train, extract | artifacts |

### What is hard in it

- One request stream is shared by asyncio tasks and survives lost answers: a request
  whose outcome is unknown is replayed with its exact payload. Timeouts, cancellation,
  broken streams and restarts of RL meet in `async_client.py` and `tcp_connection.py`.
- Every Branch a search creates takes a slot on RL. Searches end in many ways
  (deadline, rejection, fault of single Branches, lost answer, cancellation), and in each
  of them somebody must own the Branches.
- Capacity is all-or-nothing, while leaves, the frontier, retries and settling share it.
- Deadlines nest: the evaluation deadline, the cleanup reserve, the decision timeout.
- The audit log may fail and the game goes on; what is labelled as a complete run
  becomes training data.
- A teacher's label must not come from a subtree that is missing a branch, nor from the
  teacher's own estimate of the state it labels.
- Servers are trees of processes that boot slowly, crash and find their ports taken;
  Ctrl-C may arrive while they are being started or stopped.
- The learner and the collector share artifact and log files without any lock.
- Run time, trace, training data, offline evaluation and updater each select from a
  frontier on their own and must do so alike, ties included.
- The visualizer reads a file that another process truncates, writes in pieces and may
  leave torn, while threads of an HTTP server race for the same controller.

What makes each component correct is the list of properties in section 3; the hazards
at their source lines, each with the properties that would catch it, are in
`PROJECT.json`.

## 2. Modules

| Module | Models | EXTENDS / composed with |
|---|---|---|
| `RlServer` | the RL process and its ledger, as `api/` relies on it (external) | |
| `TrainingClient` | client, connection and lock, every operation, over `RlServer` | `RlServer` |
| `AtMostOnceSession` | abstract: a payload per sequence, executed at most once per process, acknowledged after execution | refined by `TrainingClient` |
| `TrainingClientInv` | the inductive invariant | `TrainingClient` |
| `TrainingClientSafety` | theorems: types, session, refinement, deferred cleanup | `TrainingClientInv`, `TLAPS` |
| `BeamSearch` | one Beam search against RL's Branch table | |
| `BeamSearchProofs` | theorems, with the inductive invariant | `BeamSearch`, `TLAPS` |
| `ClientSession` | the client as sequential code sees it, with audit and log | |
| `SelfPlayRun` | engine, event search, episode and self-play run over `ClientSession` | `ClientSession` |
| `SelfPlayRunProofs` | theorems, with the inductive invariant | `SelfPlayRun`, `TLAPS` |
| `LiveViewer` | handler threads, controller, reader, store, runner processes, tabs | |
| `LiveViewerProofs` | theorems, with the inductive invariant | `LiveViewer`, `TLAPS` |
| `OracleCollection` | episodes of Oracle collection, their output file, the wrapper and the loader | |
| `OracleCollectionProofs` | theorems, with the inductive invariant | `OracleCollection`, `TLAPS` |
| `OracleTargets` | a teacher search with its trace, and the targets and value samples derived from it | |
| `OracleTargetsProofs` | theorems, with the inductive invariant | `OracleTargets`, `TLAPS` |
| `WholeRunEvaluation` | server pool, servers with their crews, strangers on ports, the workers of an evaluation | |
| `WholeRunEvaluationProofs` | theorems, with the inductive invariant | `WholeRunEvaluation`, `TLAPS` |
| `PrunerLearning` | collector, learner and its tools, logs, artifacts and their provenance | |
| `StableRanking` | `sorted(..., reverse=True)[:k]`, the one selection used everywhere | |
| `CandidateSelection` | policy, candidate coverage, heuristic selector | `StableRanking` |
| `FrontierSelection` | runtime pruners, trace, examples, pairs, metrics, the updater's check of a step | `StableRanking` |
| `ValueModels` | the heuristic and the damage race value, in exact rationals | |
| `PrunerLearningProofs` | theorems about the learning, with the inductive invariant, and about the selection of a frontier | `PrunerLearning`, `FrontierSelection`, `TLAPS` |
| `MC*` | values of constants for TLC; `MCSelections` also asks the pure algorithms case by case | |

### State and actions against the code

**TrainingClient.** A variable for every attribute (`nextSeq` is `_next_request_seq`,
`pending` is `_pending_retry`, `cleanup` is `_pending_retry_cleanup`, ...). A task's
`pc` says whether it waits for the operation lock, owns it before its frame is written
(`send`), or has written it (`await`). `CallFresh`/`CallRetry`/`Close` are the public
methods, `Begin*` what runs once the lock is taken, `Hello`, `HelloChanged`,
`HelloInterrupted`, `Write`, `ConnectFails` the connection, `Consumed*`, `SessionRejected`,
`TransportRejected`, `Uncertain`, `Timeout` the ways an exchange ends, with the deferred
cleanup as the continuation of a retry. The network keeps frames of abandoned streams
(`wire`, `attached = FALSE`), so RL may read them late; `Restart` is a new RL process.
`ops` without Branch effects are one operation, `plain`.

**BeamSearch.** `Propose`, `EmulateChunk`, `RetryFaulted`, `Score`, `Settle*`, `Release`,
`Align`, `CancelBranches`, `ReleaseBranches` are the methods of `BeamSearchEngine.search`,
cut at the awaits. `allIds`/`released` are the search's books, `held` is what RL has.
A score orders nodes, so a ranked choice is any choice of that size; the pruner is any
subset. A `Setup` fixes instance type, capacity, leaf rule, the decisions branches can
land on and which failures happen; `clock` is the two deadlines.

**ClientSession, SelfPlayRun.** A request ends in one of six `Outcomes`; `Possible` and
`Admitted` are the client's refusal while a retry is pending or the session is invalid.
`heard` is the audit's cache, `missing` what the log lacks. `SelfPlayRun` walks through
`_run_one` of `self_play.py`: `Open`, `Start`, `Get`, the engine's branches
(`NoAvailableAction`, `ForcedSingleAction`, `Dispatch` to the event search with
`EvaluateBatch`/`EvaluateNext`/`EvaluationExpires`/`Cleanup`, to `BeamSearch`,
`HeuristicFallback`), `CommitAction`, `Close`, `Label`, `End`. `settles` says that Beam
scores its leaves turn-aligned or at the turn boundary; such a search may return, or go
on, over a settling that has lost an answer or killed the session (`SettlingFails`).

**LiveViewer.** A handler thread holds the controller's lock from its first read of the
log to its last (`Refresh`, `Finish`); reading the exit code is taken with the last read,
since a process that has ended stays ended. The log is a sequence of half records, the
runner's `open("w")` and each write are steps, and a writer continues at its own offset
when another has truncated the file. A poll that does not raise has found two halves to
each line, so the n-th line ends at its cell 2n (`Complete`, `Unfinished`); the read after
the exit may take a last record without its newline. A tab has one poll and one START in
flight; a record carries the run that wrote it, an event the index the store gave it.

**OracleCollection.** `Look` ... `WriteResult` follow the loop of `OracleEpisodeRunner.run`,
`Rollback` and `Close` its `except` and `finally` clauses; `Cancel` (Ctrl-C) passes the
former and not the latter, `Kill` passes neither. The file is a sequence of pieces, two
halves of a record's text and its newline, so that an append can stop anywhere and the
next one continue on a torn line; a size is a number of pieces. `File` is the managed
wrapper's decision by the last line, `Loads` the checks of `load_combat_value_rl_episodes`.

**OracleTargets.** A behaviour is one teacher search: `Propose` a ply, `Simulate` or leave
`Unsent` each candidate, `Choose` the next frontier and record the pruning, `Stop` at any
ply. The beam is a sequence in the order the pruner returned it, which is the order its
nodes are expanded in; a record of a pruning has its frontier as a set, of which no label
reads the order. `tree`, `trace` (the order in which results were recorded), `proposed`
and `prunes` are the parts of `SearchTrace` that `build_oracle_targets` reads, `captured`
is `root_state_dtos`. The best outcome is the first of the best, for a root action in
`ByTrace` order, for a frontier node in `BreadthFirst` order. `RootTarget`, `NodeTarget`
and `Sample` are the three kinds of label as functions of the finished trace; `Derives` is
the condition under which they are derived and not lost with an exception.

**WholeRunEvaluation.** The main program is `Spawn`, `Look`/`RoundEnds` (`_wait_ready`),
`Probe`, `Gather` (a condition's `asyncio.gather` has ended) and `Stop` (`_kill_tree`, one
server a step); a worker is `Take`, `Start`, `Decide`, `Commit`, with `Fail` for a run that
ends in an error. `next` is the index the workers share, `worker[w].best` what `_RunState`
has recorded and `worker[w].reached` where the game is. Servers boot in two steps (the
crew first, the port last) and may crash; a stranger may take a port at any time;
`Interrupt` is Ctrl-C in any state. `excused` is a history variable: the ports the pool
could not answer for (a server found dead whose crew lives, a stop cut short by a second
Ctrl-C).

**PrunerLearning.** Collector (`Collect`, `Load`, `PlayPair`, `WriteTrajectories`) and learner
(stage one source at a time, plan, run the tool, rewrite its output) are processes that
share `file` and `log` only. An artifact is its place in `made`, the sequence of all
contents ever written, which is what its SHA-256 identifies; its coefficients are the
steps of training that led to them, so "trained on" is exact. Metrics are the
coefficients and the files they were measured on, for training and held out.
`CollectorFails`, `ToolFails` and `LearnerDies` end either process on the way, `Promote`
is a user's copy of one path over another.

**The algorithms.** `CandidateSelection`, `FrontierSelection` and `ValueModels` are
operators, one for each function of the code; `MCSelections` takes a case from a set of
small inputs, answers it in one step and relates the two. Python's floats are scaled
integers or exact rationals here. During development the operators for coverage,
proposals, selection and both values were compared with the Python functions on sampled
cases and agreed, with one exception: at hp of exactly 70 % the float comparison heals,
while exact numbers tie between healing and smithing.

## 3. What the runs check

| Run | Question | Properties |
|---|---|---|
| `client_safety` | Does any order of timeouts, cancellations, broken streams, restarts and retries by two tasks desynchronise the session or lose an execution or a Branch? | `SessionSync`, `NoLostExecution`, `ReplayReleases`, `IInv`, refinement `AtMostOnceSpec` |
| `client_liveness` | Does every call return, and every pending retry resolve? | `CallsReturn`, `PendingResolves` |
| `client_epoch` | (violation) | `PinnedEpochOnly` |
| `beam_search` | Do the books, releases, frontier and leaves stay right through any mixture of faults, and does a search end? | `BooksAgree`, `NeededIsHeld`, `LeavesComparable`, `NothingLeaks`, `Terminates` |
| `self_play_run` | Whatever fails in a run: who owns its Branches, what does its log tell, which option is chosen? | `BranchesHaveAnOwner`, `ReplayIsNotRaced`, `LabelledRunIsComplete`, `EventChoiceSurvives` |
| `live_viewer` | Can tabs orphan a runner, report a false failure, repeat or reorder events, skip any but another run's first ones, or hang? | `RunningIsTheOneRunner`, `StoreIsTheRunsLog`, `ViewFollowsTheLogs`, `PagesCatchUp` |
| `oracle_collection` | Does a file ever hold part of an episode without anyone dying, and does the loader or the data directory ever take a trajectory that was not played to the record's end? | `EpisodeIsAtomic`, `LoadedTrajectoryWasPlayed` |
| `oracle_collector` | (violation) | `CollectsWhenAllGoesWell` |
| `oracle_targets` | Is a label ever taken from a damaged subtree or from the teacher's opinion of the labelled state itself, and do the labels of one search agree? | `NoLabelAboveAFault`, `LabelsAgree`, `NoSelfImitation`, `LabelledUnlessLost` |
| `evaluation` | Does the pool leave processes behind, is each run played once, is its floor the deepest, does the evaluation end? | `NothingIsLeft`, `RunsAccounted`, `EvaluationEnds` |
| `pruner_learning` | With files that change under both processes: is reinforcement on-policy, are metrics those of the coefficients beside them and the held-out ones of unseen records, is provenance true? | `OnPolicy`, `MetricsAreOwn`, `IngestIsTrue` |
| `algorithms` | Are selection, pruning and values what they promise on every small input? | `BranchesAreKept`, `UrgentActionsLead`, `SelectorIsSafe`, `RecordedStepIsAccepted`, `OfflineSelectsAsRuntime`, `PairsTeachSelection`, `MoreIsNeverWorse`, `ClosedFormsAreMinima` |

An invariant is stated with the facts it stands on: the type invariant is a conjunct of
`IInv`, `BooksAgree`, `BranchesHaveAnOwner`, `RunningIsTheOneRunner` and
`EpisodeIsAtomic`. `BooksAgree` also says that a frontier fits its capacity,
`BranchesHaveAnOwner` that the audit forgets what was released, `StoreIsTheRunsLog` that
a reported failure is real, `RunsAccounted` that the floor of a run without error is the
deepest it reached, `OnPolicy` that a reward compares the arms of its own pair,
`LoadedTrajectoryWasPlayed` that only complete files enter the data directory, and
`ClosedFormsAreMinima` speaks of both closed forms of the damage race.

Together the runs visit about 11.7 million distinct states; the largest is `self_play_run`
(3.4 million), the smallest `client_liveness` (66 thousand).

### Disagreements between the code and what is written about it

- `client_epoch`: README.md:70-72 says a changed epoch is noticed before the next
  request. `tcp_connection.py:278` stores the stream before `hello` is answered; after an
  interrupted handshake the next request runs on it in the restarted process.
- `oracle_collector`: Oracle collection collects targets at each root Combat Decision
  (`runner/oracle_collection.py:1`), but the collector the command line builds overrides
  `_score_frontier` without the `root_turn` that `search` passes
  (`decision/oracle_value_logging.py:104`, `beam_search.py:453-458`): every episode raises
  `TypeError` at its first scored ply and is rolled back. The constant `CollectorFits` is
  `FALSE` for this collector; `oracle_collection` checks the runner with one that fits, as
  `BudgetedOracleCollector` does, and `oracle_targets` the samples as they would be.

Met while modelling, without a run of their own:

- An invalid session is over (`async_client.py:48-50`), but the flag is read before the
  lock is waited for (`:196`), and a queued retry is still sent.
- `event_branch_search.py:83-86` says a replay releases the branches of every interrupted
  search; `async_client.py:300` keeps one record, and a second deferral for the same
  replay raises. `ReplayReleases` is about the one that is kept.
- `docs/wire_contract_v0.7.md` counts live branches and submitted children against the
  capacity; the frontier is fitted without the leaves already held, and settling sends at
  least one action even with every slot taken (`beam_search.py:1448`).
- Settling is best effort: what it swallows includes a lost answer and a dead session
  (`beam_search.py:1295-1298`, `1465-1473`), and the clean-up is then skipped (`1751`). The
  search goes on, or returns a choice that `engine.py:277` commits into the unresolved
  session. The client refuses that one call and the run fails; `ReplayIsNotRaced` says
  that it is one, only after settling, and that nothing follows it.
- `tools/evaluate_whole_run.py:501-502` says no server outlives the evaluation, Ctrl-C
  included; a server that has already exited is skipped (`rl_server_pool.py:121`) although
  its workers may live, and a second Ctrl-C cuts the stop short. `NothingIsLeft` excepts
  exactly those (`excused`).
- `damage_race_value.py:146`, `docs/02_decision_core.md:369-371` and
  `docs/board_score_formulation_20260820.md:381-385` say that of the splits of a turn's
  energy only the two ends and one kink matter. There is a second kink where the attack
  kills with energy to spare; `ClosedFormsAreMinima` excepts that case.
- `docs/02_decision_core.md`, 5.3: ending a turn cannot profit from the energy it refills;
  it can, by at most the attrition of one turn.
- `HeuristicValue` counts an enemy's debuffs for the player, so that its death can lower
  the value; the enemies `MoreIsNeverWorse` kills carry none.
- A transient read error marks a living run as failed and START RUN is allowed again
  (`visualizer/live.py:98`); a START's reply resets a page's cursor under a poll in flight
  (`page.py:118`); the reader drops complete records decoded together with a malformed
  last line (`log_reader.py:47`), and takes the last record of a crashed run without its
  newline (`log_reader.py:54-59`).
- Another page's START empties only the page that pressed it (`page.py:118`). Every other
  tab keeps its events and its cursor (`assets.py:336-347`) over a store that begins anew,
  and never shows as many first records of the new run as it was already showing; so may
  a starting page whose poll was under way. `ViewFollowsTheLogs` allows exactly this.
- Of equally good outcomes the label of a root action takes the first in the trace
  (`oracle_search.py:277`, `717`), the label of a frontier node the first of a breadth-first
  walk (`547`, `834-853`). On a tie the two may name different best nodes, with different
  sources and censoring, as the training targets of one search; `LabelsAgree` compares
  their scores, and everything else where they name the same node.
- An instance whose start was uncertain is never closed (`episode.py:256`); a log that
  fails to close after its label was written reports its run as failed
  (`self_play.py:262`); the Branches of an event search whose deadline has passed stay
  until the instance is closed (`event_branch_search.py:225`); a search that has used up
  the decision timeout is not committed (`engine.py:274`).
- Two collections appending to one file truncate each other on rollback
  (`oracle_collection.py:263`). Cancelling a disconnect runs it twice
  (`tcp_connection.py:163`).
- A learner killed between its tool and the rewrite leaves an output with the ingest
  block of its parent (`stable_pruner_learn.py:547`); `IngestIsTrue` excepts it.

### Bounds, and why they are enough

- Client: two tasks (a holder of the lock and one that waits for it), two payloads per
  operation (the pending one and one that must not replace it), `MaxSeq = 3` (an emulate,
  its release, one more), `MaxFaults = 2` (a loss, and another during its recovery),
  `MaxEpoch = 2` (one restart). The tasks are symmetric; liveness runs without symmetry,
  with one payload and `MaxSeq = 2`. The safety properties proved do not depend on them.
- Beam: width, top-k, depth, batch and attempts 2, one continuation step: two chunks per
  ply, one retry, two plies, a leaf beside a frontier. `MCBeamSearch` lists the setups
  explored, each a combination of limits and failures; `MaxIds = 16` is never reached by
  a search of that size.
- Self play: with settling leaves or without, four Decisions and `max_decisions` 2, so
  that a run ends by its limit, by a terminal Decision or by an error in each kind of
  Decision; two event options.
- Live viewer: two tabs, one of which starts runs, two runs, two records (four cells,
  `CellsWritten`) of the runs that share the log together, one failing read. Two runs are
  what it takes for a restart or an overlap; two records for a gap.
- Oracle collection: three processes (one that leaves something behind, one that is rolled
  back over it, one that succeeds), four Decisions and `max_decisions` 2, so that the limit
  and the terminal Decision can coincide. The violation needs one episode of two Decisions.
- Oracle targets: width, top-k, depth and root actions 2, one choice step, two scores and
  five candidates: a root action with a frontier node below it, a sibling that is pruned, a
  descendant of each and a choice between them, with ties and without, in every order the
  pruner may return. Ties on which two labels name different nodes do occur.
- Evaluation: two ports, two runs (a worker may play both), two conditions, two
  decisions a run, one floor to climb, two crashes (both servers, or one of them again),
  one stranger, two Ctrl-C (one while the first is being handled); any number of each is
  what the theorems are about. `Stubborn` lets a crew outlive its group's signal.
- Pruner learning: two paths (weights and output, or one promoted over the other), two
  logs, two Oracle records, one trajectory (`MaxTrajectories`) from a collection of two
  pairs (`MaxSeeds`), two learning runs one after the other (a fresh one and one that
  builds on it), one promotion, one death. Some behaviours begin with the log of an earlier
  collection: its record (`Archived`) and a new one in the other log can be split into
  training and held-out files, and one learning run is left. Paths and logs are symmetric.
- Algorithms: rankings of up to three repeated or four distinct ids over menus with one
  action of each kind, two targets of a card around each other's health and attack,
  frontiers of three nodes, states with hp, block and energy around each threshold of the
  code; seven kinds of damage to a record. Everything compares values, and three nodes
  with two scores already hold a tie, a better and a worse one.

### Fairness

- `client_liveness`: the event loop runs a task that can run and every wait has a deadline
  (`WF` on `Begin` and `Exchange`), RL reads what reaches it (`WF`), and callers keep
  calling `retry_request` while one is pending (`SF` on `CallRetry` and `BeginRetry`, as
  README.md:57-62 asks; no runner in `src/` does, which is a hazard of its own).
- `beam_search`: `WF_vars(Step)`, since each await is bounded by `timeout_s`.
- `live_viewer`: handler threads run on (`WF` per thread), pages poll every 350 ms for
  ever (`WF` per tab). Nobody has to press START and a run need not end.
- `evaluation`: the main program and its workers run on (`WF` on `Pool` and `Play`, every
  request of a run has a timeout) and time passes (`WF` on `DeadlinePasses`). No server has
  to boot, and nothing obliges one to stay alive.
- The other runs have no liveness property. The steps of `self_play_run`,
  `oracle_collection` and `oracle_targets` cannot repeat for ever, and TLC's deadlock check
  shows that each behaviour reaches its end. `algorithms` switches that check off: its
  behaviours stop at their answer.

## 4. What is proved

TLAPS checks these theorems for every value of the constants.

| Theorem | Module | States |
|---|---|---|
| `TypeCorrect` | `TrainingClientSafety` | every variable of the client and of RL keeps its type |
| `SessionInvariant` | `TrainingClientSafety` | `Spec => []IInv` |
| `NeverDesynchronised` | `TrainingClientSafety` | `Spec => []SessionSync` |
| `NothingLost` | `TrainingClientSafety` | `Spec => []NoLostExecution` |
| `AtMostOnceRefinement` | `TrainingClientSafety` | `Spec => AtMostOnceSpec` |
| `DeferredIsReleased` | `TrainingClientSafety` | `Spec => []ReplayReleases` |
| `EvaluationInvariant` | `WholeRunEvaluationProofs` | `Spec => []IInv` (its own) |
| `PoolLeavesNothing` | `WholeRunEvaluationProofs` | `Spec => []NothingIsLeft` |
| `EveryRunIsAccounted` | `WholeRunEvaluationProofs` | `Spec => []RunsAccounted` |
| `EveryBranchHasAnOwner` | `SelfPlayRunProofs` | `Spec => []BranchesHaveAnOwner` |
| `NothingRacesTheReplay` | `SelfPlayRunProofs` | `Spec => []ReplayIsNotRaced` |
| `LabelMeansComplete` | `SelfPlayRunProofs` | `Spec => []LabelledRunIsComplete` |
| `ChosenOptionSurvives` | `SelfPlayRunProofs` | `Spec => []EventChoiceSurvives` |
| `IInvHolds` | `BeamSearchProofs` | `Spec => []IInv` (its own) |
| `BooksAlwaysAgree` | `BeamSearchProofs` | `Spec => []BooksAgree` |
| `NeededIsAlwaysHeld` | `BeamSearchProofs` | `Spec => []NeededIsHeld` |
| `LeavesAreComparable` | `BeamSearchProofs` | `Spec => []LeavesComparable` |
| `NothingEverLeaks` | `BeamSearchProofs` | `Spec => []NothingLeaks` |
| `CollectionInvariant` | `OracleCollectionProofs` | `Spec => []IInv` (its own) |
| `EpisodesAreAtomic` | `OracleCollectionProofs` | `Spec => []EpisodeIsAtomic` |
| `LoadedWasPlayed` | `OracleCollectionProofs` | `Spec => []LoadedTrajectoryWasPlayed` |
| `TargetsInvariant` | `OracleTargetsProofs` | `Spec => []IInv` (its own) |
| `NoFaultIsLabelled` | `OracleTargetsProofs` | `Spec => []NoLabelAboveAFault` |
| `LabelsAlwaysAgree` | `OracleTargetsProofs` | `Spec => []LabelsAgree` |
| `TeacherNeverImitatesItself` | `OracleTargetsProofs` | `Spec => []NoSelfImitation` |
| `MissingLabelsHaveACause` | `OracleTargetsProofs` | `Spec => []LabelledUnlessLost` |
| `LiveInvariant` | `LiveViewerProofs` | `Spec => []IInv` (its own) |
| `OneRunnerOnly` | `LiveViewerProofs` | `Spec => []RunningIsTheOneRunner` |
| `StoreHoldsTheLog` | `LiveViewerProofs` | `Spec => []StoreIsTheRunsLog` |
| `EveryViewFollowsTheLogs` | `LiveViewerProofs` | `Spec => []ViewFollowsTheLogs` |
| `LearningInvariant` | `PrunerLearningProofs` | `Spec => []IInv` (its own) |
| `TrainsOnPolicy` | `PrunerLearningProofs` | `Spec => []OnPolicy` |
| `MetricsAreItsOwn` | `PrunerLearningProofs` | `Spec => []MetricsAreOwn` |
| `IngestIsAlwaysTrue` | `PrunerLearningProofs` | `Spec => []IngestIsTrue` |
| `TopSetIsTopK` | `PrunerLearningProofs` | a node is kept exactly if fewer than k are ranked before it |
| `TopKIsAccepted` | `PrunerLearningProofs` | what a pruner that keeps the k best returns is accepted by the engine, ties included |
| `PerfectPairsKeepTheBest` | `PrunerLearningProofs` | a pruner right about every taught pair drops no labelled node for a worse one |
| `PerfectAccuracyKeepsTheBest` | `PrunerLearningProofs` | a perfect weighted accuracy means being right about every pair, and a regret of at most the minimum gap |
| `GapBoundsRegret` | `PrunerLearningProofs` | the mean gap of a selection is at least its best node's regret, and none where it recalls the teacher's |
| `SampledStepIsAccepted` | `PrunerLearningProofs` | `CaseSpec => []RecordedStepIsAccepted` |
| `PairsAlwaysTeach` | `PrunerLearningProofs` | `CaseSpec => []PairsTeachSelection` |
| `OfflineAlwaysSelectsAsRuntime` | `PrunerLearningProofs` | `CaseSpec => []OfflineSelectsAsRuntime` |

The assumptions are `ConstantsAssumption` of `TrainingClient` (`NoTask` is no task, the
payloads and the bounds are naturals; any set of tasks, any number of faults and
restarts), `EvaluationAssumption` of `WholeRunEvaluation`, and that a run has at least one
Decision and may make at least one (`MaxPoints`, `MaxDecisions` of `SelfPlayRun`; its
Events have two options, which is part of the model). What RL may do is part of the
model (`RlServer`), not an assumption. The other assumptions say what the code's own
argument checks and types say: limits of a search are positive (`BeamAssumption`,
`OracleAssumption`), a score is not the 0 that stands for none, pages that start runs are
pages (`LiveAssumption`), there are finitely many logs and a record is no path, no log and
no provenance, which have a JSON type of their own (`LearningAssumption`).

**The session.** `SessionSync` is not inductive: RL answers with a gap when its ledger is
not just behind the frame it reads, so the ledger of the pinned process has to be at
`nextSeq - 1` or `nextSeq` (`EpochInv`), no frame may be beyond `nextSeq` (`WireInv`), and
everything that claims `nextSeq` has to be the same payload (`AgreementInv`, over
`Claims`). That in turn needs the request in hand to be fresh or the pending one
(`TokenInv`), only the lock's holder to be in an exchange (`LockInv`), and a waiting answer
to be the holder's (`InboxInv`). `IInv` is their conjunction with the type invariant,
`SessionSync` and `NoLostExecution`; TLC checks it in `client_safety`, and
`TrainingClientSafety` has a lemma for each kind of action, over a few for what they share
(`QuietReturn`, `ForgetStep`, `Advance`, `AfterRead`). The refinement maps `executed` to
`admitted` and `acked` to `nextSeq - 1`: an admitting `RlReads` is an `Execute`, `Consumed`
and `ConsumedFatal` an `Acknowledge`, all else stutters.

**Deferred cleanup.** `ReplayReleases` speaks of states in which nothing is pending;
before them, the release of a deferred branch exists as a record only. `ReplayInv` adds to
`IInv` that an emulate names the branch of its own sequence (`RequestInv`), that RL holds
only what an admitted and not rejected request created (`BranchInv`), that the record's
token is pending or over (`RecordInv`), and that a deferred branch that RL holds, or may
still create, has been asked for or is named by the record of the pending token
(`DeferredInv`). The crucial step is `DeferralConsumed`: of a resolved emulate's record the
release takes everything along but the branch of a rejected one, which does not exist.

**The evaluation.** The module's `IInv` says for each port which server and crew the pool
still has to answer for (`PoolInv`), that an index handed out is in play at one worker or
has one result (`IndexInv`), that a worker that has decided knows the floor it stands on
(`WorkerInv`), and that results and conditions grow together (`ReportInv`).

**The self-play run.** What carries the argument is that the loop goes on only in a usable
session, but for a commit after settling, which ends it (`SessionInv`), with the Decision
in hand being RL's root and the one the audit quotes (`GameInv`): a commit's record then
tells of its action, and a log without a hole misses none (`LogInv`). `BranchInv` gives
each Branch on RL to the exact retry, to the search under way or to what was given up;
`EventInv` says that a search not about to raise has tried every option or none. TLC finds
their conjunction `IInv` true in every reachable state of `self_play_run`'s instance. One
lemma per action, over what a request does (`EndsEffect`, `LoggedEffect`, `EmulateEffect`)
and where the control goes (`LeaveStep`, `DecideStep`, `SearchEndsStep`).

**The Beam search.** `BooksAgree` is `held = allIds \ released`, plus that a fitted frontier
has room. It stands on `ListsInv`: every list of the search holds branches in the books,
and only what is still to be submitted is outside them. `RoomInv` counts the slots in use
at each stage of a ply; that is what makes the all-or-nothing `Fit` suffice for the chunks
and retries after it. `NeededInv` says at which stage the parents, results and untried
leaves are still held, `SettlingInv` and `LeavesInv` which leaves were tried and where they
are scored, `CleanInv` that clean-up releases everything unless a call has failed or the
time is over.

**Oracle collection.** The file is described from `output_start_size` on: `Body`, whole
decision records numbered from zero, then `Ending`, up to three pieces of one more record
and nothing behind it (`FileInv`), which is what any cut leaves. `WholeEpisodeLoads` shows
that a file of one `Body` with its result record, the newline behind it or not, passes the
loader's checks. `RecordsInv` compares each record with the number of RL's root Decision,
which `PlaceInv` ties to the loop.

**Oracle targets.** The invariant is about the shape of the trace: a candidate has a
lower, resolved parent whose proposal was recorded (`TreeInv`), a pruned node never has
one (`FrontierInv`), and `captured` is exactly the fresh states of the first combat depth.
The path from a node to the root is a recursive function; `LineUnfolds` gives it by an
explicit witness, the chain of parents, and what holds along it follows by the smallest
counterexample (well-foundedness of the naturals; the induction rule itself takes an
operator). A label is the best of the ends below a node, so the properties are facts about
the best of a set and of a part of it, whose score no order changes: a fault below a node
is among its `Under`, a frontier node's ends are a part of its action's, an end is never
pruned or proposed for, and below an action without a label the last node of a longest
line shows what was lost.

**The live mode.** `RunnersInv` says what a runner has written in each state, `LogInv`
that with one writer the file is that runner's cells in order, read up to `offset` and in
the store up to a half record. From that a poll always decodes (`OneRunIsReadable`), so
that without a failed read only a crash makes a run failed, and `StateInv` can say that
whoever lives is the current run and the state is running. It also holds the lock's part:
between `Refresh` and `Finish` the state is running and stays so. For a page, `PageInv`
relates what a poll asked and was answered to the stretch shown; a page emptied meanwhile
shows nothing, so any answer is an unbroken stretch again. `RecordsInv` adds whose records
they are: an answer is of one run, and no earlier one than what is shown. `WatcherInv`
says for a page that starts no run that it begins at record one.

**The learning.** Each record is in one place (`RecordsInv`: a log, the collector's hand,
one staged source), so two sources staged never share one. `StagedInv`, `PlanInv`,
`BaseInv` and `OutputInv` follow the learner from staging to the rewrite: what the plan
promises the tool, that the base is what its path holds unless a copy was promoted over
it, and that the output's last step is covered by the sources. Contents are only appended
to `made`, so what `ArtifactsInv` says of one (each step of reinforcement trained on
trajectories of the steps before it, metrics of all its steps, on the files of the last
and held-out records of none)
stays true; `StampedInv` allows a foreign ingest block at the output's path only until the
rewrite.

**The selection.** A node's place is the number of nodes ranked before it. Places are an
injection into `0 .. n-1`, hence a bijection (the pigeonhole principle of
`FiniteSetTheorems`), so that k places below k are exactly k nodes; the same holds among
a part of the nodes (`PlaceAmong`), which gives the order of a drawn set and the teacher's
nodes. A pair taught in both directions and judged rightly means a strictly higher score,
hence a lower place.

**The sums.** Accuracy and the mean gap are folds over finite sets. `IterateExists` builds
the function such a fold chooses, and `NoSmallest` stands for induction over the subsets of
a set: a family of subsets from each of which one element can be removed is empty. So a sum
is its first term and the rest whichever element comes first (`IterateTotals`), terms that
are each at most another's add up to it only if each is equal (`PerfectIsEveryPair`), and
as many terms, none below any of the others, add up to no less (`LargerTerms`).

**The cases of `MCSelections`.** `CaseInv` says of which set a case of each kind is and
what the answer to it can be; the properties are then facts about operators, for any
`MaxFrontier`. For a sampled step they are `SurvivorsAre`, `TraceOfSelection`,
`OwnRecordIsAccepted` and `OnlyTheSameIsAccepted`. For the offline examples `RowsAre` lists
the rows of a record by number: a row too many repeats a key or names no node, a row too
few leaves the last node without one, so only `LoadedIsWhole` remains, where the damage
left no trace (the value pruner kept the last node anyway, or the width of a lone node
differs, of which nothing can be dropped). `CaseAssumption` says that weights are positive
integers, which the loader checks, and that a missing target is no number.

**Only model-checked.** Liveness (`CallsReturn`, `PendingResolves`, `Terminates`,
`PagesCatchUp`, `EvaluationEnds`): fairness and ENABLED are out of this prover's reach.
`BranchesAreKept`, `UrgentActionsLead` and `SelectorIsSafe`: the menus are filtered with
`SelectSeq`, of which the prover knows no property, and the coverage is a fold over a
sequence. `MoreIsNeverWorse` and `ClosedFormsAreMinima`: exact rationals are reduced by
a recursive greatest common divisor and compared by products of unknowns, where induction
over data and nonlinear arithmetic would be needed. The two runs that expect a violation
have nothing to prove. Every other property of a run is a theorem.

## 5. Not modelled, and why

- The awaits inside `TcpConnection`'s connect and disconnect are one step each.
- Validation of answers field by field: an answer is valid or makes the session invalid.
- `BeamSearch`: values of scores, traces (they are in `OracleTargets`), statistics; a
  Decision without `decision_point_id`; partial results with `expand_partial` off; the
  waiting stable fallback, which no path reaches.
- `SelfPlayRun`: the Branches of a Beam search (they are in `BeamSearch`); a cancelled run
  (its request ends as unsent or uncertain); `max_decisions = None`; a batch of concurrent
  runs.
- `LiveViewer`: `/api/status` (a refresh like the one before a poll), replay mode, what the
  page draws, a log that cannot be created at START.
- `OracleCollection`: two processes on one output file at the same time; reused instance
  ids across servers (an episode's key is its epoch and id).
- `OracleTargets`: serialising targets (`oracle_log.py`), harvesting scenarios, comparing
  the provenance of teachers. A candidate dropped as out of scope or beyond the
  continuation limit leaves no fault in the code, and none here. The value samples are
  modelled as written although the disagreement above keeps their collector from running.
- `WholeRunEvaluation`: arguments and the JSON report, the game behind a server (any
  floors), servers that were not started by the pool, a Ctrl-C between starting a process
  and appending it to the pool's list.
- `PrunerLearning`: the arithmetic of gradients (a training step is a new content), copies
  of logs, an output read while it is being written, the statistics of the A/B suite.
- `CandidateSelection`, `ValueModels`: a learned policy's or value's features (its scores
  are any scores); a curse or status card outranking the confirmation of a full choice;
  powers count by their type and amount, not their name.
- Local process transport, numeric models and their training, feature extraction, card
  data, presentation: no state that interleaves, or arithmetic on reals.

## 6. Plan

In order of weight:

1. `TcpConnection`: the awaits inside connect and disconnect, refining the stream of
   `TrainingClient`.
2. An abstract `BranchLedger` (a Branch is created, owned, released, never forgotten by a
   usable session), implemented by `BeamSearch`, the event search and the Oracle.
3. A batch of self-play runs: seed mapping, workers, gathering.
4. The provenance of teachers and the loaders of action scores and values.

Theorems next: `BranchesAreKept` for rankings of any length, over an order of positions
instead of `SelectSeq`; the ledger of item 2 as a refinement.
