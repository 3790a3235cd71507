---------------------------- MODULE PrunerLearning ----------------------------
(***************************************************************************)
(* How a learned stable-frontier pruner comes about.  The collector        *)
(* (runner/stable_pruner_rl*.py over runner/stable_pruner_ab.py) plays     *)
(* pairs of combats with and without the artifact and logs trajectories;   *)
(* the learner (runner/stable_pruner_learn.py) stages records from logs,   *)
(* chooses a tool by what it found, lets it train                          *)
(* (tools/train_stable_pruner.py, update_stable_pruner_supervised.py,      *)
(* update_stable_pruner_rl*.py) and rewrites the output with its           *)
(* provenance.                                                             *)
(*                                                                         *)
(* Both are processes of their own that meet only in files.  An artifact   *)
(* is identified by the SHA-256 of its file; here by its place in the      *)
(* sequence of all contents ever written, each of which has its own        *)
(* timestamp.  Coefficients are what they were trained on, step by step.   *)
(***************************************************************************)
EXTENDS Integers, Sequences, FiniteSets, Functions

CONSTANTS
    Paths,              \* artifact files
    Logs,               \* log files, all in one directory
    OracleRecords,      \* records of Oracle collections
    Archived,           \* those of an earlier one, whose log may be gone
    Null,               \* no path, no artifact, no provenance
    MaxTrajectories, MaxSeeds, MaxLearns, MaxCopies, MaxFailures    \* bounds

ASSUME LearningAssumption ==
    /\ Null \notin Paths \cup Logs /\ IsFiniteSet(Logs)
    \* Records and provenance are JSON objects of different types (record_type, ingest).
    /\ \A r \in OracleRecords : r \notin [id : Nat, sha : Nat]
    /\ Archived \subseteq OracleRecords
    /\ Null \notin [base : Int, sources : SUBSET SUBSET (OracleRecords \cup [id : Nat, sha : Nat])]
    /\ {MaxTrajectories, MaxSeeds, MaxLearns} \subseteq Nat \ {0}
    /\ {MaxCopies, MaxFailures} \subseteq Nat

VARIABLES
    made,       \* contents of artifact files, in the order they were written
    file,       \* at each path the index of its content, 0 (none) or Torn
    log,        \* records in each log
    at,         \* where the learner is: "idle", "stage", "plan", "tool", "write" or "stamp"
    todo,       \* source logs not yet staged
    reading,    \* records read from the first of them, or Null
    staged,     \* of each source staged, its records and its SHA-256 (as the records named)
    job,        \* the plan, see Idle
    base,       \* content of --weights the tool has read, 0 for a fresh start
    moved,      \* history: --weights has been replaced since the tool read it
    spoiled,    \* history: contents whose provenance was beyond the learner
    stage,      \* where the collector is: "idle", "load", "play" or "write"
    behaviour,  \* content of --weights the sampling pruner was built from
    weights,    \* the collector's --weights
    index,      \* of the seed in hand
    got,        \* trajectories collected
    learns, copies, failures, sampled,
    told        \* Oracle records written so far

fileVars == <<made, file, log>>
learnerVars == <<at, todo, reading, staged, job, base, moved>>
collectorVars == <<stage, behaviour, weights, index, got>>
boundVars == <<learns, copies, failures, sampled, told>>
vars == <<fileVars, learnerVars, spoiled, collectorVars, boundVars>>

Torn == -1
Idle == [learn |-> "none", start |-> "none", mode |-> "none", weights |-> Null,
         output |-> Null]

\* A trajectory names the artifact of its behaviour policy.
IsTrajectory(r) == r \notin OracleRecords
OracleOf(records) == records \cap OracleRecords
TrajectoriesOf(records) == records \ OracleRecords

\* An artifact of an earlier day, the records of which are gone.
Bootstrapped ==
    LET steps == <<[learn |-> "supervised", on |-> <<{}>>]>>
    IN  [kind |-> "artifact", steps |-> steps, parent |-> 0,
         metrics |-> [of |-> steps, train |-> <<{}>>, held |-> <<>>],
         ingest |-> [base |-> 0, sources |-> {{}}]]

\* With the earlier log at hand only one learning run is left (bound).
Init ==
    /\ \/ made = <<>> /\ file = [p \in Paths |-> 0]
       \/ made = <<Bootstrapped>> /\ \E q \in Paths : file = [p \in Paths |-> IF p = q THEN 1 ELSE 0]
    /\ \/ log = [l \in Logs |-> {}] /\ learns = 0
       \/ /\ \E old \in Logs : log = [l \in Logs |-> IF l = old THEN Archived ELSE {}]
          /\ learns = MaxLearns - 1
    /\ at = "idle" /\ todo = <<>> /\ reading = Null /\ staged = <<>>
    /\ job = Idle /\ base = 0 /\ moved = FALSE /\ spoiled = {}
    /\ stage = "idle" /\ behaviour = 0 /\ weights = Null /\ index = 0
    /\ got = {} /\ copies = 0 /\ failures = 0 /\ sampled = 0
    /\ told = Archived

\* from_weights_file: a JSON document of the artifact's schema.
Loadable(p) == file[p] > 0 /\ made[file[p]].kind = "artifact"

----------------------------------------------------------------------------
(* The collector.                                                          *)

CollectorIs(s) == stage' = s
CollectorKeeps == UNCHANGED <<learnerVars, spoiled, learns, copies, failures, told>>

\* An Oracle collection appends a record to its log.
OracleRecord(l, r) ==
    /\ r \notin told
    /\ told' = told \cup {r}
    /\ log' = [log EXCEPT ![l] = @ \cup {r}]
    /\ UNCHANGED <<made, file, learnerVars, spoiled, collectorVars, learns, copies, failures,
                   sampled>>

Collect(p) ==
    /\ stage = "idle" /\ sampled < MaxTrajectories
    /\ CollectorIs("load")
    /\ weights' = p /\ index' = 0 /\ got' = {}
    /\ UNCHANGED <<fileVars, behaviour, sampled>> /\ CollectorKeeps

Finished ==
    /\ stage' = "idle" /\ behaviour' = 0 /\ weights' = Null /\ index' = 0 /\ got' = {}

\* A pruner of its own for every seed, from the file as it is now.
Load ==
    /\ stage = "load" /\ Loadable(weights)
    /\ CollectorIs("play") /\ behaviour' = file[weights]
    /\ UNCHANGED <<fileVars, weights, index, got, sampled>> /\ CollectorKeeps

\* The order of the arms alternates from pair to pair.
ArmOrder == IF index % 2 = 0 THEN <<"baseline", "learned">> ELSE <<"learned", "baseline">>

\* An arm's combat ends in an outcome, with resources left (the terminal DTO the client
\* has seen last).
Results ==
    {r \in [outcome : {"victory", "defeat", "unknown"}, resources : {0, 1}] :
        r.resources = 1 => r.outcome = "victory"}

\* compare_arm_results goes by arm; the terminal DTOs are in the order they were captured.
Turn(arm) == IF ArmOrder[1] = arm THEN 1 ELSE 2

Captured(dtos, arm) == dtos[IF arm = ArmOrder[1] THEN 1 ELSE 2]

OutcomeScore(outcome) == IF outcome = "victory" THEN 1 ELSE 0

\* paired_pruner_reward: learned minus baseline, or none for an unresolved outcome.
Reward(pair) ==
    LET outcome(arm) == pair[Turn(arm)].outcome
        dtos == [i \in 1 .. 2 |-> pair[i].resources]
    IN  IF "unknown" \in {outcome("baseline"), outcome("learned")} THEN Null
        ELSE [outcome |-> OutcomeScore(outcome("learned")) - OutcomeScore(outcome("baseline")),
              resources |-> Captured(dtos, "learned") - Captured(dtos, "baseline")]

\* rl_episode_record.
Episode == [id |-> sampled + 1, sha |-> behaviour]

\* Nothing is awaited between the end of the pair and its record, which a pair with a
\* reward gets if its learned arm has pruned at least once.
PlayPair ==
    /\ stage = "play"
    /\ \E rewarded \in {Reward(<<first, second>>) # Null : first, second \in Results} :
          \/ /\ rewarded /\ sampled < MaxTrajectories
             /\ got' = got \cup {Episode}
             /\ sampled' = sampled + 1
          \/ UNCHANGED <<got, sampled>>
    /\ CollectorIs(IF index + 1 < MaxSeeds THEN "load" ELSE "write")
    /\ index' = index + 1
    /\ UNCHANGED <<fileVars, behaviour, weights>> /\ CollectorKeeps

\* The trajectories are written when all seeds are done, over what the log held.
\* Assumption: not over a source of a learner that is staging it.
WriteTrajectories(l) ==
    /\ stage = "write"
    /\ at = "stage" => \A i \in 1 .. Len(todo) : todo[i] # l
    /\ log' = [log EXCEPT ![l] = got]
    /\ Finished
    /\ UNCHANGED <<made, file, sampled>> /\ CollectorKeeps

\* A file that cannot be loaded, an arm that raises, a Ctrl-C: what has been collected so
\* far is in memory only.
CollectorFails ==
    /\ stage # "idle"
    /\ LET bad == stage = "load" /\ ~Loadable(weights)
       IN  /\ bad \/ failures < MaxFailures
           /\ failures' = IF bad THEN failures ELSE failures + 1
    /\ Finished
    /\ UNCHANGED <<fileVars, learnerVars, spoiled, learns, copies, sampled, told>>

----------------------------------------------------------------------------
(* The learner: staging.                                                   *)

\* The sequences a set of files may be sorted into, by their names.
Sorted(S) == {s \in [1 .. Cardinality(S) -> S] : \A l \in S : \E i \in DOMAIN s : s[i] = l}

LearnerKeeps == UNCHANGED <<collectorVars, copies, sampled, told>>

\* discover_log_files: every file once, however often the inputs resolve to it.
Learn ==
    /\ at = "idle" /\ learns < MaxLearns
    /\ \E found \in (SUBSET Logs) \ {{}} : todo' \in Sorted(found)
    /\ at' = "stage" /\ learns' = learns + 1
    /\ UNCHANGED <<fileVars, reading, staged, job, base, moved, spoiled, failures>> /\ LearnerKeeps

\* One source: its lines first, ...
ReadSource ==
    /\ at = "stage" /\ todo # <<>> /\ reading = Null
    /\ reading' = log[Head(todo)]
    /\ UNCHANGED <<fileVars, at, todo, staged, job, base, moved, spoiled, learns, failures>>
    /\ LearnerKeeps

\* Mutant: the file is hashed first and read later.
NamedEarly(read, now) == [records |-> now, sha |-> read]

Named(read, now) == [records |-> read, sha |-> now]

\* ... then the SHA-256 of the file, which other processes go on appending to.
HashSource ==
    /\ at = "stage" /\ reading # Null
    /\ staged' = Append(staged, Named(reading, log[Head(todo)]))
    /\ todo' = Tail(todo) /\ reading' = Null
    /\ at' = IF Tail(todo) = <<>> THEN "plan" ELSE "stage"
    /\ UNCHANGED <<fileVars, job, base, moved, spoiled, learns, failures>> /\ LearnerKeeps

StagedRecords == UNION {staged[i].records : i \in 1 .. Len(staged)}
HasOracle == OracleOf(StagedRecords) # {}
HasRl == TrajectoriesOf(StagedRecords) # {}

----------------------------------------------------------------------------
(* The learner: what to do.                                                *)

\* resolve_learning_plan, with the start it settles on; Null is an error.
StartOf(start, path) ==
    LET settled == IF start # "auto" THEN start ELSE IF path = Null THEN "fresh" ELSE "resume"
    IN  IF (settled = "fresh") = (path = Null) THEN settled ELSE Null

LearnOf(learn, start, rl) ==
    IF learn # "auto" THEN learn
    ELSE IF start = "fresh" THEN "supervised"
    ELSE IF HasOracle /\ ~rl THEN "supervised"
    ELSE IF rl /\ ~HasOracle THEN "rl"
    ELSE Null

Trainable(learn, start, rl) ==
    \/ learn = "supervised" /\ HasOracle
    \/ learn = "rl" /\ start = "resume" /\ rl

\* resolve_data_mode, and the refusal of an update by reinforcement in any other mode.
ModeOf(mode, learn, start) ==
    LET first == learn = "supervised" /\ start = "fresh"
    IN  IF mode = "auto" THEN IF first THEN "auto-split" ELSE "train"
        ELSE IF mode = "validate" THEN
            IF learn = "supervised" /\ start = "resume" THEN mode ELSE Null
        ELSE IF mode = "auto-split" /\ ~first THEN Null
        ELSE mode

\* run_learning up to the tool.  A validation looks at Oracle records only.  The output
\* is neither the parent artifact nor a source.
Plan ==
    /\ at = "plan"
    /\ \E asked \in {"auto", "supervised", "rl"}, begin \in {"auto", "fresh", "resume"},
          mode \in {"auto", "train", "validate", "auto-split"},
          path \in Paths \cup {Null}, output \in Paths :
          LET wanted == IF mode = "validate" /\ asked = "auto" THEN "supervised" ELSE asked
              rl == HasRl /\ mode # "validate"
              start == StartOf(begin, path)
              learn == LearnOf(wanted, start, rl)
              role == ModeOf(mode, learn, start)
          IN  /\ start # Null /\ learn # Null /\ Trainable(learn, start, rl) /\ role # Null
              /\ output # path
              /\ job' = [learn |-> learn, start |-> start, mode |-> role,
                         weights |-> path, output |-> output]
    /\ at' = "tool"
    /\ UNCHANGED <<fileVars, todo, reading, staged, base, moved, spoiled, learns, failures>>
    /\ LearnerKeeps

Quit ==
    /\ at' = "idle" /\ todo' = <<>> /\ reading' = Null /\ staged' = <<>>
    /\ job' = Idle /\ base' = 0 /\ moved' = FALSE

\* A refused plan ends the learner before anything is written.
PlanRefused ==
    /\ at = "plan"
    /\ Quit
    /\ UNCHANGED <<fileVars, spoiled, learns, failures>> /\ LearnerKeeps

----------------------------------------------------------------------------
(* The learner: the tools.                                                 *)

\* One staged file per source that has any of the tool's kind of record, under the
\* index of its source.
StagedFor(learn) ==
    LET of(i) == IF learn = "rl" THEN TrajectoriesOf(staged[i].records)
                                 ELSE OracleOf(staged[i].records)
    IN  [i \in {k \in 1 .. Len(staged) : of(k) # {}} |-> of(i)]

\* Mutant: trajectories of any artifact.
AnyBehaviour(r, sha) == TRUE

\* _validate_behavior_contract.
Behaved(r, sha) == r.sha = sha

\* load_update_examples: one stale trajectory refuses them all.
OnlyBehaviour(sha) == \A r \in TrajectoriesOf(StagedRecords) : Behaved(r, sha)

\* The bytes of --weights are read once; identity, coefficients and payload are theirs.
ReadWeights ==
    /\ at = "tool"
    /\ IF job.weights = Null THEN base' = 0
       ELSE /\ Loadable(job.weights)
            /\ job.learn = "rl" => OnlyBehaviour(file[job.weights])
            /\ base' = file[job.weights]
    /\ at' = "write"
    /\ UNCHANGED <<fileVars, todo, reading, staged, job, moved, spoiled, learns, failures>>
    /\ LearnerKeeps

\* Files for training, and the rest held out for val and test: each whole, and shuffled
\* before the split.
Splits(files) ==
    IF job.mode # "auto-split" THEN {[train |-> files, held |-> <<>>]}
    ELSE {[train |-> Restrict(files, DOMAIN files \ held), held |-> Restrict(files, held)] :
            held \in (SUBSET DOMAIN files) \ {DOMAIN files}}

\* train_stable_pruner.py: metrics of this fit, on the files it was trained on and on those
\* held out.
FreshArtifact(split) ==
    LET steps == <<[learn |-> "supervised", on |-> split.train]>>
    IN  [kind |-> "artifact", steps |-> steps, parent |-> 0,
         metrics |-> [of |-> steps, train |-> split.train, held |-> split.held],
         ingest |-> Null]

\* Mutant: the parent's metrics are handed down.
MetricsKept(parent) == parent.metrics

\* _invalidate_stale_metrics.
MetricsAfterUpdate(parent) == Null

\* The updaters copy the parent's payload, its ingest block included, and replace the rest.
UpdatedArtifact(files) ==
    [made[base] EXCEPT !.steps = Append(@, [learn |-> job.learn, on |-> files]),
                       !.parent = base,
                       !.metrics = MetricsAfterUpdate(made[base])]

Report == [kind |-> "report", steps |-> <<>>, parent |-> base, metrics |-> Null,
           ingest |-> Null]

Outputs ==
    LET files == StagedFor(job.learn)
    IN  IF job.mode = "validate" THEN {Report}
        ELSE IF job.start = "fresh" THEN {FreshArtifact(split) : split \in Splits(files)}
        ELSE {UpdatedArtifact(files)}

Written(content) ==
    made' = Append(made, content) /\ file' = [file EXCEPT ![job.output] = Len(made) + 1]

WriteOutput ==
    /\ at = "write"
    /\ \E content \in Outputs : Written(content)
    /\ at' = "stamp"
    /\ UNCHANGED <<log, todo, reading, staged, job, base, moved, spoiled, learns, failures>>
    /\ LearnerKeeps

\* _rewrite_output_provenance: --weights is hashed again, and the sources are named.
Stamp ==
    /\ at = "stamp"
    /\ Written([made[file[job.output]] EXCEPT
                  !.ingest = [base |-> IF job.weights = Null THEN 0 ELSE file[job.weights],
                              sources |-> {staged[i].sha : i \in 1 .. Len(staged)}]])
    /\ spoiled' = IF moved THEN spoiled \cup {Len(made) + 1} ELSE spoiled
    /\ Quit
    /\ UNCHANGED <<log, learns, failures>> /\ LearnerKeeps

\* A tool that refuses or fails before it has written.
ToolFails ==
    /\ at \in {"tool", "write"}
    /\ Quit
    /\ UNCHANGED <<fileVars, spoiled, learns, failures>> /\ LearnerKeeps

\* Killed, or out of disk, while the output is written (write_text empties the file
\* first) or before it has been rewritten.
LearnerDies ==
    /\ at \in {"write", "stamp"} /\ failures < MaxFailures
    /\ failures' = failures + 1
    /\ \/ file' = [file EXCEPT ![job.output] = Torn] /\ UNCHANGED spoiled
       \/ at = "stamp" /\ spoiled' = spoiled \cup {file[job.output]} /\ UNCHANGED file
    /\ Quit
    /\ UNCHANGED <<made, log, learns>> /\ LearnerKeeps

\* Somebody promotes an artifact.  Assumption: not from or to an output in the making.
Promote(from, to) ==
    /\ copies < MaxCopies /\ file[from] # 0 /\ file[to] # file[from]
    /\ job.output \notin {from, to}
    /\ copies' = copies + 1
    /\ file' = [file EXCEPT ![to] = file[from]]
    /\ moved' = (moved \/ (at \in {"write", "stamp"} /\ job.weights = to))
    /\ UNCHANGED <<made, log, at, todo, reading, staged, job, base, spoiled, collectorVars,
                   learns, failures, sampled, told>>

Stopped == at = "idle" /\ stage = "idle" /\ UNCHANGED vars

Collector ==
    \/ \E p \in Paths : Collect(p)
    \/ Load \/ PlayPair \/ CollectorFails
    \/ \E l \in Logs : WriteTrajectories(l)
Learner ==
    \/ Learn \/ ReadSource \/ HashSource \/ Plan \/ PlanRefused
    \/ ReadWeights \/ WriteOutput \/ Stamp \/ ToolFails \/ LearnerDies

Next ==
    \/ Collector \/ Learner \/ Stopped
    \/ \E l \in Logs, r \in OracleRecords : OracleRecord(l, r)
    \/ \E from, to \in Paths : Promote(from, to)

Spec == Init /\ [][Next]_vars

----------------------------------------------------------------------------
(* Properties.                                                             *)

Artifacts == {i \in DOMAIN made : made[i].kind = "artifact"}
UsedIn(step) == UNION {step.on[i] : i \in DOMAIN step.on}

\* "every RL trajectory is bound to the behavior artifact SHA": whatever happens to the
\* files meanwhile, a step of reinforcement trains on trajectories that were sampled with
\* exactly the coefficients it changes, and no trajectory is trained on twice on the way
\* to an artifact.  The reward a trajectory gets, however the pair being
\* played ends, is what its learned arm achieved over the baseline arm, whichever was
\* played first.
OnPolicy ==
    /\ \A a \in Artifacts : LET steps == made[a].steps IN
         \A k \in 1 .. Len(steps) : steps[k].learn = "rl" =>
            /\ \A r \in UsedIn(steps[k]) :
                  IsTrajectory(r) /\ made[r.sha].steps = SubSeq(steps, 1, k - 1)
            /\ \A i, j \in DOMAIN steps[k].on :
                  i # j => steps[k].on[i] \cap steps[k].on[j] = {}
            /\ \A m \in 1 .. k - 1 : UsedIn(steps[k]) \cap UsedIn(steps[m]) = {}
    /\ stage = "play" => \A first, second \in Results :
         LET pair == <<first, second>>
             arm == [a \in {"baseline", "learned"} |->
                       pair[CHOOSE i \in 1 .. 2 : ArmOrder[i] = a]]
             reward == Reward(pair)
         IN  reward # Null =>
               /\ reward.resources = arm["learned"].resources - arm["baseline"].resources
               /\ reward.outcome > 0 <=> /\ arm["learned"].outcome = "victory"
                                         /\ arm["baseline"].outcome = "defeat"
               /\ reward.outcome < 0 <=> /\ arm["learned"].outcome = "defeat"
                                         /\ arm["baseline"].outcome = "victory"

\* Metrics found in an artifact were measured on the coefficients in it: those of its
\* training files on exactly what its last training step used, those of validation and
\* test on records that none of its steps has seen.
MetricsAreOwn ==
    \A a \in Artifacts : made[a].metrics # Null =>
        LET steps == made[a].steps
            metrics == made[a].metrics
        IN  /\ metrics.of = steps
            /\ metrics.train = steps[Len(steps)].on
            /\ \A i \in DOMAIN metrics.held, k \in 1 .. Len(steps) :
                  metrics.held[i] \cap UsedIn(steps[k]) = {}

\* An artifact on disk says where it comes from: its ingest block names the artifact it
\* was trained from and, among its sources, one with all that was trained on of each,
\* although logs grow and artifacts are promoted while it learns.  Excepted are an output
\* whose learner died before rewriting it, which still has its parent's block, and one
\* whose parent was replaced under the learner.
IngestIsTrue ==
    \A p \in Paths :
        (Loadable(p) /\ file[p] \notin spoiled /\ ~(at = "stamp" /\ job.output = p)) =>
            LET a == made[file[p]]
                last == a.steps[Len(a.steps)]
            IN  /\ a.ingest # Null /\ a.ingest.base = a.parent
                /\ \A i \in DOMAIN last.on : \E s \in a.ingest.sources : last.on[i] \subseteq s

===============================================================================
