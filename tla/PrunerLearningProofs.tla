------------------------- MODULE PrunerLearningProofs -------------------------
(***************************************************************************)
(* Why the three invariants of PrunerLearning hold for any number of       *)
(* paths, logs, records and learners.                                      *)
(*                                                                         *)
(* Contents of artifact files are never changed, only added, so what an    *)
(* artifact says of the ones before it stays true: ArtifactsInv is about   *)
(* each content by itself.  RecordsInv: a record is in one place at most,  *)
(* in one log, in what was read of one source, or in the collector's       *)
(* memory.  StagedInv, PlanInv, BaseInv and OutputInv follow a learner     *)
(* through its states, up to StampedInv: what is on disk without its own   *)
(* provenance is a learner's unfinished output, or known to be spoiled.    *)
(*                                                                         *)
(* The last part is about FrontierSelection and its cases in MCSelections: *)
(* what a pruner's ranking, its sampled steps and its training pairs give  *)
(* for frontiers of every size, any integer scores and any observed        *)
(* targets.  Sums and largest members of a finite set are reasoned about   *)
(* by NoSmallest, induction over its subsets.                              *)
(***************************************************************************)
EXTENDS PrunerLearning, MCSelections, FiniteSetTheorems, SequenceTheorems,
        NaturalsInduction, WellFoundedInduction, TLAPS

Rec == OracleRecords \cup [id : Nat, sha : Nat]
Files == UNION {[D -> SUBSET Rec] : D \in SUBSET Nat}
StepRec == [learn : {"supervised", "rl"}, on : Files]
Metrics == [of : Seq(StepRec), train : Files, held : Files]
Ingest == [base : Int, sources : SUBSET SUBSET Rec]
Content == [kind : {"artifact", "report"}, steps : Seq(StepRec), parent : Nat,
            metrics : {Null} \cup Metrics, ingest : {Null} \cup Ingest]
Source == [records : SUBSET Rec, sha : SUBSET Rec]
Job == [learn : {"none", "supervised", "rl"}, start : {"none", "fresh", "resume"},
        mode : {"none", "train", "validate", "auto-split"},
        weights : Paths \cup {Null}, output : Paths \cup {Null}]

TypeOK ==
    /\ made \in Seq(Content)
    /\ file \in [Paths -> Int] /\ \A p \in Paths : file[p] <= Len(made)
    /\ log \in [Logs -> SUBSET Rec]
    /\ at \in {"idle", "stage", "plan", "tool", "write", "stamp"}
    /\ todo \in Seq(Logs) /\ reading \in {Null} \cup SUBSET Rec
    /\ staged \in Seq(Source) /\ job \in Job
    /\ base \in Nat /\ moved \in BOOLEAN
    /\ stage \in {"idle", "load", "play", "write"}
    /\ behaviour \in Nat /\ index \in Nat /\ got \in SUBSET Rec
    /\ weights \in Paths \cup {Null} /\ (stage # "idle" => weights \in Paths)
    /\ sampled \in Nat /\ told \in SUBSET OracleRecords

\* The records there are so far.
Said == told \cup [id : 1 .. sampled, sha : Nat]

Apart(S, T) == S \cap T = {}

\* A record is in one place: in one log, or with the collector; and in what a learner has
\* read of one log.
RecordsInv ==
    /\ got \subseteq Said
    /\ \A l \in Logs : log[l] \subseteq Said /\ Apart(log[l], got)
    /\ \A l, m \in Logs : l # m => Apart(log[l], log[m])
    /\ \A i \in DOMAIN staged :
          /\ staged[i].records \subseteq Said /\ Apart(staged[i].records, got)
          /\ \A k \in DOMAIN todo : Apart(staged[i].records, log[todo[k]])
          /\ \A j \in DOMAIN staged : i # j => Apart(staged[i].records, staged[j].records)

\* What has been read of the first source is in it still; a source staged is whole.
StagedInv ==
    /\ \A i, j \in DOMAIN todo : i # j => todo[i] # todo[j]
    /\ at # "stage" => todo = <<>> /\ reading = Null
    /\ at = "idle" => staged = <<>>
    /\ reading # Null => todo # <<>> /\ reading \subseteq log[todo[1]]
    /\ \A i \in DOMAIN staged : staged[i].records \subseteq staged[i].sha

\* What resolve_learning_plan promises the tools.
PlanInv ==
    at \in {"tool", "write", "stamp"} =>
        /\ job.learn \in {"supervised", "rl"} /\ job.output \in Paths
        /\ job.output # job.weights
        /\ job.start = "fresh" <=> job.weights = Null
        /\ job.learn = "rl" => job.start = "resume"
        /\ job.mode = "validate" => job.start = "resume"

\* The parent a tool works on.
BaseInv ==
    at \in {"write", "stamp"} =>
        /\ job.weights = Null => base = 0
        /\ job.weights # Null => /\ base \in Artifacts
                                 /\ ~moved => file[job.weights] = base
        /\ job.learn = "rl" => \A r \in TrajectoriesOf(StagedRecords) : r.sha = base

\* Of all that was trained on in the last step, a staged source has it.
Covered(steps) ==
    \A i \in DOMAIN steps[Len(steps)].on :
       \E k \in DOMAIN staged : steps[Len(steps)].on[i] \subseteq staged[k].sha

OutputInv ==
    at = "stamp" =>
        /\ file[job.output] \in DOMAIN made
        /\ made[file[job.output]].kind = "artifact" =>
             /\ made[file[job.output]].parent = base
             /\ Covered(made[file[job.output]].steps)

\* A step of reinforcement changes the coefficients its trajectories were sampled with.
OwnStep(steps, k) ==
    /\ steps[k].learn = "supervised" => UsedIn(steps[k]) \subseteq OracleRecords
    /\ steps[k].learn = "rl" =>
         \A r \in UsedIn(steps[k]) :
            /\ r \notin OracleRecords /\ r.sha \in DOMAIN made
            /\ made[r.sha].steps = SubSeq(steps, 1, k - 1)
    /\ \A i, j \in DOMAIN steps[k].on : i # j => Apart(steps[k].on[i], steps[k].on[j])

OwnMetrics(a) ==
    a.metrics # Null =>
        /\ a.metrics.of = a.steps
        /\ a.metrics.train = a.steps[Len(a.steps)].on
        /\ \A i \in DOMAIN a.metrics.held, k \in DOMAIN a.steps :
              Apart(a.metrics.held[i], UsedIn(a.steps[k]))

ArtifactsInv ==
    \A a \in Artifacts :
        /\ made[a].steps # <<>>
        /\ \A k \in DOMAIN made[a].steps : OwnStep(made[a].steps, k)
        /\ OwnMetrics(made[a])

\* The ingest block is this content's own.
Stamped(a) ==
    /\ a.ingest # Null /\ a.ingest.base = a.parent
    /\ \A i \in DOMAIN a.steps[Len(a.steps)].on :
          \E s \in a.ingest.sources : a.steps[Len(a.steps)].on[i] \subseteq s

StampedInv ==
    \A a \in Artifacts : a \notin spoiled /\ ~Stamped(made[a]) =>
        \A p \in Paths : file[p] = a => at = "stamp" /\ job.output = p

IInv == /\ TypeOK /\ RecordsInv /\ StagedInv /\ PlanInv /\ BaseInv /\ OutputInv
        /\ ArtifactsInv /\ StampedInv

----------------------------------------------------------------------------
(* Files of records, and what a tool makes of them.                        *)

LEMMA FileOf ==
  ASSUME NEW D \in SUBSET Nat, NEW f \in [D -> SUBSET Rec]
  PROVE  f \in Files
BY DEF Files

LEMMA FilesAreFunctions ==
  ASSUME NEW f \in Files
  PROVE  /\ DOMAIN f \in SUBSET Nat
         /\ f \in [DOMAIN f -> SUBSET Rec]
<1>1. PICK D \in SUBSET Nat : f \in [D -> SUBSET Rec]
  BY DEF Files
<1> QED
  BY <1>1

LEMMA NoFiles == <<>> \in Files
<1>1. << >> \in [{} -> SUBSET Rec] /\ {} \in SUBSET Nat
  OBVIOUS
<1> QED
  BY <1>1, FileOf

LEMMA StagedForIs ==
  ASSUME TypeOK, NEW learn \in {"supervised", "rl"}
  PROVE  /\ StagedFor(learn) \in Files
         /\ DOMAIN StagedFor(learn) \subseteq DOMAIN staged
         /\ \A i \in DOMAIN StagedFor(learn) :
               /\ StagedFor(learn)[i] \subseteq staged[i].records
               /\ learn = "rl" => StagedFor(learn)[i] \cap OracleRecords = {}
               /\ learn = "supervised" => StagedFor(learn)[i] \subseteq OracleRecords
<1> DEFINE of(i) == IF learn = "rl" THEN TrajectoriesOf(staged[i].records)
                                    ELSE OracleOf(staged[i].records)
           D == {k \in 1 .. Len(staged) : of(k) # {}}
<1>1. StagedFor(learn) = [i \in D |-> of(i)]
  BY DEF StagedFor
<1>2. D \subseteq DOMAIN staged /\ D \in SUBSET Nat
  BY DEF TypeOK
<1>3. ASSUME NEW i \in D
      PROVE  /\ of(i) \in SUBSET Rec /\ of(i) \subseteq staged[i].records
             /\ learn = "rl" => of(i) \cap OracleRecords = {}
             /\ learn = "supervised" => of(i) \subseteq OracleRecords
  <2>1. i \in 1 .. Len(staged) /\ staged \in Seq(Source)
    BY DEF TypeOK
  <2>2. staged[i] \in Source
    BY <2>1
  <2>3. staged[i].records \subseteq Rec
    BY <2>2 DEF Source
  <2> QED
    BY <2>3 DEF TrajectoriesOf, OracleOf
<1> HIDE DEF of, D
<1>4. [i \in D |-> of(i)] \in [D -> SUBSET Rec]
  BY <1>3
<1> QED
  BY <1>1, <1>2, <1>3, <1>4, FileOf

LEMMA SplitIs ==
  ASSUME NEW files \in Files, NEW split \in Splits(files)
  PROVE  /\ split.train \in Files /\ split.held \in Files
         /\ DOMAIN split.train \subseteq DOMAIN files
         /\ DOMAIN split.held \subseteq DOMAIN files
         /\ DOMAIN split.train \cap DOMAIN split.held = {}
         /\ \A i \in DOMAIN split.train : split.train[i] = files[i]
         /\ \A i \in DOMAIN split.held : split.held[i] = files[i]
<1>1. DOMAIN files \in SUBSET Nat /\ files \in [DOMAIN files -> SUBSET Rec]
  BY FilesAreFunctions
<1>2. CASE split = [train |-> files, held |-> <<>>]
  <2>1. split.train = files /\ split.held = <<>> /\ DOMAIN <<>> = {}
    BY <1>2
  <2> QED
    BY <2>1, NoFiles
<1>3. ASSUME NEW held \in SUBSET DOMAIN files,
             split = [train |-> Restrict(files, DOMAIN files \ held),
                      held |-> Restrict(files, held)]
      PROVE  /\ split.train \in Files /\ split.held \in Files
             /\ DOMAIN split.train = DOMAIN files \ held /\ DOMAIN split.held = held
             /\ \A i \in DOMAIN split.train : split.train[i] = files[i]
             /\ \A i \in DOMAIN split.held : split.held[i] = files[i]
  <2>1. /\ split.train = [x \in DOMAIN files \ held |-> files[x]]
        /\ split.held = [x \in held |-> files[x]]
    BY <1>3 DEF Restrict
  <2>2. /\ [x \in DOMAIN files \ held |-> files[x]] \in [DOMAIN files \ held -> SUBSET Rec]
        /\ [x \in held |-> files[x]] \in [held -> SUBSET Rec]
        /\ DOMAIN files \ held \in SUBSET Nat /\ held \in SUBSET Nat
    BY <1>1
  <2> QED
    BY <2>1, <2>2, FileOf
<1>4. \/ split = [train |-> files, held |-> <<>>]
      \/ \E held \in SUBSET DOMAIN files :
            split = [train |-> Restrict(files, DOMAIN files \ held),
                     held |-> Restrict(files, held)]
  BY DEF Splits
<1>5. CASE \E held \in SUBSET DOMAIN files :
              split = [train |-> Restrict(files, DOMAIN files \ held),
                       held |-> Restrict(files, held)]
  <2>1. PICK held \in SUBSET DOMAIN files :
               split = [train |-> Restrict(files, DOMAIN files \ held),
                        held |-> Restrict(files, held)]
    BY <1>5
  <2>2. /\ split.train \in Files /\ split.held \in Files
        /\ DOMAIN split.train = DOMAIN files \ held /\ DOMAIN split.held = held
        /\ \A i \in DOMAIN split.train : split.train[i] = files[i]
        /\ \A i \in DOMAIN split.held : split.held[i] = files[i]
    BY <2>1, <1>3, Zenon
  <2>3. /\ DOMAIN files \ held \subseteq DOMAIN files /\ held \subseteq DOMAIN files
        /\ (DOMAIN files \ held) \cap held = {}
    OBVIOUS
  <2> QED
    BY <2>2, <2>3, Zenon
<1> QED
  BY <1>2, <1>4, <1>5

\* What WriteOutput writes: a report, a first fit, or one more step on the parent.
LEMMA OutputIs ==
  ASSUME TypeOK, PlanInv, BaseInv, at = "write", NEW content \in Outputs
  PROVE  /\ content \in Content
         /\ \/ content.kind = "report"
            \/ /\ job.weights = Null /\ base = 0 /\ content.kind = "artifact"
               /\ content.parent = 0
               /\ \E split \in Splits(StagedFor("supervised")) :
                     /\ content.steps = <<[learn |-> "supervised", on |-> split.train]>>
                     /\ content.metrics = [of |-> content.steps, train |-> split.train,
                                           held |-> split.held]
            \/ /\ job.weights # Null /\ base \in Artifacts /\ content.kind = "artifact"
               /\ content.parent = base
               /\ content.steps = Append(made[base].steps,
                                         [learn |-> job.learn, on |-> StagedFor(job.learn)])
               /\ content.metrics = Null
<1>1. /\ job.learn \in {"supervised", "rl"}
      /\ job.start = "fresh" <=> job.weights = Null
      /\ job.learn = "rl" => job.start = "resume"
      /\ job.mode = "validate" => job.start = "resume"
      /\ job.start \in {"none", "fresh", "resume"}
  BY DEF PlanInv, TypeOK, Job
<1>2. StagedFor(job.learn) \in Files
  BY <1>1, StagedForIs
<1>3. CASE job.mode = "validate"
  <2>1. content = Report
    BY <1>3 DEF Outputs
  <2>2. << >> \in Seq(StepRec) /\ base \in Nat
    BY DEF TypeOK
  <2> QED
    BY <2>1, <2>2 DEF Report, Content
<1>4. CASE job.mode # "validate" /\ job.start = "fresh"
  <2>1. PICK split \in Splits(StagedFor(job.learn)) : content = FreshArtifact(split)
    BY <1>4 DEF Outputs
  <2> DEFINE step == [learn |-> "supervised", on |-> split.train]
  <2>2. job.learn = "supervised" /\ job.weights = Null /\ base = 0
    BY <1>1, <1>4 DEF BaseInv
  <2>3. split.train \in Files /\ split.held \in Files
    BY <2>1, <1>2, SplitIs
  <2>4. step \in StepRec
    BY <2>3 DEF StepRec
  <2> HIDE DEF step
  <2>5. <<step>> \in Seq(StepRec)
    BY <2>4
  <2>6. content = [kind |-> "artifact", steps |-> <<step>>, parent |-> 0,
                   metrics |-> [of |-> <<step>>, train |-> split.train,
                                held |-> split.held],
                   ingest |-> Null]
    BY <2>1 DEF FreshArtifact, step
  <2>7. [of |-> <<step>>, train |-> split.train, held |-> split.held] \in Metrics
    BY <2>3, <2>5 DEF Metrics
  <2>8. content \in Content
    BY <2>5, <2>6, <2>7 DEF Content
  <2>9. split \in Splits(StagedFor("supervised"))
    BY <2>2
  <2>10. /\ content.kind = "artifact" /\ content.parent = 0 /\ content.steps = <<step>>
         /\ content.metrics = [of |-> content.steps, train |-> split.train,
                               held |-> split.held]
    BY <2>6
  <2> QED
    BY <2>2, <2>8, <2>9, <2>10 DEF step
<1>5. CASE job.mode # "validate" /\ job.start # "fresh"
  <2> DEFINE step == [learn |-> job.learn, on |-> StagedFor(job.learn)]
             a == made[base]
             m1 == [a EXCEPT !.steps = Append(a.steps, step)]
             m2 == [m1 EXCEPT !.parent = base]
             m3 == [m2 EXCEPT !.metrics = Null]
  <2>1. content = UpdatedArtifact(StagedFor(job.learn)) /\ job.weights # Null
        /\ base \in Artifacts
    BY <1>1, <1>5 DEF Outputs, BaseInv
  <2>2. a \in Content /\ a.kind = "artifact" /\ base \in Nat
    BY <2>1 DEF Artifacts, TypeOK
  <2>3. step \in StepRec
    BY <1>1, <1>2 DEF StepRec
  <2>4. a.steps \in Seq(StepRec)
    BY <2>2 DEF Content
  <2> HIDE DEF a, step
  <2>5. Append(a.steps, step) \in Seq(StepRec)
    BY <2>3, <2>4
  <2>6. m1 \in Content /\ m1.kind = a.kind /\ m1.steps = Append(a.steps, step)
    BY <2>2, <2>5 DEF Content
  <2>7. m2 \in Content /\ m2.kind = m1.kind /\ m2.steps = m1.steps /\ m2.parent = base
    BY <2>2, <2>6 DEF Content
  <2>8. m3 \in Content /\ m3.kind = m2.kind /\ m3.steps = m2.steps /\ m3.parent = m2.parent
        /\ m3.metrics = Null
    BY <2>7 DEF Content
  <2>9. content = m3
    BY <2>1 DEF UpdatedArtifact, MetricsAfterUpdate, a, step
  <2> QED
    BY <2>1, <2>2, <2>6, <2>7, <2>8, <2>9 DEF a, step
<1> QED
  BY <1>3, <1>4, <1>5
----------------------------------------------------------------------------
(* The type invariant.                                                     *)

LEMMA ContentIs ==
  ASSUME TypeOK, NEW c \in DOMAIN made
  PROVE  /\ c \in 1 .. Len(made) /\ made[c] \in Content /\ made[c].steps \in Seq(StepRec)
         /\ made[c].kind \in {"artifact", "report"}
<1>1. made \in Seq(Content) /\ c \in 1 .. Len(made)
  BY DEF TypeOK
<1>2. made[c] \in Content
  BY <1>1
<1> QED
  BY <1>1, <1>2 DEF Content

\* The output a learner has written, with the provenance Stamp gives it.
StampedOutput ==
    [made[file[job.output]] EXCEPT
       !.ingest = [base |-> IF job.weights = Null THEN 0 ELSE file[job.weights],
                   sources |-> {staged[i].sha : i \in 1 .. Len(staged)}]]

LEMMA StampedIs ==
  ASSUME TypeOK, PlanInv, OutputInv, at = "stamp"
  PROVE  LET c == made[file[job.output]]
         IN  /\ StampedOutput \in Content
             /\ StampedOutput.kind = c.kind /\ StampedOutput.steps = c.steps
             /\ StampedOutput.metrics = c.metrics /\ StampedOutput.parent = c.parent
             /\ StampedOutput.ingest \in Ingest
             /\ StampedOutput.ingest.base = IF job.weights = Null THEN 0 ELSE file[job.weights]
             /\ StampedOutput.ingest.sources = {staged[i].sha : i \in 1 .. Len(staged)}
<1> DEFINE c == made[file[job.output]]
           ing == [base |-> IF job.weights = Null THEN 0 ELSE file[job.weights],
                   sources |-> {staged[i].sha : i \in 1 .. Len(staged)}]
<1>1. c \in Content
  BY ContentIs DEF OutputInv
<1>2. (IF job.weights = Null THEN 0 ELSE file[job.weights]) \in Int
  <2>1. job.weights \in Paths \cup {Null} /\ file \in [Paths -> Int]
    BY DEF TypeOK, Job
  <2> QED
    BY <2>1
<1>3. {staged[i].sha : i \in 1 .. Len(staged)} \subseteq SUBSET Rec
  <2>1. ASSUME NEW i \in 1 .. Len(staged)
        PROVE  staged[i].sha \in SUBSET Rec
    <3>1. staged[i] \in Source
      BY DEF TypeOK
    <3> QED
      BY <3>1 DEF Source
  <2> QED
    BY <2>1
<1>4. /\ ing \in Ingest
      /\ ing.base = IF job.weights = Null THEN 0 ELSE file[job.weights]
      /\ ing.sources = {staged[i].sha : i \in 1 .. Len(staged)}
  BY <1>2, <1>3 DEF Ingest
<1> HIDE DEF c, ing
<1>5. LET s == [c EXCEPT !.ingest = ing]
      IN  /\ s \in Content /\ s.kind = c.kind /\ s.steps = c.steps
          /\ s.metrics = c.metrics /\ s.parent = c.parent /\ s.ingest = ing
  BY <1>1, <1>4 DEF Content
<1>6. StampedOutput = [c EXCEPT !.ingest = ing]
  BY DEF StampedOutput, c, ing
<1> QED
  BY <1>4, <1>5, <1>6 DEF c

LEMMA WrittenFile ==
  ASSUME TypeOK, NEW content, Written(content), Len(made') = Len(made) + 1
  PROVE  /\ file' \in [Paths -> Int] /\ \A p \in Paths : file'[p] <= Len(made')
         /\ \A p \in Paths : file'[p] = IF p = job.output THEN Len(made') ELSE file[p]
<1>1. made \in Seq(Content) /\ file \in [Paths -> Int] /\ \A p \in Paths : file[p] <= Len(made)
  BY DEF TypeOK
<1>2. Len(made) \in Nat
  BY <1>1
<1>3. file' = [file EXCEPT ![job.output] = Len(made) + 1]
  BY DEF Written
<1>4. \A p \in Paths : file'[p] = IF p = job.output THEN Len(made) + 1 ELSE file[p]
  BY <1>1, <1>3
<1>5. Len(made) + 1 \in Int
  BY <1>2
<1>6. file' \in [Paths -> Int]
  BY <1>1, <1>3, <1>5
<1>7. \A p \in Paths : file[p] \in Int
  BY <1>1
<1>8. \A p \in Paths : file'[p] <= Len(made')
  BY <1>1, <1>2, <1>4, <1>7
<1> QED
  BY <1>4, <1>6, <1>8

LEMMA TypeStep ==
  ASSUME TypeOK, PlanInv, BaseInv, OutputInv, StagedInv, [Next]_vars
  PROVE  TypeOK'
<1> USE DEF TypeOK
<1>1. ASSUME NEW p \in Paths, Collect(p)
      PROVE  TypeOK'
  BY <1>1 DEF Collect, CollectorIs, CollectorKeeps, fileVars, learnerVars
<1>2. CASE Load
  BY <1>2 DEF Load, Loadable, CollectorIs, CollectorKeeps, fileVars, learnerVars
<1>3. CASE PlayPair
  <2>1. Episode \in Rec
    BY DEF Rec, Episode
  <2> QED
    BY <1>3, <2>1 DEF PlayPair, CollectorIs, CollectorKeeps, fileVars, learnerVars
<1>5. CASE CollectorFails
  BY <1>5 DEF CollectorFails, Finished, fileVars, learnerVars
<1>6. ASSUME NEW l \in Logs, WriteTrajectories(l)
      PROVE  TypeOK'
  BY <1>6 DEF WriteTrajectories, Finished, CollectorKeeps, learnerVars
<1>7. CASE Learn
  <2>1. PICK found \in (SUBSET Logs) \ {{}} : todo' \in Sorted(found)
    BY <1>7 DEF Learn
  <2>2. found \in SUBSET Logs /\ IsFiniteSet(Logs)
    BY LearningAssumption
  <2>3. Cardinality(found) \in Nat
    BY <2>2, FS_Subset, FS_CardinalityType
  <2>4. todo' \in [1 .. Cardinality(found) -> Logs]
    BY <2>1 DEF Sorted
  <2> DEFINE n == Cardinality(found)
  <2> HIDE DEF n
  <2>5. todo' \in Seq(Logs)
    <3>1. n \in Nat /\ todo' \in [1 .. n -> Logs]
      BY <2>3, <2>4 DEF n
    <3> QED
      BY <3>1
  <2> QED
    BY <1>7, <2>5 DEF Learn, LearnerKeeps, fileVars, collectorVars
<1>8. CASE ReadSource
  <2>1. Head(todo) \in Logs
    BY <1>8 DEF ReadSource
  <2>2. log[Head(todo)] \in SUBSET Rec
    BY <2>1
  <2> QED
    BY <1>8, <2>2 DEF ReadSource, LearnerKeeps, fileVars, collectorVars
<1>9. CASE HashSource
  <2>1. todo # << >> /\ reading \in SUBSET Rec /\ Head(todo) \in Logs
    BY <1>9 DEF HashSource, StagedInv
  <2>2. log[Head(todo)] \in SUBSET Rec /\ Tail(todo) \in Seq(Logs)
    BY <2>1
  <2>3. Named(reading, log[Head(todo)]) \in Source
    BY <2>1, <2>2 DEF Named, Source
  <2>4. Append(staged, Named(reading, log[Head(todo)])) \in Seq(Source)
    BY <2>3
  <2>5. at' \in {"plan", "stage"} /\ todo' \in Seq(Logs) /\ staged' \in Seq(Source)
        /\ reading' \in {Null} \cup SUBSET Rec
    <3>1. HashSource
      BY <1>9
    <3>2. at' \in {"plan", "stage"}
      BY <3>1 DEF HashSource
    <3>3. /\ todo' = Tail(todo) /\ reading' = Null
          /\ staged' = Append(staged, Named(reading, log[Head(todo)]))
      BY <3>1 DEF HashSource
    <3>4. Null \in {Null} \cup SUBSET Rec
      OBVIOUS
    <3> QED
      BY <3>2, <3>3, <3>4, <2>2, <2>4, Zenon
  <2> QED
    BY <1>9, <2>5 DEF HashSource, LearnerKeeps, fileVars, collectorVars
<1>10. CASE Plan
  <2>1. job' \in Job /\ at' = "tool"
    BY <1>10 DEF Plan, Job, LearnOf, StartOf, ModeOf, Trainable
  <2> QED
    BY <1>10, <2>1 DEF Plan, LearnerKeeps, fileVars, collectorVars
<1>11. ASSUME Quit
       PROVE  /\ at' = "idle" /\ todo' \in Seq(Logs) /\ reading' \in {Null} \cup SUBSET Rec
              /\ staged' \in Seq(Source) /\ job' \in Job /\ base' \in Nat /\ moved' \in BOOLEAN
  <2>1. << >> \in Seq(Logs) /\ << >> \in Seq(Source) /\ Idle \in Job /\ FALSE \in BOOLEAN
    BY DEF Idle, Job
  <2> QED
    <3>1. /\ at' = "idle" /\ todo' = << >> /\ reading' = Null /\ staged' = << >>
          /\ job' = Idle /\ base' = 0
      BY <1>11 DEF Quit
    <3>2. moved' \in BOOLEAN
      BY <1>11, Zenon DEF Quit
    <3>3. 0 \in Nat /\ Null \in {Null} \cup SUBSET Rec
      OBVIOUS
    <3> QED
      BY <3>1, <3>2, <3>3, <2>1, Zenon
<1>12. CASE PlanRefused
  BY <1>12, <1>11 DEF PlanRefused, LearnerKeeps, fileVars, collectorVars
<1>13. CASE ReadWeights
  <2>1. job.weights \in Paths \cup {Null}
    BY DEF Job
  <2>2. job.weights # Null => file[job.weights] \in Nat /\ base' = file[job.weights]
    BY <1>13, <2>1 DEF ReadWeights, Loadable
  <2>3. base' \in Nat /\ at' = "write"
    BY <1>13, <2>2 DEF ReadWeights
  <2> QED
    BY <1>13, <2>3 DEF ReadWeights, LearnerKeeps, fileVars, collectorVars
<1>14. CASE WriteOutput
  <2>1. PICK content \in Outputs : Written(content)
    BY <1>14 DEF WriteOutput
  <2>2. content \in Content
    BY <1>14, <2>1, OutputIs DEF WriteOutput
  <2>3. made' \in Seq(Content) /\ Len(made') = Len(made) + 1
    BY <2>1, <2>2 DEF Written
  <2>4. file' \in [Paths -> Int] /\ \A p \in Paths : file'[p] <= Len(made')
    BY <2>1, <2>3, WrittenFile
  <2> QED
    BY <1>14, <2>3, <2>4 DEF WriteOutput, LearnerKeeps, collectorVars
<1>15. CASE Stamp
  <2>1. Written(StampedOutput)
    BY <1>15 DEF Stamp, StampedOutput
  <2>2. StampedOutput \in Content
    BY <1>15, StampedIs DEF Stamp
  <2>3. made' \in Seq(Content) /\ Len(made') = Len(made) + 1
    BY <2>1, <2>2 DEF Written
  <2>4. file' \in [Paths -> Int] /\ \A p \in Paths : file'[p] <= Len(made')
    BY <2>1, <2>3, WrittenFile
  <2> QED
    BY <1>15, <1>11, <2>3, <2>4 DEF Stamp, LearnerKeeps, collectorVars
<1>16. CASE ToolFails
  BY <1>16, <1>11 DEF ToolFails, LearnerKeeps, fileVars, collectorVars
<1>17. CASE LearnerDies
  <2>1. file' \in [Paths -> Int] /\ \A p \in Paths : file'[p] <= Len(made)
    <3>1. file \in [Paths -> Int] /\ \A p \in Paths : file[p] <= Len(made)
      OBVIOUS
    <3>2. -1 \in Int /\ -1 <= Len(made)
      <4>1. Len(made) \in Nat
        OBVIOUS
      <4> QED
        BY <4>1
    <3>3. file' = [file EXCEPT ![job.output] = -1] \/ file' = file
      BY <1>17, Zenon DEF LearnerDies, Torn
    <3> QED
      BY <3>1, <3>2, <3>3
  <2> QED
    BY <1>17, <1>11, <2>1 DEF LearnerDies, LearnerKeeps, collectorVars
<1>18. CASE Stopped
  BY <1>18 DEF Stopped, vars, fileVars, learnerVars, collectorVars, boundVars
<1>19. ASSUME NEW l \in Logs, NEW r \in OracleRecords, OracleRecord(l, r)
       PROVE  TypeOK'
  BY <1>19 DEF OracleRecord, learnerVars, collectorVars, Rec
<1>20. ASSUME NEW from \in Paths, NEW to \in Paths, Promote(from, to)
       PROVE  TypeOK'
  <2>1. moved' \in BOOLEAN
    BY <1>20 DEF Promote
  <2>2. file' \in [Paths -> Int] /\ \A p \in Paths : file'[p] <= Len(made)
    BY <1>20 DEF Promote
  <2> QED
    BY <1>20, <2>1, <2>2 DEF Promote, collectorVars
<1>21. CASE UNCHANGED vars
  BY <1>21 DEF vars, fileVars, learnerVars, collectorVars, boundVars
<1> QED
  BY <1>1, <1>2, <1>3, <1>5, <1>6, <1>7, <1>8, <1>9, <1>10, <1>12, <1>13, <1>14,
     <1>15, <1>16, <1>17, <1>18, <1>19, <1>20, <1>21 DEF Next, Collector, Learner
----------------------------------------------------------------------------
(* Which steps leave what alone.                                           *)

CollectorQuiet == UNCHANGED <<fileVars, learnerVars, spoiled, sampled, told>>

LEMMA CollectorFrame ==
  /\ \A p \in Paths : Collect(p) => CollectorQuiet /\ got' = {} /\ stage' = "load"
  /\ Load => CollectorQuiet /\ got' = got
  /\ CollectorFails => CollectorQuiet /\ got' = {} /\ stage' = "idle"
  /\ PlayPair => UNCHANGED <<fileVars, learnerVars, spoiled, told>>
  /\ \A l \in Logs : WriteTrajectories(l) =>
        UNCHANGED <<made, file, learnerVars, spoiled, sampled, told>> /\ got' = {}
BY DEF Collect, Load, PlayPair, CollectorFails, WriteTrajectories, CollectorQuiet,
       CollectorIs, CollectorKeeps, Finished

LEMMA LearnerFrame ==
  /\ Learner => UNCHANGED <<collectorVars, copies, sampled, told, log>>
  /\ Learn \/ ReadSource \/ HashSource => UNCHANGED <<made, file, job, base, moved, spoiled>>
  /\ Plan => UNCHANGED <<made, file, todo, reading, staged, base, moved, spoiled>>
  /\ ReadWeights => UNCHANGED <<made, file, todo, reading, staged, job, moved, spoiled>>
  /\ WriteOutput => UNCHANGED <<todo, reading, staged, job, base, moved, spoiled>>
  /\ PlanRefused \/ ToolFails => UNCHANGED <<made, file, spoiled>> /\ Quit
  /\ Stamp \/ LearnerDies => Quit
BY DEF Learner, Learn, ReadSource, HashSource, Plan, PlanRefused, ReadWeights, WriteOutput,
       Stamp, ToolFails, LearnerDies, LearnerKeeps, fileVars, collectorVars, Quit

\* The same step by step, for everything the invariants but the collector's read.
LearnerUnmoved == UNCHANGED <<at, todo, reading, staged, job, base, moved>>

LEMMA OthersFrame ==
  /\ \A l \in Logs, r \in OracleRecords : OracleRecord(l, r) =>
        UNCHANGED <<made, file, learnerVars, spoiled, collectorVars, sampled>>
  /\ \A from, to \in Paths : Promote(from, to) =>
        UNCHANGED <<made, log, at, todo, reading, staged, job, base, spoiled, collectorVars,
                    sampled, told>>
  /\ Stopped \/ UNCHANGED vars => UNCHANGED vars
BY DEF OracleRecord, Promote, Stopped

\* The steps by what they do to the records.
LEMMA RecordSteps ==
  ASSUME [Next]_vars
  PROVE  \/ UNCHANGED <<told, sampled, log, staged, todo>> /\ (got' = got \/ got' = {})
         \/ UNCHANGED <<told, sampled, log, got>> /\ Quit
         \/ PlayPair
         \/ \E l \in Logs : WriteTrajectories(l)
         \/ Learn \/ HashSource
         \/ \E l \in Logs, r \in OracleRecords : OracleRecord(l, r)
<1>1. CASE Collector
  <2>1. CASE PlayPair \/ \E l \in Logs : WriteTrajectories(l)
    BY <2>1
  <2>2. CASE \/ \E p \in Paths : Collect(p)
             \/ Load \/ CollectorFails
    BY <2>2, CollectorFrame DEF CollectorQuiet, fileVars, learnerVars
  <2> QED
    BY <1>1, <2>1, <2>2 DEF Collector
<1>2. CASE Learner
  <2>1. UNCHANGED <<sampled, told, log, got>>
    BY <1>2, LearnerFrame DEF collectorVars
  <2>2. CASE ReadSource
    BY <2>1, <2>2 DEF ReadSource
  <2>3. CASE Plan \/ ReadWeights \/ WriteOutput
    BY <2>1, <2>3, LearnerFrame
  <2>4. CASE PlanRefused \/ ToolFails \/ Stamp \/ LearnerDies
    BY <2>1, <2>4, LearnerFrame
  <2> QED
    BY <1>2, <2>2, <2>3, <2>4 DEF Learner
<1>3. CASE \E from, to \in Paths : Promote(from, to)
  BY <1>3, OthersFrame DEF collectorVars
<1>4. CASE Stopped \/ UNCHANGED vars
  BY <1>4, OthersFrame DEF vars, fileVars, learnerVars, collectorVars, boundVars
<1> QED
  BY <1>1, <1>2, <1>3, <1>4 DEF Next

----------------------------------------------------------------------------
(* Records stay where they are.                                            *)

LEMMA NewRecords ==
  ASSUME TypeOK
  PROVE  /\ [id |-> sampled + 1, sha |-> behaviour] \notin Said
         /\ \A r \in OracleRecords : r \notin told => r \notin Said
<1>1. sampled \in Nat /\ behaviour \in Nat /\ told \subseteq OracleRecords
  BY DEF TypeOK
<1>2. \A r \in OracleRecords : r \notin [id : Nat, sha : Nat]
  BY LearningAssumption
<1>3. [id |-> sampled + 1, sha |-> behaviour] \in [id : Nat, sha : Nat]
  BY <1>1
<1>4. [id |-> sampled + 1, sha |-> behaviour] \notin told
  BY <1>1, <1>2, <1>3, Zenon
<1>5. [id |-> sampled + 1, sha |-> behaviour] \notin [id : 1 .. sampled, sha : Nat]
  BY <1>1
<1>6. [id : 1 .. sampled, sha : Nat] \subseteq [id : Nat, sha : Nat]
  BY <1>1
<1> QED
  BY <1>2, <1>4, <1>5, <1>6 DEF Said

LEMMA RecordsStep ==
  ASSUME TypeOK, RecordsInv, StagedInv, TypeOK', [Next]_vars
  PROVE  RecordsInv'
<1>1. CASE UNCHANGED <<told, sampled, log, staged, todo>> /\ (got' = got \/ got' = {})
  BY <1>1 DEF RecordsInv, Said, Apart
<1>2. ASSUME UNCHANGED <<told, sampled, log, got>>, staged' = << >>
      PROVE  RecordsInv'
  <2>1. DOMAIN staged' = {}
    BY <1>2
  <2> QED
    BY <1>2, <2>1 DEF RecordsInv, Said, Apart
<1>3. CASE UNCHANGED <<told, sampled, log, got>> /\ Quit
  BY <1>2, <1>3 DEF Quit
<1>4. CASE Learn
  <2>1. UNCHANGED <<told, sampled, log, got>> /\ staged' = staged /\ at = "idle"
    BY <1>4 DEF Learn, LearnerKeeps, fileVars, collectorVars
  <2> QED
    BY <1>2, <2>1 DEF StagedInv
<1>5. CASE PlayPair
  <2> DEFINE new == [id |-> sampled + 1, sha |-> behaviour]
  <2>1. UNCHANGED <<log, todo, staged, told>> /\ sampled \in Nat /\ behaviour \in Nat
    BY <1>5, CollectorFrame DEF fileVars, learnerVars, TypeOK
  <2>2. CASE UNCHANGED <<got, sampled>>
    BY <1>1, <2>1, <2>2
  <2>3. CASE got' = got \cup {new} /\ sampled' = sampled + 1
    <3>1. new \notin Said
      BY NewRecords
    <3>2. Said' = told \cup [id : 1 .. sampled + 1, sha : Nat]
      BY <2>1, <2>3 DEF Said
    <3>3. Said \subseteq Said'
      BY <3>2, <2>1 DEF Said
    <3>4. new \in Said'
      <4>1. new \in [id : 1 .. sampled + 1, sha : Nat]
        BY <2>1
      <4> QED
        BY <3>2, <4>1
    <3> HIDE DEF new
    <3>5. got' \subseteq Said'
      BY <2>3, <3>3, <3>4 DEF RecordsInv
    <3>6. ASSUME NEW S \in SUBSET Said, Apart(S, got)
          PROVE  S \subseteq Said' /\ Apart(S, got)'
      BY <2>3, <3>1, <3>3, <3>6 DEF Apart
    <3>7. \A l \in Logs : log'[l] \subseteq Said' /\ (Apart(log[l], got))'
      BY <2>1, <3>6 DEF RecordsInv, Apart
    <3>8. \A i \in DOMAIN staged : staged'[i].records \subseteq Said' /\ Apart(staged[i].records, got)'
      BY <2>1, <3>6 DEF RecordsInv, Apart
    <3> QED
      BY <2>1, <3>5, <3>7, <3>8 DEF RecordsInv, Apart
  <2> QED
    BY <1>5, <2>2, <2>3 DEF PlayPair, Episode
<1>6. ASSUME NEW l \in Logs, WriteTrajectories(l)
      PROVE  RecordsInv'
  <2>1. UNCHANGED <<todo, staged, told, sampled>> /\ got' = {}
    BY <1>6, CollectorFrame DEF learnerVars
  <2>2. log' = [log EXCEPT ![l] = got]
    BY <1>6 DEF WriteTrajectories
  <2>3. \A m \in Logs : log'[m] = IF m = l THEN got ELSE log[m]
    BY <2>2 DEF TypeOK
  <2>4. \A k \in DOMAIN todo : todo[k] # l /\ todo[k] \in Logs
    BY <1>6 DEF WriteTrajectories, StagedInv, TypeOK
  <2>5. Said' = Said
    BY <2>1 DEF Said
  <2> QED
    BY <2>1, <2>3, <2>4, <2>5 DEF RecordsInv, Apart
<1>7. CASE HashSource
  <2> DEFINE s == Named(reading, log[Head(todo)])
  <2>1. /\ UNCHANGED <<log, got, told, sampled>>
        /\ staged' = Append(staged, s) /\ todo' = Tail(todo)
        /\ reading # Null /\ todo # << >> /\ reading \subseteq log[todo[1]]
    BY <1>7, LearnerFrame DEF Learner, collectorVars, HashSource, StagedInv
  <2>2. s.records = reading
    BY DEF Named
  <2> HIDE DEF s
  <2>3. /\ DOMAIN staged' = DOMAIN staged \cup {Len(staged) + 1}
        /\ staged'[Len(staged) + 1] = s
        /\ \A i \in DOMAIN staged : staged'[i] = staged[i] /\ i # Len(staged) + 1
    BY <2>1 DEF TypeOK
  <2>4. \A k \in DOMAIN todo' : /\ k + 1 \in DOMAIN todo /\ todo'[k] = todo[k + 1]
                                /\ todo[k + 1] # todo[1] /\ todo[k + 1] \in Logs
    <3>1. todo \in Seq(Logs) /\ todo # << >>
      BY <2>1 DEF TypeOK
    <3>2. Len(todo) \in Nat \ {0} /\ DOMAIN todo = 1 .. Len(todo)
      BY <3>1
    <3> SUFFICES ASSUME NEW k \in DOMAIN todo'
                 PROVE  /\ k + 1 \in DOMAIN todo /\ todo'[k] = todo[k + 1]
                        /\ todo[k + 1] # todo[1] /\ todo[k + 1] \in Logs
      OBVIOUS
    <3>3. k \in Nat \ {0} /\ k + 1 \in 1 .. Len(todo) /\ todo'[k] = todo[k + 1]
      BY <2>1, <3>1, <3>2
    <3>4. 1 \in DOMAIN todo /\ k + 1 \in DOMAIN todo /\ k + 1 # 1
      BY <3>2, <3>3
    <3> QED
      BY <3>1, <3>3, <3>4 DEF StagedInv
  <2>5. todo[1] \in Logs /\ Said' = Said
    BY <2>1 DEF TypeOK, Said
  <2>6. /\ reading \subseteq Said /\ Apart(reading, got)
        /\ \A k \in DOMAIN todo' : Apart(reading, log[todo'[k]])
        /\ \A i \in DOMAIN staged : Apart(reading, staged[i].records)
    <3>1. reading \subseteq log[todo[1]] /\ log[todo[1]] \subseteq Said /\ Apart(log[todo[1]], got)
      BY <2>1, <2>5 DEF RecordsInv
    <3>2. \A k \in DOMAIN todo' : Apart(log[todo[1]], log[todo'[k]])
      BY <2>4, <2>5 DEF RecordsInv
    <3>3. 1 \in DOMAIN todo
      BY <2>1 DEF TypeOK
    <3>4. \A i \in DOMAIN staged : Apart(staged[i].records, log[todo[1]])
      BY <3>3 DEF RecordsInv
    <3> QED
      BY <3>1, <3>2, <3>4 DEF Apart
  <2>7. \A i \in DOMAIN staged, k \in DOMAIN todo' : Apart(staged[i].records, log[todo'[k]])
    BY <2>4 DEF RecordsInv
  <2> QED
    BY <2>1, <2>2, <2>3, <2>5, <2>6, <2>7 DEF RecordsInv, Apart
<1>8. ASSUME NEW l \in Logs, NEW r \in OracleRecords, OracleRecord(l, r)
      PROVE  RecordsInv'
  <2>1. UNCHANGED <<todo, staged, got, sampled>> /\ told' = told \cup {r} /\ r \notin told
    BY <1>8 DEF OracleRecord, learnerVars, collectorVars
  <2>2. \A m \in Logs : log'[m] = IF m = l THEN log[m] \cup {r} ELSE log[m]
    BY <1>8 DEF OracleRecord, TypeOK
  <2>3. r \notin Said /\ Said' = Said \cup {r}
    BY <2>1, NewRecords DEF Said
  <2>4. \A k \in DOMAIN todo : todo[k] \in Logs
    BY DEF TypeOK
  <2>5. \A m \in Logs : log[m] \subseteq log'[m] /\ log'[m] \subseteq log[m] \cup {r}
    BY <2>2
  <2>6. ASSUME NEW S \in SUBSET Said, NEW m \in Logs, Apart(S, log[m])
        PROVE  Apart(S, log'[m])
    BY <2>3, <2>5, <2>6 DEF Apart
  <2>7. got \subseteq Said /\ got' \subseteq Said'
    BY <2>1, <2>3 DEF RecordsInv
  <2>8. \A m \in Logs : log'[m] \subseteq Said' /\ Apart(log'[m], got')
    BY <2>1, <2>3, <2>5, <2>6, <2>7 DEF RecordsInv, Apart
  <2>9. \A m, n \in Logs : m # n => Apart(log'[m], log'[n])
    <3> SUFFICES ASSUME NEW m \in Logs, NEW n \in Logs, m # n
                 PROVE  Apart(log'[m], log'[n])
      OBVIOUS
    <3>1. Apart(log[m], log[n]) /\ r \notin log[m] /\ r \notin log[n]
      BY <2>3 DEF RecordsInv
    <3>2. CASE m = l
      BY <2>2, <3>1, <3>2 DEF Apart
    <3>3. CASE m # l
      BY <2>2, <3>1, <3>3 DEF Apart
    <3> QED
      BY <3>2, <3>3
  <2>10. \A i \in DOMAIN staged :
           /\ staged[i].records \subseteq Said' /\ Apart(staged[i].records, got')
           /\ \A k \in DOMAIN todo : Apart(staged[i].records, log'[todo[k]])
    BY <2>1, <2>3, <2>4, <2>6 DEF RecordsInv, Apart
  <2>11. \A i, j \in DOMAIN staged : i # j => Apart(staged[i].records, staged[j].records)
    BY DEF RecordsInv
  <2> QED
    BY <2>1, <2>7, <2>8, <2>9, <2>10, <2>11 DEF RecordsInv, Apart
<1> QED
  BY <1>1, <1>3, <1>4, <1>5, <1>6, <1>7, <1>8, RecordSteps
----------------------------------------------------------------------------
(* The learner's way from its sources to its plan.                         *)

LEMMA SortedOnce ==
  ASSUME NEW S, IsFiniteSet(S), NEW s \in Sorted(S)
  PROVE  \A i, j \in DOMAIN s : i # j => s[i] # s[j]
<1> DEFINE n == Cardinality(S)
<1>1. n \in Nat
  BY FS_CardinalityType
<1>2. IsFiniteSet(1 .. n) /\ Cardinality(1 .. n) = n
  <2> HIDE DEF n
  <2>1. 1 \in Int /\ n \in Int
    BY <1>1
  <2>2. IsFiniteSet(1 .. n) /\ Cardinality(1 .. n) = IF 1 > n THEN 0 ELSE n - 1 + 1
    BY <2>1, FS_Interval
  <2> QED
    BY <1>1, <2>2
<1>3. s \in [1 .. n -> S] /\ \A t \in S : \E i \in DOMAIN s : s[i] = t
  BY DEF Sorted
<1>4. s \in Surjection(1 .. n, S)
  BY <1>3 DEF Surjection
<1> HIDE DEF n
<1>5. Cardinality(1 .. n) = Cardinality(S)
  BY <1>2 DEF n
<1>6. s \in Injection(1 .. n, S)
  BY <1>2, <1>4, <1>5, FS_SurjSameCardinalityImpliesInj
<1> QED
  BY <1>3, <1>6 DEF Injection, IsInjective

LEMMA StagedStep ==
  ASSUME TypeOK, StagedInv, TypeOK', [Next]_vars
  PROVE  StagedInv'
<1>1. ASSUME UNCHANGED <<at, todo, reading, staged>>,
             reading # Null => log[todo[1]] \subseteq log'[todo[1]]
      PROVE  StagedInv'
  BY <1>1 DEF StagedInv
<1>2. CASE Collector
  <2>1. CASE CollectorQuiet
    BY <1>1, <2>1 DEF CollectorQuiet, fileVars, learnerVars
  <2>2. CASE PlayPair
    BY <1>1, <2>2, CollectorFrame DEF fileVars, learnerVars
  <2>3. ASSUME NEW l \in Logs, WriteTrajectories(l)
        PROVE  StagedInv'
    <3>1. UNCHANGED <<at, todo, reading, staged>> /\ log' = [log EXCEPT ![l] = got]
      BY <2>3 DEF WriteTrajectories, CollectorKeeps, learnerVars
    <3>2. ASSUME reading # Null
          PROVE  log[todo[1]] \subseteq log'[todo[1]]
      <4>1. at = "stage" /\ todo # << >> /\ todo \in Seq(Logs)
        BY <3>2 DEF StagedInv, TypeOK
      <4>2. 1 \in 1 .. Len(todo) /\ todo[1] \in Logs
        BY <4>1
      <4>3. todo[1] # l
        BY <2>3, <4>1, <4>2 DEF WriteTrajectories
      <4> QED
        BY <3>1, <4>2, <4>3 DEF TypeOK
    <3> QED
      BY <1>1, <3>1, <3>2
  <2> QED
    BY <1>2, <2>1, <2>2, <2>3, CollectorFrame DEF Collector
<1>3. CASE Learn
  <2>1. PICK found \in (SUBSET Logs) \ {{}} : todo' \in Sorted(found)
    BY <1>3 DEF Learn
  <2>2. IsFiniteSet(found)
    <3>1. found \in SUBSET Logs
      BY <2>1
    <3> QED
      BY <3>1, LearningAssumption, FS_Subset
  <2>3. \A i, j \in DOMAIN todo' : i # j => todo'[i] # todo'[j]
    BY <2>1, <2>2, SortedOnce
  <2>4. reading = Null /\ staged = << >> /\ UNCHANGED <<reading, staged>> /\ at' = "stage"
    BY <1>3 DEF Learn, StagedInv
  <2> QED
    BY <2>3, <2>4 DEF StagedInv
<1>4. CASE ReadSource
  <2>1. UNCHANGED <<at, todo, staged, log>> /\ at = "stage" /\ todo # << >>
        /\ reading' = log[todo[1]]
    BY <1>4 DEF ReadSource, fileVars, TypeOK
  <2> QED
    BY <2>1 DEF StagedInv
<1>5. CASE HashSource
  <2>1. /\ todo' = Tail(todo) /\ reading' = Null
        /\ staged' = Append(staged, Named(reading, log[todo[1]]))
        /\ todo # << >> /\ reading \subseteq log[todo[1]]
        /\ at' \in {"plan", "stage"} /\ (at' # "stage" => todo' = << >>)
    BY <1>5 DEF HashSource, StagedInv, TypeOK
  <2>2. \A i \in DOMAIN staged' : staged'[i].records \subseteq staged'[i].sha
    <3>1. /\ DOMAIN staged' = DOMAIN staged \cup {Len(staged) + 1}
          /\ staged'[Len(staged) + 1] = Named(reading, log[todo[1]])
          /\ \A i \in DOMAIN staged : staged'[i] = staged[i]
      BY <2>1 DEF TypeOK
    <3>2. Named(reading, log[todo[1]]).records \subseteq Named(reading, log[todo[1]]).sha
      BY <2>1 DEF Named
    <3> QED
      BY <3>1, <3>2 DEF StagedInv
  <2>3. \A i, j \in DOMAIN todo' : i # j => todo'[i] # todo'[j]
    <3> SUFFICES ASSUME NEW i \in DOMAIN todo', NEW j \in DOMAIN todo', i # j
                 PROVE  todo'[i] # todo'[j]
      OBVIOUS
    <3>1. todo \in Seq(Logs) /\ todo # << >> /\ todo' = Tail(todo)
      BY <2>1 DEF TypeOK
    <3>2. Len(todo) \in Nat \ {0} /\ DOMAIN todo = 1 .. Len(todo)
      BY <3>1
    <3>3. i \in Nat /\ i + 1 \in 1 .. Len(todo) /\ todo'[i] = todo[i + 1]
      BY <3>1, <3>2
    <3>4. j \in Nat /\ j + 1 \in 1 .. Len(todo) /\ todo'[j] = todo[j + 1]
      BY <3>1, <3>2
    <3>5. i + 1 # j + 1
      BY <3>3, <3>4
    <3> QED
      BY <3>2, <3>3, <3>4, <3>5 DEF StagedInv
  <2> QED
    BY <2>1, <2>2, <2>3 DEF StagedInv
<1>6. CASE Plan \/ ReadWeights \/ WriteOutput
  <2>1. UNCHANGED <<todo, reading, staged>> /\ at # "stage" /\ at' \notin {"idle", "stage"}
    BY <1>6, LearnerFrame DEF Plan, ReadWeights, WriteOutput
  <2> QED
    BY <2>1 DEF StagedInv
<1>7. CASE Quit
  <2>1. todo' = << >> /\ staged' = << >> /\ reading' = Null
    BY <1>7 DEF Quit
  <2> QED
    BY <2>1 DEF StagedInv
<1>8. CASE PlanRefused \/ ToolFails \/ Stamp \/ LearnerDies
  BY <1>7, <1>8, LearnerFrame
<1>9. ASSUME NEW l \in Logs, NEW r \in OracleRecords, OracleRecord(l, r)
      PROVE  StagedInv'
  <2>1. UNCHANGED <<at, todo, reading, staged>> /\ log' = [log EXCEPT ![l] = @ \cup {r}]
    BY <1>9 DEF OracleRecord, learnerVars
  <2>2. ASSUME reading # Null
        PROVE  log[todo[1]] \subseteq log'[todo[1]]
    <3>1. todo[1] \in Logs
      BY <2>2 DEF StagedInv, TypeOK
    <3> QED
      BY <2>1, <3>1 DEF TypeOK
  <2> QED
    BY <1>1, <2>1, <2>2
<1>10. CASE \E from, to \in Paths : Promote(from, to)
  BY <1>1, <1>10, OthersFrame
<1>11. CASE Stopped \/ UNCHANGED vars
  BY <1>1, <1>11, OthersFrame DEF vars, fileVars, learnerVars
<1> QED
  BY <1>2, <1>3, <1>4, <1>5, <1>6, <1>8, <1>9, <1>10, <1>11 DEF Next, Learner

\* Steps that leave the learner where it is, or take it back to the start.
LEMMA LearnerSteps ==
  ASSUME [Next]_vars
  PROVE  \/ UNCHANGED <<made, file, at, todo, reading, staged, job, base, moved, spoiled>>
         \/ UNCHANGED <<made, file, spoiled>> /\ at' = "idle" /\ at # "stamp"
         \/ \E from, to \in Paths : Promote(from, to)
         \/ Learn \/ ReadSource \/ HashSource \/ Plan \/ ReadWeights \/ WriteOutput
         \/ Stamp \/ LearnerDies
<1>1. CASE Collector
  <2>1. UNCHANGED <<made, file, learnerVars, spoiled>>
    BY <1>1, CollectorFrame DEF Collector, CollectorQuiet, fileVars
  <2> QED
    BY <2>1 DEF learnerVars
<1>2. CASE PlanRefused \/ ToolFails
  BY <1>2, LearnerFrame DEF Quit, PlanRefused, ToolFails
<1>3. CASE \E l \in Logs, r \in OracleRecords : OracleRecord(l, r)
  BY <1>3, OthersFrame DEF learnerVars
<1>4. CASE Stopped \/ UNCHANGED vars
  BY <1>4, OthersFrame DEF vars, fileVars, learnerVars
<1> QED
  BY <1>1, <1>2, <1>3, <1>4 DEF Next, Learner

LEMMA PlanIs ==
  ASSUME TypeOK, Plan
  PROVE  /\ job'.learn \in {"supervised", "rl"} /\ job'.output \in Paths
         /\ job'.output # job'.weights
         /\ job'.start = "fresh" <=> job'.weights = Null
         /\ job'.learn = "rl" => job'.start = "resume"
         /\ job'.mode = "validate" => job'.start = "resume"
<1>1. PICK asked \in {"auto", "supervised", "rl"}, begin \in {"auto", "fresh", "resume"},
           mode \in {"auto", "train", "validate", "auto-split"},
           path \in Paths \cup {Null}, output \in Paths :
         LET wanted == IF mode = "validate" /\ asked = "auto" THEN "supervised" ELSE asked
             rl == HasRl /\ mode # "validate"
             start == StartOf(begin, path)
             learn == LearnOf(wanted, start, rl)
             role == ModeOf(mode, learn, start)
         IN  /\ start # Null /\ learn # Null /\ Trainable(learn, start, rl) /\ role # Null
             /\ output # path
             /\ job' = [learn |-> learn, start |-> start, mode |-> role,
                        weights |-> path, output |-> output]
  BY DEF Plan
<1> DEFINE start == StartOf(begin, path)
           learn == job'.learn
<1>2. /\ job'.start = start /\ job'.weights = path /\ job'.output = output /\ output # path
      /\ start # Null
      /\ job'.mode = ModeOf(mode, learn, start) /\ job'.mode # Null
      /\ \E rl \in BOOLEAN : Trainable(learn, start, rl)
  BY <1>1
<1>3. learn \in {"supervised", "rl"} /\ (learn = "rl" => start = "resume")
  BY <1>2 DEF Trainable
<1>4. start = "fresh" <=> path = Null
  BY <1>2 DEF StartOf
<1>5. job'.mode = "validate" => start = "resume"
  BY <1>2, <1>3 DEF ModeOf
<1> QED
  BY <1>1, <1>2, <1>3, <1>4, <1>5

LEMMA PlanStep ==
  ASSUME TypeOK, PlanInv, [Next]_vars
  PROVE  PlanInv'
<1>1. CASE UNCHANGED <<at, job>>
  BY <1>1 DEF PlanInv
<1>2. CASE at' \notin {"tool", "write", "stamp"}
  BY <1>2 DEF PlanInv
<1>3. CASE \E from, to \in Paths : Promote(from, to)
  BY <1>1, <1>3, OthersFrame
<1>4. CASE Learn \/ ReadSource \/ HashSource
  BY <1>2, <1>4 DEF Learn, ReadSource, HashSource
<1>5. CASE Plan
  BY <1>5, PlanIs DEF PlanInv
<1>6. CASE ReadWeights \/ WriteOutput
  <2>1. job' = job /\ at \in {"tool", "write"}
    BY <1>6 DEF ReadWeights, WriteOutput
  <2> QED
    BY <2>1 DEF PlanInv
<1>7. CASE Stamp \/ LearnerDies
  BY <1>2, <1>7, LearnerFrame DEF Quit
<1> QED
  BY <1>1, <1>2, <1>3, <1>4, <1>5, <1>6, <1>7, LearnerSteps
----------------------------------------------------------------------------
(* The parent of an update, and what becomes of it.                        *)

LEMMA MadeGrows ==
  ASSUME TypeOK, NEW content \in Content, Written(content)
  PROVE  /\ Len(made') = Len(made) + 1 /\ Len(made) \in Nat
         /\ DOMAIN made' = DOMAIN made \cup {Len(made) + 1}
         /\ Len(made) + 1 \notin DOMAIN made
         /\ made'[Len(made) + 1] = content
         /\ \A c \in DOMAIN made : made'[c] = made[c]
         /\ \A p \in Paths : file'[p] = IF p = job.output THEN Len(made) + 1 ELSE file[p]
<1>1. made' = Append(made, content) /\ file' = [file EXCEPT ![job.output] = Len(made) + 1]
  BY DEF Written
<1>2. made \in Seq(Content) /\ file \in [Paths -> Int]
  BY DEF TypeOK
<1> QED
  BY <1>1, <1>2

LEMMA ArtifactsGrow ==
  ASSUME TypeOK, NEW content \in Content, Written(content)
  PROVE  /\ \A c \in Artifacts : c \in Artifacts'
         /\ \A c \in Artifacts' : c \in Artifacts \/ (c = Len(made) + 1 /\ content.kind = "artifact")
<1>1. /\ DOMAIN made' = DOMAIN made \cup {Len(made) + 1}
      /\ made'[Len(made) + 1] = content
      /\ \A c \in DOMAIN made : made'[c] = made[c]
  BY MadeGrows
<1>2. Artifacts' = {i \in DOMAIN made' : made'[i].kind = "artifact"}
  BY DEF Artifacts
<1>3. ASSUME NEW c \in Artifacts
      PROVE  c \in Artifacts'
  <2>1. c \in DOMAIN made /\ made[c].kind = "artifact"
    BY DEF Artifacts
  <2> QED
    BY <1>1, <1>2, <2>1
<1>4. ASSUME NEW c \in Artifacts'
      PROVE  c \in Artifacts \/ (c = Len(made) + 1 /\ content.kind = "artifact")
  <2>1. c \in DOMAIN made' /\ made'[c].kind = "artifact"
    BY <1>2
  <2>2. CASE c \in DOMAIN made
    <3>1. made[c].kind = "artifact"
      BY <1>1, <2>1, <2>2
    <3> QED
      BY <2>2, <3>1 DEF Artifacts
  <2>3. CASE c = Len(made) + 1
    BY <1>1, <2>1, <2>3
  <2> QED
    BY <1>1, <2>1, <2>2, <2>3
<1> QED
  BY <1>3, <1>4

\* WriteOutput and Stamp, as steps that write content at the output.
LEMMA Writes ==
  ASSUME TypeOK, PlanInv, BaseInv, OutputInv
  PROVE  /\ WriteOutput => \E content \in Outputs : content \in Content /\ Written(content)
         /\ Stamp => StampedOutput \in Content /\ Written(StampedOutput)
         /\ WriteOutput \/ Stamp \/ LearnerDies => job.output \in Paths
                                                   /\ job.output # job.weights
<1>1. ASSUME WriteOutput
      PROVE  \E content \in Outputs : content \in Content /\ Written(content)
  BY <1>1, OutputIs DEF WriteOutput
<1>2. ASSUME Stamp
      PROVE  StampedOutput \in Content /\ Written(StampedOutput)
  BY <1>2, StampedIs DEF Stamp, StampedOutput
<1>3. WriteOutput \/ Stamp \/ LearnerDies => at \in {"write", "stamp"}
  BY DEF WriteOutput, Stamp, LearnerDies
<1> QED
  BY <1>1, <1>2, <1>3 DEF PlanInv

LEMMA BaseStep ==
  ASSUME TypeOK, PlanInv, BaseInv, OutputInv, [Next]_vars
  PROVE  BaseInv'
<1>1. ASSUME UNCHANGED <<made, at, staged, job, base>>,
             job.weights # Null => (~moved' => ~moved /\ file'[job.weights] = file[job.weights])
      PROVE  BaseInv'
  BY <1>1 DEF BaseInv, StagedRecords, TrajectoriesOf, Artifacts
<1>2. CASE at' \notin {"write", "stamp"}
  BY <1>2 DEF BaseInv
<1>3. CASE UNCHANGED <<made, file, at, todo, reading, staged, job, base, moved, spoiled>>
  BY <1>1, <1>3
<1>4. ASSUME NEW from \in Paths, NEW to \in Paths, Promote(from, to)
      PROVE  BaseInv'
  <2>1. UNCHANGED <<made, at, staged, job, base>> /\ file' = [file EXCEPT ![to] = file[from]]
        /\ moved' = (moved \/ (at \in {"write", "stamp"} /\ job.weights = to))
    BY <1>4 DEF Promote
  <2>2. CASE at \in {"write", "stamp"}
    <3>1. ~moved' => ~moved /\ job.weights # to
      BY <2>1, <2>2
    <3>2. job.weights \in Paths \cup {Null}
      BY DEF TypeOK, Job
    <3> QED
      BY <1>1, <2>1, <3>1, <3>2 DEF TypeOK
  <2>3. CASE at \notin {"write", "stamp"}
    BY <1>2, <2>1, <2>3
  <2> QED
    BY <2>2, <2>3
<1>5. CASE Learn \/ ReadSource \/ HashSource \/ Plan
  BY <1>2, <1>5 DEF Learn, ReadSource, HashSource, Plan
<1>6. CASE ReadWeights
  <2>1. UNCHANGED <<made, file, staged, job, moved>> /\ at = "tool"
    BY <1>6, LearnerFrame DEF ReadWeights
  <2>2. CASE job.weights = Null
    <3>1. base' = 0 /\ job.learn # "rl"
      BY <1>6, <2>1, <2>2 DEF ReadWeights, PlanInv
    <3> QED
      BY <2>1, <2>2, <3>1 DEF BaseInv
  <2>3. CASE job.weights # Null
    <3>1. /\ Loadable(job.weights) /\ base' = file[job.weights]
          /\ job.learn = "rl" => \A r \in TrajectoriesOf(StagedRecords) : r.sha = base'
      BY <1>6, <2>3 DEF ReadWeights, OnlyBehaviour, Behaved
    <3>2. base' \in Artifacts
      <4>1. job.weights \in Paths
        BY <2>3 DEF TypeOK, Job
      <4>2. file[job.weights] \in 1 .. Len(made) /\ made \in Seq(Content)
        BY <3>1, <4>1 DEF TypeOK, Loadable
      <4> QED
        BY <3>1, <4>2 DEF Loadable, Artifacts
    <3> QED
      BY <2>1, <2>3, <3>1, <3>2 DEF BaseInv, StagedRecords, TrajectoriesOf, Artifacts
  <2> QED
    BY <2>2, <2>3
<1>7. CASE WriteOutput
  <2>1. PICK content \in Outputs : content \in Content /\ Written(content)
    BY <1>7, Writes
  <2>2. UNCHANGED <<staged, job, base, moved>> /\ at = "write"
    BY <1>7, LearnerFrame DEF WriteOutput
  <2>3. \A c \in Artifacts : c \in Artifacts'
    BY <2>1, ArtifactsGrow
  <2>4. job.weights # Null => file'[job.weights] = file[job.weights]
    <3>1. job.weights # Null => job.weights \in Paths /\ job.weights # job.output
      BY <1>7, Writes DEF TypeOK, Job
    <3> QED
      BY <2>1, <3>1, MadeGrows
  <2> QED
    BY <2>2, <2>3, <2>4 DEF BaseInv, StagedRecords, TrajectoriesOf
<1>8. CASE Stamp \/ LearnerDies
  BY <1>2, <1>8, LearnerFrame DEF Quit
<1> QED
  BY <1>2, <1>3, <1>4, <1>5, <1>6, <1>7, <1>8, LearnerSteps

LEMMA OutputStep ==
  ASSUME TypeOK, PlanInv, BaseInv, OutputInv, StagedInv, [Next]_vars
  PROVE  OutputInv'
<1>1. CASE at' # "stamp"
  BY <1>1 DEF OutputInv
<1>2. CASE UNCHANGED <<made, file, at, todo, reading, staged, job, base, moved, spoiled>>
  BY <1>2 DEF OutputInv, Covered
<1>3. ASSUME NEW from \in Paths, NEW to \in Paths, Promote(from, to)
      PROVE  OutputInv'
  <2>1. UNCHANGED <<made, at, staged, job, base>> /\ file' = [file EXCEPT ![to] = file[from]]
        /\ job.output # to
    BY <1>3 DEF Promote
  <2>2. file'[job.output] = file[job.output]
    BY <2>1 DEF TypeOK
  <2> QED
    BY <2>1, <2>2 DEF OutputInv, Covered
<1>4. CASE Learn \/ ReadSource \/ HashSource \/ Plan \/ ReadWeights
  BY <1>1, <1>4 DEF Learn, ReadSource, HashSource, Plan, ReadWeights
<1>5. CASE WriteOutput
  <2>1. at = "write" /\ UNCHANGED <<staged, job, base>> /\ job.output \in Paths
        /\ job.learn \in {"supervised", "rl"}
    BY <1>5, Writes, LearnerFrame DEF WriteOutput, PlanInv
  <2>2. PICK content \in Outputs : content \in Content /\ Written(content)
    BY <1>5, Writes
  <2>3. /\ file'[job.output] = Len(made) + 1 /\ Len(made) + 1 \in DOMAIN made'
        /\ made'[Len(made) + 1] = content
    BY <2>1, <2>2, MadeGrows
  <2>4. ASSUME NEW learn \in {"supervised", "rl"}, NEW on, NEW steps,
               steps[Len(steps)].on = on, DOMAIN on \subseteq DOMAIN StagedFor(learn),
               \A i \in DOMAIN on : on[i] = StagedFor(learn)[i]
        PROVE  Covered(steps)
    BY <2>4, StagedForIs DEF Covered, StagedInv
  <2>5. ASSUME content.kind = "artifact"
        PROVE  content.parent = base /\ Covered(content.steps)
    <3>1. CASE /\ job.weights = Null /\ base = 0 /\ content.kind = "artifact"
               /\ content.parent = 0
               /\ \E split \in Splits(StagedFor("supervised")) :
                     /\ content.steps = <<[learn |-> "supervised", on |-> split.train]>>
                     /\ content.metrics = [of |-> content.steps, train |-> split.train,
                                           held |-> split.held]
      <4>1. PICK split \in Splits(StagedFor("supervised")) :
                   content.steps = <<[learn |-> "supervised", on |-> split.train]>>
        BY <3>1
      <4>2. content.steps[Len(content.steps)].on = split.train
        BY <4>1
      <4>3. /\ DOMAIN split.train \subseteq DOMAIN StagedFor("supervised")
            /\ \A i \in DOMAIN split.train : split.train[i] = StagedFor("supervised")[i]
        BY StagedForIs, SplitIs
      <4> QED
        BY <3>1, <4>2, <4>3, <2>4
    <3>2. CASE /\ job.weights # Null /\ base \in Artifacts /\ content.kind = "artifact"
               /\ content.parent = base
               /\ content.steps = Append(made[base].steps,
                                         [learn |-> job.learn, on |-> StagedFor(job.learn)])
               /\ content.metrics = Null
      <4> DEFINE step == [learn |-> job.learn, on |-> StagedFor(job.learn)]
      <4>1. made[base].steps \in Seq(StepRec)
        BY <3>2, ContentIs DEF Artifacts
      <4>2. step.on = StagedFor(job.learn)
        OBVIOUS
      <4> HIDE DEF step
      <4>3. content.steps[Len(content.steps)] = step
        BY <3>2, <4>1 DEF step
      <4> QED
        BY <2>1, <2>4, <3>2, <4>2, <4>3
    <3> QED
      BY <2>1, <2>2, <2>5, <3>1, <3>2, OutputIs
  <2> QED
    BY <2>1, <2>3, <2>5 DEF OutputInv, Covered
<1>6. CASE Stamp \/ LearnerDies
  BY <1>1, <1>6, LearnerFrame DEF Quit
<1> QED
  BY <1>1, <1>2, <1>3, <1>4, <1>5, <1>6, LearnerSteps
----------------------------------------------------------------------------
(* What an artifact's steps and metrics say.                               *)

LEMMA EarlierSteps ==
  ASSUME NEW s \in Seq(StepRec), NEW x \in StepRec, NEW k \in DOMAIN s
  PROVE  /\ Append(s, x)[k] = s[k]
         /\ SubSeq(Append(s, x), 1, k - 1) = SubSeq(s, 1, k - 1)
<1>1. k \in 1 .. Len(s) /\ Len(s) \in Nat /\ Len(Append(s, x)) = Len(s) + 1
  OBVIOUS
<1>2. Append(s, x)[k] = s[k]
  BY <1>1
<1>3. k - 1 \in Nat /\ k - 1 <= Len(s)
  BY <1>1
<1>4. SubSeq(s, 1, k - 1) = [i \in 1 .. k - 1 |-> s[i]]
  BY <1>1, <1>3
<1>5. SubSeq(Append(s, x), 1, k - 1) = [i \in 1 .. k - 1 |-> Append(s, x)[i]]
  BY <1>1, <1>3
<1>6. \A i \in 1 .. k - 1 : Append(s, x)[i] = s[i]
  BY <1>1, <1>3
<1> QED
  BY <1>2, <1>4, <1>5, <1>6

LEMMA StepsBefore ==
  ASSUME NEW s \in Seq(StepRec), NEW x \in StepRec
  PROVE  /\ DOMAIN Append(s, x) = DOMAIN s \cup {Len(s) + 1}
         /\ Append(s, x)[Len(s) + 1] = x
         /\ SubSeq(Append(s, x), 1, Len(s) + 1 - 1) = s
<1>1. Len(s) \in Nat /\ Append(s, x) \in Seq(StepRec) /\ Len(Append(s, x)) = Len(s) + 1
  OBVIOUS
<1>2. SubSeq(Append(s, x), 1, Len(s)) = [i \in 1 .. Len(s) |-> Append(s, x)[i]]
  BY <1>1
<1>3. \A i \in 1 .. Len(s) : Append(s, x)[i] = s[i]
  BY <1>1
<1>4. s = [i \in 1 .. Len(s) |-> s[i]]
  BY <1>1
<1>5. Len(s) + 1 - 1 = Len(s)
  BY <1>1
<1>6. SubSeq(Append(s, x), 1, Len(s)) = s
  BY <1>2, <1>3, <1>4
<1> QED
  BY <1>1, <1>5, <1>6

\* A step stays what it was when more contents are written.
LEMMA OwnStepStays ==
  ASSUME NEW steps, NEW k, OwnStep(steps, k),
         DOMAIN made \subseteq DOMAIN made', \A c \in DOMAIN made : made'[c] = made[c]
  PROVE  OwnStep(steps, k)'
BY DEF OwnStep

LEMMA ArtifactFacts ==
  ASSUME TypeOK, ArtifactsInv, NEW a \in Artifacts
  PROVE  /\ a \in DOMAIN made /\ made[a].steps \in Seq(StepRec) /\ made[a].steps # <<>>
         /\ \A k \in DOMAIN made[a].steps : OwnStep(made[a].steps, k)
         /\ OwnMetrics(made[a])
BY ContentIs DEF ArtifactsInv, Artifacts

\* A step on staged files is a step of its own.
LEMMA NewStep ==
  ASSUME TypeOK, RecordsInv, NEW learn \in {"supervised", "rl"}, NEW on,
         DOMAIN on \subseteq DOMAIN StagedFor(learn),
         \A i \in DOMAIN on : on[i] = StagedFor(learn)[i]
  PROVE  /\ \A i, j \in DOMAIN StagedFor(learn) :
               i # j => Apart(StagedFor(learn)[i], StagedFor(learn)[j])
         /\ \A i, j \in DOMAIN on : i # j => Apart(on[i], on[j])
         /\ learn = "supervised" => UNION {on[i] : i \in DOMAIN on} \subseteq OracleRecords
         /\ learn = "rl" => \A r \in UNION {on[i] : i \in DOMAIN on} :
                               r \notin OracleRecords /\ r \in TrajectoriesOf(StagedRecords)
<1>1. /\ DOMAIN StagedFor(learn) \subseteq DOMAIN staged
      /\ \A i \in DOMAIN StagedFor(learn) :
            /\ StagedFor(learn)[i] \subseteq staged[i].records
            /\ learn = "rl" => StagedFor(learn)[i] \cap OracleRecords = {}
            /\ learn = "supervised" => StagedFor(learn)[i] \subseteq OracleRecords
  BY StagedForIs
<1>2. \A i, j \in DOMAIN StagedFor(learn) :
         i # j => Apart(StagedFor(learn)[i], StagedFor(learn)[j])
  BY <1>1 DEF RecordsInv, Apart
<1>3. \A i, j \in DOMAIN on : i # j => Apart(on[i], on[j])
  BY <1>2
<1>4. learn = "supervised" => UNION {on[i] : i \in DOMAIN on} \subseteq OracleRecords
  BY <1>1
<1>5. ASSUME learn = "rl", NEW i \in DOMAIN on, NEW r \in on[i]
      PROVE  r \notin OracleRecords /\ r \in TrajectoriesOf(StagedRecords)
  <2>1. i \in DOMAIN staged /\ r \in staged[i].records /\ r \notin OracleRecords
    BY <1>1, <1>5
  <2>2. i \in 1 .. Len(staged)
    BY <2>1 DEF TypeOK
  <2> QED
    BY <2>1, <2>2 DEF TrajectoriesOf, StagedRecords
<1> QED
  BY <1>2, <1>3, <1>4, <1>5

LEMMA FreshIsOwn ==
  ASSUME TypeOK, RecordsInv, NEW split \in Splits(StagedFor("supervised")),
         NEW content \in Content,
         content.steps = <<[learn |-> "supervised", on |-> split.train]>>,
         content.metrics = [of |-> content.steps, train |-> split.train,
                            held |-> split.held]
  PROVE  /\ content.steps # <<>>
         /\ \A k \in DOMAIN content.steps : OwnStep(content.steps, k)
         /\ OwnMetrics(content)
<1> DEFINE files == StagedFor("supervised")
           step == [learn |-> "supervised", on |-> split.train]
<1>1. /\ DOMAIN split.train \subseteq DOMAIN files /\ DOMAIN split.held \subseteq DOMAIN files
      /\ DOMAIN split.train \cap DOMAIN split.held = {}
      /\ \A i \in DOMAIN split.train : split.train[i] = files[i]
      /\ \A i \in DOMAIN split.held : split.held[i] = files[i]
  BY StagedForIs, SplitIs
<1>2. /\ \A i, j \in DOMAIN files : i # j => Apart(files[i], files[j])
      /\ \A i, j \in DOMAIN split.train : i # j => Apart(split.train[i], split.train[j])
      /\ UNION {split.train[i] : i \in DOMAIN split.train} \subseteq OracleRecords
  BY <1>1, NewStep
<1>3. step.learn = "supervised" /\ step.on = split.train
  OBVIOUS
<1> HIDE DEF step, files
<1>4. content.steps = <<step>>
  BY DEF step
<1>5. DOMAIN content.steps = {1} /\ content.steps[1] = step /\ content.steps # <<>>
  BY <1>4
<1>6. OwnStep(content.steps, 1)
  BY <1>2, <1>3, <1>5 DEF OwnStep, UsedIn
<1>7. ASSUME NEW i \in DOMAIN split.held
      PROVE  Apart(split.held[i], UsedIn(step))
  <2>1. \A j \in DOMAIN split.train : Apart(split.held[i], split.train[j])
    BY <1>1, <1>2
  <2> QED
    BY <1>3, <2>1 DEF UsedIn, Apart
<1>8. OwnMetrics(content)
  <2>1. content.metrics.of = content.steps /\ content.metrics.held = split.held
    OBVIOUS
  <2>2. content.metrics.train = split.train /\ content.steps[Len(content.steps)] = step
    BY <1>4
  <2> QED
    BY <1>3, <1>5, <1>7, <2>1, <2>2 DEF OwnMetrics
<1> QED
  BY <1>5, <1>6, <1>8

LEMMA UpdateIsOwn ==
  ASSUME TypeOK, RecordsInv, ArtifactsInv, BaseInv, at = "write", base \in Artifacts,
         job.learn \in {"supervised", "rl"}, NEW content \in Content,
         content.steps = Append(made[base].steps,
                                [learn |-> job.learn, on |-> StagedFor(job.learn)]),
         content.metrics = Null
  PROVE  /\ content.steps # <<>>
         /\ \A k \in DOMAIN content.steps : OwnStep(content.steps, k)
         /\ OwnMetrics(content)
<1> DEFINE s == made[base].steps
           step == [learn |-> job.learn, on |-> StagedFor(job.learn)]
<1>1. s \in Seq(StepRec) /\ base \in DOMAIN made
  BY ArtifactFacts
<1>2. step \in StepRec
  BY StagedForIs DEF StepRec
<1>3. step.learn = job.learn /\ step.on = StagedFor(job.learn)
  OBVIOUS
<1>4. /\ \A i, j \in DOMAIN step.on : i # j => Apart(step.on[i], step.on[j])
      /\ job.learn = "supervised" => UsedIn(step) \subseteq OracleRecords
      /\ job.learn = "rl" => \A r \in UsedIn(step) :
                                r \notin OracleRecords /\ r \in TrajectoriesOf(StagedRecords)
  BY <1>3, NewStep DEF UsedIn
<1>5. job.learn = "rl" => \A r \in TrajectoriesOf(StagedRecords) : r.sha = base
  BY DEF BaseInv
<1>6. content.steps = Append(s, step)
  OBVIOUS
<1>7. \A k \in DOMAIN s : OwnStep(s, k)
  BY ArtifactFacts
<1> HIDE DEF step
<1>8. /\ DOMAIN content.steps = DOMAIN s \cup {Len(s) + 1}
      /\ content.steps[Len(s) + 1] = step
      /\ SubSeq(content.steps, 1, Len(s) + 1 - 1) = s
  BY <1>1, <1>2, <1>6, StepsBefore
<1>9. OwnStep(content.steps, Len(s) + 1)
  BY <1>1, <1>3, <1>4, <1>5, <1>8 DEF OwnStep
<1>10. ASSUME NEW k \in DOMAIN s
       PROVE  OwnStep(content.steps, k)
  <2>1. content.steps[k] = s[k] /\ SubSeq(content.steps, 1, k - 1) = SubSeq(s, 1, k - 1)
    BY <1>1, <1>2, <1>6, EarlierSteps
  <2> QED
    BY <1>7, <2>1 DEF OwnStep
<1>11. content.steps # <<>>
  BY <1>8
<1> QED
  BY <1>8, <1>9, <1>10, <1>11 DEF OwnMetrics

LEMMA ArtifactsStep ==
  ASSUME TypeOK, RecordsInv, PlanInv, BaseInv, OutputInv, ArtifactsInv, TypeOK', [Next]_vars
  PROVE  ArtifactsInv'
<1>1. ASSUME made' = made
      PROVE  ArtifactsInv'
  BY <1>1 DEF ArtifactsInv, Artifacts, OwnStep, OwnMetrics
<1>2. ASSUME NEW content \in Content, Written(content),
             content.kind = "artifact" =>
               /\ content.steps # <<>>
               /\ \A k \in DOMAIN content.steps : OwnStep(content.steps, k)
               /\ OwnMetrics(content)
      PROVE  ArtifactsInv'
  <2>1. /\ DOMAIN made \subseteq DOMAIN made' /\ \A c \in DOMAIN made : made'[c] = made[c]
        /\ made'[Len(made) + 1] = content
    BY <1>2, MadeGrows
  <2> SUFFICES ASSUME NEW a \in Artifacts'
               PROVE  /\ made'[a].steps # <<>>
                      /\ \A k \in DOMAIN made'[a].steps : (OwnStep(made[a].steps, k))'
                      /\ OwnMetrics(made'[a])
    BY DEF ArtifactsInv, OwnMetrics
  <2>2. \/ a \in Artifacts /\ made'[a] = made[a]
        \/ content.kind = "artifact" /\ made'[a] = content
    BY <1>2, <2>1, ArtifactsGrow DEF Artifacts
  <2>3. CASE a \in Artifacts /\ made'[a] = made[a]
    <3>1. /\ made[a].steps # <<>> /\ OwnMetrics(made[a])
          /\ \A k \in DOMAIN made[a].steps : OwnStep(made[a].steps, k)
      BY <2>3, ArtifactFacts
    <3>2. \A k \in DOMAIN made[a].steps : (OwnStep(made[a].steps, k))'
      BY <2>1, <2>3, <3>1 DEF OwnStep
    <3> QED
      BY <2>3, <3>1, <3>2
  <2>4. CASE content.kind = "artifact" /\ made'[a] = content
    <3>1. \A k \in DOMAIN content.steps : (OwnStep(made[a].steps, k))'
      BY <1>2, <2>1, <2>4 DEF OwnStep
    <3> QED
      BY <1>2, <2>4, <3>1
  <2> QED
    BY <2>2, <2>3, <2>4
<1>3. CASE WriteOutput
  <2>1. PICK content \in Outputs : content \in Content /\ Written(content)
    BY <1>3, Writes
  <2>2. at = "write" /\ job.learn \in {"supervised", "rl"}
    BY <1>3 DEF WriteOutput, PlanInv
  <2>3. content.kind = "artifact" =>
          /\ content.steps # <<>>
          /\ \A k \in DOMAIN content.steps : OwnStep(content.steps, k)
          /\ OwnMetrics(content)
    BY <2>1, <2>2, OutputIs, FreshIsOwn, UpdateIsOwn
  <2> QED
    BY <1>2, <2>1, <2>3
<1>4. CASE Stamp
  <2> DEFINE c == made[file[job.output]]
  <2>1. StampedOutput \in Content /\ Written(StampedOutput) /\ at = "stamp"
    BY <1>4, Writes DEF Stamp
  <2>2. /\ StampedOutput.kind = c.kind /\ StampedOutput.steps = c.steps
        /\ StampedOutput.metrics = c.metrics
    BY <2>1, StampedIs
  <2>3. file[job.output] \in DOMAIN made
    BY <2>1 DEF OutputInv
  <2>4. c.kind = "artifact" =>
          /\ c.steps # <<>> /\ OwnMetrics(c) /\ \A k \in DOMAIN c.steps : OwnStep(c.steps, k)
    BY <2>3, ArtifactFacts DEF Artifacts
  <2> QED
    BY <1>2, <2>1, <2>2, <2>4 DEF OwnMetrics
<1>5. CASE LearnerDies
  BY <1>1, <1>5 DEF LearnerDies
<1>6. CASE Learn \/ ReadSource \/ HashSource \/ Plan \/ ReadWeights
  BY <1>1, <1>6, LearnerFrame
<1>7. CASE \E from, to \in Paths : Promote(from, to)
  BY <1>1, <1>7, OthersFrame
<1> QED
  BY <1>1, <1>3, <1>4, <1>5, <1>6, <1>7, LearnerSteps
----------------------------------------------------------------------------
(* What is on disk says where it comes from.                               *)

LEMMA StampedStep ==
  ASSUME TypeOK, PlanInv, BaseInv, OutputInv, StampedInv, TypeOK', [Next]_vars
  PROVE  StampedInv'
<1>1. CASE UNCHANGED <<made, file, at, todo, reading, staged, job, base, moved, spoiled>>
  BY <1>1 DEF StampedInv, Artifacts, Stamped
<1>2. CASE UNCHANGED <<made, file, spoiled>> /\ at # "stamp"
  BY <1>2 DEF StampedInv, Artifacts, Stamped
<1>3. ASSUME NEW from \in Paths, NEW to \in Paths, Promote(from, to)
      PROVE  StampedInv'
  <2>1. UNCHANGED <<made, at, job, spoiled>> /\ file' = [file EXCEPT ![to] = file[from]]
        /\ job.output # from
    BY <1>3 DEF Promote
  <2>2. \A p \in Paths : file'[p] = IF p = to THEN file[from] ELSE file[p]
    BY <2>1 DEF TypeOK
  <2> SUFFICES ASSUME NEW a \in Artifacts, a \notin spoiled, ~Stamped(made[a]),
                      NEW p \in Paths, file'[p] = a
               PROVE  at = "stamp" /\ job.output = p
    BY <2>1 DEF StampedInv, Artifacts, Stamped
  <2>3. \A q \in Paths : file[q] = a => at = "stamp" /\ job.output = q
    BY DEF StampedInv
  <2> QED
    BY <2>1, <2>2, <2>3
<1>4. ASSUME NEW content \in Content, Written(content), job.output \in Paths,
             spoiled \subseteq spoiled',
             Len(made) + 1 \notin spoiled' /\ content.kind = "artifact" =>
                Stamped(content) \/ (at' = "stamp" /\ job' = job),
             at \in {"write", "stamp"}
      PROVE  StampedInv'
  <2>1. /\ Len(made) + 1 \notin DOMAIN made /\ Len(made) \in Nat
        /\ made'[Len(made) + 1] = content
        /\ \A c \in DOMAIN made : made'[c] = made[c]
        /\ \A p \in Paths : file'[p] = IF p = job.output THEN Len(made) + 1 ELSE file[p]
    BY <1>4, MadeGrows
  <2> SUFFICES ASSUME NEW a \in Artifacts', a \notin spoiled', ~Stamped(made'[a]),
                      NEW p \in Paths, file'[p] = a
               PROVE  at' = "stamp" /\ job'.output = p
    BY DEF StampedInv, Stamped
  <2>2. CASE a \in Artifacts
    <3>1. a \in DOMAIN made /\ made'[a] = made[a] /\ a \notin spoiled
      BY <1>4, <2>1, <2>2 DEF Artifacts
    <3>2. p # job.output /\ file[p] = a
      BY <2>1, <3>1
    <3>3. job.output = p
      BY <2>2, <3>1, <3>2 DEF StampedInv
    <3> QED
      BY <3>2, <3>3
  <2>3. CASE a = Len(made) + 1 /\ content.kind = "artifact"
    <3>1. at' = "stamp" /\ job' = job
      BY <1>4, <2>1, <2>3
    <3>2. file[p] <= Len(made) /\ file[p] \in Int
      BY DEF TypeOK
    <3>3. p = job.output
      BY <2>1, <2>3, <3>2
    <3> QED
      BY <3>1, <3>3
  <2> QED
    BY <1>4, <2>2, <2>3, ArtifactsGrow
<1>5. CASE WriteOutput
  <2>1. PICK content \in Outputs : content \in Content /\ Written(content)
    BY <1>5, Writes
  <2>2. job.output \in Paths /\ spoiled' = spoiled /\ at' = "stamp" /\ job' = job
        /\ at \in {"write", "stamp"}
    BY <1>5, Writes, LearnerFrame DEF WriteOutput
  <2> QED
    BY <1>4, <2>1, <2>2
<1>6. CASE Stamp
  <2>1. /\ StampedOutput \in Content /\ Written(StampedOutput) /\ job.output \in Paths
        /\ at = "stamp"
        /\ spoiled' = IF moved THEN spoiled \cup {Len(made) + 1} ELSE spoiled
    BY <1>6, Writes DEF Stamp
  <2>2. ASSUME Len(made) + 1 \notin spoiled', StampedOutput.kind = "artifact"
        PROVE  Stamped(StampedOutput)
    <3> DEFINE c == made[file[job.output]]
    <3>1. /\ StampedOutput.kind = c.kind /\ StampedOutput.steps = c.steps
          /\ StampedOutput.parent = c.parent /\ StampedOutput.ingest \in Ingest
          /\ StampedOutput.ingest.base = IF job.weights = Null THEN 0 ELSE file[job.weights]
          /\ StampedOutput.ingest.sources = {staged[i].sha : i \in 1 .. Len(staged)}
      BY <2>1, StampedIs
    <3>2. c.parent = base /\ Covered(c.steps)
      BY <2>1, <2>2, <3>1 DEF OutputInv
    <3>3. StampedOutput.ingest # Null
      BY <3>1, LearningAssumption DEF Ingest, Rec
    <3>4. ~moved
      BY <2>1, <2>2
    <3>5. StampedOutput.ingest.base = base
      BY <2>1, <3>1, <3>4 DEF BaseInv
    <3>6. \A k \in DOMAIN staged : staged[k].sha \in StampedOutput.ingest.sources
      BY <3>1 DEF TypeOK
    <3> QED
      BY <3>1, <3>2, <3>3, <3>5, <3>6 DEF Stamped, Covered
  <2> QED
    BY <1>4, <2>1, <2>2
<1>7. CASE LearnerDies
  <2>1. made' = made /\ job.output \in Paths
    BY <1>7, Writes DEF LearnerDies
  <2> SUFFICES ASSUME NEW a \in Artifacts, a \notin spoiled', ~Stamped(made[a]),
                      NEW p \in Paths, file'[p] = a
               PROVE  FALSE
    BY <2>1 DEF StampedInv, Artifacts, Stamped
  <2>2. a \in Nat
    BY DEF Artifacts, TypeOK
  <2>3. CASE file' = [file EXCEPT ![job.output] = Torn] /\ UNCHANGED spoiled
    <3>1. p # job.output /\ file[p] = a
      BY <2>1, <2>2, <2>3 DEF Torn, TypeOK
    <3> QED
      BY <2>3, <3>1 DEF StampedInv
  <2>4. CASE spoiled' = spoiled \cup {file[job.output]} /\ UNCHANGED file
    BY <2>4 DEF StampedInv
  <2> QED
    BY <1>7, <2>3, <2>4 DEF LearnerDies
<1>8. CASE Learn \/ ReadSource \/ HashSource \/ Plan \/ ReadWeights
  BY <1>2, <1>8, LearnerFrame DEF Learn, ReadSource, HashSource, Plan, ReadWeights
<1> QED
  BY <1>1, <1>2, <1>3, <1>5, <1>6, <1>7, <1>8, LearnerSteps

----------------------------------------------------------------------------
(* The theorems.                                                           *)

LEMMA InitIInv ==
  ASSUME Init
  PROVE  IInv
<1>1. \/ made = << >> /\ file = [p \in Paths |-> 0]
      \/ /\ made = <<Bootstrapped>>
         /\ \E q \in Paths : file = [p \in Paths |-> IF p = q THEN 1 ELSE 0]
  BY DEF Init
<1>2. /\ at = "idle" /\ todo = << >> /\ reading = Null
      /\ staged = << >> /\ job = Idle /\ base = 0 /\ moved = FALSE /\ spoiled = {}
      /\ stage = "idle" /\ behaviour = 0 /\ weights = Null /\ index = 0 /\ got = {}
      /\ sampled = 0 /\ told = Archived /\ Archived \subseteq OracleRecords
  BY LearningAssumption DEF Init
<1>2a. /\ log \in [Logs -> SUBSET Rec]
       /\ \A l \in Logs : log[l] \subseteq Archived
       /\ \A l, m \in Logs : l # m => Apart(log[l], log[m])
  <2>1. CASE log = [l \in Logs |-> {}]
    BY <2>1 DEF Apart
  <2>2. CASE \E old \in Logs : log = [l \in Logs |-> IF l = old THEN Archived ELSE {}]
    <3>1. Archived \in SUBSET Rec
      BY <1>2 DEF Rec
    <3> QED
      BY <2>2, <3>1 DEF Apart
  <2> QED
    BY <2>1, <2>2 DEF Init
<1> DEFINE step == [learn |-> "supervised", on |-> <<{}>>]
<1>3. step \in StepRec /\ <<{}>> \in Files /\ step.learn = "supervised" /\ UsedIn(step) = {}
  <2>1. <<{}>> \in [{1} -> SUBSET Rec] /\ {1} \in SUBSET Nat
    OBVIOUS
  <2>2. <<{}>> \in Files
    BY <2>1, FileOf
  <2>3. DOMAIN <<{}>> = {1} /\ <<{}>>[1] = {}
    OBVIOUS
  <2> QED
    BY <2>2, <2>3 DEF StepRec, UsedIn
<1>4. /\ DOMAIN step.on = {1} /\ step.on[1] = {} /\ step.on = <<{}>>
  OBVIOUS
<1>5. Bootstrapped = [kind |-> "artifact", steps |-> <<step>>, parent |-> 0,
                      metrics |-> [of |-> <<step>>, train |-> <<{}>>, held |-> <<>>],
                      ingest |-> [base |-> 0, sources |-> {{}}]]
  BY DEF Bootstrapped
<1> HIDE DEF step
<1>6. <<step>> \in Seq(StepRec) /\ Len(<<step>>) = 1 /\ <<step>>[1] = step
      /\ DOMAIN <<step>> = {1} /\ <<step>> # << >>
  BY <1>3
<1>7. Bootstrapped \in Content
  <2>1. [of |-> <<step>>, train |-> <<{}>>, held |-> <<>>] \in Metrics
    BY <1>3, <1>6, NoFiles DEF Metrics
  <2>2. [base |-> 0, sources |-> {{}}] \in Ingest
    BY DEF Ingest
  <2> QED
    BY <1>5, <1>6, <2>1, <2>2 DEF Content
<1>8. /\ Bootstrapped.steps = <<step>> /\ Bootstrapped.parent = 0
      /\ Bootstrapped.metrics = [of |-> <<step>>, train |-> <<{}>>, held |-> <<>>]
      /\ Bootstrapped.ingest = [base |-> 0, sources |-> {{}}]
  BY <1>5
<1>9. OwnStep(Bootstrapped.steps, 1)
  BY <1>3, <1>4, <1>6, <1>8 DEF OwnStep
<1>10. OwnMetrics(Bootstrapped)
  <2>1. DOMAIN << >> = {}
    OBVIOUS
  <2>2. Bootstrapped.steps[Len(Bootstrapped.steps)] = step
    BY <1>6, <1>8
  <2>3. /\ Bootstrapped.metrics.of = Bootstrapped.steps
        /\ Bootstrapped.metrics.train = step.on /\ Bootstrapped.metrics.held = << >>
    BY <1>4, <1>8
  <2> QED
    BY <2>1, <2>2, <2>3 DEF OwnMetrics
<1>11. Stamped(Bootstrapped)
  <2>1. [base |-> 0, sources |-> {{}}] \in Ingest
    BY DEF Ingest
  <2>2. Bootstrapped.ingest # Null
    BY <1>8, <2>1, LearningAssumption DEF Ingest, Rec
  <2>3. /\ Bootstrapped.ingest.base = 0 /\ Bootstrapped.ingest.sources = {{}}
        /\ Bootstrapped.steps[Len(Bootstrapped.steps)] = step
    BY <1>6, <1>8
  <2>4. \A i \in DOMAIN step.on : \E t \in {{}} : step.on[i] \subseteq t
    <3>1. \A i \in DOMAIN step.on : step.on[i] = {}
      BY <1>4
    <3> QED
      BY <3>1
  <2>5. Bootstrapped.ingest.base = Bootstrapped.parent
    BY <1>8, <2>3
  <2> QED
    BY <2>2, <2>3, <2>4, <2>5, Zenon DEF Stamped
<1>12. ASSUME NEW c \in DOMAIN made
       PROVE  made[c] = Bootstrapped
  <2>1. made = << >> \/ made = <<Bootstrapped>>
    BY <1>1
  <2> QED
    BY <2>1
<1>13. \A a \in Artifacts : made[a] = Bootstrapped
  BY <1>12 DEF Artifacts
<1>14. /\ made \in Seq(Content) /\ file \in [Paths -> Int]
       /\ \A p \in Paths : file[p] <= Len(made)
  <2>1. CASE made = << >> /\ file = [p \in Paths |-> 0]
    BY <2>1
  <2>2. CASE /\ made = <<Bootstrapped>>
             /\ \E q \in Paths : file = [p \in Paths |-> IF p = q THEN 1 ELSE 0]
    <3>1. made \in Seq(Content) /\ Len(made) = 1
      BY <1>7, <2>2
    <3> QED
      BY <2>2, <3>1
  <2> QED
    BY <1>1, <2>1, <2>2
<1>15. << >> \in Seq(Logs) /\ << >> \in Seq(Source) /\ Idle \in Job
  BY DEF Idle, Job
<1>16. TypeOK
  BY <1>2, <1>14, <1>15, <1>2a DEF TypeOK
<1>17. RecordsInv /\ StagedInv
  <2>1. /\ got \subseteq Said /\ \A l \in Logs : log[l] \subseteq Said /\ Apart(log[l], got)
    BY <1>2, <1>2a DEF Said, Apart
  <2>2. DOMAIN staged = {} /\ DOMAIN todo = {}
    BY <1>2
  <2> QED
    BY <1>2, <1>2a, <2>1, <2>2 DEF RecordsInv, StagedInv
<1>18. PlanInv /\ BaseInv /\ OutputInv
  BY <1>2 DEF PlanInv, BaseInv, OutputInv
<1>19. ArtifactsInv
  BY <1>6, <1>8, <1>9, <1>10, <1>13 DEF ArtifactsInv
<1>20. StampedInv
  BY <1>11, <1>13 DEF StampedInv
<1> QED
  BY <1>16, <1>17, <1>18, <1>19, <1>20 DEF IInv

\* The inductive invariant of the collector and the learner.
THEOREM LearningInvariant == Spec => []IInv
<1>1. Init => IInv
  BY InitIInv
<1>2. IInv /\ [Next]_vars => IInv'
  <2> SUFFICES ASSUME IInv, [Next]_vars
               PROVE  IInv'
    OBVIOUS
  <2> USE DEF IInv
  <2>1. TypeOK'
    BY TypeStep
  <2>2. RecordsInv' /\ StagedInv' /\ PlanInv'
    BY <2>1, RecordsStep, StagedStep, PlanStep
  <2>3. BaseInv' /\ OutputInv'
    BY BaseStep, OutputStep
  <2>4. ArtifactsInv' /\ StampedInv'
    BY <2>1, ArtifactsStep, StampedStep
  <2> QED
    BY <2>1, <2>2, <2>3, <2>4
<1> QED
  BY <1>1, <1>2, PTL DEF Spec

\* compare_arm_results and the captured terminal DTOs speak of the same arms, whichever
\* was played first.
LEMMA RewardIsPaired ==
  ASSUME NEW first \in Results, NEW second \in Results, Reward(<<first, second>>) # Null
  PROVE  LET pair == <<first, second>>
             arm == [a \in {"baseline", "learned"} |->
                       pair[CHOOSE i \in 1 .. 2 : ArmOrder[i] = a]]
             reward == Reward(pair)
         IN  /\ reward.resources = arm["learned"].resources - arm["baseline"].resources
             /\ reward.outcome > 0 <=> /\ arm["learned"].outcome = "victory"
                                       /\ arm["baseline"].outcome = "defeat"
             /\ reward.outcome < 0 <=> /\ arm["learned"].outcome = "defeat"
                                       /\ arm["baseline"].outcome = "victory"
<1> DEFINE pair == <<first, second>>
           reward == Reward(pair)
           arm == [a \in {"baseline", "learned"} |->
                     pair[CHOOSE i \in 1 .. 2 : ArmOrder[i] = a]]
           l == pair[Turn("learned")]
           b == pair[Turn("baseline")]
<1>1. ArmOrder = <<"baseline", "learned">> \/ ArmOrder = <<"learned", "baseline">>
  BY DEF ArmOrder
<1>2. ASSUME NEW a \in {"baseline", "learned"}
      PROVE  /\ (CHOOSE i \in 1 .. 2 : ArmOrder[i] = a) = Turn(a) /\ Turn(a) \in 1 .. 2
             /\ Turn(a) = IF a = ArmOrder[1] THEN 1 ELSE 2
  <2>1. ArmOrder[Turn(a)] = a /\ Turn(a) \in 1 .. 2
        /\ \A i \in 1 .. 2 : ArmOrder[i] = a => i = Turn(a)
    BY <1>1 DEF Turn
  <2>2. Turn(a) = IF a = ArmOrder[1] THEN 1 ELSE 2
    BY DEF Turn
  <2> QED
    BY <2>1, <2>2
<1>3. arm["learned"] = l /\ arm["baseline"] = b
  BY <1>2
<1>4. l \in Results /\ b \in Results
  BY <1>2
<1>5. /\ l.outcome \in {"victory", "defeat", "unknown"} /\ l.resources \in {0, 1}
      /\ b.outcome \in {"victory", "defeat", "unknown"} /\ b.resources \in {0, 1}
  BY <1>4 DEF Results
<1>6. /\ l.outcome # "unknown" /\ b.outcome # "unknown"
      /\ reward.outcome = OutcomeScore(l.outcome) - OutcomeScore(b.outcome)
      /\ reward.resources = l.resources - b.resources
  <2> DEFINE dtos == [i \in 1 .. 2 |-> pair[i].resources]
  <2>1. Captured(dtos, "learned") = l.resources /\ Captured(dtos, "baseline") = b.resources
    BY <1>2 DEF Captured
  <2> HIDE DEF dtos
  <2>2. /\ "unknown" \notin {b.outcome, l.outcome}
        /\ reward = [outcome |-> OutcomeScore(l.outcome) - OutcomeScore(b.outcome),
                     resources |-> Captured(dtos, "learned") - Captured(dtos, "baseline")]
    BY DEF Reward, reward, dtos
  <2> QED
    BY <2>1, <2>2
<1> HIDE DEF arm, l, b, reward, pair
<1>7. /\ reward.outcome > 0 <=> (l.outcome = "victory" /\ b.outcome = "defeat")
      /\ reward.outcome < 0 <=> (l.outcome = "defeat" /\ b.outcome = "victory")
  BY <1>5, <1>6 DEF OutcomeScore
<1> QED
  BY <1>3, <1>6, <1>7 DEF arm, reward, pair

\* A step of reinforcement trains on trajectories sampled with exactly the coefficients it
\* changes (_validate_behavior_contract), each once; a reward is the learned arm's.
THEOREM TrainsOnPolicy == Spec => []OnPolicy
<1>1. ASSUME IInv
      PROVE  OnPolicy
  <2>1. ASSUME NEW a \in Artifacts, NEW k \in 1 .. Len(made[a].steps),
               made[a].steps[k].learn = "rl"
        PROVE  LET steps == made[a].steps
               IN  /\ \A r \in UsedIn(steps[k]) :
                         IsTrajectory(r) /\ made[r.sha].steps = SubSeq(steps, 1, k - 1)
                   /\ \A i, j \in DOMAIN steps[k].on :
                         i # j => steps[k].on[i] \cap steps[k].on[j] = {}
                   /\ \A m \in 1 .. k - 1 : UsedIn(steps[k]) \cap UsedIn(steps[m]) = {}
    <3> DEFINE steps == made[a].steps
    <3>1. steps \in Seq(StepRec) /\ \A m \in DOMAIN steps : OwnStep(steps, m)
      BY <1>1, ArtifactFacts DEF IInv
    <3> HIDE DEF steps
    <3>2. Len(steps) \in Nat /\ k \in 1 .. Len(steps) /\ steps[k].learn = "rl"
      BY <2>1, <3>1 DEF steps
    <3>3. OwnStep(steps, k)
      BY <3>1, <3>2
    <3>4. ASSUME NEW m \in 1 .. k - 1, NEW r, r \in UsedIn(steps[k]), r \in UsedIn(steps[m])
          PROVE  FALSE
      <4>1. m \in 1 .. Len(steps) /\ m < k /\ m \in Nat /\ k \in Nat /\ m >= 1
        BY <3>2
      <4>2. OwnStep(steps, m) /\ steps[m] \in StepRec
        BY <3>1, <4>1
      <4>3. steps[m].learn = "rl"
        BY <3>2, <3>3, <3>4, <4>2 DEF OwnStep, StepRec
      <4>4. SubSeq(steps, 1, m - 1) = SubSeq(steps, 1, k - 1)
        BY <3>2, <3>3, <3>4, <4>2, <4>3 DEF OwnStep
      <4>5. Len(SubSeq(steps, 1, m - 1)) = m - 1 /\ Len(SubSeq(steps, 1, k - 1)) = k - 1
        BY <3>1, <3>2, <4>1
      <4> QED
        BY <4>1, <4>4, <4>5
    <3>5. /\ \A r \in UsedIn(steps[k]) :
                IsTrajectory(r) /\ made[r.sha].steps = SubSeq(steps, 1, k - 1)
          /\ \A i, j \in DOMAIN steps[k].on :
                i # j => steps[k].on[i] \cap steps[k].on[j] = {}
      BY <3>2, <3>3 DEF OwnStep, IsTrajectory, Apart
    <3>6. \A m \in 1 .. k - 1 : UsedIn(steps[k]) \cap UsedIn(steps[m]) = {}
      BY <3>4
    <3> QED
      BY <3>5, <3>6 DEF steps
  <2>2. ASSUME NEW first \in Results, NEW second \in Results,
               Reward(<<first, second>>) # Null
        PROVE  LET pair == <<first, second>>
                   arm == [a \in {"baseline", "learned"} |->
                             pair[CHOOSE i \in 1 .. 2 : ArmOrder[i] = a]]
                   reward == Reward(pair)
               IN  /\ reward.resources = arm["learned"].resources - arm["baseline"].resources
                   /\ reward.outcome > 0 <=> /\ arm["learned"].outcome = "victory"
                                             /\ arm["baseline"].outcome = "defeat"
                   /\ reward.outcome < 0 <=> /\ arm["learned"].outcome = "defeat"
                                             /\ arm["baseline"].outcome = "victory"
    BY <2>2, RewardIsPaired
  <2> QED
    BY <2>1, <2>2 DEF OnPolicy
<1> QED
  BY <1>1, LearningInvariant, PTL

\* Metrics found in an artifact were measured on its own coefficients: those of training
\* on exactly what its last step used, those held out on records none of its steps has
\* seen.
THEOREM MetricsAreItsOwn == Spec => []MetricsAreOwn
<1>1. ASSUME IInv
      PROVE  MetricsAreOwn
  <2> SUFFICES ASSUME NEW a \in Artifacts, made[a].metrics # Null
               PROVE  /\ made[a].metrics.of = made[a].steps
                      /\ made[a].metrics.train = made[a].steps[Len(made[a].steps)].on
                      /\ \A i \in DOMAIN made[a].metrics.held, k \in 1 .. Len(made[a].steps) :
                            made[a].metrics.held[i] \cap UsedIn(made[a].steps[k]) = {}
    BY DEF MetricsAreOwn
  <2>1. OwnMetrics(made[a]) /\ made[a].steps \in Seq(StepRec)
    BY <1>1, ArtifactFacts DEF IInv
  <2>2. DOMAIN made[a].steps = 1 .. Len(made[a].steps)
    BY <2>1
  <2> QED
    BY <2>1, <2>2 DEF OwnMetrics, Apart
<1> QED
  BY <1>1, LearningInvariant, PTL

\* An artifact on disk names the artifact and the sources it was trained from, but for an
\* output its learner has not rewritten and one whose parent was replaced meanwhile.
THEOREM IngestIsAlwaysTrue == Spec => []IngestIsTrue
<1>1. ASSUME IInv
      PROVE  IngestIsTrue
  <2> SUFFICES ASSUME NEW p \in Paths, Loadable(p), file[p] \notin spoiled,
                      ~(at = "stamp" /\ job.output = p)
               PROVE  Stamped(made[file[p]])
    BY DEF IngestIsTrue, Stamped
  <2>1. file[p] \in 1 .. Len(made) /\ made \in Seq(Content)
    BY <1>1 DEF Loadable, IInv, TypeOK
  <2>2. file[p] \in Artifacts
    BY <2>1 DEF Loadable, Artifacts
  <2> QED
    BY <1>1, <2>2 DEF IInv, StampedInv
<1> QED
  BY <1>1, LearningInvariant, PTL

----------------------------------------------------------------------------
(* Induction over the subsets of a finite set, largest members, sums.      *)

\* A nonempty set of numbers has a smallest member.
LEMMA SmallestExists ==
  ASSUME NEW T \in SUBSET Nat, T # {}
  PROVE  \E x \in T : \A y \in T : x <= y
<1> DEFINE below == {ss \in Nat \X Nat : ss[1] < ss[2]}
<1>1. IsWellFoundedOn(below, Nat)
  BY NatLessThanWellFounded DEF OpToRel
<1> HIDE DEF below
<1>2. PICK x \in T : \A y \in T : ~ (<<y, x>> \in below)
  BY <1>1, WFMin
<1>3. \A y \in T : <<y, x>> \in Nat \X Nat /\ ~ (<<y, x>>[1] < <<y, x>>[2])
  BY <1>2 DEF below
<1>4. \A y \in T : x <= y
  <2> TAKE y \in T
  <2>1. <<y, x>>[1] = y /\ <<y, x>>[2] = x
    OBVIOUS
  <2>2. ~ (y < x) /\ x \in Nat /\ y \in Nat
    BY <1>3, <2>1
  <2> QED
    BY <2>2
<1> QED
  BY <1>4

\* What fails of a set and then of it without one of its members, fails of no set.
LEMMA NoSmallest ==
  ASSUME NEW S, IsFiniteSet(S), NEW B \in SUBSET SUBSET S,
         \A s \in B : \E x \in s : s \ {x} \in B
  PROVE  B = {}
<1> SUFFICES ASSUME B # {} PROVE FALSE
  OBVIOUS
<1> DEFINE sizes == {Cardinality(s) : s \in B}
<1>1. \A s \in B : IsFiniteSet(s) /\ Cardinality(s) \in Nat
  BY FS_Subset, FS_CardinalityType
<1>2. sizes \in SUBSET Nat /\ sizes # {}
  BY <1>1
<1>3. PICK m \in sizes : \A y \in sizes : m <= y
  <2> HIDE DEF sizes
  <2> QED
    BY <1>2, SmallestExists
<1>4. PICK s \in B : m = Cardinality(s)
  OBVIOUS
<1>5. PICK x \in s : s \ {x} \in B
  OBVIOUS
<1>6. Cardinality(s \ {x}) = Cardinality(s) - 1
  BY <1>1, FS_RemoveElement
<1>7. Cardinality(s \ {x}) \in sizes /\ Cardinality(s) \in Nat
  BY <1>1, <1>5
<1>8. Cardinality(s) <= Cardinality(s \ {x})
  BY <1>3, <1>4, <1>7
<1> QED
  BY <1>6, <1>7, <1>8

LEMMA MaxIsLargest ==
  ASSUME NEW S \in SUBSET Int, IsFiniteSet(S), S # {}
  PROVE  Max(S) \in S /\ \A y \in S : Max(S) >= y
<1> DEFINE largest(s) == \E m \in s : \A y \in s : m >= y
           B == {s \in SUBSET S : s # {} /\ ~largest(s)}
<1>1. ASSUME NEW s \in B
      PROVE  \E x \in s : s \ {x} \in B
  <2>1. PICK x \in s : TRUE
    OBVIOUS
  <2>2. ASSUME NEW m \in s \ {x}, \A y \in s \ {x} : m >= y
        PROVE  FALSE
    <3>1. m \in Int /\ x \in Int /\ \A y \in s : y \in Int
      OBVIOUS
    <3>2. CASE m >= x
      <4>1. \A y \in s : m >= y
        BY <2>2, <3>2
      <4> QED
        BY <4>1
    <3>3. CASE x >= m
      <4>1. \A y \in s : x >= y
        BY <2>2, <3>1, <3>3
      <4> QED
        BY <4>1
    <3> QED
      BY <3>1, <3>2, <3>3
  <2>3. s \ {x} # {}
    <3>1. x >= x
      OBVIOUS
    <3> QED
      BY <3>1
  <2> QED
    BY <2>1, <2>2, <2>3
<1>2. B = {}
  <2>1. B \in SUBSET SUBSET S
    OBVIOUS
  <2> HIDE DEF B
  <2> QED
    BY <1>1, <2>1, NoSmallest
<1>3. \E m \in S : \A y \in S : m >= y
  BY <1>2
<1> QED
  BY <1>3 DEF Max

LEMMA MinIsSmallest ==
  ASSUME NEW S \in SUBSET Nat, S # {}
  PROVE  Min(S) \in S /\ \A y \in S : Min(S) <= y
BY SmallestExists DEF Min

\* g gives each subset of S the sum of f over it.
Totals(f, S, g) ==
  /\ \A s \in SUBSET S : g[s] \in Int
  /\ g[{}] = 0
  /\ \A s \in SUBSET S : \A x \in s : g[s] = f[x] + g[s \ {x}]

SumOver(f, S) == MapThenSumSet(LAMBDA x : f[x], S)

\* The function a sum is read from.
AnyOf(s) == CHOOSE x \in s : TRUE
Iterates(f, S, g) ==
  g = [s \in SUBSET S |-> IF s = {} THEN 0 ELSE f[AnyOf(s)] + g[s \ {AnyOf(s)}]]

LEMMA SumIs ==
  ASSUME NEW f, NEW S
  PROVE  SumOver(f, S) = (CHOOSE g : Iterates(f, S, g))[S]
BY DEF SumOver, MapThenSumSet, MapThenFoldSet, Iterates, AnyOf

\* Sums up to sets of n members.
Partial(f, S, n, g) ==
  /\ g \in [SUBSET S -> Int]
  /\ \A s \in SUBSET S : Cardinality(s) <= n =>
       g[s] = IF s = {} THEN 0 ELSE f[AnyOf(s)] + g[s \ {AnyOf(s)}]

LEMMA PartialExists ==
  ASSUME NEW S, IsFiniteSet(S), NEW f, \A x \in S : f[x] \in Int, NEW n \in Nat
  PROVE  \E g : Partial(f, S, n, g)
<1> DEFINE lacking == {m \in Nat : ~ \E g : Partial(f, S, m, g)}
<1> SUFFICES ASSUME lacking # {} PROVE FALSE
  OBVIOUS
<1>1. PICK m \in lacking : \A y \in lacking : m <= y
  <2>1. lacking \in SUBSET Nat
    OBVIOUS
  <2> HIDE DEF lacking
  <2> QED
    BY <2>1, SmallestExists
<1>2. \A s \in SUBSET S : IsFiniteSet(s) /\ Cardinality(s) \in Nat /\ (Cardinality(s) = 0 <=> s = {})
  BY FS_Subset, FS_CardinalityType, FS_EmptySet
<1>3. CASE m = 0
  <2>1. Partial(f, S, 0, [s \in SUBSET S |-> 0])
    BY <1>2 DEF Partial
  <2> QED
    BY <1>3, <2>1
<1>4. CASE m # 0
  <2>1. m - 1 \in Nat /\ m - 1 \notin lacking
    BY <1>1, <1>4
  <2>2. PICK g : Partial(f, S, m - 1, g)
    BY <2>1
  <2> DEFINE h == [s \in SUBSET S |-> IF s = {} THEN 0 ELSE f[AnyOf(s)] + g[s \ {AnyOf(s)}]]
  <2>3. \A s \in SUBSET S : s # {} => AnyOf(s) \in s /\ s \ {AnyOf(s)} \in SUBSET S
    BY DEF AnyOf
  <2>4. h \in [SUBSET S -> Int]
    BY <2>2, <2>3 DEF Partial
  <2>5. ASSUME NEW s \in SUBSET S, Cardinality(s) <= m, s # {}
        PROVE  h[s \ {AnyOf(s)}] = g[s \ {AnyOf(s)}]
    <3>1. Cardinality(s \ {AnyOf(s)}) = Cardinality(s) - 1
      BY <1>2, <2>3, <2>5, FS_RemoveElement
    <3>2. Cardinality(s \ {AnyOf(s)}) <= m - 1
      BY <1>2, <2>5, <3>1
    <3>3. s \ {AnyOf(s)} \in SUBSET S
      OBVIOUS
    <3> QED
      BY <2>2, <3>2, <3>3 DEF Partial
  <2>6. Partial(f, S, m, h)
    <3>1. \A s \in SUBSET S : h[s] = IF s = {} THEN 0 ELSE f[AnyOf(s)] + g[s \ {AnyOf(s)}]
      OBVIOUS
    <3> HIDE DEF h
    <3> QED
      BY <2>4, <2>5, <3>1 DEF Partial
  <2> QED
    BY <1>1, <2>6
<1> QED
  BY <1>3, <1>4

LEMMA IterateExists ==
  ASSUME NEW S, IsFiniteSet(S), NEW f, \A x \in S : f[x] \in Int
  PROVE  \E g : Iterates(f, S, g)
<1>1. Cardinality(S) \in Nat
  BY FS_CardinalityType
<1>2. PICK g : Partial(f, S, Cardinality(S), g)
  BY <1>1, PartialExists
<1>3. \A s \in SUBSET S : Cardinality(s) <= Cardinality(S)
  BY FS_Subset
<1>4. \A s \in SUBSET S : g[s] = IF s = {} THEN 0 ELSE f[AnyOf(s)] + g[s \ {AnyOf(s)}]
  BY <1>2, <1>3 DEF Partial
<1>5. g = [s \in SUBSET S |-> g[s]]
  BY <1>2 DEF Partial
<1>6. g = [s \in SUBSET S |-> IF s = {} THEN 0 ELSE f[AnyOf(s)] + g[s \ {AnyOf(s)}]]
  BY <1>4, <1>5
<1> QED
  BY <1>6 DEF Iterates

\* Whichever member is taken first, the sum is the same.
LEMMA IterateTotals ==
  ASSUME NEW S, IsFiniteSet(S), NEW f, \A x \in S : f[x] \in Int, NEW g, Iterates(f, S, g)
  PROVE  Totals(f, S, g)
<1>1. \A s \in SUBSET S : g[s] = IF s = {} THEN 0 ELSE f[AnyOf(s)] + g[s \ {AnyOf(s)}]
  <2>1. g = [s \in SUBSET S |-> IF s = {} THEN 0 ELSE f[AnyOf(s)] + g[s \ {AnyOf(s)}]]
    BY DEF Iterates
  <2> DEFINE h == [s \in SUBSET S |-> IF s = {} THEN 0 ELSE f[AnyOf(s)] + g[s \ {AnyOf(s)}]]
  <2>2. \A s \in SUBSET S : h[s] = IF s = {} THEN 0 ELSE f[AnyOf(s)] + g[s \ {AnyOf(s)}]
    OBVIOUS
  <2>3. g = h
    BY <2>1
  <2> HIDE DEF h
  <2> QED
    BY <2>2, <2>3
<1>2. \A s \in SUBSET S : s # {} => AnyOf(s) \in s
  BY DEF AnyOf
<1>3. \A s \in SUBSET S : g[s] \in Int
  <2> DEFINE B == {s \in SUBSET S : g[s] \notin Int}
  <2>1. ASSUME NEW s \in B
        PROVE  \E x \in s : s \ {x} \in B
    <3>1. s # {} /\ g[s] = f[AnyOf(s)] + g[s \ {AnyOf(s)}]
      <4>1. g[s] = IF s = {} THEN 0 ELSE f[AnyOf(s)] + g[s \ {AnyOf(s)}]
        BY <1>1
      <4>2. g[s] \notin Int /\ 0 \in Int
        OBVIOUS
      <4> QED
        BY <4>1, <4>2
    <3>2. AnyOf(s) \in s /\ f[AnyOf(s)] \in Int
      BY <1>2, <3>1
    <3>3. g[s \ {AnyOf(s)}] \notin Int
      BY <3>1, <3>2
    <3> QED
      BY <3>2, <3>3
  <2>2. B \in SUBSET SUBSET S
    OBVIOUS
  <2>3. B = {}
    <3> HIDE DEF B
    <3> QED
      BY <2>1, <2>2, NoSmallest
  <2> QED
    BY <2>3
<1>4. \A s \in SUBSET S : \A x \in s : g[s] = f[x] + g[s \ {x}]
  <2> DEFINE B == {s \in SUBSET S : \E x \in s : g[s] # f[x] + g[s \ {x}]}
  <2>1. ASSUME NEW s \in B
        PROVE  \E x \in s : s \ {x} \in B
    <3>1. PICK x \in s : g[s] # f[x] + g[s \ {x}]
      OBVIOUS
    <3> DEFINE y == AnyOf(s)
    <3>2. y \in s /\ g[s] = f[y] + g[s \ {y}]
      BY <1>1, <1>2
    <3> HIDE DEF y
    <3>3. x # y
      BY <3>1, <3>2
    <3>4. CASE s \ {y} \in B
      BY <3>2, <3>4
    <3>5. CASE s \ {x} \in B
      BY <3>5
    <3>6. CASE s \ {y} \notin B /\ s \ {x} \notin B
      <4>1. g[s \ {y}] = f[x] + g[(s \ {y}) \ {x}]
        BY <3>3, <3>6
      <4>2. g[s \ {x}] = f[y] + g[(s \ {x}) \ {y}]
        BY <3>2, <3>3, <3>6
      <4>3. (s \ {y}) \ {x} = (s \ {x}) \ {y}
        OBVIOUS
      <4>4. g[(s \ {x}) \ {y}] \in Int /\ f[x] \in Int /\ f[y] \in Int
        BY <1>3, <3>2
      <4>5. PICK c \in Int, a \in Int, b \in Int :
              c = g[(s \ {x}) \ {y}] /\ a = f[x] /\ b = f[y]
        BY <4>4
      <4>6. g[s] = b + (a + c)
        BY <3>2, <4>1, <4>3, <4>5
      <4>7. g[s \ {x}] = b + c
        BY <4>2, <4>5
      <4>8. f[x] + g[s \ {x}] = a + (b + c)
        BY <4>5, <4>7
      <4>9. b + (a + c) = a + (b + c)
        BY <4>5
      <4> QED
        BY <3>1, <4>6, <4>8, <4>9
    <3> QED
      BY <3>4, <3>5, <3>6
  <2>2. B \in SUBSET SUBSET S
    OBVIOUS
  <2>3. B = {}
    <3> HIDE DEF B
    <3> QED
      BY <2>1, <2>2, NoSmallest
  <2> QED
    BY <2>3
<1> QED
  BY <1>1, <1>3, <1>4 DEF Totals

LEMMA SumTotals ==
  ASSUME NEW S, IsFiniteSet(S), NEW f, \A x \in S : f[x] \in Int
  PROVE  \E g : Totals(f, S, g) /\ SumOver(f, S) = g[S]
<1> DEFINE g == CHOOSE h : Iterates(f, S, h)
<1>1. Iterates(f, S, g)
  BY IterateExists
<1>2. SumOver(f, S) = g[S]
  BY SumIs
<1> HIDE DEF g
<1> QED
  BY <1>1, <1>2, IterateTotals
-----------------------------------------------------------------------------
(* The ranking of a frontier, and what the pairs of its nodes teach.       *)

LEMMA KeyLength ==
  ASSUME NEW n \in Nat, NEW key \in [1..n -> Int]
  PROVE  DOMAIN key = 1..n /\ Len(key) = n
OBVIOUS

\* Positions with integer keys.
Keyed(key, D) == IsFiniteSet(D) /\ D \subseteq Int /\ \A i \in D : key[i] \in Int

LEMMA AmongIsNumber ==
  ASSUME NEW key, NEW D, Keyed(key, D), NEW i
  PROVE  /\ IsFiniteSet({j \in D : Ahead(key, j, i)})
         /\ PlaceAmong(key, D, i) \in Nat
<1>1. IsFiniteSet({j \in D : Ahead(key, j, i)})
  BY FS_Subset DEF Keyed
<1> QED
  BY <1>1, FS_CardinalityType DEF PlaceAmong

\* What is ahead of i is ahead of all that i is ahead of.
LEMMA AmongGrows ==
  ASSUME NEW key, NEW D, Keyed(key, D), NEW i \in D, NEW j \in D, Ahead(key, j, i)
  PROVE  PlaceAmong(key, D, j) < PlaceAmong(key, D, i)
<1> DEFINE Before(x) == {y \in D : Ahead(key, y, x)}
<1>1. Before(j) \in SUBSET Before(i)
  <2>1. \A x \in D : x \in Int /\ key[x] \in Int
    BY DEF Keyed
  <2> QED
    BY <2>1 DEF Ahead
<1>2. j \in Before(i) /\ j \notin Before(j)
  BY DEF Ahead, Keyed
<1>3. /\ IsFiniteSet(Before(i)) /\ IsFiniteSet(Before(j))
      /\ PlaceAmong(key, D, i) = Cardinality(Before(i)) /\ PlaceAmong(key, D, j) = Cardinality(Before(j))
      /\ PlaceAmong(key, D, i) \in Nat /\ PlaceAmong(key, D, j) \in Nat
  BY AmongIsNumber DEF PlaceAmong
<1> HIDE DEF Before
<1>4. /\ Cardinality(Before(j)) <= Cardinality(Before(i))
      /\ Cardinality(Before(i)) = Cardinality(Before(j)) => Before(i) = Before(j)
  BY <1>1, <1>3, FS_Subset
<1> QED
  BY <1>2, <1>3, <1>4

\* Two positions are never at the same place.
LEMMA AmongIsInjective ==
  ASSUME NEW key, NEW D, Keyed(key, D), NEW i \in D, NEW j \in D, i # j
  PROVE  PlaceAmong(key, D, i) # PlaceAmong(key, D, j)
<1>1. Ahead(key, i, j) \/ Ahead(key, j, i)
  BY DEF Ahead, Keyed
<1>2. PlaceAmong(key, D, i) \in Nat /\ PlaceAmong(key, D, j) \in Nat
  BY AmongIsNumber
<1>3. CASE Ahead(key, i, j)
  <2>1. PlaceAmong(key, D, i) < PlaceAmong(key, D, j)
    BY <1>3, AmongGrows
  <2> QED
    BY <1>2, <2>1
<1>4. CASE Ahead(key, j, i)
  <2>1. PlaceAmong(key, D, j) < PlaceAmong(key, D, i)
    BY <1>4, AmongGrows
  <2> QED
    BY <1>2, <2>1
<1> QED
  BY <1>1, <1>3, <1>4

LEMMA AmongIsBelow ==
  ASSUME NEW key, NEW D, Keyed(key, D), NEW i \in D
  PROVE  /\ Cardinality(D) \in Nat
         /\ PlaceAmong(key, D, i) \in 0..(Cardinality(D) - 1)
<1> DEFINE Before == {y \in D : Ahead(key, y, i)}
<1>1. Before \in SUBSET D /\ i \notin Before
  BY DEF Ahead, Keyed
<1>2. IsFiniteSet(D) /\ Cardinality(D) \in Nat
  BY FS_CardinalityType DEF Keyed
<1>3. /\ Cardinality(Before) <= Cardinality(D)
      /\ Cardinality(D) = Cardinality(Before) => D = Before
  BY <1>1, <1>2, FS_Subset
<1>4. PlaceAmong(key, D, i) = Cardinality(Before) /\ PlaceAmong(key, D, i) \in Nat
  BY AmongIsNumber DEF PlaceAmong
<1> HIDE DEF Before
<1>5. Cardinality(Before) # Cardinality(D)
  BY <1>1, <1>2, <1>3
<1> QED
  BY <1>2, <1>3, <1>4, <1>5

\* Every place is somebody's.
LEMMA AmongIsTaken ==
  ASSUME NEW key, NEW D, Keyed(key, D), NEW p \in 1..Cardinality(D)
  PROVE  \E i \in D : PlaceAmong(key, D, i) = p - 1
<1> DEFINE n == Cardinality(D)
           place == [i \in D |-> PlaceAmong(key, D, i)]
<1>1. IsFiniteSet(D) /\ n \in Nat
  BY FS_CardinalityType DEF Keyed
<1>2. IsFiniteSet(0..(n - 1)) /\ Cardinality(0..(n - 1)) = n
  <2> HIDE DEF n
  <2> QED
    BY <1>1, FS_Interval
<1>3. place \in Injection(D, 0..(n - 1))
  <2>1. place \in [D -> 0..(n - 1)]
    BY AmongIsBelow
  <2>2. \A i, j \in D : i # j => place[i] # place[j]
    BY AmongIsInjective
  <2> HIDE DEF place
  <2> QED
    BY <2>1, <2>2 DEF Injection, IsInjective
<1>4. place \in Surjection(D, 0..(n - 1))
  <2> HIDE DEF place
  <2> QED
    BY <1>1, <1>2, <1>3, FS_Injection
<1>5. \E i \in D : place[i] = p - 1
  <2>1. p - 1 \in 0..(n - 1)
    BY <1>1
  <2> HIDE DEF place, n
  <2> QED
    BY <1>4, <2>1 DEF Surjection
<1> QED
  BY <1>5

\* The places of all positions of a sequence of integers.
LEMMA AllKeyed ==
  ASSUME NEW n \in Nat, NEW key \in [1..n -> Int]
  PROVE  Keyed(key, 1..n) /\ Cardinality(1..n) = n /\ \A i : Place(key, i) = PlaceAmong(key, 1..n, i)
<1>1. IsFiniteSet(1..n) /\ Cardinality(1..n) = n
  BY FS_Interval
<1> QED
  BY <1>1, KeyLength DEF Keyed, Place

LEMMA PlaceGrows ==
  ASSUME NEW n \in Nat, NEW key \in [1..n -> Int], NEW i \in 1..n, NEW j \in 1..n,
         Ahead(key, j, i)
  PROVE  /\ Place(key, j) \in Nat /\ Place(key, i) \in Nat
         /\ Place(key, j) < Place(key, i)
<1>1. /\ Keyed(key, 1..n) /\ Place(key, i) = PlaceAmong(key, 1..n, i)
      /\ Place(key, j) = PlaceAmong(key, 1..n, j)
  BY AllKeyed
<1> QED
  BY <1>1, AmongIsNumber, AmongGrows

LEMMA PlaceIsInjective ==
  ASSUME NEW n \in Nat, NEW key \in [1..n -> Int], NEW i \in 1..n, NEW j \in 1..n, i # j
  PROVE  Place(key, i) # Place(key, j)
<1>1. Keyed(key, 1..n) /\ Place(key, i) = PlaceAmong(key, 1..n, i)
      /\ Place(key, j) = PlaceAmong(key, 1..n, j)
  BY AllKeyed
<1> QED
  BY <1>1, AmongIsInjective

LEMMA PlaceIsBelow ==
  ASSUME NEW n \in Nat, NEW key \in [1..n -> Int], NEW i \in 1..n
  PROVE  Place(key, i) \in 0..(n - 1)
BY AllKeyed, AmongIsBelow

LEMMA PlaceIsTaken ==
  ASSUME NEW n \in Nat, NEW key \in [1..n -> Int], NEW p \in 1..n
  PROVE  \E i \in 1..n : Place(key, i) = p - 1
<1>1. /\ Keyed(key, 1..n) /\ Cardinality(1..n) = n
      /\ \A i : Place(key, i) = PlaceAmong(key, 1..n, i)
  BY AllKeyed
<1>2. p \in 1..Cardinality(1..n)
  BY <1>1
<1>3. \E i \in 1..n : PlaceAmong(key, 1..n, i) = p - 1
  BY <1>1, <1>2, AmongIsTaken
<1> QED
  BY <1>1, <1>3

\* The ranking of a key is a permutation of its positions, each at its place.
LEMMA RankingPlaces ==
  ASSUME NEW n \in Nat, NEW key \in [1..n -> Int], NEW p \in 1..n
  PROVE  Ranking(key)[p] \in 1..n /\ Place(key, Ranking(key)[p]) = p - 1
<1>1. Ranking(key)[p] = CHOOSE i \in 1..n : Place(key, i) = p - 1
  BY KeyLength DEF Ranking
<1> QED
  BY <1>1, PlaceIsTaken

LEMMA RankingIsSequence ==
  ASSUME NEW n \in Nat, NEW key \in [1..n -> Int]
  PROVE  Ranking(key) \in [1..n -> 1..n] /\ Len(Ranking(key)) = n
<1>1. Ranking(key) = [p \in 1..n |-> Ranking(key)[p]]
  BY KeyLength DEF Ranking
<1>2. \A p \in 1..n : Ranking(key)[p] \in 1..n
  BY RankingPlaces
<1>3. Ranking(key) \in [1..n -> 1..n]
  BY <1>1, <1>2
<1> QED
  BY <1>3

LEMMA TopKIsSequence ==
  ASSUME NEW n \in Nat, NEW key \in [1..n -> Int], NEW k \in Nat
  PROVE  /\ Len(TopK(key, k)) = (IF k < n THEN k ELSE n)
         /\ DOMAIN TopK(key, k) = 1..(IF k < n THEN k ELSE n)
         /\ \A p \in DOMAIN TopK(key, k) : TopK(key, k)[p] = Ranking(key)[p]
<1> DEFINE m == IF k < n THEN k ELSE n
<1>1. Ranking(key) \in Seq(1..n) /\ Len(Ranking(key)) = n
  BY RankingIsSequence
<1>2. m \in Nat /\ m <= n
  OBVIOUS
<1>3. TopK(key, k) = SubSeq(Ranking(key), 1, m)
  BY KeyLength DEF TopK
<1> HIDE DEF m
<1>4. /\ Len(SubSeq(Ranking(key), 1, m)) = m
      /\ DOMAIN SubSeq(Ranking(key), 1, m) = 1..m
      /\ \A p \in 1..m : SubSeq(Ranking(key), 1, m)[p] = Ranking(key)[p]
  BY <1>1, <1>2
<1>5. /\ Len(TopK(key, k)) = m
      /\ DOMAIN TopK(key, k) = 1..m
      /\ \A p \in DOMAIN TopK(key, k) : TopK(key, k)[p] = Ranking(key)[p]
  BY <1>3, <1>4
<1> QED
  BY <1>5 DEF m

\* What a pruner that keeps the k best of its scores returns passes the engine's
\* check for every frontier, every width and any scores, ties included: distinct
\* indices of the frontier, as many as there is room for, and no more
\* (stable_pruner.py, learned_pruner.py, _validated_pruner_indices).
THEOREM TopKIsAccepted ==
  ASSUME NEW n \in Nat, NEW key \in [1..n -> Int], NEW k \in Nat
  PROVE  /\ ValidIndices(TopK(key, k), n)
         /\ Len(TopK(key, k)) = (IF k < n THEN k ELSE n)
<1> DEFINE m == IF k < n THEN k ELSE n
<1>1. m \in Nat /\ m <= n
  OBVIOUS
<1>2. /\ DOMAIN TopK(key, k) = 1..m
      /\ \A p \in 1..m : TopK(key, k)[p] = Ranking(key)[p]
  BY TopKIsSequence
<1> HIDE DEF m
<1>3. \A p \in 1..m : /\ p \in 1..n
                       /\ TopK(key, k)[p] \in 1..n
                       /\ Place(key, TopK(key, k)[p]) = p - 1
  <2> TAKE p \in 1..m
  <2>1. p \in 1..n
    BY <1>1
  <2>2. Ranking(key)[p] \in 1..n /\ Place(key, Ranking(key)[p]) = p - 1
    BY <2>1, RankingPlaces
  <2> QED
    BY <1>2, <2>1, <2>2
<1>4. \A p, q \in 1..m : p # q => TopK(key, k)[p] # TopK(key, k)[q]
  <2> SUFFICES ASSUME NEW p \in 1..m, NEW q \in 1..m,
                      TopK(key, k)[p] = TopK(key, k)[q]
               PROVE  p = q
    OBVIOUS
  <2>1. p - 1 = q - 1
    BY <1>3
  <2> QED
    BY <1>1, <2>1
<1>5. ValidIndices(TopK(key, k), n)
  BY <1>2, <1>3, <1>4 DEF ValidIndices
<1> QED
  BY <1>5, TopKIsSequence

\* TopSet is TopK as a set.
THEOREM TopSetIsTopK ==
  ASSUME NEW n \in Nat, NEW key \in [1..n -> Int], NEW k \in Nat
  PROVE  TopSet(key, k) = {TopK(key, k)[p] : p \in DOMAIN TopK(key, k)}
<1> DEFINE m == IF k < n THEN k ELSE n
<1>1. /\ DOMAIN TopK(key, k) = 1..m
      /\ \A p \in 1..m : TopK(key, k)[p] = Ranking(key)[p]
  BY TopKIsSequence
<1>2. TopSet(key, k) = {i \in 1..n : Place(key, i) < k}
  BY KeyLength DEF TopSet
<1>3. ASSUME NEW i \in 1..n, Place(key, i) < k
      PROVE  \E p \in 1..m : TopK(key, k)[p] = i
  <2>1. Place(key, i) \in 0..(n - 1)
    BY PlaceIsBelow
  <2>2. Place(key, i) + 1 \in 1..m /\ Place(key, i) + 1 \in 1..n
    BY <1>3, <2>1
  <2>3. PICK p \in 1..m : p \in 1..n /\ p - 1 = Place(key, i)
    BY <2>1, <2>2
  <2>4. Ranking(key)[p] \in 1..n /\ Place(key, Ranking(key)[p]) = p - 1
    BY <2>3, RankingPlaces
  <2>5. Ranking(key)[p] = i
    BY <2>3, <2>4, PlaceIsInjective
  <2> QED
    BY <1>1, <2>5
<1>4. ASSUME NEW p \in 1..m
      PROVE  TopK(key, k)[p] \in 1..n /\ Place(key, TopK(key, k)[p]) < k
  <2>1. p \in 1..n /\ p - 1 < k
    OBVIOUS
  <2>2. Ranking(key)[p] \in 1..n /\ Place(key, Ranking(key)[p]) = p - 1
    BY <2>1, RankingPlaces
  <2> QED
    BY <1>1, <2>1, <2>2
<1> HIDE DEF m
<1> QED
  BY <1>1, <1>2, <1>3, <1>4

\* A pruner that judges every taught pair rightly, in both directions, drops no
\* labelled node for one whose target is lower by more than the pairs' minimum gap,
\* whatever scores it gives the nodes without an outcome
\* (build_pairwise_examples, evaluate_ranker).
THEOREM PerfectPairsKeepTheBest ==
  ASSUME NEW n \in Nat, NEW scores \in [1..n -> Int], NEW k \in Nat, NEW minGap \in Nat,
         NEW labelled \in SUBSET (1..n), NEW target, \A i \in labelled : target[i] \in Int,
         \A p \in Pairs(target, labelled, minGap) : Correct(scores, p) = 2,
         NEW kept \in labelled, kept \in TopSet(scores, k),
         NEW dropped \in labelled, dropped \notin TopSet(scores, k)
  PROVE  target[dropped] - target[kept] <= minGap
<1> SUFFICES ASSUME target[dropped] - target[kept] > minGap
             PROVE  FALSE
  OBVIOUS
<1>1. <<dropped, kept>> \in Pairs(target, labelled, minGap)
  BY DEF Pairs
<1>2. scores[dropped] > scores[kept]
  <2>1. Correct(scores, <<dropped, kept>>) = 2
    BY <1>1
  <2>2. scores[dropped] \in Int /\ scores[kept] \in Int
    OBVIOUS
  <2> QED
    BY <2>1, <2>2 DEF Correct
<1>3. Place(scores, dropped) < Place(scores, kept)
  BY <1>2, PlaceGrows DEF Ahead
<1>4. Place(scores, kept) < k /\ ~(Place(scores, dropped) < k)
  BY KeyLength DEF TopSet
<1>5. Place(scores, dropped) \in Nat /\ Place(scores, kept) \in Nat
  BY PlaceIsBelow
<1> QED
  BY <1>3, <1>4, <1>5

\* Of distinct positions, all positions are at the places from 1.
InOrder(key, D, s) ==
  /\ DOMAIN s = 1..Cardinality(D) /\ s \in Seq(D) /\ Len(s) = Cardinality(D)
  /\ Range(s) = D
  /\ \A p, q \in DOMAIN s : p # q => s[p] # s[q]

\* A drawn set in base order has the drawn positions, each once.
LEMMA InBaseOrderIs ==
  ASSUME NEW n \in Nat, NEW key \in [1..n -> Int], NEW drawn, Range(drawn) \subseteq 1..n
  PROVE  InOrder(key, Range(drawn), InBaseOrder(key, drawn))
<1> DEFINE D == Range(drawn)
           m == Cardinality(D)
           s == InBaseOrder(key, drawn)
<1>1. IsFiniteSet(D) /\ Keyed(key, D)
  <2>1. IsFiniteSet(1..n)
    BY FS_Interval
  <2>2. IsFiniteSet(D)
    BY <2>1, FS_Subset
  <2> QED
    BY <2>2 DEF Keyed
<1>2. m \in Nat
  BY <1>1, FS_CardinalityType
<1>3. s = [p \in 1..m |-> CHOOSE i \in D : PlaceAmong(key, D, i) = p - 1]
  BY DEF InBaseOrder
<1> HIDE DEF D, m, s
<1>4. \A p \in 1..m : s[p] \in D /\ PlaceAmong(key, D, s[p]) = p - 1
  <2> TAKE p \in 1..m
  <2>1. \E i \in D : PlaceAmong(key, D, i) = p - 1
    BY <1>1, AmongIsTaken DEF m
  <2>2. s[p] = CHOOSE i \in D : PlaceAmong(key, D, i) = p - 1
    BY <1>3
  <2> QED
    BY <2>1, <2>2
<1>5. DOMAIN s = 1..m
  BY <1>3
<1>6. s \in [1..m -> D]
  <2>1. s = [p \in 1..m |-> s[p]]
    BY <1>3
  <2> QED
    BY <1>4, <2>1
<1>7. s \in Seq(D) /\ Len(s) = m
  BY <1>2, <1>6
<1>8. ASSUME NEW i \in D
      PROVE  \E p \in 1..m : s[p] = i
  <2>1. PlaceAmong(key, D, i) \in 0..(m - 1)
    BY <1>1, AmongIsBelow DEF m
  <2>2. PICK p \in 1..m : p - 1 = PlaceAmong(key, D, i)
    <3>1. PlaceAmong(key, D, i) + 1 \in 1..m
      BY <1>2, <2>1
    <3>2. (PlaceAmong(key, D, i) + 1) - 1 = PlaceAmong(key, D, i)
      BY <2>1
    <3> QED
      BY <3>1, <3>2
  <2>3. s[p] \in D /\ PlaceAmong(key, D, s[p]) = PlaceAmong(key, D, i)
    BY <1>4, <2>2
  <2>4. s[p] = i
    BY <1>1, <2>3, AmongIsInjective
  <2> QED
    BY <2>4
<1>9. Range(s) = D
  BY <1>4, <1>5, <1>8 DEF Range
<1>10. \A p, q \in 1..m : p # q => s[p] # s[q]
  <2> SUFFICES ASSUME NEW p \in 1..m, NEW q \in 1..m, s[p] = s[q]
               PROVE  p = q
    OBVIOUS
  <2>1. p - 1 = q - 1
    BY <1>4
  <2> QED
    BY <1>2, <2>1
<1> QED
  BY <1>5, <1>7, <1>9, <1>10 DEF InOrder, D, m, s

Node == [value : Int, root : Int, structural : BOOLEAN]
Weights == [FeatureNames -> Int]

\* The learned score of every node is a number.
LEMMA FeaturesAreNumbers ==
  ASSUME NEW n \in Nat \ {0}, NEW frontier \in [1..n -> Node], NEW k \in Nat, NEW i \in 1..n
  PROVE  /\ Features(frontier, i, k).node_value \in Int
         /\ Features(frontier, i, k).value_gap_to_max \in Int
         /\ Features(frontier, i, k).root_group_size \in Int
         /\ Features(frontier, i, k).root_group_value_gap_to_max \in Int
         /\ Features(frontier, i, k).structural \in Int
         /\ Features(frontier, i, k).beam_width \in Int
<1> DEFINE value == [j \in 1..n |-> frontier[j].value]
           best(S) == Max({frontier[j].value : j \in S})
           group == {j \in 1..n : frontier[j].root = frontier[i].root}
<1>1. IndexSet(frontier) = 1..n
  BY DEF IndexSet
<1>2. IsFiniteSet(1..n) /\ \A j \in 1..n : frontier[j].value \in Int
  BY FS_Interval DEF Node
<1>3. ASSUME NEW S \in SUBSET (1..n), S # {}
      PROVE  best(S) \in Int
  <2> DEFINE T == {frontier[j].value : j \in S}
  <2>1. T \in SUBSET Int /\ T # {}
    BY <1>2, <1>3
  <2>2. IsFiniteSet(T)
    <3> DEFINE f == [j \in S |-> frontier[j].value]
    <3>1. f \in Surjection(S, T)
      BY DEF Surjection
    <3>2. IsFiniteSet(S)
      BY <1>2, FS_Subset
    <3> HIDE DEF f, T
    <3> QED
      BY <3>1, <3>2, FS_Surjection
  <2>3. Max(T) \in T
    <3> HIDE DEF T
    <3> QED
      BY <2>1, <2>2, MaxIsLargest
  <2> QED
    BY <2>1, <2>3
<1>4. best(1..n) \in Int /\ best(group) \in Int /\ Cardinality(group) \in Int
  <2>1. group \in SUBSET (1..n) /\ i \in group
    OBVIOUS
  <2>2. Cardinality(group) \in Nat
    BY <1>2, <2>1, FS_Subset, FS_CardinalityType
  <2> HIDE DEF best, group
  <2> QED
    BY <1>3, <2>1, <2>2
<1>5. Features(frontier, i, k)
        = [node_value |-> frontier[i].value,
           value_gap_to_max |-> best(1..n) - frontier[i].value,
           root_group_size |-> Cardinality(group),
           root_group_value_gap_to_max |-> best(group) - frontier[i].value,
           structural |-> IF frontier[i].structural THEN 1 ELSE 0,
           beam_width |-> k]
  BY <1>1 DEF Features
<1> HIDE DEF best, group
<1> QED
  BY <1>2, <1>4, <1>5

LEMMA ScoresAreNumbers ==
  ASSUME NEW n \in Nat \ {0}, NEW frontier \in [1..n -> Node], NEW k \in Nat,
         NEW coefficients \in Weights
  PROVE  /\ FeatureMatrix(frontier, k) = [i \in 1..n |-> Features(frontier, i, k)]
         /\ Scores(coefficients, FeatureMatrix(frontier, k)) \in [1..n -> Int]
<1>1. FeatureMatrix(frontier, k) = [i \in 1..n |-> Features(frontier, i, k)]
  BY DEF FeatureMatrix, IndexSet
<1>2. \A a, b \in Int : a * b \in Int
  OBVIOUS
<1>3. ASSUME NEW i \in 1..n
      PROVE  LinearScore(coefficients, Features(frontier, i, k)) \in Int
  <2> DEFINE row == Features(frontier, i, k)
  <2>1. /\ coefficients.node_value \in Int /\ coefficients.value_gap_to_max \in Int
        /\ coefficients.root_group_size \in Int /\ coefficients.root_group_value_gap_to_max \in Int
        /\ coefficients.structural \in Int /\ coefficients.beam_width \in Int
    BY DEF Weights, FeatureNames
  <2>2. /\ row.node_value \in Int /\ row.value_gap_to_max \in Int
        /\ row.root_group_size \in Int /\ row.root_group_value_gap_to_max \in Int
        /\ row.structural \in Int /\ row.beam_width \in Int
    BY FeaturesAreNumbers
  <2> HIDE DEF row
  <2>3. /\ coefficients.node_value * row.node_value \in Int
        /\ coefficients.value_gap_to_max * row.value_gap_to_max \in Int
        /\ coefficients.root_group_size * row.root_group_size \in Int
        /\ coefficients.root_group_value_gap_to_max * row.root_group_value_gap_to_max \in Int
        /\ coefficients.structural * row.structural \in Int
        /\ coefficients.beam_width * row.beam_width \in Int
    BY <1>2, <2>1, <2>2
  <2>4. LinearScore(coefficients, row) \in Int
    BY <2>3 DEF LinearScore
  <2> QED
    BY <2>4 DEF row
<1>4. Scores(coefficients, FeatureMatrix(frontier, k))
        = [i \in 1..n |-> LinearScore(coefficients, Features(frontier, i, k))]
  BY <1>1 DEF Scores
<1> QED
  BY <1>1, <1>3, <1>4

\* What the sampling pruner returns, under the drawn set or with nothing to draw.
LEMMA SurvivorsAre ==
  ASSUME NEW n \in Nat \ {0}, NEW frontier \in [1..n -> Node], NEW k \in Nat \ {0},
         NEW coefficients \in Weights, NEW drawn \in Draws(frontier, k)
  PROVE  LET kept == Survivors(coefficients, frontier, k, drawn)
         IN  /\ kept \in Seq(1..n) /\ Len(kept) <= k /\ ValidIndices(kept, n)
             /\ drawn # <<>> =>
                  /\ n > k /\ ValidIndices(drawn, n) /\ Len(drawn) = k
                  /\ Range(kept) = Range(drawn)
                  /\ kept = InBaseOrder(Scores(coefficients, FeatureMatrix(frontier, k)), drawn)
<1> DEFINE scores == Scores(coefficients, FeatureMatrix(frontier, k))
           kept == Survivors(coefficients, frontier, k, drawn)
<1>1. scores \in [1..n -> Int]
  BY ScoresAreNumbers
<1>2. Len(frontier) = n /\ IndexSet(frontier) = 1..n
  BY DEF IndexSet
<1>3. kept = IF drawn = <<>> THEN Ranking(scores) ELSE InBaseOrder(scores, drawn)
  BY DEF Survivors
<1> HIDE DEF scores, kept
<1>4. CASE drawn = <<>>
  <2>1. n <= k
    <3> SUFFICES ASSUME ~(k >= n) PROVE FALSE
      OBVIOUS
    <3>1. drawn \in [1..k -> IndexSet(frontier)]
      BY <1>2 DEF Draws
    <3>2. DOMAIN drawn = 1..k /\ DOMAIN <<>> = {} /\ 1 \in 1..k
      BY <3>1
    <3> QED
      BY <1>4, <3>2
  <2>2. kept \in [1..n -> 1..n] /\ Len(kept) = n
    BY <1>1, <1>3, <1>4, RankingIsSequence
  <2>3. kept \in Seq(1..n) /\ DOMAIN kept = 1..n
    BY <2>2
  <2>4. \A p, q \in 1..n : p # q => kept[p] # kept[q]
    <3> SUFFICES ASSUME NEW p \in 1..n, NEW q \in 1..n, kept[p] = kept[q]
                 PROVE  p = q
      OBVIOUS
    <3>1. p - 1 = q - 1
      BY <1>1, <1>3, <1>4, RankingPlaces
    <3> QED
      BY <3>1
  <2>5. ValidIndices(kept, n)
    BY <2>2, <2>3, <2>4 DEF ValidIndices
  <2> QED
    BY <1>4, <2>1, <2>2, <2>3, <2>5 DEF kept
<1>5. CASE drawn # <<>>
  <2>1. n > k /\ drawn \in [1..k -> 1..n] /\ \A p, q \in 1..k : p # q => drawn[p] # drawn[q]
    BY <1>2, <1>5 DEF Draws
  <2>2. /\ drawn \in Seq(1..n) /\ Len(drawn) = k /\ DOMAIN drawn = 1..k
        /\ Range(drawn) \subseteq 1..n
    BY <2>1 DEF Range
  <2>3. ValidIndices(drawn, n)
    BY <2>1, <2>2 DEF ValidIndices
  <2>4. InOrder(scores, Range(drawn), kept)
    BY <1>1, <1>3, <1>5, <2>2, InBaseOrderIs
  <2>5. Cardinality(Range(drawn)) <= k
    <3>1. IsFiniteSet(1..k) /\ Cardinality(1..k) = k
      BY FS_Interval
    <3>2. drawn \in Surjection(1..k, Range(drawn))
      BY <2>1, <2>2 DEF Surjection, Range
    <3> QED
      BY <3>1, <3>2, FS_Surjection
  <2>6. kept \in Seq(Range(drawn)) /\ Range(kept) = Range(drawn) /\ Len(kept) <= k
    BY <2>4, <2>5 DEF InOrder
  <2>7. kept \in Seq(1..n)
    BY <2>2, <2>6
  <2>8. ValidIndices(kept, n)
    <3>1. \A p \in DOMAIN kept : kept[p] \in 1..n
      BY <2>7
    <3> QED
      BY <2>4, <3>1 DEF ValidIndices, InOrder
  <2> QED
    BY <1>3, <1>5, <2>1, <2>2, <2>3, <2>6, <2>7, <2>8 DEF kept, scores
<1> QED
  BY <1>4, <1>5

\* The engine's trace of an accepted answer is consistent.
LEMMA TraceOfSelection ==
  ASSUME NEW n \in Nat, NEW frontier, DOMAIN frontier = 1..n, Len(frontier) = n, NEW k \in Nat,
         NEW kept \in Seq(1..n), Len(kept) <= k, ValidIndices(kept, n)
  PROVE  LET trace == PruneTrace(frontier, k, kept)
         IN  /\ TraceIsConsistent(trace)
             /\ DOMAIN trace.nodes = 1..n /\ Len(trace.nodes) = n
             /\ \A i \in 1..n : trace.nodes[i].view = frontier[i]
<1> DEFINE node == [i \in 1..n |-> [index |-> i, kept |-> \E p \in DOMAIN kept : kept[p] = i,
                                    view |-> frontier[i]]]
           trace == PruneTrace(frontier, k, kept)
<1>1. /\ trace.k = k /\ trace.frontier_size = n /\ trace.selected_indices = kept
      /\ trace.nodes = node
  BY DEF PruneTrace, IndexSet
<1>2. DOMAIN node = 1..n /\ Len(node) = n
  OBVIOUS
<1>3. \A i \in 1..n : /\ node[i].index = i /\ node[i].view = frontier[i]
                      /\ node[i].kept = \E p \in DOMAIN kept : kept[p] = i
  OBVIOUS
<1> HIDE DEF node, trace
<1>4. TraceIsConsistent(trace)
  <2>1. Len(trace.nodes) = trace.frontier_size /\ Len(trace.selected_indices) <= trace.k
    BY <1>1, <1>2
  <2>2. ValidIndices(trace.selected_indices, trace.frontier_size)
    BY <1>1
  <2>3. ASSUME NEW i \in DOMAIN trace.nodes
        PROVE  /\ trace.nodes[i].index = i
               /\ trace.nodes[i].kept = \E p \in DOMAIN trace.selected_indices :
                                          trace.selected_indices[p] = i
    <3>1. i \in 1..n /\ trace.nodes[i] = node[i]
      BY <1>1, <1>2, <2>3
    <3>2. node[i].index = i /\ node[i].kept = \E p \in DOMAIN kept : kept[p] = i
      BY <1>3, <3>1, Zenon
    <3> QED
      BY <1>1, <3>1, <3>2, Zenon
  <2> QED
    BY <2>1, <2>2, <2>3, Zenon DEF TraceIsConsistent
<1> QED
  BY <1>1, <1>2, <1>3, <1>4 DEF trace

\* The updater accepts the record of a drawn step under the artifact that wrote it.
LEMMA OwnRecordIsAccepted ==
  ASSUME NEW n \in Nat \ {0}, NEW frontier \in [1..n -> Node], NEW k \in Nat \ {0},
         NEW coefficients \in Weights, NEW drawn \in Draws(frontier, k), drawn # <<>>, NEW behavior
  PROVE  /\ RecordedStep(coefficients, frontier, k, drawn, behavior).returned_indices
            = Survivors(coefficients, frontier, k, drawn)
         /\ StepIsAccepted(RecordedStep(coefficients, frontier, k, drawn, behavior),
                           coefficients, behavior)
<1> DEFINE rows == FeatureMatrix(frontier, k)
           scores == Scores(coefficients, rows)
           kept == Survivors(coefficients, frontier, k, drawn)
           step == RecordedStep(coefficients, frontier, k, drawn, behavior)
<1>1. Len(rows) = n
  <2>1. rows = [i \in 1..n |-> Features(frontier, i, k)]
    BY ScoresAreNumbers
  <2> HIDE DEF rows
  <2> QED
    BY <2>1
<1>2. /\ ValidIndices(kept, n) /\ n > k /\ ValidIndices(drawn, n) /\ Len(drawn) = k
      /\ kept = InBaseOrder(scores, drawn)
  BY SurvivorsAre
<1>3. step = [beam_width |-> k, rows |-> rows, behavior_scores |-> scores,
              sampled_indices |-> drawn, returned_indices |-> InBaseOrder(scores, drawn),
              temperature |-> behavior.temperature, sampler_seed |-> behavior.sampler_seed,
              probability |-> Probability(scores, drawn, behavior.temperature)]
  BY DEF RecordedStep
<1>4. step.returned_indices = kept
  BY <1>2, <1>3
<1> HIDE DEF kept, step, rows
<1>5. StepIsAccepted(step, coefficients, behavior)
  BY <1>1, <1>2, <1>3 DEF StepIsAccepted
<1> QED
  BY <1>4, <1>5 DEF kept, step

\* Under another artifact or behaviour it accepts the record only if those would have
\* scored the nodes and drawn the same.
LEMMA OnlyTheSameIsAccepted ==
  ASSUME NEW coefficients, NEW frontier, NEW k, NEW drawn, NEW behavior, NEW w, NEW b,
         StepIsAccepted(RecordedStep(coefficients, frontier, k, drawn, behavior), w, b)
  PROVE  /\ LearnedTopK(w, frontier, k) = LearnedTopK(coefficients, frontier, k)
         /\ b.temperature = behavior.temperature /\ b.sampler_seed = behavior.sampler_seed
BY DEF StepIsAccepted, RecordedStep, LearnedTopK

\* Two sums of the same size, one never above the other, have the same terms.
LEMMA EqualSums ==
  ASSUME NEW S, IsFiniteSet(S), NEW f \in [S -> Int], NEW h \in [S -> Int],
         \A x \in S : f[x] <= h[x],
         NEW g, Totals(f, S, g), NEW k, Totals(h, S, k), g[S] = k[S]
  PROVE  \A x \in S : f[x] = h[x]
<1> DEFINE low(s) == g[s] <= k[s]
           B == {s \in SUBSET S : ~low(s)}
           C == {s \in SUBSET S : g[s] = k[s] /\ \E x \in s : f[x] # h[x]}
<1>1. ASSUME NEW s \in SUBSET S, NEW x \in s
      PROVE  /\ g[s] \in Int /\ k[s] \in Int /\ f[x] \in Int /\ h[x] \in Int
             /\ g[s \ {x}] \in Int /\ k[s \ {x}] \in Int
             /\ g[s] = f[x] + g[s \ {x}] /\ k[s] = h[x] + k[s \ {x}] /\ f[x] <= h[x]
  <2>1. s \ {x} \in SUBSET S
    OBVIOUS
  <2> QED
    BY <2>1 DEF Totals
<1>2. g[{}] = 0 /\ k[{}] = 0
  BY DEF Totals
<1>3. B = {}
  <2>1. ASSUME NEW s \in B
        PROVE  \E x \in s : s \ {x} \in B
    <3>1. s # {}
      BY <1>2
    <3>2. PICK x \in s : TRUE
      BY <3>1
    <3>3. ~(g[s \ {x}] <= k[s \ {x}])
      BY <1>1, <3>2
    <3> QED
      BY <3>2, <3>3
  <2>2. B \in SUBSET SUBSET S
    OBVIOUS
  <2> HIDE DEF B
  <2> QED
    BY <2>1, <2>2, NoSmallest
<1>4. \A s \in SUBSET S : low(s)
  BY <1>3
<1>5. C = {}
  <2>1. ASSUME NEW s \in SUBSET S, NEW x \in s, g[s] = k[s]
        PROVE  f[x] = h[x] /\ g[s \ {x}] = k[s \ {x}]
    <3>1. g[s \ {x}] <= k[s \ {x}]
      BY <1>4
    <3>2. /\ g[s \ {x}] \in Int /\ k[s \ {x}] \in Int /\ f[x] \in Int /\ h[x] \in Int
          /\ g[s] = f[x] + g[s \ {x}] /\ k[s] = h[x] + k[s \ {x}] /\ f[x] <= h[x]
      BY <1>1
    <3>3. f[x] + g[s \ {x}] = h[x] + k[s \ {x}]
      BY <2>1, <3>2
    <3> QED
      BY <3>1, <3>2, <3>3
  <2> QED
    BY <2>1
<1> QED
  BY <1>5

\* The two sums of an accuracy, and what they are sums of.
Terms(scores, pairs, weight, f, h) ==
  \A p \in pairs : /\ f[p] = Min({weight[p[1]], weight[p[2]]}) * Correct(scores, p)
                   /\ h[p] = 2 * Min({weight[p[1]], weight[p[2]]})
Sums(scores, pairs, weight, f, h, g, k) ==
  /\ Totals(f, pairs, g) /\ Totals(h, pairs, k)
  /\ Accuracy(scores, pairs, weight) = [right |-> g[pairs], all |-> k[pairs]]

LEMMA AccuracyIs ==
  ASSUME NEW pairs, IsFiniteSet(pairs), NEW scores, NEW weight,
         NEW f \in [pairs -> Int], NEW h \in [pairs -> Int], Terms(scores, pairs, weight, f, h)
  PROVE  \E g, k : Sums(scores, pairs, weight, f, h, g, k)
<1> DEFINE worth(p) == Min({weight[p[1]], weight[p[2]]})
           Right(g) == g = [s \in SUBSET pairs |->
                              IF s = {} THEN 0
                              ELSE worth(AnyOf(s)) * Correct(scores, AnyOf(s)) + g[s \ {AnyOf(s)}]]
           All(g) == g = [s \in SUBSET pairs |->
                            IF s = {} THEN 0 ELSE 2 * worth(AnyOf(s)) + g[s \ {AnyOf(s)}]]
<1>1. Accuracy(scores, pairs, weight)
        = [right |-> (CHOOSE g : Right(g))[pairs], all |-> (CHOOSE g : All(g))[pairs]]
  BY DEF Accuracy, MapThenSumSet, MapThenFoldSet, AnyOf
<1>2. \A s \in SUBSET pairs : s # {} => AnyOf(s) \in pairs
  BY DEF AnyOf
<1>3. ASSUME NEW g
      PROVE  Right(g) <=> Iterates(f, pairs, g)
  <2>1. \A s \in SUBSET pairs :
          (IF s = {} THEN 0 ELSE worth(AnyOf(s)) * Correct(scores, AnyOf(s)) + g[s \ {AnyOf(s)}])
          = (IF s = {} THEN 0 ELSE f[AnyOf(s)] + g[s \ {AnyOf(s)}])
    BY <1>2 DEF Terms
  <2>2. [s \in SUBSET pairs |->
           IF s = {} THEN 0
           ELSE worth(AnyOf(s)) * Correct(scores, AnyOf(s)) + g[s \ {AnyOf(s)}]]
        = [s \in SUBSET pairs |-> IF s = {} THEN 0 ELSE f[AnyOf(s)] + g[s \ {AnyOf(s)}]]
    BY <2>1
  <2> QED
    BY <2>2 DEF Iterates
<1>4. ASSUME NEW g
      PROVE  All(g) <=> Iterates(h, pairs, g)
  <2>1. \A s \in SUBSET pairs :
          (IF s = {} THEN 0 ELSE 2 * worth(AnyOf(s)) + g[s \ {AnyOf(s)}])
          = (IF s = {} THEN 0 ELSE h[AnyOf(s)] + g[s \ {AnyOf(s)}])
    BY <1>2 DEF Terms
  <2>2. [s \in SUBSET pairs |-> IF s = {} THEN 0 ELSE 2 * worth(AnyOf(s)) + g[s \ {AnyOf(s)}]]
        = [s \in SUBSET pairs |-> IF s = {} THEN 0 ELSE h[AnyOf(s)] + g[s \ {AnyOf(s)}]]
    BY <2>1
  <2> QED
    BY <2>2 DEF Iterates
<1> HIDE DEF Right, All
<1>5. Right(CHOOSE g : Right(g)) /\ All(CHOOSE g : All(g))
  <2>1. (\E g : Right(g)) /\ (\E g : All(g))
    BY <1>3, <1>4, IterateExists
  <2> QED
    BY <2>1
<1>6. /\ Totals(f, pairs, CHOOSE g : Right(g))
      /\ Totals(h, pairs, CHOOSE g : All(g))
  BY <1>3, <1>4, <1>5, IterateTotals
<1> QED
  BY <1>1, <1>6 DEF Sums

LEMMA CorrectIs ==
  ASSUME NEW scores, NEW pair
  PROVE  Correct(scores, pair) \in 0..2
BY DEF Correct

\* An accuracy of one is every pair judged rightly in both directions.
LEMMA PerfectIsEveryPair ==
  ASSUME NEW pairs, IsFiniteSet(pairs), NEW scores, NEW weight,
         \A p \in pairs : weight[p[1]] \in Nat \ {0} /\ weight[p[2]] \in Nat \ {0},
         Accuracy(scores, pairs, weight).right = Accuracy(scores, pairs, weight).all
  PROVE  \A p \in pairs : Correct(scores, p) = 2
<1> DEFINE worth(p) == Min({weight[p[1]], weight[p[2]]})
           f == [p \in pairs |-> worth(p) * Correct(scores, p)]
           h == [p \in pairs |-> 2 * worth(p)]
<1>1. \A p \in pairs : worth(p) \in Nat \ {0}
  <2> TAKE p \in pairs
  <2>1. {weight[p[1]], weight[p[2]]} \in SUBSET Nat /\ {weight[p[1]], weight[p[2]]} # {}
    OBVIOUS
  <2>2. worth(p) \in {weight[p[1]], weight[p[2]]}
    BY <2>1, MinIsSmallest
  <2> QED
    BY <2>2
<1> HIDE DEF worth
<1>2. \A p \in pairs : /\ f[p] \in Int /\ h[p] \in Int /\ f[p] <= h[p]
                       /\ f[p] = h[p] => Correct(scores, p) = 2
  <2> TAKE p \in pairs
  <2>1. worth(p) \in Nat \ {0} /\ Correct(scores, p) \in 0..2
    BY <1>1, CorrectIs
  <2>2. /\ Correct(scores, p) = 0 => f[p] = 0
        /\ Correct(scores, p) = 1 => f[p] = worth(p)
        /\ Correct(scores, p) = 2 => f[p] = 2 * worth(p)
    BY <2>1
  <2> HIDE DEF f
  <2> QED
    BY <2>1, <2>2
<1>3. f \in [pairs -> Int] /\ h \in [pairs -> Int]
  BY <1>2
<1>4. PICK g, k : Sums(scores, pairs, weight, f, h, g, k)
  <2>1. Terms(scores, pairs, weight, f, h)
    BY DEF worth, Terms
  <2> HIDE DEF f, h
  <2> QED
    BY <1>3, <2>1, AccuracyIs
<1>5. Totals(f, pairs, g) /\ Totals(h, pairs, k) /\ g[pairs] = k[pairs]
  BY <1>4 DEF Sums
<1> HIDE DEF f, h
<1>6. \A p \in pairs : f[p] = h[p]
  BY <1>2, <1>3, <1>5, EqualSums
<1> QED
  BY <1>2, <1>6

LEMMA ImageIsFinite ==
  ASSUME NEW S, IsFiniteSet(S), NEW f
  PROVE  IsFiniteSet({f[x] : x \in S})
<1> DEFINE T == {f[x] : x \in S}
           g == [x \in S |-> f[x]]
<1>1. g \in Surjection(S, T)
  BY DEF Surjection
<1> HIDE DEF g, T
<1>2. IsFiniteSet(T)
  BY <1>1, FS_Surjection
<1> QED
  BY <1>2 DEF T

\* Of a kept set whose members are all within a gap of the best labelled node, the
\* best is within the gap, and no better than that node.
LEMMA RegretIsBounded ==
  ASSUME NEW labelled, IsFiniteSet(labelled), NEW target, \A i \in labelled : target[i] \in Int,
         NEW kept \in SUBSET labelled, kept # {}, NEW gap \in Nat,
         \A i \in kept, j \in labelled \ kept : target[j] - target[i] <= gap
  PROVE  BestValueRegret(target, labelled, kept) \in 0..gap
<1> DEFINE T == {target[i] : i \in labelled}
           K == {target[i] : i \in kept}
<1>1. T \in SUBSET Int /\ K \in SUBSET T /\ K # {}
  OBVIOUS
<1>2. IsFiniteSet(T)
  BY ImageIsFinite
<1>3. PICK best \in labelled : target[best] = Max(T)
  <2>1. Max(T) \in T
    <3> HIDE DEF T, K
    <3> QED
      BY <1>1, <1>2, MaxIsLargest
  <2> QED
    BY <2>1
<1>4. PICK some \in kept : target[some] = Max(K)
  <2>1. IsFiniteSet(K)
    <3> HIDE DEF T, K
    <3> QED
      BY <1>1, <1>2, FS_Subset
  <2>2. Max(K) \in K
    <3> HIDE DEF T, K
    <3> QED
      BY <1>1, <2>1, MaxIsLargest
  <2> QED
    BY <2>2
<1>5. target[best] \in Int /\ target[some] \in Int
  OBVIOUS
<1>6. target[best] >= target[some]
  <2>1. target[some] \in T
    OBVIOUS
  <2> HIDE DEF T, K
  <2> QED
    BY <1>1, <1>2, <1>3, <2>1, MaxIsLargest
<1>7. target[best] - target[some] <= gap
  <2>1. CASE best \in kept
    <3>1. target[best] \in K
      BY <2>1
    <3>2. IsFiniteSet(K)
      <4> HIDE DEF T, K
      <4> QED
        BY <1>1, <1>2, FS_Subset
    <3>3. Max(K) >= target[best]
      <4> HIDE DEF T, K
      <4> QED
        BY <1>1, <3>1, <3>2, MaxIsLargest
    <3> QED
      BY <1>4, <1>5, <3>3
  <2>2. CASE best \notin kept
    BY <2>2
  <2> QED
    BY <2>1, <2>2
<1>8. BestValueRegret(target, labelled, kept) = target[best] - target[some]
  BY <1>3, <1>4 DEF BestValueRegret
<1> QED
  BY <1>5, <1>6, <1>7, <1>8

\* The pairs of a frontier are finitely many.
LEMMA PairsAreFinite ==
  ASSUME NEW labelled, IsFiniteSet(labelled), NEW target, NEW gap
  PROVE  IsFiniteSet(Pairs(target, labelled, gap))
<1>1. IsFiniteSet(labelled \X labelled)
  BY FS_Product
<1>2. Pairs(target, labelled, gap) \in SUBSET (labelled \X labelled)
  BY DEF Pairs
<1> QED
  BY <1>1, <1>2, FS_Subset

\* A pruner with an accuracy of one drops no labelled node for one whose target is lower
\* by more than the pairs' minimum gap, and where all it keeps is labelled it loses no
\* more than that against the best, for frontiers, targets and weights of any size
\* (build_pairwise_examples, evaluate_ranker, the metrics of a selection).
THEOREM PerfectAccuracyKeepsTheBest ==
  ASSUME NEW n \in Nat \ {0}, NEW scores \in [1..n -> Int], NEW k \in Nat \ {0},
         NEW minGap \in Nat,
         NEW labelled \in SUBSET (1..n), NEW target, \A i \in labelled : target[i] \in Int,
         NEW weight, \A i \in labelled : weight[i] \in Nat \ {0},
         Accuracy(scores, Pairs(target, labelled, minGap), weight).right
           = Accuracy(scores, Pairs(target, labelled, minGap), weight).all
  PROVE  /\ \A kept \in labelled \cap TopSet(scores, k), dropped \in labelled \ TopSet(scores, k) :
              target[dropped] - target[kept] <= minGap
         /\ TopSet(scores, k) \subseteq labelled =>
              BestValueRegret(target, labelled, TopSet(scores, k)) <= minGap
<1> DEFINE pairs == Pairs(target, labelled, minGap)
           top == TopSet(scores, k)
<1>1. IsFiniteSet(labelled)
  <2>1. IsFiniteSet(1..n)
    BY FS_Interval
  <2> QED
    BY <2>1, FS_Subset
<1>2. \A p \in pairs : Correct(scores, p) = 2
  <2>1. IsFiniteSet(pairs)
    BY <1>1, PairsAreFinite
  <2>2. \A p \in pairs : weight[p[1]] \in Nat \ {0} /\ weight[p[2]] \in Nat \ {0}
    BY DEF Pairs
  <2> HIDE DEF pairs
  <2>3. Accuracy(scores, pairs, weight).right = Accuracy(scores, pairs, weight).all
    BY DEF pairs
  <2> QED
    BY <2>1, <2>2, <2>3, PerfectIsEveryPair
<1>3. ASSUME NEW kept \in labelled \cap top, NEW dropped \in labelled \ top
      PROVE  target[dropped] - target[kept] <= minGap
  BY <1>2, <1>3, PerfectPairsKeepTheBest
<1>4. ASSUME top \subseteq labelled
      PROVE  BestValueRegret(target, labelled, top) <= minGap
  <2>1. top # {}
    <3>1. PICK i \in 1..n : Place(scores, i) = 1 - 1
      <4>1. 1 \in 1..n
        OBVIOUS
      <4> QED
        BY <4>1, PlaceIsTaken
    <3>2. i \in top
      BY <3>1, KeyLength DEF TopSet
    <3> QED
      BY <3>2
  <2>2. \A i \in top, j \in labelled \ top : target[j] - target[i] <= minGap
    BY <1>3, <1>4
  <2> HIDE DEF top
  <2>3. BestValueRegret(target, labelled, top) \in 0..minGap
    BY <1>1, <1>4, <2>1, <2>2, RegretIsBounded
  <2> QED
    BY <2>3
<1> QED
  BY <1>3, <1>4


\* The sums over the subsets of a set do not depend on the set.
LEMMA TotalsAgree ==
  ASSUME NEW L, IsFiniteSet(L), NEW f \in [L -> Int], NEW h, Totals(f, L, h),
         NEW S \in SUBSET L, NEW e, NEW g, Totals(e, S, g), \A x \in S : e[x] = f[x]
  PROVE  g[S] = h[S]
<1> DEFINE B == {s \in SUBSET S : g[s] # h[s]}
<1>1. ASSUME NEW s \in B
      PROVE  \E x \in s : s \ {x} \in B
  <2>1. s # {}
    BY DEF Totals
  <2>2. PICK x \in s : TRUE
    BY <2>1
  <2>3. g[s] = e[x] + g[s \ {x}] /\ h[s] = f[x] + h[s \ {x}] /\ e[x] = f[x]
    BY DEF Totals
  <2>4. g[s \ {x}] # h[s \ {x}]
    BY <2>3
  <2> QED
    BY <2>2, <2>4
<1>2. B \in SUBSET SUBSET S
  OBVIOUS
<1>3. B = {}
  <2> HIDE DEF B
  <2> QED
    BY <1>1, <1>2, FS_Subset, NoSmallest
<1> QED
  BY <1>3

\* The sum over a union of disjoint sets.
Adds(h, X, Y) == h[X] \in Int /\ h[Y] \in Int /\ h[X \cup Y] = h[X] + h[Y]

LEMMA TotalsSplit ==
  ASSUME NEW L, IsFiniteSet(L), NEW f \in [L -> Int], NEW h, Totals(f, L, h),
         NEW X \in SUBSET L, NEW Y \in SUBSET L, X \cap Y = {}
  PROVE  Adds(h, X, Y)
<1> DEFINE B == {y \in SUBSET Y : h[X \cup y] # h[X] + h[y]}
<1>1. ASSUME NEW y \in B
      PROVE  \E x \in y : y \ {x} \in B
  <2>1. h[X] \in Int /\ h[{}] = 0 /\ X \cup {} = X
    BY DEF Totals
  <2>2. y # {}
    <3>1. h[X \cup {}] = h[X] + h[{}]
      <4>1. h[X \cup {}] = h[X]
        BY <2>1
      <4>2. h[X] = h[X] + 0
        BY <2>1
      <4> QED
        BY <2>1, <4>1, <4>2
    <3>2. h[X \cup y] # h[X] + h[y]
      OBVIOUS
    <3> QED
      BY <3>1, <3>2
  <2>3. PICK x \in y : TRUE
    BY <2>2
  <2>4. /\ y \in SUBSET L /\ x \in y /\ X \cup y \in SUBSET L /\ x \in X \cup y
        /\ y \ {x} \in SUBSET L
    OBVIOUS
  <2>5. (X \cup y) \ {x} = X \cup (y \ {x})
    OBVIOUS
  <2>6. h[X \cup y] = f[x] + h[X \cup (y \ {x})]
    BY <2>4, <2>5 DEF Totals
  <2>7. h[y] = f[x] + h[y \ {x}]
    BY <2>4 DEF Totals
  <2>8. f[x] \in Int /\ h[y \ {x}] \in Int
    BY <2>4 DEF Totals
  <2>9. h[X \cup (y \ {x})] # h[X] + h[y \ {x}]
    <3> SUFFICES ASSUME h[X \cup (y \ {x})] = h[X] + h[y \ {x}]
                 PROVE  FALSE
      OBVIOUS
    <3>1. PICK a \in Int, b \in Int, c \in Int : a = f[x] /\ b = h[X] /\ c = h[y \ {x}]
      BY <2>1, <2>8
    <3>2. h[X \cup y] = a + (b + c) /\ h[X] + h[y] = b + (a + c)
      BY <2>6, <2>7, <3>1
    <3>3. a + (b + c) = b + (a + c)
      BY <3>1
    <3> QED
      BY <3>2, <3>3
  <2> QED
    BY <2>3, <2>9
<1>2. B \in SUBSET SUBSET Y
  OBVIOUS
<1>3. B = {}
  <2> HIDE DEF B
  <2> QED
    BY <1>1, <1>2, FS_Subset, NoSmallest
<1> QED
  BY <1>3 DEF Totals, Adds

\* As many terms, none below any of the others.
LEMMA LargerTerms ==
  ASSUME NEW L, IsFiniteSet(L), NEW f \in [L -> Int], NEW h, Totals(f, L, h),
         NEW X \in SUBSET L, NEW Y \in SUBSET L, Cardinality(X) = Cardinality(Y),
         \A x \in X, y \in Y : f[x] >= f[y]
  PROVE  h[X] >= h[Y]
<1> DEFINE less(s, t) == /\ Cardinality(s) = Cardinality(t) /\ \A x \in s, y \in t : f[x] >= f[y]
                         /\ ~(h[s] >= h[t])
           B == {s \in SUBSET L : \E t \in SUBSET L : less(s, t)}
<1>1. ASSUME NEW s \in B
      PROVE  \E x \in s : s \ {x} \in B
  <2>1. PICK t \in SUBSET L : less(s, t)
    OBVIOUS
  <2>2. IsFiniteSet(s) /\ IsFiniteSet(t) /\ Cardinality(s) \in Nat
    BY FS_Subset, FS_CardinalityType
  <2>3. s # {}
    <3> SUFFICES ASSUME s = {} PROVE FALSE
      OBVIOUS
    <3>1. t = {}
      BY <2>1, <2>2, FS_EmptySet
    <3> QED
      BY <2>1, <3>1 DEF Totals
  <2>4. t # {}
    BY <2>1, <2>2, <2>3, FS_EmptySet
  <2>5. PICK x \in s, y \in t : TRUE
    BY <2>3, <2>4
  <2>6. Cardinality(s \ {x}) = Cardinality(t \ {y})
    <3>1. Cardinality(s \ {x}) = Cardinality(s) - 1
      BY <2>2, <2>5, FS_RemoveElement
    <3>2. Cardinality(t \ {y}) = Cardinality(t) - 1
      BY <2>2, <2>5, FS_RemoveElement
    <3> QED
      BY <2>1, <3>1, <3>2
  <2>7. /\ s \ {x} \in SUBSET L /\ t \ {y} \in SUBSET L
        /\ \A u \in s \ {x}, v \in t \ {y} : f[u] >= f[v]
    BY <2>1
  <2>8. ~(h[s \ {x}] >= h[t \ {y}])
    <3>1. /\ h[s] = f[x] + h[s \ {x}] /\ h[t] = f[y] + h[t \ {y}]
          /\ h[s \ {x}] \in Int /\ h[t \ {y}] \in Int /\ f[x] \in Int /\ f[y] \in Int
      BY <2>5, <2>7 DEF Totals
    <3>2. f[x] >= f[y] /\ ~(h[s] >= h[t])
      BY <2>1
    <3> QED
      BY <3>1, <3>2
  <2> QED
    BY <2>5, <2>6, <2>7, <2>8
<1>2. B \in SUBSET SUBSET L
  OBVIOUS
<1>3. B = {}
  <2> HIDE DEF B
  <2> QED
    BY <1>1, <1>2, NoSmallest
<1> QED
  BY <1>3

\* The teacher's nodes are as many as asked for, none worse than one left out.
LEMMA TeacherSetIs ==
  ASSUME NEW labelled, NEW target, Keyed(target, labelled),
         NEW k \in Nat \ {0}, k <= Cardinality(labelled)
  PROVE  /\ TeacherSet(target, labelled, k) \in SUBSET labelled
         /\ Cardinality(TeacherSet(target, labelled, k)) = k
         /\ \A i \in TeacherSet(target, labelled, k), j \in labelled \ TeacherSet(target, labelled, k) :
              target[i] >= target[j]
         /\ \E i \in TeacherSet(target, labelled, k) : \A j \in labelled : target[i] >= target[j]
<1> DEFINE T == TeacherSet(target, labelled, k)
           place == [i \in T |-> PlaceAmong(target, labelled, i)]
<1>1. T = {i \in labelled : PlaceAmong(target, labelled, i) < k}
  BY DEF TeacherSet
<1>2. IsFiniteSet(labelled) /\ Cardinality(labelled) \in Nat /\ \A i \in labelled : target[i] \in Int
  BY FS_CardinalityType DEF Keyed
<1> HIDE DEF T
<1>3. Cardinality(T) = k
  <2>1. IsFiniteSet(T)
    BY <1>1, <1>2, FS_Subset
  <2>2. place \in [T -> 0..(k - 1)]
    <3>1. \A i \in T : PlaceAmong(target, labelled, i) \in Nat
      BY <1>1, AmongIsNumber
    <3> QED
      BY <1>1, <3>1
  <2>3. \A i, j \in T : i # j => place[i] # place[j]
    BY <1>1, AmongIsInjective
  <2>4. \A q \in 0..(k - 1) : \E i \in T : place[i] = q
    <3> TAKE q \in 0..(k - 1)
    <3>1. q + 1 \in 1..Cardinality(labelled) /\ (q + 1) - 1 = q
      BY <1>2
    <3>2. PICK i \in labelled : PlaceAmong(target, labelled, i) = (q + 1) - 1
      BY <3>1, AmongIsTaken
    <3>3. i \in T
      BY <1>1, <3>1, <3>2
    <3> QED
      BY <3>1, <3>2, <3>3
  <2> HIDE DEF place
  <2>5. place \in Bijection(T, 0..(k - 1))
    BY <2>2, <2>3, <2>4 DEF Bijection, Injection, Surjection, IsInjective
  <2>6. Cardinality(0..(k - 1)) = k
    BY FS_Interval
  <2>7. ExistsBijection(T, 0..(k - 1))
    BY <2>5 DEF ExistsBijection
  <2> QED
    BY <2>1, <2>6, <2>7, FS_Bijection
<1>4. ASSUME NEW i \in labelled, NEW j \in labelled,
             PlaceAmong(target, labelled, i) < PlaceAmong(target, labelled, j)
      PROVE  target[i] >= target[j]
  <2>1. ~Ahead(target, j, i)
    <3> SUFFICES ASSUME Ahead(target, j, i) PROVE FALSE
      OBVIOUS
    <3>1. PlaceAmong(target, labelled, j) < PlaceAmong(target, labelled, i)
      BY AmongGrows
    <3>2. PlaceAmong(target, labelled, j) \in Nat /\ PlaceAmong(target, labelled, i) \in Nat
      BY AmongIsNumber
    <3> QED
      BY <1>4, <3>1, <3>2
  <2> QED
    BY <1>2, <2>1 DEF Ahead
<1>5. ASSUME NEW i \in T, NEW j \in labelled \ T
      PROVE  target[i] >= target[j]
  <2>1. /\ PlaceAmong(target, labelled, i) \in Nat /\ PlaceAmong(target, labelled, j) \in Nat
        /\ PlaceAmong(target, labelled, i) < k /\ ~(PlaceAmong(target, labelled, j) < k)
    BY <1>1, AmongIsNumber
  <2> QED
    BY <1>1, <1>4, <2>1
<1>6. \E i \in T : \A j \in labelled : target[i] >= target[j]
  <2>1. 1 \in 1..Cardinality(labelled) /\ 1 - 1 = 0
    BY <1>2
  <2>2. PICK i \in labelled : PlaceAmong(target, labelled, i) = 0
    <3>1. \E i \in labelled : PlaceAmong(target, labelled, i) = 1 - 1
      BY <2>1, AmongIsTaken
    <3> QED
      BY <2>1, <3>1
  <2>3. i \in T
    BY <1>1, <2>2
  <2>4. ASSUME NEW j \in labelled
        PROVE  target[i] >= target[j]
    <3>1. CASE i = j
      BY <1>2, <3>1
    <3>2. CASE i # j
      <4>1. PlaceAmong(target, labelled, j) \in Nat
        BY AmongIsNumber
      <4>2. PlaceAmong(target, labelled, j) # PlaceAmong(target, labelled, i)
        BY <3>2, AmongIsInjective
      <4> QED
        BY <1>4, <2>2, <4>1, <4>2
    <3> QED
      BY <3>1, <3>2
  <2> QED
    BY <2>3, <2>4
<1> QED
  BY <1>1, <1>3, <1>5, <1>6 DEF T

\* What a sum over some nodes of a target is.
LEMMA SumOfTargets ==
  ASSUME NEW L, IsFiniteSet(L), NEW target, \A i \in L : target[i] \in Int,
         NEW h, Totals([i \in L |-> target[i]], L, h), NEW S \in SUBSET L
  PROVE  SumOver(target, S) = h[S]
<1> DEFINE f == [i \in L |-> target[i]]
<1>1. IsFiniteSet(S) /\ \A i \in S : target[i] \in Int
  BY FS_Subset
<1>2. PICK g : Totals(target, S, g) /\ SumOver(target, S) = g[S]
  BY <1>1, SumTotals
<1>3. f \in [L -> Int] /\ \A i \in S : target[i] = f[i]
  OBVIOUS
<1>4. Totals(f, L, h)
  OBVIOUS
<1> HIDE DEF f
<1>5. g[S] = h[S]
  BY <1>2, <1>3, <1>4, TotalsAgree
<1> QED
  BY <1>2, <1>5

\* Whatever the labelled nodes, a selection of them that recalls the teacher's has its mean
\* value; its mean value falls behind by at least what its best node does, which is never
\* negative (the metrics of evaluate_selection_metrics).
THEOREM GapBoundsRegret ==
  ASSUME NEW labelled, NEW target, Keyed(target, labelled),
         NEW selected \in SUBSET labelled, selected # {}
  PROVE  LET size == Cardinality(selected)
             gap == SelectedValueGap(target, labelled, selected, size)
         IN  /\ Recall(target, labelled, selected, size) = size => gap = 0
             /\ gap >= BestValueRegret(target, labelled, selected)
             /\ BestValueRegret(target, labelled, selected) >= 0
<1> DEFINE k == Cardinality(selected)
           T == TeacherSet(target, labelled, k)
           f == [i \in labelled |-> target[i]]
           X == T \ selected
           Y == selected \ T
           gap == SelectedValueGap(target, labelled, selected, k)
           regret == BestValueRegret(target, labelled, selected)
<1>1. IsFiniteSet(labelled) /\ \A i \in labelled : target[i] \in Int
  BY DEF Keyed
<1>2. k \in Nat \ {0} /\ k <= Cardinality(labelled) /\ IsFiniteSet(selected)
  <2>1. IsFiniteSet(selected) /\ Cardinality(selected) <= Cardinality(labelled)
    BY <1>1, FS_Subset
  <2> QED
    BY <2>1, FS_CardinalityType, FS_EmptySet
<1> HIDE DEF k
<1>3. /\ T \in SUBSET labelled /\ Cardinality(T) = k
      /\ \A i \in T, j \in labelled \ T : target[i] >= target[j]
      /\ \E i \in T : \A j \in labelled : target[i] >= target[j]
  BY <1>2, TeacherSetIs
<1> HIDE DEF T
<1>4. f \in [labelled -> Int] /\ \A i \in labelled : f[i] = target[i]
  BY <1>1
<1>5. PICK h : Totals(f, labelled, h)
  <2>1. \A x \in labelled : f[x] \in Int
    BY <1>4
  <2> HIDE DEF f
  <2> QED
    BY <1>1, <2>1, SumTotals
<1>6. gap = h[T] - h[selected]
  <2>1. SumOver(target, T) = h[T]
    BY <1>1, <1>3, <1>5, SumOfTargets
  <2>2. SumOver(target, selected) = h[selected]
    BY <1>1, <1>5, SumOfTargets
  <2>3. gap = SumOver(target, T) - SumOver(target, selected)
    BY DEF SelectedValueGap, SumOver, T
  <2> HIDE DEF gap
  <2> QED
    BY <2>1, <2>2, <2>3
<1> HIDE DEF gap
<1>7. IsFiniteSet(T) /\ Cardinality(X) = Cardinality(Y) /\ Cardinality(X) = k - Cardinality(T \cap selected)
  <2>1. IsFiniteSet(T)
    BY <1>1, <1>3, FS_Subset
  <2>2. Cardinality(X) = k - Cardinality(T \cap selected)
    BY <1>3, <2>1, FS_Difference
  <2>3. Cardinality(Y) = k - Cardinality(selected \cap T)
    BY <1>2, FS_Difference DEF k
  <2>4. selected \cap T = T \cap selected
    OBVIOUS
  <2> QED
    BY <2>1, <2>2, <2>3, <2>4
<1>8. /\ h[T \cap selected] \in Int /\ h[X] \in Int /\ h[Y] \in Int
      /\ h[T] = h[T \cap selected] + h[X] /\ h[selected] = h[T \cap selected] + h[Y]
  <2> DEFINE Z == T \cap selected
  <2>1. /\ T = Z \cup X /\ selected = Z \cup Y /\ Z \cap X = {} /\ Z \cap Y = {}
        /\ Z \in SUBSET labelled /\ X \in SUBSET labelled /\ Y \in SUBSET labelled
    BY <1>3
  <2> HIDE DEF X, Y, Z, f
  <2>2. Adds(h, Z, X)
    BY <1>1, <1>4, <1>5, <2>1, TotalsSplit
  <2>3. Adds(h, Z, Y)
    BY <1>1, <1>4, <1>5, <2>1, TotalsSplit
  <2> QED
    BY <2>1, <2>2, <2>3 DEF Z, Adds
<1>9. gap = h[X] - h[Y]
  BY <1>6, <1>8
<1>10. /\ X \in SUBSET labelled /\ Y \in SUBSET labelled
       /\ \A i \in X, j \in Y : f[i] >= f[j]
  BY <1>3, <1>4
<1>11. gap >= 0
  <2> HIDE DEF X, Y, f
  <2>1. h[X] >= h[Y]
    BY <1>1, <1>4, <1>5, <1>7, <1>10, LargerTerms
  <2> QED
    BY <1>8, <1>9, <2>1
<1>12. Recall(target, labelled, selected, k) = k => gap = 0
  <2> SUFFICES ASSUME Recall(target, labelled, selected, k) = k PROVE gap = 0
    OBVIOUS
  <2>1. Cardinality(T \cap selected) = k
    BY DEF Recall, T
  <2>2. Cardinality(X) = 0 /\ Cardinality(Y) = 0
    BY <1>2, <1>7, <2>1
  <2>3. IsFiniteSet(X) /\ IsFiniteSet(Y)
    BY <1>1, <1>10, FS_Subset
  <2>4. X = {} /\ Y = {}
    <3> HIDE DEF X, Y
    <3> QED
      BY <2>2, <2>3, FS_EmptySet
  <2> HIDE DEF X, Y
  <2> QED
    BY <1>8, <1>9, <2>4
<1>13. PICK best \in T : \A j \in labelled : target[best] >= target[j]
  BY <1>3
<1>14. PICK some \in selected : /\ \A j \in selected : target[some] >= target[j]
                                /\ regret = target[best] - target[some]
  <2> DEFINE all == {target[i] : i \in labelled}
             chosen == {target[i] : i \in selected}
  <2>1. all \in SUBSET Int /\ chosen \in SUBSET Int /\ all # {} /\ chosen # {}
    BY <1>1
  <2>2. IsFiniteSet(all) /\ IsFiniteSet(chosen)
    BY <1>1, <1>2, ImageIsFinite
  <2>3. best \in labelled /\ target[best] \in Int /\ target[best] \in all
    BY <1>1, <1>3
  <2>4. /\ Max(all) \in all /\ Max(all) >= target[best]
        /\ Max(chosen) \in chosen /\ \A y \in chosen : Max(chosen) >= y
    <3> HIDE DEF all, chosen
    <3> QED
      BY <2>1, <2>2, <2>3, MaxIsLargest
  <2>5. Max(all) = target[best]
    <3>1. target[best] >= Max(all) /\ Max(all) \in Int
      BY <1>13, <2>1, <2>4
    <3> QED
      BY <2>3, <2>4, <3>1
  <2>6. PICK i \in selected : target[i] = Max(chosen)
    BY <2>4
  <2>7. \A j \in selected : target[i] >= target[j]
    BY <2>4, <2>6
  <2>8. regret = Max(all) - Max(chosen)
    BY DEF BestValueRegret
  <2> QED
    BY <2>5, <2>6, <2>7, <2>8
<1> HIDE DEF regret
<1>15. target[best] \in Int /\ target[some] \in Int /\ target[best] >= target[some]
  BY <1>1, <1>3, <1>13
<1>16. CASE best \in selected
  <2>1. target[some] >= target[best]
    BY <1>14, <1>16
  <2>2. regret = 0
    BY <1>14, <1>15, <2>1
  <2> QED
    BY <1>11, <1>12, <2>2 DEF gap, regret, k
<1>17. CASE best \notin selected
  <2>1. best \in X
    BY <1>17
  <2>2. IsFiniteSet(X) /\ IsFiniteSet(Y)
    BY <1>1, <1>10, FS_Subset
  <2>3. Y # {}
    <3> SUFFICES ASSUME Y = {} PROVE FALSE
      OBVIOUS
    <3>1. Cardinality(X) = 0
      BY <1>7, FS_EmptySet
    <3> HIDE DEF X, Y
    <3> QED
      BY <2>1, <2>2, <3>1, FS_EmptySet
  <2>4. PICK worse \in Y : TRUE
    BY <2>3
  <2>5. target[some] >= target[worse] /\ worse \in labelled /\ target[worse] \in Int
    BY <1>1, <1>14
  <2>6. h[X \ {best}] >= h[Y \ {worse}]
    <3>1. Cardinality(X \ {best}) = Cardinality(X) - 1
      BY <2>1, <2>2, FS_RemoveElement
    <3>2. Cardinality(Y \ {worse}) = Cardinality(Y) - 1
      BY <2>2, <2>4, FS_RemoveElement
    <3>3. /\ X \ {best} \in SUBSET labelled /\ Y \ {worse} \in SUBSET labelled
          /\ \A i \in X \ {best}, j \in Y \ {worse} : f[i] >= f[j]
          /\ Cardinality(X \ {best}) = Cardinality(Y \ {worse})
      BY <1>7, <1>10, <3>1, <3>2
    <3> HIDE DEF X, Y, f
    <3> QED
      BY <1>1, <1>4, <1>5, <3>3, LargerTerms
  <2>7. /\ h[X] = target[best] + h[X \ {best}] /\ h[Y] = target[worse] + h[Y \ {worse}]
        /\ h[X \ {best}] \in Int /\ h[Y \ {worse}] \in Int
    <3>1. /\ X \ {best} \in SUBSET labelled /\ Y \ {worse} \in SUBSET labelled
          /\ f[best] = target[best] /\ f[worse] = target[worse]
      BY <1>10, <2>1, <2>5
    <3> HIDE DEF X, Y, f
    <3> QED
      BY <1>5, <1>10, <2>1, <2>4, <3>1 DEF Totals
  <2>8. gap >= target[best] - target[some]
    BY <1>9, <1>15, <2>5, <2>6, <2>7
  <2> QED
    BY <1>12, <1>14, <1>15, <2>8 DEF gap, regret, k
<1> QED
  BY <1>16, <1>17

----------------------------------------------------------------------------
(* The cases of MCSelections and their answers.                            *)

Sampled == [kept |-> Survivors(case.weights, case.frontier, case.k, case.drawn),
            trace |-> PruneTrace(case.frontier, case.k,
                        Survivors(case.weights, case.frontier, case.k, case.drawn)),
            step |-> IF case.drawn = <<>> THEN None
                     ELSE RecordedStep(case.weights, case.frontier, case.k, case.drawn,
                                       case.behavior)]

Trained == [record |-> Record,
            frontiers |-> IF RecordIsLoaded(Record) THEN [s \in 1..2 |-> Examples(Record, s)]
                          ELSE <<>>]

\* A case is of its kind, and an answer is the answer to it.
CaseInv ==
  /\ case.kind = "sample" =>
       /\ \E frontier \in Frontiers(0..2) : case \in SampleCases(frontier)
       /\ answer # None => answer = Sampled
  /\ case.kind = "teach" =>
       /\ case \in TeachCases
       /\ answer # None => answer = TopSet(case.scores, case.k)
  /\ case.kind = "train" =>
       /\ \E frontier \in Frontiers({0, 2}) : case \in TrainCases(frontier)
       /\ answer # None => answer = Trained

LEMMA KindsAreApart ==
  CaseInit => CaseInv
<1> SUFFICES ASSUME CaseInit PROVE CaseInv
  OBVIOUS
<1>1. answer = None
  BY DEF CaseInit
<1>2. CASE case \in CoverageCases
  BY <1>2, <1>1 DEF CaseInv, CoverageCases
<1>3. CASE case \in TurnCases
  <2>1. case.kind = "propose"
    <3> HIDE <1>1
    <3> QED
      BY <1>3 DEF TurnCases
  <2> QED
    BY <1>1, <2>1 DEF CaseInv
<1>4. CASE case \in ChoiceCases("propose") \/ case \in ChoiceCases("select")
  BY <1>4, <1>1 DEF CaseInv, ChoiceCases
<1>5. CASE case \in SelectorCases
  BY <1>5, <1>1 DEF CaseInv, SelectorCases
<1>6. ASSUME NEW frontier \in Frontiers(0..2), case \in SampleCases(frontier)
      PROVE  CaseInv
  <2>1. case.kind = "sample"
    BY <1>6 DEF SampleCases
  <2> QED
    BY <1>1, <1>6, <2>1 DEF CaseInv
<1>7. ASSUME NEW frontier \in Frontiers({0, 2}), case \in TrainCases(frontier)
      PROVE  CaseInv
  <2>1. case.kind = "train"
    BY <1>7 DEF TrainCases
  <2> QED
    BY <1>1, <1>7, <2>1 DEF CaseInv
<1>8. CASE case \in TeachCases
  <2>1. case.kind = "teach"
    BY <1>8 DEF TeachCases
  <2> QED
    BY <1>1, <1>8, <2>1 DEF CaseInv
<1>9. CASE case \in ValueCases
  BY <1>9, <1>1 DEF CaseInv, ValueCases
<1>10. CASE case \in TargetCases
  <2>1. case.kind = "propose"
    <3> HIDE <1>1
    <3> QED
      BY <1>10 DEF TargetCases
  <2> QED
    BY <1>1, <2>1 DEF CaseInv
<1> QED
  BY <1>2, <1>3, <1>4, <1>5, <1>6, <1>7, <1>8, <1>9, <1>10 DEF CaseInit

\* An answer, once given, stays.
LEMMA AnswersStay ==
  CaseInv /\ [CaseNext]_caseVars => CaseInv'
<1> SUFFICES ASSUME CaseInv, [CaseNext]_caseVars PROVE CaseInv'
  OBVIOUS
<1>1. case' = case
  BY DEF CaseNext, Cover, Propose, Select, Sample, Train, Teach, Evaluate, caseVars
<1>2. case.kind = "sample" => answer' = answer \/ answer' = Sampled
  BY DEF CaseNext, Cover, Propose, Select, Sample, Train, Teach, Evaluate, caseVars, Asked, Sampled
<1>3. case.kind = "teach" => answer' = answer \/ answer' = TopSet(case.scores, case.k)
  BY DEF CaseNext, Cover, Propose, Select, Sample, Train, Teach, Evaluate, caseVars, Asked
<1>4. Sampled' = Sampled /\ Trained' = Trained
  BY <1>1 DEF Sampled, Trained, Record, WholeRecord, Targets
<1>5. case'.kind = "sample" =>
        /\ \E frontier \in Frontiers(0..2) : case' \in SampleCases(frontier)
        /\ answer' # None => answer' = Sampled'
  BY <1>1, <1>2, <1>4 DEF CaseInv
<1>6. case'.kind = "teach" =>
        /\ case' \in TeachCases
        /\ answer' # None => answer' = TopSet(case'.scores, case'.k)
  BY <1>1, <1>3 DEF CaseInv
<1>7. case.kind = "train" => answer' = answer \/ answer' = Trained
  BY DEF CaseNext, Cover, Propose, Select, Sample, Train, Teach, Evaluate, caseVars, Asked, Trained
<1>8. case'.kind = "train" =>
        /\ \E frontier \in Frontiers({0, 2}) : case' \in TrainCases(frontier)
        /\ answer' # None => answer' = Trained'
  BY <1>1, <1>4, <1>7 DEF CaseInv
<1> QED
  BY <1>5, <1>6, <1>8 DEF CaseInv

LEMMA CaseInvariant == CaseSpec => []CaseInv
BY KindsAreApart, AnswersStay, PTL DEF CaseSpec

LEMMA FrontiersAreTyped ==
  ASSUME NEW values, values \subseteq Int, NEW frontier \in Frontiers(values)
  PROVE  \E n \in Nat \ {0} : frontier \in [1..n -> Node]
<1>1. MaxFrontier \in Nat
  BY CaseAssumption
<1>2. PICK n \in 1..MaxFrontier, v \in [1..MaxFrontier -> values],
           r \in {x \in [1..MaxFrontier -> 1..2] : x[1] = 1}, marked \in 0..1 :
        frontier = [i \in 1..n |-> [value |-> v[i], root |-> r[i], structural |-> (i = marked)]]
  BY DEF Frontiers
<1>3. \A i \in 1..n : i \in 1..MaxFrontier
  BY <1>1
<1>4. \A i \in 1..n : v[i] \in Int /\ r[i] \in Int
  <2>1. \A i \in 1..n : v[i] \in values /\ r[i] \in 1..2
    BY <1>3
  <2>2. \A x \in values : x \in Int
    OBVIOUS
  <2>3. \A i \in 1..n : v[i] \in Int
    BY <2>1, <2>2, Zenon
  <2> QED
    BY <2>1, <2>3
<1>5. frontier \in [1..n -> Node]
  BY <1>2, <1>4 DEF Node
<1> QED
  BY <1>1, <1>5

LEMMA WeightingsAreTyped == Weightings \subseteq Weights
BY DEF Weightings, Weights, FeatureNames

LEMMA SampleCaseIs ==
  ASSUME CaseInv, case.kind = "sample"
  PROVE  \E n \in Nat \ {0} :
           /\ case.frontier \in [1..n -> Node] /\ case.k \in Nat \ {0}
           /\ case.weights \in Weights /\ case.drawn \in Draws(case.frontier, case.k)
           /\ case.behavior = [temperature |-> 1, sampler_seed |-> 1]
<1>1. PICK frontier \in Frontiers(0..2) : case \in SampleCases(frontier)
  BY DEF CaseInv
<1>2. PICK k \in 1..2 :
        case \in {[kind |-> "sample", frontier |-> frontier, k |-> k, weights |-> coefficients,
                  drawn |-> drawn, behavior |-> [temperature |-> 1, sampler_seed |-> 1]] :
                    coefficients \in Weightings, drawn \in Draws(frontier, k)}
  BY <1>1 DEF SampleCases
<1>3. PICK coefficients \in Weightings, drawn \in Draws(frontier, k) :
        case = [kind |-> "sample", frontier |-> frontier, k |-> k, weights |-> coefficients,
                drawn |-> drawn, behavior |-> [temperature |-> 1, sampler_seed |-> 1]]
  BY <1>2
<1>4. /\ case.frontier = frontier /\ case.k \in Nat \ {0}
      /\ case.weights \in Weights /\ case.drawn \in Draws(case.frontier, case.k)
      /\ case.behavior = [temperature |-> 1, sampler_seed |-> 1]
  BY <1>3, WeightingsAreTyped
<1>5. 0..2 \subseteq Int
  OBVIOUS
<1> QED
  BY <1>4, <1>5, FrontiersAreTyped

\* A drawn pruning step, from the pruner to the engine, the trace and the updater
\* (pruner_rl.py, update_stable_pruner_rl_v2_impl.py).
THEOREM SampledStepIsAccepted == CaseSpec => []RecordedStepIsAccepted
<1>1. ASSUME CaseInv
      PROVE  RecordedStepIsAccepted
  <2> SUFFICES ASSUME Answered("sample")
               PROVE  /\ ValidIndices(answer.kept, Len(case.frontier))
                      /\ TraceIsConsistent(answer.trace)
                      /\ answer.step # None =>
                           /\ ToSet(answer.kept) = ToSet(case.drawn)
                           /\ answer.step.returned_indices = answer.kept
                           /\ StepIsAccepted(answer.step, case.weights, case.behavior)
                           /\ \A w \in Weightings, b \in Behaviors :
                                StepIsAccepted(answer.step, w, b) =>
                                  /\ b = case.behavior
                                  /\ LearnedTopK(w, case.frontier, case.k)
                                     = LearnedTopK(case.weights, case.frontier, case.k)
    BY DEF RecordedStepIsAccepted
  <2>1. answer = Sampled /\ case.kind = "sample"
    BY <1>1 DEF Answered, CaseInv
  <2>2. PICK n \in Nat \ {0} :
          /\ case.frontier \in [1..n -> Node] /\ case.k \in Nat \ {0}
          /\ case.weights \in Weights /\ case.drawn \in Draws(case.frontier, case.k)
          /\ case.behavior = [temperature |-> 1, sampler_seed |-> 1]
    BY <1>1, <2>1, SampleCaseIs
  <2> DEFINE kept == Survivors(case.weights, case.frontier, case.k, case.drawn)
             step == RecordedStep(case.weights, case.frontier, case.k, case.drawn, case.behavior)
  <2>3. /\ answer.kept = kept /\ answer.trace = PruneTrace(case.frontier, case.k, kept)
        /\ answer.step # None => case.drawn # <<>> /\ answer.step = step
    BY <2>1 DEF Sampled
  <2>4. /\ kept \in Seq(1..n) /\ Len(kept) <= case.k /\ ValidIndices(kept, n)
        /\ case.drawn # <<>> => Range(kept) = Range(case.drawn)
    BY <2>2, SurvivorsAre
  <2>5. Len(case.frontier) = n /\ DOMAIN case.frontier = 1..n
    BY <2>2
  <2>6. TraceIsConsistent(PruneTrace(case.frontier, case.k, kept))
    <3> HIDE DEF kept
    <3> QED
      BY <2>2, <2>4, <2>5, TraceOfSelection
  <2>7. ASSUME case.drawn # <<>>
        PROVE  step.returned_indices = kept /\ StepIsAccepted(step, case.weights, case.behavior)
    BY <2>2, <2>7, OwnRecordIsAccepted
  <2>8. ASSUME NEW w \in Weightings, NEW b \in Behaviors, StepIsAccepted(step, w, b)
        PROVE  /\ b = case.behavior
               /\ LearnedTopK(w, case.frontier, case.k)
                  = LearnedTopK(case.weights, case.frontier, case.k)
    <3>1. /\ LearnedTopK(w, case.frontier, case.k)
             = LearnedTopK(case.weights, case.frontier, case.k)
          /\ b.temperature = case.behavior.temperature
          /\ b.sampler_seed = case.behavior.sampler_seed
      BY <2>8, OnlyTheSameIsAccepted
    <3>2. b = [temperature |-> b.temperature, sampler_seed |-> b.sampler_seed]
      BY DEF Behaviors
    <3>3. b.temperature = 1 /\ b.sampler_seed = 1
      BY <2>2, <3>1
    <3>4. b = case.behavior
      BY <2>2, <3>2, <3>3
    <3> QED
      BY <3>1, <3>4
  <2>9. ToSet(kept) = Range(kept) /\ ToSet(case.drawn) = Range(case.drawn)
    BY DEF ToSet, Range
  <2> HIDE DEF kept, step
  <2> QED
    BY <2>3, <2>4, <2>5, <2>6, <2>7, <2>8, <2>9
<1> QED
  BY <1>1, CaseInvariant, PTL

\* What the pairs of a frontier teach (pruner_training_data.py, train_stable_pruner.py).
THEOREM PairsAlwaysTeach == CaseSpec => []PairsTeachSelection
<1>1. ASSUME CaseInv
      PROVE  PairsTeachSelection
  <2> DEFINE labelled == {i \in DOMAIN case.targets : case.targets[i] # NoTarget}
             weight == [i \in labelled |-> case.weights[i]]
             accuracy == Accuracy(case.scores, Pairs(case.targets, labelled, case.minGap), weight)
  <2> SUFFICES ASSUME Answered("teach"), accuracy.right = accuracy.all
               PROVE  /\ \A kept \in labelled \cap answer, dropped \in labelled \ answer :
                           case.targets[dropped] - case.targets[kept] <= case.minGap
                      /\ answer \subseteq labelled =>
                           BestValueRegret(case.targets, labelled, answer) <= case.minGap
    BY DEF PairsTeachSelection
  <2>1. answer = TopSet(case.scores, case.k) /\ case \in TeachCases
    BY <1>1 DEF Answered, CaseInv
  <2>2. PICK scores \in [1..MaxFrontier -> 0..2], targets \in [1..MaxFrontier -> {NoTarget} \cup 0..2],
             k \in 1..2, gap \in 0..1 :
          case = [kind |-> "teach", scores |-> scores, targets |-> targets, k |-> k, minGap |-> gap,
                  weights |-> [i \in 1..MaxFrontier |->
                                 IF i = 1 THEN TerminalWeight ELSE BootstrapWeight]]
    BY <2>1 DEF TeachCases
  <2>3. /\ case.scores \in [1..MaxFrontier -> Int] /\ case.k \in Nat \ {0} /\ case.minGap \in Nat
        /\ case.targets = targets /\ DOMAIN case.targets = 1..MaxFrontier
        /\ \A i \in 1..MaxFrontier : case.weights[i] \in Nat \ {0}
    BY <2>2, CaseAssumption
  <2>4. /\ labelled \in SUBSET (1..MaxFrontier)
        /\ \A i \in labelled : case.targets[i] \in Int /\ weight[i] \in Nat \ {0}
    BY <2>2, <2>3
  <2>5. MaxFrontier \in Nat \ {0}
    BY CaseAssumption
  <2> HIDE DEF labelled, weight
  <2> QED
    BY <2>1, <2>3, <2>4, <2>5, PerfectAccuracyKeepsTheBest
<1> QED
  BY <1>1, CaseInvariant, PTL

\* A training case over a frontier of n nodes.
TrainCase(n) ==
  /\ case.frontier \in [1..n -> Node] /\ case.k \in 1..2 /\ case.weights \in Weights
  /\ case.outcomes \in [1..n -> Outcomes] /\ case.damage \in Damages

LEMMA TrainCaseIs ==
  ASSUME CaseInv, case.kind = "train"
  PROVE  \E n \in Nat \ {0} : TrainCase(n)
<1>1. PICK frontier \in Frontiers({0, 2}) : case \in TrainCases(frontier)
  BY DEF CaseInv
<1>2. {0, 2} \subseteq Int
  OBVIOUS
<1>3. PICK n \in Nat \ {0} : frontier \in [1..n -> Node]
  BY <1>2, FrontiersAreTyped
<1>4. Len(frontier) = n
  BY <1>3
<1>5. PICK coefficients \in Weightings, k \in 1..2, damage \in Damages,
           outcomes \in [1..n -> Outcomes] :
        case = [kind |-> "train", frontier |-> frontier, k |-> k, weights |-> coefficients,
                outcomes |-> outcomes, damage |-> damage]
  BY <1>1, <1>4 DEF TrainCases
<1>6. coefficients \in Weights
  BY WeightingsAreTyped
<1>7. TrainCase(n)
  BY <1>3, <1>5, <1>6 DEF TrainCase
<1> QED
  BY <1>7

\* The rows of the two steps, the last one of width w.
RowsAre(rows, n, w) ==
  /\ DOMAIN rows = 1..(n + 2) /\ Len(rows) = n + 2
  /\ \A i \in 1..2 : rows[i].step = 1 /\ rows[i].node = i /\ rows[i].width = case.k
  /\ \A i \in 1..n : /\ rows[i + 2].step = 2 /\ rows[i + 2].node = i
                     /\ rows[i + 2].value = case.outcomes[i].value
                     /\ rows[i + 2].source = case.outcomes[i].source
                     /\ rows[i + 2].width = IF i = n THEN w ELSE case.k

Sources == {"no_target", "terminal", "value_bootstrap", "unknown"}
TraceRows == [step : Nat, node : Nat, value : Nat \cup {NoTarget}, source : Sources, width : Nat]

LEMMA IsSequence ==
  ASSUME NEW n \in Nat, NEW S, NEW s \in [1..n -> S]
  PROVE  s \in Seq(S) /\ Len(s) = n /\ DOMAIN s = 1..n
OBVIOUS

LEMMA WholeRowsAre ==
  ASSUME NEW n \in Nat \ {0}, TrainCase(n)
  PROVE  WholeRecord.targets \in Seq(TraceRows) /\ RowsAre(WholeRecord.targets, n, case.k)
<1> DEFINE seen == [i \in 1..2 |-> [value |-> i, source |-> "terminal"]]
           first == Targets(Other, 1, seen)
           second == Targets(case.frontier, 2, case.outcomes)
           rows == WholeRecord.targets
<1>1. rows = first \o second
  BY DEF WholeRecord
<1>2. case.k \in 1..2 /\ DOMAIN case.frontier = 1..n /\ DOMAIN Other = 1..2
  BY DEF TrainCase, Other
<1>3. \A i \in 1..n : /\ case.outcomes[i].value \in Nat \cup {NoTarget}
                      /\ case.outcomes[i].source \in Sources
  <2>1. \A o \in Outcomes : o.value \in Nat \cup {NoTarget} /\ o.source \in Sources
    BY DEF Outcomes, Sources
  <2> QED
    BY <2>1 DEF TrainCase
<1>4. first = [i \in 1..2 |-> [step |-> 1, node |-> i, value |-> i, source |-> "terminal",
                               width |-> case.k]]
  BY <1>2 DEF Targets
<1>5. second = [i \in 1..n |-> [step |-> 2, node |-> i, value |-> case.outcomes[i].value,
                                source |-> case.outcomes[i].source, width |-> case.k]]
  BY <1>2 DEF Targets
<1> HIDE DEF first, second, rows
<1>6. first \in Seq(TraceRows) /\ Len(first) = 2
  <2>1. \A i \in 1..2 : first[i] \in TraceRows
    BY <1>2, <1>4 DEF TraceRows, Sources
  <2>2. first \in [1..2 -> TraceRows] /\ 2 \in Nat
    BY <1>4, <2>1
  <2> QED
    BY <2>2, IsSequence
<1>7. second \in Seq(TraceRows) /\ Len(second) = n
  <2>1. \A i \in 1..n : second[i] \in TraceRows
    BY <1>2, <1>3, <1>5 DEF TraceRows
  <2>2. second \in [1..n -> TraceRows] /\ n \in Nat
    BY <1>5, <2>1
  <2> QED
    BY <2>2, IsSequence
<1>8. /\ rows \in Seq(TraceRows) /\ Len(rows) = n + 2 /\ DOMAIN rows = 1..(n + 2)
      /\ \A i \in 1..2 : rows[i] = first[i]
      /\ \A i \in 1..n : rows[i + 2] = second[i]
  <2>1. /\ rows \in Seq(TraceRows) /\ Len(rows) = 2 + n
        /\ \A i \in 1..(2 + n) : rows[i] = IF i <= 2 THEN first[i] ELSE second[i - 2]
    <3>1. /\ first \o second \in Seq(TraceRows)
          /\ Len(first \o second) = Len(first) + Len(second)
          /\ \A i \in 1..Len(first) + Len(second) :
               (first \o second)[i] = IF i <= Len(first) THEN first[i] ELSE second[i - Len(first)]
      BY <1>6, <1>7, ConcatProperties
    <3> QED
      BY <1>1, <1>6, <1>7, <3>1
  <2>2. ASSUME NEW i \in 1..n
        PROVE  rows[i + 2] = second[i]
    <3>1. i + 2 \in 1..(2 + n) /\ ~(i + 2 <= 2) /\ (i + 2) - 2 = i
      OBVIOUS
    <3> QED
      BY <2>1, <3>1
  <2>3. Len(rows) = n + 2 /\ DOMAIN rows = 1..(n + 2)
    BY <2>1
  <2> QED
    BY <2>1, <2>2, <2>3
<1>9. RowsAre(rows, n, case.k)
  <2>1. \A i \in 1..2 : rows[i].step = 1 /\ rows[i].node = i /\ rows[i].width = case.k
    BY <1>4, <1>8
  <2>2. \A i \in 1..n : /\ rows[i + 2].step = 2 /\ rows[i + 2].node = i
                       /\ rows[i + 2].value = case.outcomes[i].value
                       /\ rows[i + 2].source = case.outcomes[i].source
                       /\ rows[i + 2].width = case.k
    <3> TAKE i \in 1..n
    <3>1. second[i] = [step |-> 2, node |-> i, value |-> case.outcomes[i].value,
                       source |-> case.outcomes[i].source, width |-> case.k]
      BY <1>5
    <3>2. rows[i + 2] = second[i]
      BY <1>8
    <3> QED
      BY <3>1, <3>2
  <2> QED
    BY <1>8, <2>1, <2>2 DEF RowsAre
<1> QED
  BY <1>8, <1>9 DEF rows

\* The nodes of both steps.
Keys(n) == {<<1, i>> : i \in 1..2} \cup {<<2, i>> : i \in 1..n}

\* Rows with different keys are distinct, and no others.
LEMMA DifferentKeys ==
  ASSUME NEW m \in Nat, NEW rows, DOMAIN rows = 1..m, Len(rows) = m,
         \A r, q \in 1..m : r # q => <<rows[r].step, rows[r].node>> # <<rows[q].step, rows[q].node>>
  PROVE  TargetsAreDistinct(rows)
<1> DEFINE key == [r \in 1..m |-> <<rows[r].step, rows[r].node>>]
<1>1. TargetKeys(rows) = {key[r] : r \in 1..m}
  BY DEF TargetKeys
<1>2. \A r, q \in 1..m : r # q => key[r] # key[q]
  OBVIOUS
<1>3. key \in [1..m -> TargetKeys(rows)]
  BY <1>1
<1> HIDE DEF key
<1>4. key \in Bijection(1..m, TargetKeys(rows))
  BY <1>1, <1>2, <1>3 DEF Bijection, Injection, Surjection, IsInjective
<1>5. IsFiniteSet(1..m) /\ Cardinality(1..m) = m
  BY FS_Interval
<1>6. ExistsBijection(1..m, TargetKeys(rows))
  BY <1>4 DEF ExistsBijection
<1>7. Cardinality(TargetKeys(rows)) = m
  BY <1>5, <1>6, FS_Bijection
<1> QED
  BY <1>7 DEF TargetsAreDistinct

LEMMA RepeatedKey ==
  ASSUME NEW m \in Nat, NEW rows, DOMAIN rows = 1..m, Len(rows) = m,
         NEW p \in 1..m, NEW q \in 1..m, p # q, rows[p].step = rows[q].step,
         rows[p].node = rows[q].node
  PROVE  ~TargetsAreDistinct(rows)
<1> DEFINE S == (1..m) \ {q}
           key == [r \in S |-> <<rows[r].step, rows[r].node>>]
<1>1. IsFiniteSet(1..m) /\ Cardinality(1..m) = m
  BY FS_Interval
<1>2. IsFiniteSet(S) /\ Cardinality(S) = m - 1
  BY <1>1, FS_RemoveElement
<1>3. TargetKeys(rows) = {key[r] : r \in S}
  <2>1. p \in S
    OBVIOUS
  <2> QED
    BY <2>1 DEF TargetKeys
<1>4. key \in [S -> TargetKeys(rows)]
  BY <1>3
<1> HIDE DEF key, S
<1>5. key \in Surjection(S, TargetKeys(rows))
  BY <1>3, <1>4 DEF Surjection
<1>6. Cardinality(TargetKeys(rows)) <= m - 1 /\ Cardinality(TargetKeys(rows)) \in Nat
  BY <1>2, <1>5, FS_Surjection, FS_CardinalityType
<1> QED
  BY <1>6 DEF TargetsAreDistinct

\* What the loader reads off the rows.
LEMMA RowsRead ==
  ASSUME NEW n \in Nat \ {0}, NEW w \in Nat, NEW rows, TrainCase(n), RowsAre(rows, n, w)
  PROVE  /\ TargetsAreDistinct(rows) /\ TargetKeys(rows) = Keys(n)
         /\ TargetWidths(rows, 1) = {case.k}
         /\ w = case.k \/ n = 1 => TargetWidths(rows, 2) = {w}
         /\ w # case.k /\ n # 1 => Cardinality(TargetWidths(rows, 2)) # 1
         /\ \A i \in 1..n : TargetOf(rows, 2, i) = rows[i + 2]
<1>1. /\ DOMAIN rows = 1..(n + 2) /\ Len(rows) = n + 2
      /\ \A i \in 1..2 : rows[i].step = 1 /\ rows[i].node = i /\ rows[i].width = case.k
      /\ \A i \in 1..n : rows[i + 2].step = 2 /\ rows[i + 2].node = i
      /\ \A i \in 1..n : rows[i + 2].width = IF i = n THEN w ELSE case.k
  BY DEF RowsAre
<1>0. 1 # 2
  OBVIOUS
<1>2. \A r \in 1..(n + 2) : r \in 1..2 \/ \E i \in 1..n : r = i + 2
  <2> TAKE r \in 1..(n + 2)
  <2>1. r \in 1..2 \/ (r - 2 \in 1..n /\ r = (r - 2) + 2)
    OBVIOUS
  <2> QED
    BY <2>1
<1>3. TargetsAreDistinct(rows)
  <2>1. ASSUME NEW r \in 1..(n + 2), NEW q \in 1..(n + 2),
               rows[r].step = rows[q].step, rows[r].node = rows[q].node
        PROVE  r = q
    <3>1. CASE r \in 1..2 /\ q \in 1..2
      BY <1>1, <2>1, <3>1
    <3>2. CASE (\E i \in 1..n : r = i + 2) /\ (\E i \in 1..n : q = i + 2)
      BY <1>1, <2>1, <3>2
    <3>3. CASE r \in 1..2 /\ (\E i \in 1..n : q = i + 2)
      <4>1. rows[r].step = 1 /\ rows[q].step = 2
        BY <1>1, <3>3
      <4> QED
        BY <2>1, <4>1, <1>0
    <3>4. CASE (\E i \in 1..n : r = i + 2) /\ q \in 1..2
      <4>1. rows[r].step = 2 /\ rows[q].step = 1
        BY <1>1, <3>4
      <4> QED
        BY <2>1, <4>1, <1>0
    <3> QED
      BY <1>2, <3>1, <3>2, <3>3, <3>4
  <2>2. n + 2 \in Nat
    OBVIOUS
  <2>3. \A r, q \in 1..(n + 2) :
          r # q => <<rows[r].step, rows[r].node>> # <<rows[q].step, rows[q].node>>
    BY <2>1
  <2> QED
    BY <1>1, <2>2, <2>3, DifferentKeys
<1>4. TargetKeys(rows) = Keys(n)
  <2>1. TargetKeys(rows) = {<<rows[r].step, rows[r].node>> : r \in 1..(n + 2)}
    BY <1>1 DEF TargetKeys
  <2>2. ASSUME NEW r \in 1..(n + 2)
        PROVE  <<rows[r].step, rows[r].node>> \in Keys(n)
    <3>1. CASE r \in 1..2
      <4>1. <<rows[r].step, rows[r].node>> = <<1, r>>
        BY <1>1, <3>1
      <4> QED
        BY <3>1, <4>1 DEF Keys
    <3>2. ASSUME NEW i \in 1..n, r = i + 2
          PROVE  <<rows[r].step, rows[r].node>> \in Keys(n)
      <4>1. <<rows[r].step, rows[r].node>> = <<2, i>>
        BY <1>1, <3>2
      <4> QED
        BY <4>1 DEF Keys
    <3> QED
      BY <1>2, <3>1, <3>2
  <2>3. \A i \in 1..2 : i \in 1..(n + 2) /\ <<1, i>> = <<rows[i].step, rows[i].node>>
    BY <1>1
  <2>4. \A i \in 1..n : i + 2 \in 1..(n + 2) /\ <<2, i>> = <<rows[i + 2].step, rows[i + 2].node>>
    BY <1>1
  <2> QED
    BY <2>1, <2>2, <2>3, <2>4 DEF Keys
<1>5. TargetWidths(rows, 1) = {case.k}
  <2>1. 1 \in 1..(n + 2) /\ rows[1].step = 1 /\ rows[1].width = case.k
    BY <1>1
  <2>2. \A r \in 1..(n + 2) : rows[r].step = 1 => rows[r].width = case.k
    <3>1. \A i \in 1..n : rows[i + 2].step # 1
      BY <1>0, <1>1
    <3> TAKE r \in 1..(n + 2)
    <3> HAVE rows[r].step = 1
    <3>2. r \in 1..2
      BY <1>2, <3>1
    <3> QED
      BY <1>1, <3>2
  <2> QED
    BY <1>1, <2>1, <2>2 DEF TargetWidths
<1>6. /\ \A i \in 1..n : i + 2 \in 1..(n + 2) /\ rows[i + 2].step = 2
      /\ \A r \in 1..(n + 2) : rows[r].step = 2 => \E i \in 1..n : r = i + 2
  <2>1. \A i \in 1..n : i + 2 \in 1..(n + 2)
    OBVIOUS
  <2>2. \A r \in 1..2 : rows[r].step # 2
    BY <1>0, <1>1
  <2> QED
    BY <1>1, <1>2, <2>1, <2>2
<1>7. TargetWidths(rows, 2) = {rows[i + 2].width : i \in 1..n}
  <2>1. TargetWidths(rows, 2) = {rows[r].width : r \in {q \in 1..(n + 2) : rows[q].step = 2}}
    BY <1>1 DEF TargetWidths
  <2>2. {q \in 1..(n + 2) : rows[q].step = 2} = {i + 2 : i \in 1..n}
    BY <1>6
  <2>3. \A r \in {i + 2 : i \in 1..n} : \E i \in 1..n : rows[r].width = rows[i + 2].width
    OBVIOUS
  <2> HIDE DEF RowsAre
  <2> QED
    BY <2>1, <2>2, <2>3
<1>8. n \in 1..n /\ rows[n + 2].width = w
  BY <1>1
<1>9. ASSUME w = case.k \/ n = 1 PROVE TargetWidths(rows, 2) = {w}
  <2>1. \A i \in 1..n : rows[i + 2].width = w
    BY <1>1, <1>9
  <2> QED
    BY <1>7, <1>8, <2>1
<1>10. ASSUME w # case.k, n # 1 PROVE Cardinality(TargetWidths(rows, 2)) # 1
  <2>1. 1 \in 1..n /\ rows[1 + 2].width = case.k
    BY <1>1, <1>10
  <2>2. w \in TargetWidths(rows, 2) /\ case.k \in TargetWidths(rows, 2)
    BY <1>7, <1>8, <2>1
  <2>3. IsFiniteSet(1..n)
    BY FS_Interval
  <2>4. IsFiniteSet(TargetWidths(rows, 2))
    <3> DEFINE f == [i \in 1..n |-> rows[i + 2].width]
    <3>1. TargetWidths(rows, 2) = {f[i] : i \in 1..n}
      BY <1>7
    <3> HIDE DEF f
    <3> QED
      BY <2>3, <3>1, ImageIsFinite
  <2> SUFFICES ASSUME Cardinality(TargetWidths(rows, 2)) = 1 PROVE FALSE
    OBVIOUS
  <2>5. PICK x : TargetWidths(rows, 2) = {x}
    BY <2>4, FS_Singleton
  <2> QED
    BY <1>10, <2>2, <2>5
<1>11. ASSUME NEW i \in 1..n
       PROVE  TargetOf(rows, 2, i) = rows[i + 2]
  <2>1. i + 2 \in 1..(n + 2) /\ rows[i + 2].step = 2 /\ rows[i + 2].node = i
    BY <1>1
  <2>2. \A r \in 1..(n + 2) : rows[r].step = 2 /\ rows[r].node = i => r = i + 2
    <3> TAKE r \in 1..(n + 2)
    <3> HAVE rows[r].step = 2 /\ rows[r].node = i
    <3>1. PICK j \in 1..n : r = j + 2
      BY <1>6
    <3>2. j = i
      BY <1>1, <3>1
    <3> QED
      BY <3>1, <3>2
  <2>3. (CHOOSE r \in 1..(n + 2) : rows[r].step = 2 /\ rows[r].node = i) = i + 2
    BY <2>1, <2>2
  <2> QED
    BY <1>1, <2>3 DEF TargetOf
<1> QED
  BY <1>3, <1>4, <1>5, <1>9, <1>10, <1>11

\* The step of a pruner that keeps the nodes of most value is read back as it was taken.
ReadBack(trace, frontier, n, kept) ==
  /\ TraceIsReadable(trace) /\ DOMAIN trace.nodes = 1..n /\ trace.selected_indices = kept
  /\ kept \in Seq(1..n) /\ NodeViews(trace) = frontier
  /\ SelectedNodeViews(trace) = [p \in DOMAIN kept |-> frontier[kept[p]]]

LEMMA ValueStepIsRead ==
  ASSUME NEW n \in Nat \ {0}, NEW frontier \in [1..n -> Node], NEW k \in Nat \ {0}
  PROVE  ReadBack(PruneTrace(frontier, k, ValueTopK(frontier, k)), frontier, n,
                  ValueTopK(frontier, k))
<1> DEFINE value == [i \in 1..n |-> frontier[i].value]
           kept == ValueTopK(frontier, k)
           trace == PruneTrace(frontier, k, kept)
           m == IF k < n THEN k ELSE n
<1>1. DOMAIN frontier = 1..n /\ Len(frontier) = n
  OBVIOUS
<1>2. value \in [1..n -> Int]
  BY DEF Node
<1>3. kept = TopK(value, k)
  BY <1>1 DEF ValueTopK, IndexSet
<1>4. m \in Nat /\ m <= k
  OBVIOUS
<1> HIDE DEF value, kept
<1>5. ValidIndices(kept, n) /\ Len(kept) = m /\ DOMAIN kept = 1..m
      /\ \A p \in 1..m : kept[p] = Ranking(value)[p]
  BY <1>2, <1>3, TopKIsAccepted, TopKIsSequence
<1>6. kept \in Seq(1..n)
  <2>1. kept = SubSeq(Ranking(value), 1, m)
    BY <1>2, <1>3, KeyLength DEF TopK
  <2>2. Ranking(value) \in Seq(1..n) /\ Len(Ranking(value)) = n
    BY <1>2, RankingIsSequence
  <2>3. m <= n
    OBVIOUS
  <2> HIDE DEF m
  <2> QED
    BY <1>4, <2>1, <2>2, <2>3
<1>7. Len(kept) <= k
  BY <1>4, <1>5
<1> HIDE DEF m
<1>8. /\ TraceIsConsistent(trace)
      /\ DOMAIN trace.nodes = 1..n
      /\ \A i \in 1..n : trace.nodes[i].view = frontier[i]
  BY <1>1, <1>6, <1>7, <1>5, TraceOfSelection
<1>9. trace.selected_indices = kept /\ trace.k = k
  BY DEF PruneTrace
<1> HIDE DEF trace
<1>10. kept # NoTarget
  <2>1. kept \in Seq(Nat)
    BY <1>6
  <2> QED
    BY <2>1, CaseAssumption
<1>11. TraceIsReadable(trace)
  BY <1>8, <1>9, <1>10 DEF TraceIsReadable
<1>12. NodeViews(trace) = frontier
  BY <1>1, <1>8 DEF NodeViews
<1>13. SelectedNodeViews(trace) = [p \in DOMAIN kept |-> frontier[kept[p]]]
  BY <1>9, <1>12 DEF SelectedNodeViews
<1> QED
  BY <1>6, <1>8, <1>9, <1>11, <1>12, <1>13 DEF ReadBack, trace, kept

ValueKept == ValueTopK(case.frontier, 3 - case.k)
Steps == <<PruneTrace(Other, 1, ValueTopK(Other, 1)),
           PruneTrace(case.frontier, 3 - case.k, ValueKept)>>

LEMMA OtherIs == Other \in [1..2 -> Node]
<1>1. Other = [i \in 1..2 |-> Other[i]]
  BY DEF Other
<1>2. Other[1] \in Node /\ Other[2] \in Node
  BY DEF Other, Node
<1>3. \A i \in 1..2 : i = 1 \/ i = 2
  OBVIOUS
<1> QED
  BY <1>1, <1>2, <1>3

\* Both steps of a whole record are read back.
LEMMA StepsRead ==
  ASSUME NEW n \in Nat \ {0}, TrainCase(n)
  PROVE  /\ WholeRecord.traces = Steps /\ DOMAIN Steps = 1..2
         /\ ReadBack(Steps[1], Other, 2, ValueTopK(Other, 1))
         /\ ReadBack(Steps[2], case.frontier, n, ValueKept)
<1>1. case.frontier \in [1..n -> Node] /\ 3 - case.k \in Nat \ {0}
  BY DEF TrainCase
<1>2. ReadBack(Steps[2], case.frontier, n, ValueKept)
  <2>1. Steps[2] = PruneTrace(case.frontier, 3 - case.k, ValueTopK(case.frontier, 3 - case.k))
    BY DEF Steps, ValueKept
  <2> QED
    BY <1>1, <2>1, ValueStepIsRead DEF ValueKept
<1>3. ReadBack(Steps[1], Other, 2, ValueTopK(Other, 1))
  <2>1. Steps[1] = PruneTrace(Other, 1, ValueTopK(Other, 1))
    BY DEF Steps
  <2>2. 2 \in Nat \ {0} /\ 1 \in Nat \ {0}
    OBVIOUS
  <2> QED
    BY <2>1, <2>2, OtherIs, ValueStepIsRead
<1>4. WholeRecord.traces = Steps /\ DOMAIN Steps = 1..2
  BY DEF WholeRecord, Steps, ValueKept
<1> QED
  BY <1>2, <1>3, <1>4

\* The keys of two traces over these frontiers.
LEMMA TraceKeysAre ==
  ASSUME NEW n, NEW traces, DOMAIN traces = 1..2, DOMAIN traces[1].nodes = 1..2,
         DOMAIN traces[2].nodes = 1..n
  PROVE  TraceKeys(traces) = Keys(n)
<1>1. \A s \in 1..2 : s = 1 \/ s = 2
  OBVIOUS
<1>2. 1 \in 1..2 /\ 2 \in 1..2
  OBVIOUS
<1> DEFINE keys(s) == {<<s, i>> : i \in DOMAIN traces[s].nodes}
<1>3. TraceKeys(traces) = UNION {keys(s) : s \in 1..2}
  BY DEF TraceKeys
<1>4. keys(1) = {<<1, i>> : i \in 1..2} /\ keys(2) = {<<2, i>> : i \in 1..n}
  OBVIOUS
<1> HIDE DEF keys
<1>5. UNION {keys(s) : s \in 1..2} = keys(1) \cup keys(2)
  BY <1>1, <1>2
<1> QED
  BY <1>3, <1>4, <1>5 DEF Keys

\* The last row of a record is the one of the second step's last node.
LEMMA RowsAppended ==
  ASSUME NEW n \in Nat \ {0}, TrainCase(n), NEW rows \in Seq(TraceRows), RowsAre(rows, n, case.k),
         NEW row
  PROVE  /\ rows[Len(rows)] = rows[n + 2] /\ rows[n + 2] \in TraceRows
         /\ DOMAIN Append(rows, row) = 1..(n + 3) /\ Len(Append(rows, row)) = n + 3
         /\ Append(rows, row)[n + 3] = row
         /\ \A r \in 1..(n + 2) : Append(rows, row)[r] = rows[r]
         /\ DOMAIN Front(rows) = 1..(n + 1) /\ Len(Front(rows)) = n + 1
         /\ \A r \in 1..(n + 1) : Front(rows)[r] = rows[r]
         /\ DOMAIN Append(Front(rows), row) = 1..(n + 2) /\ Len(Append(Front(rows), row)) = n + 2
         /\ Append(Front(rows), row)[n + 2] = row
         /\ \A r \in 1..(n + 1) : Append(Front(rows), row)[r] = rows[r]
<1>1. Len(rows) = n + 2 /\ DOMAIN rows = 1..(n + 2)
  BY DEF RowsAre
<1>2. rows[Len(rows)] = rows[n + 2] /\ rows[n + 2] \in TraceRows
  BY <1>1
<1> DEFINE U == TraceRows \cup {row}
<1>3. rows \in Seq(U) /\ row \in U
  OBVIOUS
<1> HIDE DEF U
<1>4. /\ DOMAIN Append(rows, row) = 1..(n + 3) /\ Len(Append(rows, row)) = n + 3
      /\ Append(rows, row)[n + 3] = row
      /\ \A r \in 1..(n + 2) : Append(rows, row)[r] = rows[r]
  BY <1>1, <1>3
<1>5. Front(rows) = SubSeq(rows, 1, n + 1)
  BY <1>1 DEF Front
<1>6. /\ Front(rows) \in Seq(U) /\ DOMAIN Front(rows) = 1..(n + 1) /\ Len(Front(rows)) = n + 1
      /\ \A r \in 1..(n + 1) : Front(rows)[r] = rows[r]
  BY <1>1, <1>3, <1>5
<1>7. /\ DOMAIN Append(Front(rows), row) = 1..(n + 2) /\ Len(Append(Front(rows), row)) = n + 2
      /\ Append(Front(rows), row)[n + 2] = row
      /\ \A r \in 1..(n + 1) : Append(Front(rows), row)[r] = rows[r]
  BY <1>3, <1>6
<1> QED
  BY <1>2, <1>4, <1>6, <1>7

\* What each damage leaves of the record.
LEMMA DamagedRecordIs ==
  LET rows == WholeRecord.targets
      last == rows[Len(rows)]
  IN  /\ case.damage = "none" => Record = WholeRecord
      /\ case.damage = "repeated" => Record.targets = Append(rows, [last EXCEPT !.value = 9])
      /\ case.damage = "missing" =>
           Record.targets = Front(rows) /\ Record.traces = WholeRecord.traces
      /\ case.damage = "stray" =>
           /\ Record.targets = Append(rows, [last EXCEPT !.step = 3])
           /\ Record.traces = WholeRecord.traces
      /\ case.damage = "widths" =>
           /\ Record.targets = Append(Front(rows), [last EXCEPT !.width = 3])
           /\ Record.traces = WholeRecord.traces
      /\ case.damage = "unselected" =>
           Record.traces = <<WholeRecord.traces[1],
                             [WholeRecord.traces[2] EXCEPT !.selected_indices = NoTarget]>>
      /\ case.damage = "kept" =>
           /\ Record.targets = rows
           /\ Record.traces =
                <<WholeRecord.traces[1],
                  [WholeRecord.traces[2] EXCEPT !.selected_indices = <<Len(case.frontier)>>]>>
<1>1. DOMAIN WholeRecord = {"traces", "targets"}
  BY DEF WholeRecord
<1>2. WholeRecord = [traces |-> WholeRecord.traces, targets |-> WholeRecord.targets]
  BY DEF WholeRecord
<1>3. case.damage = "none" => Record = WholeRecord
  BY DEF Record
<1> QED
  BY <1>1, <1>2, <1>3 DEF Record

\* A record with a row too few or too many, or a trace without its selection, is refused.
LEMMA DamageIsRefused ==
  ASSUME NEW n \in Nat \ {0}, TrainCase(n),
         case.damage \in {"repeated", "missing", "stray", "unselected"}
  PROVE  ~RecordIsLoaded(Record)
<1> DEFINE rows == WholeRecord.targets
           last == rows[Len(rows)]
<1>1. rows \in Seq(TraceRows) /\ RowsAre(rows, n, case.k)
  BY WholeRowsAre
<1>2. /\ last = rows[n + 2] /\ last \in TraceRows /\ last.step = 2 /\ last.node = n
  <2>1. last = rows[n + 2] /\ rows[n + 2] \in TraceRows
    BY <1>1, RowsAppended
  <2>2. n \in 1..n
    OBVIOUS
  <2>3. rows[n + 2].step = 2 /\ rows[n + 2].node = n
    BY <1>1, <2>2 DEF RowsAre
  <2> QED
    BY <2>1, <2>3
<1>3. DOMAIN rows = 1..(n + 2)
  BY <1>1 DEF RowsAre
<1>4. WholeRecord.traces = Steps /\ TraceKeys(Steps) = Keys(n) /\ TargetKeys(rows) = Keys(n)
  <2>1. TraceKeys(Steps) = Keys(n) /\ WholeRecord.traces = Steps
    BY StepsRead, TraceKeysAre DEF ReadBack
  <2>2. case.k \in Nat
    BY DEF TrainCase
  <2> QED
    BY <1>1, <2>1, <2>2, RowsRead
<1>5. CASE case.damage = "repeated"
  <2> DEFINE row == [last EXCEPT !.value = 9]
             more == Append(rows, row)
  <2>1. row.step = 2 /\ row.node = n
    BY <1>2 DEF TraceRows
  <2>2. /\ DOMAIN more = 1..(n + 3) /\ Len(more) = n + 3 /\ more[n + 3] = row
        /\ \A r \in 1..(n + 2) : more[r] = rows[r]
    <3> HIDE DEF row, rows
    <3> QED
      BY <1>1, RowsAppended
  <2>3. Record.targets = more
    BY <1>5, DamagedRecordIs
  <2>4. /\ n + 3 \in Nat /\ n + 3 \in 1..(n + 3) /\ n + 2 \in 1..(n + 3) /\ n + 2 # n + 3
        /\ n + 2 \in 1..(n + 2)
    OBVIOUS
  <2> HIDE DEF more, row, rows, last
  <2>5. more[n + 2].step = more[n + 3].step /\ more[n + 2].node = more[n + 3].node
    BY <1>2, <2>1, <2>2, <2>4
  <2>6. ~TargetsAreDistinct(more)
    BY <2>2, <2>4, <2>5, RepeatedKey
  <2> QED
    BY <2>3, <2>6 DEF RecordIsLoaded
<1>6. CASE case.damage = "missing"
  <2>1. Record.targets = Front(rows) /\ Record.traces = Steps
    BY <1>4, <1>6, DamagedRecordIs
  <2>2. /\ DOMAIN Front(rows) = 1..(n + 1) /\ \A r \in 1..(n + 1) : Front(rows)[r] = rows[r]
    <3> HIDE DEF rows
    <3> QED
      BY <1>1, RowsAppended
  <2>3. ASSUME NEW r \in 1..(n + 1)
        PROVE  <<Front(rows)[r].step, Front(rows)[r].node>> # <<2, n>>
    <3>1. CASE r \in 1..2
      <4>1. rows[r].step = 1 /\ 1 # 2
        BY <1>1, <3>1 DEF RowsAre
      <4> QED
        BY <2>2, <4>1
    <3>2. CASE r \notin 1..2
      <4>1. r - 2 \in 1..n /\ (r - 2) + 2 = r /\ r - 2 # n
        BY <3>2
      <4>2. rows[r].node = r - 2
        BY <1>1, <4>1 DEF RowsAre
      <4> QED
        BY <2>2, <4>1, <4>2
    <3> QED
      BY <3>1, <3>2
  <2>4. <<2, n>> \notin TargetKeys(Front(rows))
    <3> HIDE DEF rows
    <3> QED
      BY <2>2, <2>3 DEF TargetKeys
  <2>5. <<2, n>> \in Keys(n)
    BY DEF Keys
  <2> QED
    BY <1>4, <2>1, <2>4, <2>5 DEF RecordIsLoaded
<1>7. CASE case.damage = "stray"
  <2> DEFINE row == [last EXCEPT !.step = 3]
             more == Append(rows, row)
  <2>1. row.step = 3 /\ row.node = n
    BY <1>2 DEF TraceRows
  <2>2. DOMAIN more = 1..(n + 3) /\ more[n + 3] = row
    <3> HIDE DEF row, rows
    <3> QED
      BY <1>1, RowsAppended
  <2>3. Record.targets = more /\ Record.traces = Steps
    BY <1>4, <1>7, DamagedRecordIs
  <2>4. n + 3 \in 1..(n + 3)
    OBVIOUS
  <2> HIDE DEF more, row
  <2>5. <<3, n>> \in TargetKeys(more)
    BY <2>1, <2>2, <2>4 DEF TargetKeys
  <2>6. <<3, n>> \notin Keys(n)
    <3>1. 3 # 1 /\ 3 # 2
      OBVIOUS
    <3> QED
      BY <3>1 DEF Keys
  <2> QED
    BY <1>4, <2>3, <2>5, <2>6 DEF RecordIsLoaded
<1>8. CASE case.damage = "unselected"
  <2>1. Record.traces = <<Steps[1], [Steps[2] EXCEPT !.selected_indices = NoTarget]>>
    BY <1>4, <1>8, DamagedRecordIs
  <2>2. Steps[2] = PruneTrace(case.frontier, 3 - case.k, ValueKept)
    BY DEF Steps
  <2>3. [Steps[2] EXCEPT !.selected_indices = NoTarget].selected_indices = NoTarget
    BY <2>2 DEF PruneTrace
  <2>4. 2 \in DOMAIN Record.traces /\ Record.traces[2].selected_indices = NoTarget
    <3> DEFINE trace == [Steps[2] EXCEPT !.selected_indices = NoTarget]
    <3>1. Record.traces = <<Steps[1], trace>> /\ trace.selected_indices = NoTarget
      BY <2>1, <2>3
    <3> HIDE DEF trace
    <3> QED
      BY <3>1
  <2>5. ~TraceIsReadable(Record.traces[2])
    BY <2>4 DEF TraceIsReadable
  <2> QED
    BY <2>4, <2>5 DEF RecordIsLoaded
<1> QED
  BY <1>5, <1>6, <1>7, <1>8

\* A whole record is loaded, and a loaded one is whole, save that a lone node's width may
\* be another.
LEMMA LoadedIsWhole ==
  ASSUME NEW n \in Nat \ {0}, TrainCase(n)
  PROVE  /\ case.damage = "none" => RecordIsLoaded(Record)
         /\ RecordIsLoaded(Record) =>
              /\ Record.traces = Steps
              /\ \E w \in Nat \ {0} : (w = case.k \/ n = 1) /\ RowsAre(Record.targets, n, w)
<1> DEFINE rows == WholeRecord.targets
           last == rows[Len(rows)]
<1>1. rows \in Seq(TraceRows) /\ RowsAre(rows, n, case.k)
  BY WholeRowsAre
<1>2. case.k \in Nat \ {0} /\ case.k # 3 /\ case.k \in Nat
  BY DEF TrainCase
<1>3. /\ WholeRecord.traces = Steps /\ DOMAIN Steps = 1..2 /\ TraceKeys(Steps) = Keys(n)
      /\ TraceIsReadable(Steps[1]) /\ TraceIsReadable(Steps[2])
  BY StepsRead, TraceKeysAre DEF ReadBack
<1>4. CASE case.damage = "none"
  <2>1. Record.targets = rows /\ Record.traces = Steps
    BY <1>3, <1>4, DamagedRecordIs
  <2>2. /\ TargetsAreDistinct(rows) /\ TargetKeys(rows) = Keys(n)
        /\ TargetWidths(rows, 1) = {case.k} /\ TargetWidths(rows, 2) = {case.k}
    BY <1>1, <1>2, RowsRead
  <2>3. Cardinality({case.k}) = 1
    BY FS_Singleton
  <2>4. \A s \in 1..2 : s = 1 \/ s = 2
    OBVIOUS
  <2>5. \A s \in DOMAIN Steps : TraceIsReadable(Steps[s])
    BY <1>3, <2>4
  <2>6. \A s \in DOMAIN Steps : Cardinality(TargetWidths(rows, s)) = 1
    BY <1>3, <2>2, <2>3, <2>4
  <2>7. RecordIsLoaded(Record)
    <3> HIDE DEF rows
    <3> QED
      BY <1>3, <2>1, <2>2, <2>5, <2>6 DEF RecordIsLoaded
  <2> QED
    BY <1>1, <1>2, <2>1, <2>7
<1>5. CASE case.damage \in {"repeated", "missing", "stray", "unselected"}
  <2>1. ~RecordIsLoaded(Record)
    BY <1>5, DamageIsRefused
  <2> QED
    BY <1>5, <2>1
<1>6. CASE case.damage = "widths"
  <2> DEFINE row == [last EXCEPT !.width = 3]
             wide == Append(Front(rows), row)
  <2>1. last = rows[n + 2] /\ last \in TraceRows
    BY <1>1, RowsAppended
  <2>2. /\ row.step = last.step /\ row.node = last.node /\ row.value = last.value
        /\ row.source = last.source /\ row.width = 3
    <3> HIDE DEF last
    <3> QED
      BY <2>1 DEF TraceRows
  <2>3. /\ DOMAIN wide = 1..(n + 2) /\ Len(wide) = n + 2 /\ wide[n + 2] = row
        /\ \A r \in 1..(n + 1) : wide[r] = rows[r]
    <3> HIDE DEF row, rows
    <3> QED
      BY <1>1, RowsAppended
  <2>4. Record.targets = wide /\ Record.traces = Steps
    BY <1>3, <1>6, DamagedRecordIs
  <2> HIDE DEF wide, row, rows, last
  <2>5. RowsAre(wide, n, 3)
    <3>1. \A i \in 1..2 : wide[i].step = 1 /\ wide[i].node = i /\ wide[i].width = case.k
      <4>1. \A i \in 1..2 : i \in 1..(n + 1)
        OBVIOUS
      <4> QED
        BY <1>1, <2>3, <4>1 DEF RowsAre
    <3>2. ASSUME NEW i \in 1..n
          PROVE  /\ wide[i + 2].step = 2 /\ wide[i + 2].node = i
                 /\ wide[i + 2].value = case.outcomes[i].value
                 /\ wide[i + 2].source = case.outcomes[i].source
                 /\ wide[i + 2].width = IF i = n THEN 3 ELSE case.k
      <4>1. /\ rows[i + 2].step = 2 /\ rows[i + 2].node = i
            /\ rows[i + 2].value = case.outcomes[i].value
            /\ rows[i + 2].source = case.outcomes[i].source
            /\ rows[i + 2].width = case.k
        BY <1>1 DEF RowsAre
      <4>2. CASE i = n
        BY <2>1, <2>2, <2>3, <4>1, <4>2
      <4>3. CASE i # n
        <5>1. i + 2 \in 1..(n + 1)
          BY <4>3
        <5> QED
          BY <2>3, <4>1, <4>3, <5>1
      <4> QED
        BY <4>2, <4>3
    <3> QED
      BY <2>3, <3>1, <3>2 DEF RowsAre
  <2>6. ASSUME RecordIsLoaded(Record) PROVE n = 1
    <3>1. 2 \in DOMAIN Steps
      BY <1>3
    <3>2. Cardinality(TargetWidths(wide, 2)) = 1
      BY <2>4, <2>6, <3>1 DEF RecordIsLoaded
    <3>3. 3 \in Nat /\ 3 # case.k
      BY <1>2
    <3> QED
      BY <2>5, <3>2, <3>3, RowsRead
  <2>7. 3 \in Nat \ {0}
    OBVIOUS
  <2> QED
    BY <1>6, <2>4, <2>5, <2>6, <2>7
<1>7. CASE case.damage = "kept"
  <2> DEFINE trace == [Steps[2] EXCEPT !.selected_indices = <<n>>]
  <2>1. Record.targets = rows /\ Record.traces = <<Steps[1], trace>>
    <3>1. Len(case.frontier) = n
      BY DEF TrainCase
    <3> QED
      BY <1>3, <1>7, <3>1, DamagedRecordIs
  <2>2. Steps[2] = PruneTrace(case.frontier, 3 - case.k, ValueKept)
    BY DEF Steps
  <2>3. /\ trace.selected_indices = <<n>> /\ trace.nodes = Steps[2].nodes
        /\ Steps[2].selected_indices = ValueKept
        /\ ValueKept = <<n>> => trace = Steps[2]
    BY <2>2 DEF PruneTrace
  <2>4. ASSUME RecordIsLoaded(Record) PROVE ValueKept = <<n>>
    <3>1. TraceIsConsistent(trace)
      <4>1. 2 \in DOMAIN Record.traces /\ Record.traces[2] = trace
        BY <2>1
      <4> HIDE DEF trace
      <4> QED
        BY <2>4, <4>1 DEF RecordIsLoaded, TraceIsReadable
    <3>2. TraceIsConsistent(Steps[2]) /\ DOMAIN Steps[2].nodes = 1..n
      BY <1>3, StepsRead DEF TraceIsReadable, ReadBack
    <3>3. ASSUME NEW i \in 1..n
          PROVE  (\E p \in DOMAIN ValueKept : ValueKept[p] = i) <=> i = n
      <4> HIDE DEF trace
      <4>0. i \in DOMAIN trace.nodes /\ i \in DOMAIN Steps[2].nodes
        BY <2>3, <3>2
      <4>1. trace.nodes[i].kept = \E p \in DOMAIN <<n>> : <<n>>[p] = i
        <5>1. trace.nodes[i].kept = \E p \in DOMAIN trace.selected_indices :
                                      trace.selected_indices[p] = i
          BY <3>1, <4>0, Zenon DEF TraceIsConsistent
        <5> QED
          BY <2>3, <5>1, Zenon
      <4>2. Steps[2].nodes[i].kept = \E p \in DOMAIN ValueKept : ValueKept[p] = i
        <5>1. Steps[2].nodes[i].kept = \E p \in DOMAIN Steps[2].selected_indices :
                                         Steps[2].selected_indices[p] = i
          BY <3>2, <4>0, Zenon DEF TraceIsConsistent
        <5> QED
          BY <2>3, <5>1, Zenon
      <4>3. (\E p \in DOMAIN <<n>> : <<n>>[p] = i) <=> i = n
        OBVIOUS
      <4> QED
        BY <2>3, <4>1, <4>2, <4>3
    <3>4. /\ \A p \in DOMAIN ValueKept : ValueKept[p] \in 1..n
          /\ \A p, q \in DOMAIN ValueKept : p # q => ValueKept[p] # ValueKept[q]
      <4>1. ValidIndices(ValueKept, Steps[2].frontier_size) /\ Steps[2].frontier_size = n
        <5>1. Len(case.frontier) = n
          BY DEF TrainCase
        <5> QED
          BY <2>2, <2>3, <3>2, <5>1 DEF TraceIsConsistent, PruneTrace
      <4> QED
        BY <4>1 DEF ValidIndices
    <3>5. \A p \in DOMAIN ValueKept : ValueKept[p] = n
      BY <3>3, <3>4
    <3>6. PICK p \in DOMAIN ValueKept : TRUE
      BY <3>3
    <3>7. \A q \in DOMAIN ValueKept : q = p
      BY <3>4, <3>5
    <3>8. \E m \in Nat : DOMAIN ValueKept = 1..m /\ ValueKept \in [1..m -> 1..n]
      <4>1. ValueKept \in Seq(1..n)
        BY StepsRead DEF ReadBack
      <4> QED
        BY <4>1
    <3>9. DOMAIN ValueKept = 1..1
      <4>1. PICK m \in Nat : DOMAIN ValueKept = 1..m
        BY <3>8
      <4>2. m # 0
        BY <3>6, <4>1
      <4>3. 1 \in 1..m /\ m \in 1..m
        BY <4>2
      <4>4. m = 1
        BY <3>7, <4>1, <4>3
      <4> QED
        BY <4>1, <4>4
    <3>10. ValueKept = [q \in 1..1 |-> n]
      BY <3>5, <3>8, <3>9
    <3> QED
      BY <3>10
  <2>5. Steps = <<Steps[1], Steps[2]>>
    BY DEF Steps
  <2> HIDE DEF trace, rows
  <2> QED
    BY <1>1, <1>2, <1>7, <2>1, <2>3, <2>4, <2>5
<1> QED
  BY <1>4, <1>5, <1>6, <1>7 DEF TrainCase, Damages

\* The selection of the evaluation is the one of the runtime pruner at the student's width,
\* whichever nodes have a target (evaluate_ranker, learned_pruner.py).
Describes(record, s, frontier, w) ==
  NodeViews(record.traces[s]) = frontier /\ TargetWidths(record.targets, s) = {w}
Gives(record, s, frontier, n, w, coefficients) ==
  /\ Examples(record, s).width = w /\ DOMAIN Examples(record, s).nodes = 1..n
  /\ \A i \in 1..n :
       Examples(record, s).nodes[i].target =
         IF TargetWeight(TargetOf(record.targets, s, i)) = NoTarget THEN NoTarget
         ELSE TargetOf(record.targets, s, i).value
  /\ OfflineSelection(coefficients, Examples(record, s)) = LearnedTopK(coefficients, frontier, w)

LEMMA ExamplesAreTheFrontier ==
  ASSUME NEW n \in Nat \ {0}, NEW frontier \in [1..n -> Node], NEW w \in Nat \ {0},
         NEW coefficients \in Weights, NEW record, NEW s, Describes(record, s, frontier, w)
  PROVE  Gives(record, s, frontier, n, w, coefficients)
<1> DEFINE rows == FeatureMatrix(frontier, w)
           e == Examples(record, s)
<1>1. (CHOOSE x \in TargetWidths(record.targets, s) : TRUE) = w
  BY DEF Describes
<1>2. DOMAIN rows = 1..n
  BY DEF FeatureMatrix, IndexSet
<1>3. /\ e.width = w
      /\ e.nodes = [i \in 1..n |-> NodeExample(rows[i], TargetOf(record.targets, s, i))]
  BY <1>1, <1>2 DEF Examples, Describes
<1>4. \A i \in 1..n : e.nodes[i] = NodeExample(rows[i], TargetOf(record.targets, s, i))
  BY <1>3
<1> HIDE DEF rows, e
<1>5. \A i \in 1..n :
        /\ e.nodes[i].features = rows[i]
        /\ e.nodes[i].target = IF TargetWeight(TargetOf(record.targets, s, i)) = NoTarget
                               THEN NoTarget ELSE TargetOf(record.targets, s, i).value
  <2>1. \A f, row : /\ NodeExample(f, row).features = f
                    /\ NodeExample(f, row).target = IF TargetWeight(row) = NoTarget
                                                    THEN NoTarget ELSE row.value
    BY DEF NodeExample
  <2> QED
    BY <1>4, <2>1
<1>6. NodeScores(coefficients, e.nodes) = Scores(coefficients, rows)
  BY <1>2, <1>3, <1>5 DEF NodeScores, Scores
<1>7. OfflineSelection(coefficients, e) = LearnedTopK(coefficients, frontier, w)
  BY <1>3, <1>6 DEF OfflineSelection, LearnedTopK, rows
<1> QED
  BY <1>3, <1>5, <1>7, <1>2 DEF e, Gives

\* Of a lone node nothing can be dropped.
LEMMA LoneNodeIsKept ==
  ASSUME NEW key \in [1..1 -> Int], NEW k \in Nat \ {0}
  PROVE  TopK(key, k) = <<1>>
<1>1. 1 \in Nat /\ 1 \in 1..1 /\ (k < 1 <=> FALSE) /\ \A x \in 1..1 : x = 1
  OBVIOUS
<1>2. Len(key) = 1
  BY <1>1, KeyLength
<1>3. TopK(key, k) = SubSeq(Ranking(key), 1, 1)
  BY <1>1, <1>2 DEF TopK
<1>4. Ranking(key) \in [1..1 -> 1..1]
  BY <1>1, RankingIsSequence
<1>5. Ranking(key)[1] = 1
  BY <1>1, <1>4
<1>6. Ranking(key) = <<1>>
  BY <1>1, <1>4, <1>5
<1>7. SubSeq(<<1>>, 1, 1) = <<1>>
  <2>1. <<1>> \in Seq(Nat) /\ Len(<<1>>) = 1
    OBVIOUS
  <2> QED
    BY <2>1, SubSeqFull
<1> QED
  BY <1>3, <1>6, <1>7

Observed(i) == IF case.outcomes[i].source = "unknown" THEN NoTarget ELSE case.outcomes[i].value

\* What a loaded record gives.
LEMMA LoadedRecordGives ==
  ASSUME NEW n \in Nat \ {0}, TrainCase(n), RecordIsLoaded(Record)
  PROVE  /\ ReadBack(Record.traces[2], case.frontier, n, ValueKept)
         /\ DOMAIN Examples(Record, 2).nodes = 1..n
         /\ \A i \in 1..n : Examples(Record, 2).nodes[i].target = Observed(i)
         /\ OfflineSelection(case.weights, Examples(Record, 2))
            = LearnedTopK(case.weights, case.frontier, case.k)
         /\ OfflineSelection(case.weights, Examples(Record, 1))
            = LearnedTopK(case.weights, Other, case.k)
<1>1. /\ case.frontier \in [1..n -> Node] /\ case.weights \in Weights
      /\ case.k \in Nat \ {0} /\ \A i \in 1..n : case.outcomes[i] \in Outcomes
  BY DEF TrainCase
<1>2. PICK w \in Nat \ {0} :
        Record.traces = Steps /\ (w = case.k \/ n = 1) /\ RowsAre(Record.targets, n, w)
  BY LoadedIsWhole
<1>3. /\ ReadBack(Record.traces[1], Other, 2, ValueTopK(Other, 1))
      /\ ReadBack(Record.traces[2], case.frontier, n, ValueKept)
  BY <1>2, StepsRead
<1>4. /\ TargetWidths(Record.targets, 1) = {case.k} /\ TargetWidths(Record.targets, 2) = {w}
      /\ \A i \in 1..n : TargetOf(Record.targets, 2, i) = Record.targets[i + 2]
  BY <1>2, RowsRead
<1>5. OfflineSelection(case.weights, Examples(Record, 1)) = LearnedTopK(case.weights, Other, case.k)
  <2>1. NodeViews(Record.traces[1]) = Other /\ 2 \in Nat \ {0}
    BY <1>3 DEF ReadBack
  <2>2. Describes(Record, 1, Other, case.k)
    BY <1>4, <2>1 DEF Describes
  <2>3. Gives(Record, 1, Other, 2, case.k, case.weights)
    BY <1>1, <2>1, <2>2, OtherIs, ExamplesAreTheFrontier
  <2> QED
    BY <2>3 DEF Gives
<1>6. NodeViews(Record.traces[2]) = case.frontier
  BY <1>3 DEF ReadBack
<1>7. /\ DOMAIN Examples(Record, 2).nodes = 1..n
      /\ \A i \in 1..n :
           Examples(Record, 2).nodes[i].target =
             IF TargetWeight(TargetOf(Record.targets, 2, i)) = NoTarget THEN NoTarget
             ELSE TargetOf(Record.targets, 2, i).value
      /\ OfflineSelection(case.weights, Examples(Record, 2))
         = LearnedTopK(case.weights, case.frontier, w)
  <2>1. Describes(Record, 2, case.frontier, w)
    BY <1>4, <1>6 DEF Describes
  <2>2. Gives(Record, 2, case.frontier, n, w, case.weights)
    BY <1>1, <2>1, ExamplesAreTheFrontier
  <2> QED
    BY <2>2 DEF Gives
<1>8. LearnedTopK(case.weights, case.frontier, w) = LearnedTopK(case.weights, case.frontier, case.k)
  <2>1. CASE w = case.k
    BY <2>1
  <2>2. CASE n = 1
    <3>1. /\ Scores(case.weights, FeatureMatrix(case.frontier, w)) \in [1..1 -> Int]
          /\ Scores(case.weights, FeatureMatrix(case.frontier, case.k)) \in [1..1 -> Int]
      <4>1. w \in Nat /\ case.k \in Nat
        BY <1>1
      <4>2. /\ Scores(case.weights, FeatureMatrix(case.frontier, w)) \in [1..n -> Int]
            /\ Scores(case.weights, FeatureMatrix(case.frontier, case.k)) \in [1..n -> Int]
        BY <1>1, <4>1, ScoresAreNumbers
      <4> QED
        BY <2>2, <4>2
    <3>2. /\ LearnedTopK(case.weights, case.frontier, w) = <<1>>
          /\ LearnedTopK(case.weights, case.frontier, case.k) = <<1>>
      BY <1>1, <3>1, LoneNodeIsKept DEF LearnedTopK
    <3> QED
      BY <3>2
  <2> QED
    BY <1>2, <2>1, <2>2
<1>9. ASSUME NEW i \in 1..n
      PROVE  Examples(Record, 2).nodes[i].target = Observed(i)
  <2> DEFINE row == TargetOf(Record.targets, 2, i)
             o == case.outcomes[i]
  <2>1. row.value = o.value /\ row.source = o.source
    BY <1>2, <1>4 DEF RowsAre
  <2>2. o \in Outcomes
    BY <1>1
  <2>3. /\ TerminalWeight # NoTarget /\ BootstrapWeight # NoTarget /\ 0 # NoTarget /\ 3 # NoTarget
    BY CaseAssumption
  <2> HIDE DEF row, o
  <2>4. \/ o.value = NoTarget /\ o.source = "no_target"
        \/ o.value = 0 /\ o.source = "terminal"
        \/ o.value = 3 /\ o.source = "value_bootstrap"
        \/ o.value = 3 /\ o.source = "unknown"
    BY <2>2 DEF Outcomes
  <2>5. (IF TargetWeight(row) = NoTarget THEN NoTarget ELSE row.value)
        = IF o.source = "unknown" THEN NoTarget ELSE o.value
    BY <2>1, <2>3, <2>4 DEF TargetWeight
  <2> QED
    BY <1>7, <2>5 DEF row, o, Observed
<1> QED
  BY <1>3, <1>5, <1>7, <1>8, <1>9

\* Offline the pruner is judged by the selection it makes at run time, on whole records
\* only, and its metrics agree (pruner_training_data.py, search_trace.py).
THEOREM OfflineAlwaysSelectsAsRuntime == CaseSpec => []OfflineSelectsAsRuntime
<1>1. ASSUME CaseInv
      PROVE  OfflineSelectsAsRuntime
  <2> DEFINE loaded == answer.frontiers[2]
             target == [i \in DOMAIN loaded.nodes |-> loaded.nodes[i].target]
             labelled == Labelled(loaded.nodes)
             selected == ToSet(OfflineSelection(case.weights, loaded))
             size == Cardinality(selected)
             gap == SelectedValueGap(target, labelled, selected, size)
             Judged ==
               /\ DOMAIN loaded.nodes = DOMAIN case.frontier
               /\ NodeViews(answer.record.traces[2]) = case.frontier
               /\ SelectedNodeViews(answer.record.traces[2])
                  = [p \in DOMAIN ValueTopK(case.frontier, 3 - case.k) |->
                       case.frontier[ValueTopK(case.frontier, 3 - case.k)[p]]]
               /\ \A i \in DOMAIN case.frontier :
                    target[i] = IF case.outcomes[i].source = "unknown" THEN NoTarget
                                ELSE case.outcomes[i].value
               /\ OfflineSelection(case.weights, loaded)
                  = LearnedTopK(case.weights, case.frontier, case.k)
               /\ OfflineSelection(case.weights, answer.frontiers[1])
                  = LearnedTopK(case.weights, Other, case.k)
               /\ QualityIsKnown(labelled, selected, size) =>
                    /\ Recall(target, labelled, selected, size) = size => gap = 0
                    /\ gap >= BestValueRegret(target, labelled, selected)
                    /\ BestValueRegret(target, labelled, selected) >= 0
  <2> SUFFICES ASSUME Answered("train")
               PROVE  /\ case.damage = "none" => answer.frontiers # <<>>
                      /\ case.damage \in {"repeated", "missing", "stray", "unselected"} =>
                           answer.frontiers = <<>>
                      /\ answer.frontiers # <<>> => Judged
    BY DEF OfflineSelectsAsRuntime
  <2>1. case.kind = "train" /\ answer = Trained
    BY <1>1 DEF Answered, CaseInv
  <2>2. PICK n \in Nat \ {0} : TrainCase(n)
    BY <1>1, <2>1, TrainCaseIs
  <2>3. /\ answer.record = Record
        /\ RecordIsLoaded(Record) => /\ answer.frontiers = [s \in 1..2 |-> Examples(Record, s)]
                                     /\ answer.frontiers # <<>>
        /\ ~RecordIsLoaded(Record) => answer.frontiers = <<>>
    BY <2>1 DEF Trained
  <2>4. case.damage = "none" => answer.frontiers # <<>>
    BY <2>2, <2>3, LoadedIsWhole
  <2>5. case.damage \in {"repeated", "missing", "stray", "unselected"} => answer.frontiers = <<>>
    BY <2>2, <2>3, DamageIsRefused
  <2>6. ASSUME answer.frontiers # <<>>
        PROVE  Judged
    <3>1. RecordIsLoaded(Record)
      BY <2>3, <2>6
    <3>2. loaded = Examples(Record, 2) /\ answer.frontiers[1] = Examples(Record, 1)
      BY <2>3, <3>1
    <3>3. DOMAIN case.frontier = 1..n
      BY <2>2 DEF TrainCase
    <3>4. /\ ReadBack(answer.record.traces[2], case.frontier, n, ValueKept)
          /\ DOMAIN loaded.nodes = 1..n
          /\ \A i \in 1..n : loaded.nodes[i].target = Observed(i)
          /\ OfflineSelection(case.weights, loaded)
             = LearnedTopK(case.weights, case.frontier, case.k)
          /\ OfflineSelection(case.weights, answer.frontiers[1])
             = LearnedTopK(case.weights, Other, case.k)
      BY <2>2, <2>3, <3>1, <3>2, LoadedRecordGives
    <3> HIDE DEF loaded
    <3>5. \A i \in 1..n : target[i] = Observed(i)
      BY <3>4
    <3>6. /\ NodeViews(answer.record.traces[2]) = case.frontier
          /\ SelectedNodeViews(answer.record.traces[2])
             = [p \in DOMAIN ValueTopK(case.frontier, 3 - case.k) |->
                  case.frontier[ValueTopK(case.frontier, 3 - case.k)[p]]]
      BY <3>4 DEF ReadBack, ValueKept
    <3>7. Keyed(target, labelled)
      <4>1. labelled \subseteq 1..n /\ \A i \in labelled : target[i] \in Nat
        <5>1. ASSUME NEW i \in 1..n
              PROVE  Observed(i) = NoTarget \/ Observed(i) \in Nat
          <6>1. \A o \in Outcomes : o.value = NoTarget \/ o.value \in Nat
            BY DEF Outcomes
          <6>2. case.outcomes[i] \in Outcomes
            BY <2>2 DEF TrainCase
          <6> QED
            BY <6>1, <6>2 DEF Observed
        <5>2. labelled = {i \in 1..n : loaded.nodes[i].target # NoTarget}
          BY <3>4 DEF Labelled
        <5>3. \A i \in labelled : i \in 1..n /\ Observed(i) # NoTarget
          BY <3>4, <5>2
        <5> HIDE DEF target, labelled
        <5> QED
          BY <3>5, <5>1, <5>3
      <4>2. IsFiniteSet(1..n)
        BY FS_Interval
      <4>3. IsFiniteSet(labelled)
        BY <4>1, <4>2, FS_Subset
      <4> HIDE DEF target, labelled
      <4> QED
        BY <4>1, <4>3 DEF Keyed
    <3>8. selected # {}
      <4> DEFINE key == Scores(case.weights, FeatureMatrix(case.frontier, case.k))
                 m == IF case.k < n THEN case.k ELSE n
      <4>1. case.k \in Nat \ {0} /\ case.weights \in Weights /\ case.frontier \in [1..n -> Node]
        BY <2>2 DEF TrainCase
      <4>2. key \in [1..n -> Int]
        BY <4>1, ScoresAreNumbers
      <4>3. OfflineSelection(case.weights, loaded) = TopK(key, case.k)
        BY <3>4 DEF LearnedTopK
      <4>4. 1 \in 1..m
        BY <4>1
      <4> HIDE DEF key
      <4>5. DOMAIN TopK(key, case.k) = 1..m
        BY <4>1, <4>2, TopKIsSequence
      <4>6. TopK(key, case.k)[1] \in selected
        BY <4>3, <4>4, <4>5 DEF ToSet
      <4> QED
        BY <4>6
    <3>9. ASSUME QualityIsKnown(labelled, selected, size)
          PROVE  /\ Recall(target, labelled, selected, size) = size => gap = 0
                 /\ gap >= BestValueRegret(target, labelled, selected)
                 /\ BestValueRegret(target, labelled, selected) >= 0
      <4>1. selected \in SUBSET labelled
        BY <3>9 DEF QualityIsKnown
      <4> HIDE DEF selected, labelled, target
      <4> QED
        BY <3>7, <3>8, <4>1, GapBoundsRegret
    <3> QED
      BY <3>3, <3>4, <3>5, <3>6, <3>9 DEF Observed
  <2> QED
    BY <2>4, <2>5, <2>6
<1> QED
  BY <1>1, CaseInvariant, PTL
=============================================================================
