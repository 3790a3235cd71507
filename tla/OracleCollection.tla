--------------------------- MODULE OracleCollection ---------------------------
(***************************************************************************)
(* Oracle collection (runner/oracle_collection.py): a process plays one    *)
(* Combat episode with the runtime engine, runs the teacher's search on    *)
(* every Decision of it, and appends the episode to a JSONL file, all of   *)
(* it or nothing.  Episodes run one after the other, either into the same  *)
(* --output file, or each into a staged file that                          *)
(* scripts/run_oracle_collection_managed.ps1 sorts into data/oracle or     *)
(* data/oracle_fault.  The files are read by load_combat_value_rl_episodes *)
(* (decision/_value_training_data_impl.py).  What a search or a request    *)
(* does inside is in BeamSearch.tla and ClientSession.tla.                 *)
(***************************************************************************)
EXTENDS Integers, Sequences, FiniteSets

CONSTANTS
    MaxEpisodes,    \* bound: episodes run one after the other
    MaxPoints,      \* bound: Decisions of an episode, the last one is terminal
    MaxDecisions,   \* max_decisions
    CollectorFits   \* the collector's _score_frontier accepts the call of search()

ASSUME BoundsAssumption ==
    MaxEpisodes \in Nat \ {0} /\ MaxPoints \in Nat \ {0} /\ MaxDecisions \in Nat \ {0}
ASSUME CollectorFitsAssumption == CollectorFits \in BOOLEAN

VARIABLES
    managed,    \* run by the managed wrapper, each episode has a file of its own
    pc,         \* where the process of the current episode stands, see Places
    ep,         \* the current episode, 0 before the first one
    seen,       \* raw_decision: number and kind of the Decision in hand
    collected,  \* decisions_collected
    completed,  \* completed: the loop ended in a terminal Decision
    file,       \* the output file, see Piece
    start,      \* output_start_size
    library,    \* files the wrapper has moved to data/oracle
    root,       \* RL: number of each episode's root Decision, one more per commit
    kind,       \* RL: what the current episode's root Decision offers, see Kinds
    cut,        \* history: episodes killed, cancelled, or not rolled back
    trouble     \* history: cut ones, and those with a failed request or write, or
                \* with a Decision nobody can choose in or search from

episodeVars == <<seen, collected, completed>>
rlVars == <<root, kind>>
vars == <<managed, pc, ep, episodeVars, file, start, library, rlVars, cut, trouble>>

Episodes == 1..MaxEpisodes
Places == {"launch", "start", "get", "look", "collect", "decide", "commit", "write",
           "result", "rollback", "close", "exit", "done"}

\* "play": Beam may search it; "other": it may not; "blocked": no action is
\* available; "end": terminal.
Kinds == {"play", "other", "blocked", "end"}

NoDecision == [point |-> 0, kind |-> "none"]
Decision == [point : 1..MaxPoints, kind : Kinds]

\* What a record tells: a decision record its decision_index and the numbers of
\* the Decision acted on and of the one that followed; the episode's result
\* decisions_collected, and the last Decision, the final DTO, as next.
Record == [type : {"decision", "result"}, ep : Episodes, index : 0..MaxDecisions,
           point : 0..MaxPoints, next : 1..MaxPoints, completed : BOOLEAN]

\* The file in pieces of records: 1 and 2 are halves of the JSON text, 3 the newline.
Parts == 1..3
Piece == [record : Record, part : Parts]

Pieces(record) == [i \in Parts |-> [record |-> record, part |-> i]]

TypeOK ==
    /\ managed \in BOOLEAN
    /\ pc \in Places
    /\ ep \in 0..MaxEpisodes
    /\ seen \in Decision \cup {NoDecision}
    /\ collected \in 0..MaxDecisions
    /\ completed \in BOOLEAN
    /\ \A i \in DOMAIN file : file[i] \in Piece
    /\ start \in Nat
    /\ \A f \in library : \A i \in DOMAIN f : f[i] \in Piece
    /\ root \in [Episodes -> 0..MaxPoints]
    /\ kind \in Kinds
    /\ cut \subseteq trouble /\ trouble \subseteq Episodes

-----------------------------------------------------------------------------
(* Reading a file.                                                         *)

\* The text of a record stands complete and alone on its line.
Readable(f, i) ==
    /\ f[i].part = 2 /\ i > 1
    /\ f[i-1] = [f[i] EXCEPT !.part = 1]
    /\ i > 2 => f[i-2].part = 3
    /\ i < Len(f) => f[i+1].part = 3

\* Some line is not JSON.
Torn(f) ==
    \E i \in DOMAIN f :
        \/ f[i].part = 2 /\ ~ Readable(f, i)
        \/ f[i].part = 1 /\ ~ (i < Len(f) /\ Readable(f, i+1))

Texts(f) == {i \in DOMAIN f : Readable(f, i)}
Of(f, type, e) ==
    {i \in Texts(f) : f[i].record.type = type /\ f[i].record.ep = e}
EpisodesIn(f) == {f[i].record.ep : i \in Texts(f)}

\* load_combat_value_rl_episodes raises unless every episode has one result, and
\* as many decision records, contiguously numbered, as the result says; the last
\* one must lead to the result's final DTO.
Loads(f) ==
    /\ ~ Torn(f)
    /\ \A e \in EpisodesIn(f) :
        LET steps == Of(f, "decision", e)
        IN /\ Cardinality(Of(f, "result", e)) = 1
           /\ \A i \in Of(f, "result", e) :
                /\ f[i].record.index = Cardinality(steps)
                /\ {f[j].record.index : j \in steps} = 0..Cardinality(steps) - 1
                /\ \A j \in steps :
                    f[j].record.index = Cardinality(steps) - 1
                        => f[j].record.next = f[i].record.next

\* The wrapper's test: the last line is the result of an episode that ended.
Success(f) ==
    \E i \in Texts(f) :
        /\ i >= Len(f) - 1
        /\ f[i].record.type = "result" /\ f[i].record.completed

-----------------------------------------------------------------------------
(* Where the control goes.                                                 *)

Init ==
    /\ managed \in BOOLEAN
    /\ pc = "launch" /\ ep = 0
    /\ seen = NoDecision /\ collected = 0 /\ completed = FALSE
    /\ file = <<>> /\ start = 0 /\ library = {}
    /\ root = [e \in Episodes |-> 0] /\ kind = "play"
    /\ cut = {} /\ trouble = {}

Goto(place) == pc' = place /\ UNCHANGED <<cut, trouble>>

\* An Exception on its way to the rollback that the environment brought about.
Fails == pc' = "rollback" /\ trouble' = trouble \cup {ep} /\ UNCHANGED cut

\* A process starts, on a file of its own if managed.
Launch ==
    /\ pc = "launch" /\ ep < MaxEpisodes
    /\ ep' = ep + 1
    /\ Goto("start")
    /\ seen' = NoDecision /\ collected' = 0 /\ completed' = FALSE
    /\ file' = IF managed THEN <<>> ELSE file
    /\ start' = Len(file')
    /\ UNCHANGED <<managed, library, rlVars>>

\* start_instance; a failure is outside OracleEpisodeRunner.run.
Start ==
    /\ pc = "start"
    /\ \/ /\ Goto("get")
          /\ root' = [root EXCEPT ![ep] = 1]
          /\ kind' \in IF MaxPoints = 1 THEN {"end"} ELSE Kinds
       \/ pc' = "exit" /\ trouble' = trouble \cup {ep} /\ UNCHANGED <<cut, rlVars>>
    /\ UNCHANGED <<managed, ep, episodeVars, file, start, library>>

\* get_decision, the first one only.
Get ==
    /\ pc = "get"
    /\ \/ Goto("look") /\ seen' = [point |-> root[ep], kind |-> kind]
       \/ Fails /\ UNCHANGED seen
    /\ UNCHANGED <<managed, ep, collected, completed, file, start, library, rlVars>>

Terminal == seen.kind = "end"

\* The top of the loop.  Without a legal action it raises.
Look ==
    /\ pc = "look"
    /\ completed' = Terminal
    /\ IF Terminal THEN Goto("result")
       ELSE IF seen.kind = "blocked" THEN Fails
       ELSE Goto(IF seen.kind = "end" THEN "rollback" ELSE "collect")
    /\ UNCHANGED <<managed, ep, seen, collected, file, start, library, rlVars>>

\* The teacher's search.  A Decision it cannot search from, or no time for the
\* first ply, leaves no root proposal to derive targets from, which raises.  A
\* search that scores a ply calls the collector's _score_frontier; one stopped by
\* capacity before it does not.  AllBranchesFaultedError ends the episode.
Collect ==
    /\ pc = "collect"
    /\ \/ Fails
       \/ /\ seen.kind = "play"
          /\ \E scored \in BOOLEAN :
             IF scored /\ ~ CollectorFits
             THEN pc' = "rollback" /\ UNCHANGED <<cut, trouble>>
             ELSE \E place \in {"decide", "result"} : Goto(place)
    /\ UNCHANGED <<managed, ep, episodeVars, file, start, library, rlVars>>

\* The runtime engine chooses, with or without a search of its own.
Decide ==
    /\ pc = "decide"
    /\ Fails \/ Goto("commit") \/ Goto("result")
    /\ UNCHANGED <<managed, ep, episodeVars, file, start, library, rlVars>>

\* RL executes the commit.
Execute ==
    /\ root' = [root EXCEPT ![ep] = @ + 1]
    /\ kind' \in IF root'[ep] = MaxPoints THEN {"end"} ELSE Kinds

\* commit_action; one that failed may have been executed.
Commit ==
    /\ pc = "commit"
    /\ \/ Execute /\ Goto("write")
       \/ Execute /\ Fails
       \/ Fails /\ UNCHANGED rlVars
    /\ UNCHANGED <<managed, ep, episodeVars, file, start, library>>

-----------------------------------------------------------------------------
(* The output file.                                                        *)

\* A file with the first n pieces of the record at its end.
Extended(record, n) == file \o SubSeq(Pieces(record), 1, n)

\* The record of the Decision in hand, written when its commit has completed.
DecisionRecord ==
    [type |-> "decision", ep |-> ep, index |-> collected, point |-> seen.point,
     next |-> root[ep], completed |-> FALSE]

\* Seeded bug: the limit is asked for before the terminal Decision.
EndedUnlessLimit == kind = "end" /\ collected + 1 < MaxDecisions

\* After a commit the loop ends in a terminal Decision, else at the limit.
Ended == kind = "end"

LimitReached(decisions) == decisions >= MaxDecisions

\* _append of the decision record.  An error may leave any part of it behind.
Write ==
    /\ pc = "write"
    /\ \/ /\ file' = Extended(DecisionRecord, 3)
          /\ collected' = collected + 1
          /\ completed' = Ended
          /\ seen' = [point |-> root[ep], kind |-> kind]
          /\ Goto(IF Ended \/ LimitReached(collected') THEN "result" ELSE "look")
       \/ /\ \E n \in 0..3 : file' = Extended(DecisionRecord, n)
          /\ Fails
          /\ UNCHANGED episodeVars
    /\ UNCHANGED <<managed, ep, start, library, rlVars>>

ResultRecord ==
    [type |-> "result", ep |-> ep, index |-> collected, point |-> 0,
     next |-> seen.point, completed |-> completed]

\* _append of the episode's result.
WriteResult ==
    /\ pc = "result"
    /\ \/ file' = Extended(ResultRecord, 3) /\ Goto("close")
       \/ (\E n \in 0..3 : file' = Extended(ResultRecord, n)) /\ Fails
    /\ UNCHANGED <<managed, ep, episodeVars, start, library, rlVars>>

\* Seeded bug: whatever the file held before goes too.
TruncatedToZero == <<>>

Truncated == SubSeq(file, 1, start)

\* _rollback_output: back to the size before the episode, if that works.
Rollback ==
    /\ pc = "rollback"
    /\ pc' = "close"
    /\ \/ file' = Truncated /\ UNCHANGED <<cut, trouble>>
       \/ file' = file /\ cut' = cut \cup {ep} /\ trouble' = trouble \cup {ep}
    /\ UNCHANGED <<managed, ep, episodeVars, start, library, rlVars>>

\* _close_best_effort, and the process ends.
Close ==
    /\ pc = "close"
    /\ Goto("exit")
    /\ UNCHANGED <<managed, ep, episodeVars, file, start, library, rlVars>>

-----------------------------------------------------------------------------
(* What may hit the process at any time.                                   *)

Cut == cut' = cut \cup {ep} /\ trouble' = trouble \cup {ep}

\* Ctrl-C cancels the task at the request it waits for: CancelledError passes
\* `except Exception`, so nothing is rolled back, and the instance is closed.
Cancel ==
    /\ pc \in {"start", "get", "collect", "decide", "commit", "close"}
    /\ pc' = IF pc \in {"start", "close"} THEN "exit" ELSE "close"
    /\ Cut
    /\ \/ pc = "commit" /\ Execute
       \/ UNCHANGED rlVars
    /\ UNCHANGED <<managed, ep, episodeVars, file, start, library>>

\* The process is gone, in the middle of a write or of a request.
Kill ==
    /\ pc \in Places \ {"launch", "exit", "done"}
    /\ pc' = "exit"
    /\ Cut
    /\ \/ pc = "commit" /\ Execute
       \/ UNCHANGED rlVars
    /\ CASE pc = "write" -> \E n \in 0..3 : file' = Extended(DecisionRecord, n)
         [] pc = "result" -> \E n \in 0..3 : file' = Extended(ResultRecord, n)
         [] OTHER -> UNCHANGED file
    /\ UNCHANGED <<managed, ep, episodeVars, start, library>>

-----------------------------------------------------------------------------
(* After the process.                                                      *)

\* The wrapper moves the staged file; the others go to data/oracle_fault.
File ==
    /\ pc = "exit"
    /\ Goto(IF ep = MaxEpisodes THEN "done" ELSE "launch")
    /\ library' = IF managed /\ Success(file) THEN library \cup {file} ELSE library
    /\ UNCHANGED <<managed, ep, episodeVars, file, start, rlVars>>

Done == pc = "done" /\ UNCHANGED vars

Next ==
    \/ Launch \/ Start \/ Get \/ Look \/ Collect \/ Decide \/ Commit
    \/ Write \/ WriteResult \/ Rollback \/ Close \/ Cancel \/ Kill \/ File \/ Done

Spec == Init /\ [][Next]_vars

-----------------------------------------------------------------------------
(* Properties.                                                             *)

\* What the current episode has appended to the file.
Own == SubSeq(file, start + 1, Len(file))

\* Unless an episode is killed, cancelled or its rollback fails, its process leaves
\* what was in the file, and of its own records either nothing or a trajectory the
\* loader takes, whichever request or write failed ("part of the same atomic append
\* as its decision records", oracle_collection.py).  (And every variable keeps its type.)
EpisodeIsAtomic ==
    /\ TypeOK
    /\ (pc = "exit" /\ ep \notin cut) =>
        /\ Len(file) >= start
        /\ Own = <<>> \/ (Loads(Own) /\ Of(Own, "result", ep) # {})

\* Whatever happened to the processes that wrote a file: if the loader takes it,
\* each of its episodes is the whole game RL played, from the first Decision to the
\* last executed commit, and says truly whether it ended in a terminal Decision.
\* An episode killed, or with a commit of unknown outcome, is never half loaded.
\* data/oracle, the only directory to train from, holds files the loader takes, of
\* one episode each that ended in a terminal Decision, although the wrapper looks at
\* nothing but a file's last line and processes are killed and cancelled.
LoadedTrajectoryWasPlayed ==
    /\ \A f \in library \cup (IF pc \in {"exit", "launch", "done"} THEN {file} ELSE {}) :
         Loads(f) =>
            \A e \in EpisodesIn(f) :
                LET steps == Of(f, "decision", e)
                IN /\ Cardinality(steps) = root[e] - 1
                   /\ \A i \in steps :
                        /\ f[i].record.point = f[i].record.index + 1
                        /\ f[i].record.next = f[i].record.index + 2
                   /\ (e = ep /\ Of(f, "result", e) # {}) =>
                        \A i \in Of(f, "result", e) :
                            f[i].record.completed = (kind = "end")
    /\ \A f \in library :
         /\ Loads(f)
         /\ Cardinality(EpisodesIn(f)) = 1
         /\ \A e \in EpisodesIn(f) : \A i \in Of(f, "result", e) : f[i].record.completed

\* "Collect budgeted Oracle targets at each root Combat decision": an episode in
\* which no request and no write fails, and every Decision can be searched, leaves a
\* record for each of its commits, and a result.
CollectsWhenAllGoesWell ==
    (pc = "exit" /\ ep \notin trouble) =>
        /\ Of(Own, "result", ep) # {}
        /\ Cardinality(Of(Own, "decision", ep)) = root[ep] - 1
=============================================================================
