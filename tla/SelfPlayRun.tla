---------------------------- MODULE SelfPlayRun ----------------------------
(***************************************************************************)
(* One self-play run (runner/self_play.py, _run_one): open the JSONL log,  *)
(* start the instance, let EpisodeRunner (runner/episode.py) decide and    *)
(* commit until a terminal Decision, close, label the log.  Decisions come *)
(* from CombatDecisionEngine (decision/engine.py), an Event through        *)
(* best_event_option (decision/event_branch_search.py) step by step and a  *)
(* Beam search as one step (BeamSearch.tla has its inside).                *)
(***************************************************************************)
EXTENDS ClientSession

CONSTANTS
    MaxDecisions    \* max_decisions

ASSUME MaxDecisionsAssumption == MaxDecisions \in Nat \ {0}

VARIABLES
    pc,         \* where the run stands, see Places
    batch,      \* emulate_actions_boundaries has "event_choice"
    settles,    \* Beam has turn_aligned_leaves or turn_boundary_scoring
    godMode,    \* god_mode
    honoured,   \* RL reports godMode in the terminal Decision
    seen,       \* the Decision in hand, NoDecision before the first one
    clock,      \* what is left of the Decision's timeout, see Clock
    made,       \* decisions_made
    created,    \* created_branch_ids of the Event search
    tried,      \* candidates the Event search is through with
    hp,         \* hit points of the options that resolved, 0 for the others
    raised,     \* an exception is on its way out of the Event search
    source,     \* DecisionOutcome.source
    option,     \* the option the Event search preferred, 0 for none
    started,    \* start_instance has returned an instance_id
    closing,    \* close_instance has been called
    final,      \* the terminal Decision the episode ended with, or NoDecision
    label,      \* the log has the self_play_run_result record
    error,      \* SelfPlayRunResult.error is set
    givenUp     \* history: Branches whose release was refused or out of time

config == <<batch, settles, godMode, honoured>>
eventVars == <<created, tried, hp, raised>>
outcomeVars == <<source, option>>
resultVars == <<started, closing, final, label, error>>
runVars == <<pc, config, seen, clock, made, eventVars, outcomeVars, resultVars, givenUp>>
vars == <<clientVars, runVars>>

Places == {"open", "start", "get", "decide", "evaluate", "cleanup", "search",
           "commit", "close", "label", "end", "done"}

\* "eval": time to evaluate candidates; "reserve": only what best_event_option
\* keeps for its cleanup; "over": nothing.
Clock == {"eval", "reserve", "over"}
Later(c) == CASE c = "eval" -> {"reserve", "over"} [] c = "reserve" -> {"over"}
              [] OTHER -> {}

NoDecision == [point |-> 0, kind |-> "none"]
Decision == [point : 1..MaxPoints, kind : Kinds]
Sources == {"none", "forced_single_action", "event_branch_search", "beam_search",
            "heuristic_fallback"}

TypeOK ==
    /\ ClientTypeOK
    /\ pc \in Places
    /\ batch \in BOOLEAN /\ settles \in BOOLEAN
    /\ godMode \in BOOLEAN /\ honoured \in BOOLEAN
    /\ seen \in Decision \cup {NoDecision}
    /\ clock \in Clock
    /\ made \in 0..MaxDecisions
    /\ created \subseteq Branches
    /\ tried \subseteq Options
    /\ hp \in [Options -> 0..2]
    /\ raised \in BOOLEAN
    /\ source \in Sources
    /\ option \in Options \cup {0}
    /\ started \in BOOLEAN /\ closing \in BOOLEAN
    /\ final \in Decision \cup {NoDecision}
    /\ label \in BOOLEAN /\ error \in BOOLEAN
    /\ givenUp \subseteq Branches

NoHp == [i \in Options |-> 0]

Init ==
    /\ ClientInit
    /\ pc = "open"
    /\ batch \in BOOLEAN /\ godMode \in BOOLEAN
    /\ settles \in IF godMode THEN {FALSE} ELSE BOOLEAN
    /\ honoured \in IF godMode THEN BOOLEAN ELSE {FALSE}
    /\ seen = NoDecision
    /\ clock = "eval"
    /\ made = 0
    /\ created = {} /\ tried = {} /\ hp = NoHp /\ raised = FALSE
    /\ source = "none" /\ option = 0
    /\ started = FALSE /\ closing = FALSE
    /\ final = NoDecision
    /\ label = FALSE /\ error = FALSE
    /\ givenUp = {}

-----------------------------------------------------------------------------
(* Where the control goes, and what changes on the way.                    *)

\* The locals of best_event_option are gone.
OutOfScope == created' = {} /\ tried' = {} /\ hp' = NoHp /\ raised' = FALSE

\* decide() on this Decision; the loop of EpisodeRunner.run gives it a timeout.
Decide(decision) ==
    /\ pc' = "decide"
    /\ seen' = decision
    /\ clock' = "eval"
    /\ OutOfScope
    /\ source' = "none" /\ option' = 0
    /\ UNCHANGED resultVars

\* The episode's loop ends, well or by an exception; its finally clause is next.
Leave(ok, last) ==
    /\ pc' = "close"
    /\ error' = ~ ok
    /\ final' = last
    /\ OutOfScope
    /\ seen' = NoDecision /\ clock' = "eval" /\ source' = "none" /\ option' = 0
    /\ UNCHANGED <<started, closing, label>>

Raise == Leave(FALSE, NoDecision)

\* The outcome of decide(), to be committed.
Choose(src, preferred) ==
    /\ pc' = "commit"
    /\ source' = src
    /\ option' = preferred
    /\ UNCHANGED <<seen, eventVars, resultVars>>

Goto(place) ==
    /\ pc' = place
    /\ OutOfScope
    /\ UNCHANGED <<seen, clock, outcomeVars, resultVars>>

-----------------------------------------------------------------------------
(* Before the first Decision.                                              *)

\* The log file is created and the connection made; either may fail.
Open ==
    /\ pc = "open"
    /\ \E ok \in BOOLEAN :
        /\ pc' = IF ok THEN "start" ELSE "end"
        /\ error' = ~ ok
    /\ UNCHANGED <<clientVars, config, seen, clock, made, eventVars, outcomeVars,
                   started, closing, final, label, givenUp>>

\* start_and_run; a failure is not yet inside the episode's finally clause.
Start ==
    /\ pc = "start"
    /\ \E outcome \in Possible :
        /\ StartInstance(outcome)
        /\ started' = (outcome = "completed")
        /\ error' = (outcome # "completed")
        /\ pc' = IF outcome = "completed" THEN "get" ELSE "end"
    /\ UNCHANGED <<config, seen, clock, made, eventVars, outcomeVars, closing, final,
                   label, givenUp>>

\* Only the first Decision is asked for.
Get ==
    /\ pc = "get"
    /\ \E outcome \in Possible :
        /\ GetDecision(outcome)
        /\ IF outcome = "completed" THEN Decide([point |-> root, kind |-> kind])
                                    ELSE Raise
    /\ UNCHANGED <<config, made, givenUp>>

-----------------------------------------------------------------------------
(* CombatDecisionEngine.decide on the Decision in hand.                    *)

\* The Decision's timeout runs out, in whatever it is doing.
Tick ==
    /\ pc \in {"decide", "evaluate", "cleanup", "search", "commit"}
    /\ clock' \in Later(clock)
    /\ UNCHANGED <<clientVars, pc, config, seen, made, eventVars, outcomeVars,
                   resultVars, givenUp>>

\* NoAvailableActionError: the end of the episode on a terminal Decision, an
\* error on any other.
NoAvailableAction ==
    /\ pc = "decide"
    /\ seen.kind \in {"end", "blocked", "stuck"}
    /\ IF seen.kind = "end" THEN Leave(TRUE, seen) ELSE Raise
    /\ UNCHANGED <<clientVars, config, made, givenUp>>

ForcedSingleAction ==
    /\ pc = "decide"
    /\ seen.kind = "forced"
    /\ Choose("forced_single_action", 0)
    /\ UNCHANGED <<clientVars, config, clock, made, givenUp>>

\* An Event is tried by best_event_option first, if there is time.
Dispatch ==
    /\ pc = "decide"
    /\ seen.kind \in {"event", "combat", "other"}
    /\ Goto(IF seen.kind = "event" /\ clock # "over" THEN "evaluate" ELSE "search")
    /\ UNCHANGED <<clientVars, config, made, givenUp>>

-----------------------------------------------------------------------------
(* best_event_option.                                                      *)

Branch(i) == <<seen.point, i>>
Candidates == {Branch(i) : i \in Options}

\* Seeded bug: death is compared like any other hp.
BestMayDie ==
    LET best == {i \in tried : \A j \in tried : hp[j] <= hp[i]}
    IN IF best = {} THEN 0 ELSE CHOOSE i \in best : \A j \in best : i <= j

\* The first option with the most hp among those that survive, 0 for None.
Best ==
    LET alive == {i \in tried : hp[i] > 0}
        best == {i \in alive : \A j \in alive : hp[j] <= hp[i]}
    IN IF best = {} THEN 0 ELSE CHOOSE i \in best : \A j \in best : i <= j

\* What options may resolve to: hit points, and whether the item completed at all.
Resolutions(outcome, options) ==
    {r \in [hp : [options -> 0..2], done : SUBSET options] :
        /\ \A i \in options : r.hp[i] > 0 => i \in r.done
        /\ outcome # "completed" => r.done = {}}

\* emulate_actions of all candidates.  A rejection created nothing, a fault may
\* have; anything else raises, and hands the Branches to the exact retry.
EvaluateBatch ==
    /\ pc = "evaluate" /\ batch
    /\ clock = "eval"
    /\ \E outcome \in Possible : \E r \in Resolutions(outcome, Options) :
        /\ Emulate(outcome, Candidates, {Branch(i) : i \in r.done}, Candidates)
        /\ hp' = r.hp
        /\ tried' = IF outcome = "completed" THEN Options ELSE {}
        /\ created' = IF outcome \in {"completed", "faulted"} THEN Candidates ELSE {}
        /\ raised' = (outcome \in {"unsent", "uncertain", "invalid"})
    /\ pc' = "cleanup"
    /\ UNCHANGED <<config, seen, clock, made, outcomeVars, resultVars, givenUp>>

\* Seeded bug: only the candidate in flight is handed to the exact retry.
OwnedByRetryForgetsEarlier(i) == {Branch(i)}

\* What _defer_retry_cleanup hands over in the singleton loop.
OwnedByRetry(i) == created \cup {Branch(i)}

\* emulate_action of the next candidate; rejected and faulted ones are skipped.
EvaluateNext ==
    /\ pc = "evaluate" /\ ~ batch
    /\ clock = "eval"
    /\ LET i == CHOOSE i \in Options \ tried : \A j \in Options \ tried : i <= j
       IN \E outcome \in Possible : \E r \in Resolutions(outcome, {i}) :
            /\ Emulate(outcome, {Branch(i)}, {Branch(j) : j \in r.done}, OwnedByRetry(i))
            /\ hp' = [hp EXCEPT ![i] = r.hp[i]]
            /\ tried' = tried \cup {i}
            /\ created' = IF outcome \in {"completed", "faulted"}
                          THEN created \cup {Branch(i)} ELSE created
            /\ raised' = (outcome \in {"unsent", "uncertain", "invalid"})
            /\ pc' = IF raised' \/ tried' = Options THEN "cleanup" ELSE "evaluate"
    /\ UNCHANGED <<config, seen, clock, made, outcomeVars, resultVars, givenUp>>

\* The evaluation budget is spent before all candidates are tried: None.
EvaluationExpires ==
    /\ pc = "evaluate"
    /\ clock # "eval"
    /\ pc' = "cleanup"
    /\ tried' = {} /\ hp' = NoHp
    /\ UNCHANGED <<clientVars, config, seen, clock, made, created, raised,
                   outcomeVars, resultVars, givenUp>>

\* Seeded bug: the cleanup does not ask whether the session is still usable.
MayReleaseAlways == created # {} /\ clock # "over"

MayRelease == created # {} /\ clock # "over" /\ Usable

\* How best_event_option ends after its finally clause.
EventSearchEnds(raises) ==
    IF raises THEN Raise
    ELSE IF Best = 0 THEN Goto("search")
    ELSE Choose("event_branch_search", Best) /\ UNCHANGED clock

\* The finally clause releases what was created.  A release that RL rejects, or
\* that was never sent, is only logged.
Cleanup ==
    /\ pc = "cleanup"
    /\ IF MayRelease
       THEN \E outcome \in Possible :
            /\ Release(outcome, created)
            /\ givenUp' = IF outcome \in {"rejected", "faulted", "unsent"}
                          THEN givenUp \cup created ELSE givenUp
            /\ EventSearchEnds(raised \/ outcome \in {"faulted", "uncertain", "invalid"})
       ELSE /\ UNCHANGED clientVars
            /\ givenUp' = IF Usable THEN givenUp \cup created ELSE givenUp
            /\ EventSearchEnds(raised)
    /\ UNCHANGED <<config, made>>

-----------------------------------------------------------------------------
(* Beam search, fallback and commit.                                       *)

BeamMaySearch == pc = "search" /\ seen.kind = "combat" /\ clock # "over" /\ ~ godMode

\* Settling a leaf is best effort: whatever its request has done to the session is
\* swallowed, and the clean-up skipped.
SettlingFails ==
    settles /\ \E outcome \in {"uncertain", "invalid"} : Ends(outcome, {})

\* A search takes what it needs of the timeout; it has a winner or not.
BeamSearch ==
    /\ BeamMaySearch
    /\ clock' \in {clock} \cup Later(clock)
    /\ \E winner \in BOOLEAN :
        Choose(IF winner THEN "beam_search" ELSE "heuristic_fallback", 0)
    /\ UNCHANGED sessionVars \/ SettlingFails
    /\ UNCHANGED <<gameVars, auditVars, logVars, refused, config, made, givenUp>>

\* It raises: every Branch faulted, or a request failed, or the client refuses the next
\* one after settling has failed.
BeamSearchRaises ==
    /\ BeamMaySearch
    /\ \/ /\ \E outcome \in {"faulted", "unsent", "uncertain", "invalid"} : Ends(outcome, {})
          /\ UNCHANGED refused
       \/ SettlingFails /\ refused' = refused + 1
    /\ Raise
    /\ UNCHANGED <<gameVars, auditVars, logVars, config, made, givenUp>>

\* No time, or nothing Beam may search, or (in God Mode) no Beam.
HeuristicFallback ==
    /\ pc = "search"
    /\ ~ BeamMaySearch
    /\ Choose("heuristic_fallback", 0)
    /\ UNCHANGED <<clientVars, config, clock, made, givenUp>>

\* decide_and_commit raises instead of sending a commit that has no time left.
TooLateToCommit ==
    /\ pc = "commit"
    /\ clock = "over"
    /\ Raise
    /\ UNCHANGED <<clientVars, config, made, givenUp>>

LimitReached(decisions) == decisions >= MaxDecisions

\* commit_action, and what EpisodeRunner.run makes of the next root Decision.
CommitAction ==
    /\ pc = "commit"
    /\ clock # "over"
    /\ \E outcome \in Possible :
        /\ Commit(outcome, seen.point)
        /\ made' = IF outcome = "completed" THEN made + 1 ELSE made
        /\ IF outcome # "completed" THEN Raise
           ELSE LET next == [point |-> root', kind |-> kind']
                IN IF kind' = "end" THEN Leave(TRUE, next)
                   ELSE IF kind' = "stuck" \/ LimitReached(made') THEN Raise
                   ELSE Decide(next)
    /\ UNCHANGED <<config, givenUp>>

-----------------------------------------------------------------------------
(* After the episode.                                                      *)

\* _close_best_effort: never on a session with something unresolved.
Close ==
    /\ pc = "close"
    /\ IF Usable THEN closing' = TRUE /\ \E outcome \in Outcomes : CloseInstance(outcome)
                 ELSE UNCHANGED <<closing, clientVars>>
    /\ pc' = IF error THEN "end" ELSE "label"
    /\ UNCHANGED <<config, seen, clock, made, eventVars, outcomeVars, started, final,
                   label, error, givenUp>>

\* Seeded bug: a log with a hole is labelled like any other.
MayLabelAlways == ~ godMode \/ honoured

\* start_new_run wants God Mode confirmed; a log known to have a hole gets no label.
MayLabel == ~ hole /\ (godMode => honoured)

\* The self_play_run_result record, if it can be written.
Label ==
    /\ pc = "label"
    /\ \E written \in BOOLEAN :
        /\ label' = (MayLabel /\ written)
        /\ hole' = (hole \/ (MayLabel /\ ~ written))
    /\ error' = (godMode /\ ~ honoured)
    /\ pc' = "end"
    /\ UNCHANGED <<sessionVars, gameVars, auditVars, missing, refused, config, seen,
                   clock, made, eventVars, outcomeVars, started, closing, final, givenUp>>

\* The log is closed; a write failure anywhere makes the run a failed one.
FailedByLog(closed) == hole \/ ~ closed

End ==
    /\ pc = "end"
    /\ pc' = "done"
    /\ \E closed \in BOOLEAN : error' = (error \/ FailedByLog(closed))
    /\ UNCHANGED <<clientVars, config, seen, clock, made, eventVars, outcomeVars,
                   started, closing, final, label, givenUp>>

Done == pc = "done" /\ UNCHANGED vars

Step ==
    \/ Open \/ Start \/ Get \/ Tick
    \/ NoAvailableAction \/ ForcedSingleAction \/ Dispatch
    \/ EvaluateBatch \/ EvaluateNext \/ EvaluationExpires \/ Cleanup
    \/ BeamSearch \/ BeamSearchRaises \/ HeuristicFallback
    \/ TooLateToCommit \/ CommitAction
    \/ Close \/ Label \/ End

Next == Step \/ Done

Spec == Init /\ [][Next]_vars

-----------------------------------------------------------------------------
(* Properties.                                                             *)

\* Once best_event_option is over, every Branch it made on RL has been released,
\* or the exact retry owns it, or a release was tried for nothing: none is just
\* forgotten, whatever candidate the search was at when it was interrupted
\* (event_branch_search.py, its two defers and its finally clause).  Nor do the
\* audit's cached Decisions pile up over a run: in a usable session a Branch it still
\* remembers is one RL holds, or one whose release failed (contract.py forgets a
\* Branch only when RL confirms its release).  (And every variable keeps its type.)
BranchesHaveAnOwner ==
    /\ TypeOK
    /\ (pc \notin {"evaluate", "cleanup"} /\ session # "invalid")
         => live \subseteq replay \cup givenUp
    /\ Usable => heard \subseteq live \cup givenUp

\* While the outcome of a request is unknown, or the session is dead, nothing of the run
\* calls the client: no cleanup races the exact replay, and no close.  Except that Beam,
\* when it settles leaves, goes on, or returns with a choice, as if nothing had happened:
\* then the client refuses exactly one call (the next request of the search, or the
\* commit), and that ends the run, as a failed one, unlabelled and without another call.
ReplayIsNotRaced ==
    refused # 0 =>
        /\ settles /\ refused = 1
        /\ ~ Usable /\ pc \in {"close", "end", "done"}
        /\ error /\ ~ closing /\ ~ label

\* A labelled log tells the whole run: it ended in a terminal Decision, every
\* action RL executed for it, committed or only explored, has its record, every
\* commit's record quotes the Decision it answered, and God Mode was real.
LabelledRunIsComplete ==
    label =>
        /\ final.kind = "end"
        /\ missing = {}
        /\ godMode => honoured

\* The option an Event is committed with belongs to RL's current Decision and
\* survived its simulation, every other option had its turn, and none of them kept
\* more hit points: a search cut short by its deadline commits to nothing.
EventChoiceSurvives ==
    (pc = "commit" /\ source = "event_branch_search") =>
        /\ seen.point = root /\ tried = Options
        /\ option # 0 /\ hp[option] > 0
        /\ \A i \in Options : hp[i] <= hp[option]
=============================================================================
