-------------------------- MODULE SelfPlayRunProofs --------------------------
(***************************************************************************)
(* For runs of any length and any failure of any request or write: every   *)
(* Branch of an Event search has an owner, nothing calls a client that has *)
(* something unresolved, a labelled log is complete, and the option an     *)
(* Event is committed with has survived its simulation.                    *)
(***************************************************************************)
EXTENDS SelfPlayRun, TLAPS

Deciding == {"decide", "evaluate", "cleanup", "search", "commit"}

Ended == {"close", "end", "done"}

\* The session is usable wherever the run goes on, unless an Event search that is about to
\* raise, or a Beam search that settles leaves, has left it otherwise; the client has
\* refused the commit, or the next request, of the latter.
SessionInv ==
    /\ refused = 0 \/ refused = 1
    /\ ReplayIsNotRaced
    /\ Usable => replay = {}
    /\ pc \in {"open", "start", "get", "decide", "evaluate", "search"} => Usable
    /\ (pc = "commit" /\ ~ Usable) => settles
    /\ (pc = "cleanup" /\ ~ Usable) => raised
    /\ pc \notin {"label", "end", "done"} => ~ closing

\* The Decision in hand is RL's root, and the one the audit quotes.
GameInv ==
    /\ root = MaxPoints => kind = "end"
    /\ pc \in Deciding => /\ seen = [point |-> root, kind |-> kind]
                          /\ rootHeard = root
                          /\ made < MaxDecisions
    /\ pc \in {"open", "start", "get"} => made < MaxDecisions
    /\ pc \in Deciding \ {"decide"} => kind \in {"event", "combat", "other", "forced"}

\* The Branches on RL, of which those of a search under way are its own.
BranchInv ==
    /\ session # "invalid" =>
          live \subseteq replay \cup givenUp
                           \cup (IF pc \in {"evaluate", "cleanup"} THEN created ELSE {})
    /\ session = "pending" => live \subseteq replay \cup givenUp
    /\ Usable => heard \subseteq live \cup givenUp
    /\ (pc = "evaluate" /\ batch) => created = {}

\* An Event search that is not cut short has tried every option.
EventInv ==
    /\ pc = "evaluate" => ~ raised /\ tried # Options
    /\ (pc = "cleanup" /\ ~ raised) => tried \in {{}, Options}
    /\ EventChoiceSurvives

\* A log without a hole has every action, as long as the run has not failed.
LogInv ==
    /\ pc \notin {"close", "end", "done"} => missing = {} \/ hole
    /\ pc \in {"close", "label"} => error \/ (final.kind = "end" /\ (missing = {} \/ hole))
    /\ pc = "label" => ~ error
    /\ pc \notin {"end", "done"} => ~ label
    /\ LabelledRunIsComplete

IInv == TypeOK /\ SessionInv /\ GameInv /\ BranchInv /\ EventInv /\ LogInv

-----------------------------------------------------------------------------
(* What a request does, whoever makes it.                                  *)

LEMMA Constants ==
    /\ MaxPoints \in Nat \ {0} /\ MaxDecisions \in Nat \ {0}
    /\ NoHp \in [Options -> 0..2]
    /\ NoDecision.kind = "none"
    /\ \A p \in 1..MaxPoints, i \in Options : <<p, i>> \in Branches
    /\ Branches \subseteq Actions
  BY MaxPointsAssumption, MaxDecisionsAssumption
     DEF NoHp, Options, NoDecision, Branches, Actions

\* A request in a usable session leaves it usable with nothing to replay, or pending
\* with what its caller owns, or invalid.
LEMMA EndsEffect ==
    ASSUME Usable, NEW outcome \in Outcomes, NEW owned \in SUBSET Branches,
           Ends(outcome, owned), replay = {}
    PROVE  /\ session' \in {"usable", "pending", "invalid"} /\ replay' \subseteq Branches
           /\ Usable' <=> outcome \notin {"uncertain", "invalid"}
           /\ Usable' => replay' = {}
           /\ session' = "pending" <=> outcome = "uncertain"
           /\ outcome = "uncertain" => replay' = owned
  BY DEF Usable, Outcomes, Ends

LEMMA ExecutedEffect ==
    ASSUME NEW outcome, NEW xs, NEW done \in Executed(outcome, xs)
    PROVE  /\ done \subseteq xs
           /\ outcome = "completed" => done = xs
           /\ outcome \in {"rejected", "unsent"} => done = {}
  BY DEF Executed

LEMMA AdmittedWhenUsable ==
    ASSUME Usable, Admitted, refused = 0
    PROVE  refused' = 0 /\ refused' \in Nat
  BY DEF Admitted

LEMMA PossibleWhenUsable == Usable => Possible = Outcomes
  BY DEF Possible

\* Until the episode is over no call has been refused.
LEMMA NothingRefused ==
    ASSUME TypeOK, SessionInv, Usable \/ pc \notin Ended
    PROVE  refused = 0
  BY DEF SessionInv, ReplayIsNotRaced, Ended

\* A record that could not be written leaves a hole, or tells of no action.
LEMMA LoggedEffect ==
    ASSUME Usable, NEW actions \in SUBSET Actions, NEW done \in SUBSET actions, NEW outcome,
           missing \subseteq Actions, hole \in BOOLEAN, Logged(actions, done, outcome)
    PROVE  /\ missing' \subseteq Actions /\ hole' \in BOOLEAN
           /\ ((missing = {} \/ hole) /\ \A a \in done : Tells(a, outcome)) =>
                 missing' = {} \/ hole'
  <1>1. PICK written \in SUBSET actions :
          /\ missing' = missing \cup {a \in done : a \notin written \/ ~ Tells(a, outcome)}
          /\ hole' = (hole \/ (written # actions))
    BY DEF Logged
  <1>2. missing' \subseteq Actions
    BY <1>1
  <1>3. hole' \in BOOLEAN
    BY <1>1
  <1>4. ASSUME missing = {} \/ hole, \A a \in done : Tells(a, outcome)
        PROVE  missing' = {} \/ hole'
    <2>1. CASE hole
      BY <1>1, <2>1
    <2>2. CASE written # actions
      BY <1>1, <2>2
    <2>3. CASE ~hole /\ written = actions
      BY <1>1, <1>4, <2>3
    <2> QED BY <2>1, <2>2, <2>3
  <1> QED BY <1>2, <1>3, <1>4

-----------------------------------------------------------------------------
(* Where the control goes.                                                 *)

\* The episode's loop is left: what the session has become is all that matters.
LEMMA LeaveStep ==
    ASSUME TypeOK, label = FALSE, NEW ok \in BOOLEAN, NEW last \in Decision \cup {NoDecision},
           Leave(ok, last), ok => last.kind = "end" /\ (missing' = {} \/ hole'),
           UNCHANGED config, ClientTypeOK', made' \in 0..MaxDecisions,
           givenUp' \subseteq Branches, Usable' => replay' = {}, closing = FALSE,
           refused' = 0 \/ (refused' = 1 /\ settles /\ ~ Usable' /\ ~ ok),
           root' = MaxPoints => kind' = "end",
           session' # "invalid" => live' \subseteq replay' \cup givenUp',
           Usable' => heard' \subseteq live' \cup givenUp'
    PROVE  IInv'
  <1>1. /\ pc' = "close" /\ error' = ~ok /\ final' = last /\ label' = FALSE
        /\ UNCHANGED <<started, closing, batch, settles, godMode, honoured>>
    BY DEF Leave, config
  <1>2. TypeOK'
    BY <1>1, Constants DEF TypeOK, Leave, OutOfScope, Places, Clock, Sources
  <1>3. SessionInv' /\ GameInv'
    <2>1. ReplayIsNotRaced'
      BY <1>1 DEF ReplayIsNotRaced
    <2>2. SessionInv'
      BY <1>1, <2>1 DEF SessionInv
    <2> QED BY <1>1, <2>2 DEF GameInv, Deciding
  <1>4. BranchInv'
    BY <1>1 DEF BranchInv
  <1>5. EventInv'
    BY <1>1 DEF EventInv, EventChoiceSurvives
  <1>6. LogInv'
    BY <1>1 DEF LogInv, LabelledRunIsComplete
  <1> QED BY <1>2, <1>3, <1>4, <1>5, <1>6 DEF IInv

\* Steps between two requests of the loop.
LEMMA LoopStep ==
    ASSUME IInv, NoAvailableAction \/ TooLateToCommit
    PROVE  IInv'
  <1> USE DEF IInv, TypeOK
  <1>1. UNCHANGED <<clientVars, config, made, givenUp>>
    BY DEF NoAvailableAction, TooLateToCommit
  <1>2. pc \in {"decide", "commit"} /\ label = FALSE /\ closing = FALSE /\ refused = 0
    <2>1. pc \in {"decide", "commit"}
      BY DEF NoAvailableAction, TooLateToCommit
    <2> QED BY <2>1, NothingRefused DEF LogInv, SessionInv, Ended
  <1>3. ClientTypeOK' /\ refused' = 0 /\ (Usable' => replay' = {})
    BY <1>1, <1>2 DEF ClientTypeOK, clientVars, sessionVars, gameVars, auditVars, logVars,
                SessionInv, Usable
  <1>4. /\ root' = MaxPoints => kind' = "end"
        /\ session' # "invalid" => live' \subseteq replay' \cup givenUp'
        /\ Usable' => heard' \subseteq live' \cup givenUp'
        /\ missing' = {} \/ hole'
    BY <1>1, <1>2 DEF clientVars, sessionVars, gameVars, auditVars, logVars,
                      GameInv, BranchInv, LogInv, Usable
  <1>5. CASE NoAvailableAction /\ seen.kind = "end"
    BY <1>1, <1>2, <1>3, <1>4, <1>5, LeaveStep DEF NoAvailableAction
  <1>6. CASE ~(NoAvailableAction /\ seen.kind = "end")
    <2>1. Leave(FALSE, NoDecision)
      BY <1>6 DEF NoAvailableAction, TooLateToCommit, Raise
    <2> QED BY <1>1, <1>2, <1>3, <1>4, <2>1, LeaveStep
  <1> QED BY <1>5, <1>6

\* Steps that leave the client alone: its part of the invariant stays.
LEMMA ClientKept ==
    ASSUME IInv, UNCHANGED clientVars
    PROVE  /\ ClientTypeOK' /\ (Usable' => replay' = {})
           /\ UNCHANGED <<session, replay, root, kind, live, heard, rootHeard, missing, hole,
                          refused>>
           /\ Usable' = Usable
  BY DEF IInv, TypeOK, ClientTypeOK, clientVars, sessionVars, gameVars, auditVars, logVars,
         SessionInv, Usable

\* What settling a leaf can have done to the session.
LEMMA SettlingEffect ==
    ASSUME Usable, replay = {}, SettlingFails
    PROVE  /\ settles /\ ~ Usable'
           /\ session' \in {"pending", "invalid"} /\ replay' = {}
  BY DEF SettlingFails, Ends, Usable

\* An engine that chooses; a Beam search may have left the session with something
\* unresolved.
LEMMA ChooseStep ==
    ASSUME IInv, ForcedSingleAction \/ BeamSearch \/ HeuristicFallback
    PROVE  IInv'
  <1> USE DEF IInv
  <1>1. /\ UNCHANGED <<gameVars, auditVars, logVars, refused, config, made, givenUp, seen,
                       eventVars, resultVars>>
        /\ pc' = "commit" /\ option' = 0 /\ source' \in Sources
        /\ source' # "event_branch_search" /\ clock' \in Clock
        /\ pc \in {"decide", "search"}
    <2>1. CASE ForcedSingleAction
      BY <2>1 DEF ForcedSingleAction, Choose, Sources, TypeOK, clientVars
    <2>2. CASE BeamSearch
      BY <2>2 DEF BeamSearch, BeamMaySearch, Choose, Sources, Clock, Later, TypeOK
    <2>3. CASE HeuristicFallback
      BY <2>3 DEF HeuristicFallback, Choose, Sources, TypeOK, clientVars
    <2> QED BY <2>1, <2>2, <2>3
  <1>2. pc = "decide" => kind = "forced"
    BY DEF ForcedSingleAction, BeamSearch, BeamMaySearch, HeuristicFallback, GameInv, Deciding
  <1>3. /\ Usable /\ replay = {} /\ refused = 0 /\ closing = FALSE
        /\ live \subseteq givenUp /\ heard \subseteq live \cup givenUp
    BY <1>1, NothingRefused DEF SessionInv, BranchInv, Usable, Ended, TypeOK
  <1>4. /\ session' \in {"usable", "pending", "invalid"} /\ replay' = {}
        /\ ~ Usable' => settles
    <2>1. UNCHANGED sessionVars \/ SettlingFails
      BY DEF ForcedSingleAction, BeamSearch, HeuristicFallback, clientVars
    <2> QED BY <1>3, <2>1, SettlingEffect DEF sessionVars, Usable
  <1>5. TypeOK'
    BY <1>1, <1>4 DEF TypeOK, ClientTypeOK, gameVars, auditVars, logVars, config, eventVars,
                      resultVars, Places
  <1>6. SessionInv'
    BY <1>1, <1>3, <1>4 DEF SessionInv, ReplayIsNotRaced, config, resultVars
  <1>7. GameInv'
    BY <1>1, <1>2 DEF GameInv, Deciding, gameVars, auditVars
  <1>8. BranchInv'
    BY <1>1, <1>3, <1>4 DEF BranchInv, gameVars, auditVars
  <1>9. EventInv'
    BY <1>1 DEF EventInv, EventChoiceSurvives
  <1>10. LogInv'
    BY <1>1 DEF LogInv, LabelledRunIsComplete, resultVars, config, logVars
  <1> QED BY <1>5, <1>6, <1>7, <1>8, <1>9, <1>10

LEMMA OpenStep ==
    ASSUME IInv, Open
    PROVE  IInv'
  <1> USE DEF IInv
  <1>1. /\ UNCHANGED <<clientVars, config, seen, clock, made, eventVars, outcomeVars,
                       started, closing, final, label, givenUp>>
        /\ error' \in BOOLEAN /\ pc' \in {"start", "end"} /\ pc = "open"
    BY DEF Open
  <1>2. TypeOK'
    BY <1>1, ClientKept DEF TypeOK, config, eventVars, outcomeVars, Places
  <1>a. SessionInv'
    <2>1. Usable /\ refused = 0
      BY <1>1, NothingRefused DEF SessionInv, Ended
    <2>2. refused' = 0
      BY <2>1, ClientKept, <1>1
    <2> QED BY <1>1, <2>1, <2>2, ClientKept DEF SessionInv, ReplayIsNotRaced
  <1>3. GameInv' /\ BranchInv'
    BY <1>1, ClientKept DEF GameInv, Deciding, BranchInv
  <1>4. EventInv' /\ LogInv'
    BY <1>1, ClientKept DEF EventInv, EventChoiceSurvives, LogInv, LabelledRunIsComplete, config
  <1> QED BY <1>2, <1>a, <1>3, <1>4

LEMMA TickStep ==
    ASSUME IInv, Tick
    PROVE  IInv'
  <1> USE DEF IInv
  <1>1. /\ UNCHANGED <<clientVars, pc, config, seen, made, eventVars, outcomeVars, resultVars,
                       givenUp>>
        /\ clock' \in Clock
    BY DEF Tick, Later, Clock
  <1>2. TypeOK'
    BY <1>1, ClientKept DEF TypeOK, config, eventVars, outcomeVars, resultVars
  <1>a. SessionInv'
    BY <1>1, ClientKept DEF SessionInv, ReplayIsNotRaced, config, eventVars, resultVars
  <1>3. GameInv' /\ BranchInv'
    BY <1>1, ClientKept DEF GameInv, Deciding, BranchInv, config, eventVars
  <1>4. EventInv' /\ LogInv'
    BY <1>1, ClientKept
       DEF EventInv, EventChoiceSurvives, LogInv, LabelledRunIsComplete, config, eventVars,
           outcomeVars, resultVars
  <1> QED BY <1>2, <1>a, <1>3, <1>4

LEMMA DispatchStep ==
    ASSUME IInv, Dispatch
    PROVE  IInv'
  <1> USE DEF IInv
  <1>1. /\ UNCHANGED <<clientVars, config, made, givenUp, seen, clock, outcomeVars, resultVars>>
        /\ created' = {} /\ tried' = {} /\ hp' = NoHp
        /\ pc = "decide" /\ pc' \in {"evaluate", "search"}
        /\ seen.kind \in {"event", "combat", "other"}
    BY DEF Dispatch, Goto, OutOfScope
  <1>2. raised' \in BOOLEAN /\ ~ raised'
    BY Zenon DEF Dispatch, Goto, OutOfScope
  <1>3. TypeOK'
    BY <1>1, <1>2, ClientKept, Constants DEF TypeOK, config, outcomeVars, resultVars, Places
  <1>4. SessionInv' /\ GameInv' /\ BranchInv'
    <2>1. SessionInv'
      <3>1. refused' = 0
        BY <1>1, NothingRefused, ClientKept DEF Ended
      <3> QED BY <1>1, <3>1, ClientKept DEF SessionInv, ReplayIsNotRaced, resultVars
    <2>2. GameInv'
      BY <1>1, ClientKept DEF GameInv, Deciding
    <2>3. BranchInv'
      BY <1>1, ClientKept DEF BranchInv
    <2> QED BY <2>1, <2>2, <2>3
  <1>5. EventInv' /\ LogInv'
    BY <1>1, <1>2, ClientKept
       DEF EventInv, EventChoiceSurvives, LogInv, LabelledRunIsComplete, config, resultVars,
           Options
  <1> QED BY <1>3, <1>4, <1>5

LEMMA ExpiresStep ==
    ASSUME IInv, EvaluationExpires
    PROVE  IInv'
  <1> USE DEF IInv
  <1>1. /\ UNCHANGED <<clientVars, config, seen, clock, made, created, raised, outcomeVars,
                       resultVars, givenUp>>
        /\ pc = "evaluate" /\ pc' = "cleanup" /\ tried' = {} /\ hp' = NoHp
    BY DEF EvaluationExpires
  <1>2. TypeOK'
    BY <1>1, ClientKept, Constants DEF TypeOK, config, outcomeVars, resultVars, Places
  <1>a. refused' = 0
    BY <1>1, NothingRefused, ClientKept DEF Ended
  <1>3. SessionInv' /\ GameInv' /\ BranchInv'
    BY <1>1, <1>a, ClientKept
       DEF SessionInv, ReplayIsNotRaced, GameInv, Deciding, BranchInv, resultVars
  <1>4. EventInv' /\ LogInv'
    BY <1>1, ClientKept
       DEF EventInv, EventChoiceSurvives, LogInv, LabelledRunIsComplete, config, resultVars
  <1> QED BY <1>2, <1>3, <1>4

\* The label and the end of the run.
LEMMA LabelStep ==
    ASSUME IInv, Label
    PROVE  IInv'
  <1> USE DEF IInv
  <1>1. /\ UNCHANGED <<sessionVars, gameVars, auditVars, missing, refused, config, seen, clock,
                       made, eventVars, outcomeVars, started, closing, final, givenUp>>
        /\ pc = "label" /\ pc' = "end" /\ error' = (godMode /\ ~ honoured)
    BY DEF Label
  <1>2. PICK written \in BOOLEAN : /\ label' = (MayLabel /\ written)
                                   /\ hole' = (hole \/ (MayLabel /\ ~ written))
    BY DEF Label
  <1>3. label' \in BOOLEAN /\ hole' \in BOOLEAN /\ error' \in BOOLEAN
    BY <1>1, <1>2
  <1>4. TypeOK'
    BY <1>1, <1>3 DEF TypeOK, ClientTypeOK, sessionVars, gameVars, auditVars, config, eventVars,
                      outcomeVars, Places
  <1>a. refused' = 0
    BY <1>1, NothingRefused DEF Ended
  <1>5. SessionInv' /\ GameInv' /\ BranchInv'
    BY <1>1, <1>a DEF SessionInv, ReplayIsNotRaced, GameInv, Deciding, BranchInv, Usable,
                      sessionVars, gameVars, auditVars
  <1>6. label' => ~hole /\ (godMode => honoured)
    BY <1>2 DEF MayLabel
  <1>7. EventInv' /\ LogInv'
    BY <1>1, <1>6 DEF EventInv, EventChoiceSurvives, LogInv, LabelledRunIsComplete, config
  <1> QED BY <1>4, <1>5, <1>7

LEMMA EndStep ==
    ASSUME IInv, End
    PROVE  IInv'
  <1> USE DEF IInv
  <1>1. /\ UNCHANGED <<clientVars, config, seen, clock, made, eventVars, outcomeVars, started,
                       closing, final, label, givenUp>>
        /\ pc = "end" /\ pc' = "done"
        /\ \E closed \in BOOLEAN : error' = (error \/ FailedByLog(closed))
    BY DEF End
  <1>2. error' \in BOOLEAN
    BY <1>1 DEF TypeOK, FailedByLog
  <1>3. TypeOK'
    BY <1>1, <1>2, ClientKept DEF TypeOK, config, eventVars, outcomeVars, Places
  <1>a. refused # 0 => error'
    BY <1>1 DEF SessionInv, ReplayIsNotRaced, TypeOK
  <1>b. SessionInv'
    BY <1>1, <1>a, ClientKept DEF SessionInv, ReplayIsNotRaced, config
  <1>4. GameInv' /\ BranchInv'
    BY <1>1, ClientKept DEF GameInv, Deciding, BranchInv
  <1>5. EventInv' /\ LogInv'
    BY <1>1, ClientKept DEF EventInv, EventChoiceSurvives, LogInv, LabelledRunIsComplete, config
  <1> QED BY <1>3, <1>b, <1>4, <1>5

-----------------------------------------------------------------------------
(* Requests.                                                               *)

LEMMA StartStep ==
    ASSUME IInv, Start
    PROVE  IInv'
  <1> USE DEF IInv
  <1>0. /\ pc = "start" /\ Usable /\ refused = 0 /\ replay = {} /\ label = FALSE
        /\ closing = FALSE
    BY NothingRefused DEF Start, SessionInv, LogInv, TypeOK
  <1>1. PICK outcome \in Outcomes :
          /\ StartInstance(outcome)
          /\ started' = (outcome = "completed")
          /\ error' = (outcome # "completed")
          /\ pc' = IF outcome = "completed" THEN "get" ELSE "end"
    BY <1>0, PossibleWhenUsable DEF Start
  <1>2. UNCHANGED <<config, seen, clock, made, eventVars, outcomeVars, closing, final, label,
                    givenUp, root, kind, live, heard, missing, hole>>
    BY <1>1 DEF Start, StartInstance, gameVars, logVars
  <1>3. /\ refused' = 0 /\ refused' \in Nat
        /\ session' \in {"usable", "pending", "invalid"} /\ replay' \subseteq Branches
        /\ Usable' <=> outcome \notin {"uncertain", "invalid"}
        /\ Usable' => replay' = {}
    BY <1>0, <1>1, AdmittedWhenUsable, EndsEffect DEF StartInstance
  <1>4. rootHeard' \in 0..MaxPoints
    BY <1>1, Constants DEF StartInstance, TypeOK, ClientTypeOK
  <1>5. started' \in BOOLEAN /\ error' \in BOOLEAN
    BY <1>1
  <1>6. TypeOK'
    BY <1>1, <1>2, <1>3, <1>4, <1>5
       DEF TypeOK, ClientTypeOK, config, eventVars, outcomeVars, Places
  <1>7. SessionInv'
    BY <1>0, <1>1, <1>2, <1>3 DEF SessionInv, ReplayIsNotRaced
  <1>8. GameInv'
    BY <1>0, <1>1, <1>2 DEF GameInv, Deciding
  <1>9. BranchInv'
    <2>1. live = {} \/ live \subseteq givenUp
      BY <1>0 DEF BranchInv, Usable
    <2> QED BY <1>0, <1>1, <1>2, <2>1 DEF BranchInv, Usable
  <1>10. EventInv' /\ LogInv'
    BY <1>0, <1>1, <1>2 DEF EventInv, EventChoiceSurvives, LogInv, LabelledRunIsComplete, config
  <1> QED BY <1>6, <1>7, <1>8, <1>9, <1>10

\* A new Decision is in hand: the engine starts over.
LEMMA DecideStep ==
    ASSUME IInv, Decide([point |-> root', kind |-> kind']), Usable', UNCHANGED config,
           ClientTypeOK', made' \in 0..MaxDecisions, made' < MaxDecisions, givenUp' = givenUp,
           refused' = 0, replay' = {}, root' = MaxPoints => kind' = "end", rootHeard' = root',
           live' \subseteq givenUp', heard' \subseteq live' \cup givenUp',
           missing' = {} \/ hole', label = FALSE, closing = FALSE
    PROVE  IInv'
  <1> USE DEF IInv
  <1>1. /\ UNCHANGED <<started, closing, final, label, error, batch, settles, godMode,
                       honoured>>
        /\ pc' = "decide" /\ clock' = "eval" /\ seen' = [point |-> root', kind |-> kind']
        /\ created' = {} /\ tried' = {} /\ hp' = NoHp /\ source' = "none" /\ option' = 0
    BY DEF Decide, OutOfScope, resultVars, config
  <1>2. raised' \in BOOLEAN
    BY DEF Decide, OutOfScope
  <1>3. seen' \in Decision
    BY <1>1 DEF Decision, ClientTypeOK
  <1>4. TypeOK'
    BY <1>1, <1>2, <1>3, Constants DEF TypeOK, Places, Clock, Sources
  <1>5. SessionInv' /\ GameInv'
    BY <1>1 DEF SessionInv, ReplayIsNotRaced, GameInv, Deciding
  <1>6. BranchInv'
    BY <1>1 DEF BranchInv
  <1>7. EventInv' /\ LogInv'
    BY <1>1 DEF EventInv, EventChoiceSurvives, LogInv, LabelledRunIsComplete
  <1> QED BY <1>4, <1>5, <1>6, <1>7

LEMMA GetStep ==
    ASSUME IInv, Get
    PROVE  IInv'
  <1> USE DEF IInv
  <1>0. /\ pc = "get" /\ Usable /\ refused = 0 /\ replay = {} /\ label = FALSE
        /\ made < MaxDecisions /\ (missing = {} \/ hole) /\ closing = FALSE
        /\ live \subseteq givenUp /\ heard \subseteq live \cup givenUp
        /\ root = MaxPoints => kind = "end"
    BY NothingRefused DEF Get, SessionInv, LogInv, TypeOK, GameInv, BranchInv, Usable
  <1>1. PICK outcome \in Outcomes :
          /\ GetDecision(outcome)
          /\ IF outcome = "completed" THEN Decide([point |-> root, kind |-> kind]) ELSE Raise
    BY <1>0, PossibleWhenUsable DEF Get
  <1>2. UNCHANGED <<config, made, givenUp, root, kind, live, heard, missing, hole>>
    BY <1>1 DEF Get, GetDecision, gameVars, logVars
  <1>3. /\ refused' = 0 /\ refused' \in Nat
        /\ session' \in {"usable", "pending", "invalid"} /\ replay' \subseteq Branches
        /\ Usable' <=> outcome \notin {"uncertain", "invalid"}
        /\ Usable' => replay' = {}
    BY <1>0, <1>1, AdmittedWhenUsable, EndsEffect DEF GetDecision
  <1>4. rootHeard' \in 0..MaxPoints /\ (outcome = "completed" => rootHeard' = root)
    BY <1>1, Constants DEF GetDecision, TypeOK, ClientTypeOK
  <1>5. ClientTypeOK' /\ made' \in 0..MaxDecisions /\ givenUp' \subseteq Branches
    BY <1>2, <1>3, <1>4 DEF TypeOK, ClientTypeOK
  <1>6. CASE outcome = "completed"
    BY <1>0, <1>1, <1>2, <1>3, <1>4, <1>5, <1>6, DecideStep
  <1>7. CASE outcome # "completed"
    <2>1. Leave(FALSE, NoDecision)
      BY <1>1, <1>7 DEF Raise
    <2> QED BY <1>0, <1>2, <1>3, <1>5, <2>1, LeaveStep
  <1> QED BY <1>6, <1>7

\* One request of the search has failed, or one after settling has and this is the next.
LEMMA BeamSearchRaisesStep ==
    ASSUME IInv, BeamSearchRaises
    PROVE  IInv'
  <1> USE DEF IInv
  <1>0. /\ pc = "search" /\ Usable /\ refused = 0 /\ replay = {} /\ label = FALSE
        /\ live \subseteq givenUp /\ heard \subseteq live \cup givenUp
        /\ (root = MaxPoints => kind = "end") /\ closing = FALSE
    BY NothingRefused
       DEF BeamSearchRaises, BeamMaySearch, SessionInv, LogInv, TypeOK, GameInv, BranchInv, Usable
  <1>1. /\ UNCHANGED <<gameVars, auditVars, logVars, config, made, givenUp>>
        /\ Leave(FALSE, NoDecision)
    BY DEF BeamSearchRaises, Raise
  <1>2. /\ session' \in {"usable", "pending", "invalid"} /\ replay' \subseteq Branches
        /\ Usable' => replay' = {}
        /\ refused' = 0 \/ (refused' = 1 /\ settles /\ ~ Usable')
    <2>1. CASE SettlingFails /\ refused' = refused + 1
      BY <1>0, <2>1, SettlingEffect DEF Usable
    <2>2. CASE /\ \E outcome \in {"faulted", "unsent", "uncertain", "invalid"} :
                    Ends(outcome, {})
               /\ UNCHANGED refused
      <3>1. PICK outcome \in Outcomes : Ends(outcome, {})
        BY <2>2 DEF Outcomes
      <3> QED BY <1>0, <2>2, <3>1, EndsEffect
    <2> QED BY <2>1, <2>2 DEF BeamSearchRaises
  <1>3. /\ ClientTypeOK' /\ made' \in 0..MaxDecisions /\ givenUp' \subseteq Branches
        /\ UNCHANGED <<root, kind, live, heard>>
    BY <1>1, <1>2 DEF TypeOK, ClientTypeOK, gameVars, auditVars, logVars
  <1>4. session' # "invalid" => live' \subseteq replay' \cup givenUp'
    BY <1>0, <1>1, <1>3
  <1>5. Usable' => heard' \subseteq live' \cup givenUp'
    BY <1>0, <1>1, <1>3
  <1> QED BY <1>0, <1>1, <1>2, <1>3, <1>4, <1>5, LeaveStep

\* close_instance only drops Branches.
LEMMA CloseStep ==
    ASSUME IInv, Close
    PROVE  IInv'
  <1> USE DEF IInv
  <1>0. /\ UNCHANGED <<config, seen, clock, made, eventVars, outcomeVars, started, final, label,
                       error, givenUp>>
        /\ pc = "close" /\ pc' = (IF error THEN "end" ELSE "label") /\ label = FALSE
        /\ closing = FALSE
    BY DEF Close, SessionInv, LogInv, TypeOK
  <1>1. /\ closing' \in BOOLEAN /\ ClientTypeOK' /\ (Usable' => replay' = {})
        /\ refused' = 0 \/ UNCHANGED <<closing, refused, session>>
        /\ root' = root /\ kind' = kind /\ UNCHANGED <<missing, hole>>
        /\ session' # "invalid" => live' \subseteq replay' \cup givenUp
        /\ Usable' => heard' \subseteq live' \cup givenUp
    <2>1. CASE ~Usable
      <3>1. UNCHANGED <<closing, clientVars>>
        BY <2>1 DEF Close
      <3> QED BY <1>0, <2>1, <3>1, ClientKept DEF BranchInv, TypeOK
    <2>2. CASE Usable
      <3>0. refused = 0
        BY <2>2, NothingRefused
      <3>1. PICK outcome \in Outcomes : CloseInstance(outcome)
        BY <2>2 DEF Close
      <3>2. closing' = TRUE
        BY <2>2 DEF Close
      <3>3. replay = {} /\ live \subseteq givenUp /\ heard \subseteq live \cup givenUp
        BY <1>0, <2>2 DEF SessionInv, BranchInv, Usable
      <3>4. /\ refused' = 0 /\ refused' \in Nat
            /\ session' \in {"usable", "pending", "invalid"} /\ replay' \subseteq Branches
            /\ Usable' <=> outcome \notin {"uncertain", "invalid"}
            /\ Usable' => replay' = {}
        BY <1>0, <2>2, <3>0, <3>1, <3>3, AdmittedWhenUsable, EndsEffect DEF CloseInstance
      <3>5. PICK done \in Executed(outcome, live) : live' = live \ done
        BY <3>1 DEF CloseInstance
      <3>6. UNCHANGED <<root, kind, missing, hole>>
        BY <3>1 DEF CloseInstance, logVars
      <3>7. (heard' = {} /\ rootHeard' = 0) \/ UNCHANGED <<heard, rootHeard>>
        BY <3>1 DEF CloseInstance, auditVars
      <3>8. live' \subseteq givenUp /\ heard' \subseteq givenUp
        BY <3>3, <3>5, <3>7
      <3>9. ClientTypeOK'
        BY <3>4, <3>5, <3>6, <3>7, Constants DEF TypeOK, ClientTypeOK
      <3> QED BY <3>2, <3>4, <3>6, <3>8, <3>9
    <2> QED BY <2>1, <2>2
  <1>2. TypeOK'
    BY <1>0, <1>1 DEF TypeOK, config, eventVars, outcomeVars, Places
  <1>3. SessionInv' /\ GameInv' /\ BranchInv'
    <2>1. pc' \in {"end", "label"}
      BY <1>0
    <2>2. SessionInv'
      <3>1. CASE refused' = 0
        BY <1>0, <1>1, <2>1, <3>1 DEF SessionInv, ReplayIsNotRaced
      <3>2. CASE UNCHANGED <<closing, refused, session>>
        <4>1. ReplayIsNotRaced'
          BY <1>0, <2>1, <3>2 DEF SessionInv, ReplayIsNotRaced, Usable, config
        <4> QED BY <1>0, <1>1, <2>1, <3>2, <4>1 DEF SessionInv
      <3> QED BY <1>1, <3>1, <3>2
    <2>3. GameInv'
      BY <1>0, <1>1, <2>1 DEF GameInv, Deciding
    <2>4. BranchInv'
      <3>1. session' = "pending" => session' # "invalid"
        OBVIOUS
      <3>2. givenUp' = givenUp
        BY <1>0
      <3> QED BY <1>1, <2>1, <3>1, <3>2 DEF BranchInv
    <2> QED BY <2>2, <2>3, <2>4
  <1>4. EventInv' /\ LogInv'
    BY <1>0, <1>1 DEF EventInv, EventChoiceSurvives, LogInv, LabelledRunIsComplete, config
  <1> QED BY <1>2, <1>3, <1>4

\* emulate_action(s) of Branches of the root, owned by the exact retry if uncertain.
LEMMA EmulateEffect ==
    ASSUME IInv, pc = "evaluate", NEW outcome \in Outcomes, NEW bs \in SUBSET Candidates,
           NEW hits \in SUBSET bs, NEW owned \in SUBSET Branches, bs \subseteq owned,
           Emulate(outcome, bs, hits, owned)
    PROVE  /\ ClientTypeOK' /\ refused' = 0 /\ (Usable' => replay' = {})
           /\ Usable' <=> outcome \notin {"uncertain", "invalid"}
           /\ session' = "pending" <=> outcome = "uncertain"
           /\ outcome = "uncertain" => replay' = owned
           /\ UNCHANGED <<root, kind, rootHeard>>
           /\ live' \subseteq live \cup bs
           /\ outcome \in {"rejected", "unsent"} => live' = live
           /\ heard' \subseteq live' \cup givenUp
           /\ missing' = {} \/ hole'
  <1> USE DEF IInv
  <1>0. /\ Usable /\ refused = 0 /\ replay = {} /\ (missing = {} \/ hole)
        /\ heard \subseteq live \cup givenUp /\ seen.point \in 1..MaxPoints
    BY NothingRefused
       DEF SessionInv, BranchInv, LogInv, GameInv, Deciding, TypeOK, ClientTypeOK, Ended
  <1>1. Candidates \subseteq Branches
    BY <1>0, Constants DEF Candidates, Branch
  <1>2. bs \subseteq Actions /\ \A b \in bs : b[2] # 0
    BY <1>1, Constants DEF Candidates, Branch, Options
  <1>3. PICK done \in Executed(outcome, bs) : live' = live \cup done /\ Logged(bs, done, outcome)
    BY DEF Emulate
  <1>4. /\ done \subseteq bs
        /\ outcome = "completed" => done = bs
        /\ outcome \in {"rejected", "unsent"} => done = {}
    BY <1>3, ExecutedEffect
  <1>5. \A a \in done : Tells(a, outcome)
    BY <1>2, <1>4 DEF Tells
  <1>6. missing' \subseteq Actions /\ hole' \in BOOLEAN /\ (missing' = {} \/ hole')
    <2>1. bs \in SUBSET Actions /\ done \in SUBSET bs
      BY <1>2, <1>4
    <2>2. missing \subseteq Actions /\ hole \in BOOLEAN
      BY DEF TypeOK, ClientTypeOK
    <2>3. Logged(bs, done, outcome)
      BY <1>3
    <2> QED BY <1>0, <1>5, <2>1, <2>2, <2>3, LoggedEffect
  <1>7. /\ refused' = 0 /\ refused' \in Nat
        /\ session' \in {"usable", "pending", "invalid"} /\ replay' \subseteq Branches
        /\ Usable' <=> outcome \notin {"uncertain", "invalid"}
        /\ Usable' => replay' = {}
        /\ session' = "pending" <=> outcome = "uncertain"
        /\ outcome = "uncertain" => replay' = owned
    BY <1>0, AdmittedWhenUsable, EndsEffect DEF Emulate
  <1>8. UNCHANGED <<root, kind, rootHeard>>
    BY DEF Emulate
  <1>9. heard' \subseteq live' \cup givenUp /\ heard' \subseteq Branches
    <2>1. heard' = IF outcome = "completed" THEN heard \cup hits ELSE heard
      BY DEF Emulate
    <2>2. heard \subseteq Branches
      BY DEF TypeOK, ClientTypeOK
    <2> QED BY <1>0, <1>1, <1>3, <1>4, <2>1, <2>2
  <1>10. live' \subseteq Branches
    BY <1>1, <1>3, <1>4 DEF TypeOK, ClientTypeOK
  <1>11. ClientTypeOK'
    BY <1>6, <1>7, <1>8, <1>9, <1>10 DEF TypeOK, ClientTypeOK
  <1> QED BY <1>3, <1>4, <1>6, <1>7, <1>8, <1>9, <1>11

\* Where an Event search evaluates: the session is usable, the point is the root's.
LEMMA Evaluating ==
    ASSUME IInv, pc = "evaluate"
    PROVE  /\ Usable /\ label = FALSE /\ closing = FALSE /\ seen.point \in 1..MaxPoints
           /\ live \subseteq givenUp \cup created /\ created \subseteq Branches
           /\ tried \subseteq Options /\ tried # Options
           /\ batch => created = {}
  <1> USE DEF IInv
  <1>1. Usable /\ replay = {} /\ closing = FALSE
    BY DEF SessionInv, TypeOK
  <1>2. label = FALSE
    BY DEF LogInv, TypeOK
  <1>3. seen.point \in 1..MaxPoints
    BY DEF GameInv, Deciding, TypeOK, ClientTypeOK
  <1>4. live \subseteq givenUp \cup created /\ (batch => created = {})
    BY <1>1 DEF BranchInv, Usable
  <1>5. tried # Options
    BY DEF EventInv
  <1> QED BY <1>1, <1>2, <1>3, <1>4, <1>5 DEF TypeOK

LEMMA EvaluateBatchStep ==
    ASSUME IInv, EvaluateBatch
    PROVE  IInv'
  <1> USE DEF IInv
  <1>0. /\ pc = "evaluate" /\ pc' = "cleanup" /\ batch /\ Usable /\ label = FALSE
        /\ live \subseteq givenUp
        /\ UNCHANGED <<config, seen, clock, made, outcomeVars, resultVars, givenUp>>
        /\ seen.point \in 1..MaxPoints
    <2>1. /\ pc = "evaluate" /\ pc' = "cleanup" /\ batch
          /\ UNCHANGED <<config, seen, clock, made, outcomeVars, resultVars, givenUp>>
      BY DEF EvaluateBatch
    <2> QED BY <2>1, Evaluating
  <1>1. PICK outcome \in Outcomes : \E r \in Resolutions(outcome, Options) :
          /\ Emulate(outcome, Candidates, {Branch(i) : i \in r.done}, Candidates)
          /\ hp' = r.hp
          /\ tried' = IF outcome = "completed" THEN Options ELSE {}
          /\ created' = IF outcome \in {"completed", "faulted"} THEN Candidates ELSE {}
          /\ raised' = (outcome \in {"unsent", "uncertain", "invalid"})
    BY <1>0, PossibleWhenUsable DEF EvaluateBatch
  <1>2. PICK r \in Resolutions(outcome, Options) :
          /\ Emulate(outcome, Candidates, {Branch(i) : i \in r.done}, Candidates)
          /\ hp' = r.hp
    BY <1>1
  <1>3. r.hp \in [Options -> 0..2] /\ r.done \subseteq Options
    BY DEF Resolutions
  <1>4. Candidates \subseteq Branches /\ {Branch(i) : i \in r.done} \subseteq Candidates
    BY <1>0, <1>3, Constants DEF Candidates, Branch
  <1>5. /\ ClientTypeOK' /\ refused' = 0 /\ (Usable' => replay' = {})
        /\ Usable' <=> outcome \notin {"uncertain", "invalid"}
        /\ session' = "pending" <=> outcome = "uncertain"
        /\ outcome = "uncertain" => replay' = Candidates
        /\ UNCHANGED <<root, kind, rootHeard>>
        /\ live' \subseteq live \cup Candidates
        /\ outcome \in {"rejected", "unsent"} => live' = live
        /\ heard' \subseteq live' \cup givenUp
        /\ missing' = {} \/ hole'
    BY <1>0, <1>2, <1>4, EmulateEffect
  <1>6. raised' \in BOOLEAN
    BY <1>1
  <1>7. tried' \in {{}, Options} /\ created' \subseteq Branches /\ hp' \in [Options -> 0..2]
    BY <1>1, <1>2, <1>3, <1>4
  <1>8. TypeOK'
    BY <1>0, <1>5, <1>6, <1>7 DEF TypeOK, config, outcomeVars, resultVars, Places
  <1>9. SessionInv'
    BY <1>0, <1>1, <1>5, Evaluating DEF SessionInv, ReplayIsNotRaced, resultVars
  <1>10. GameInv'
    BY <1>0, <1>5 DEF GameInv, Deciding
  <1>11. BranchInv'
    <2>1. session' # "invalid" => live' \subseteq replay' \cup givenUp \cup created'
      <3>1. CASE outcome \in {"completed", "faulted"}
        BY <1>0, <1>1, <1>5, <3>1
      <3>2. CASE outcome \in {"rejected", "unsent"}
        BY <1>0, <1>5, <3>2
      <3>3. CASE outcome = "uncertain"
        BY <1>0, <1>5, <3>3
      <3>4. CASE outcome = "invalid"
        BY <1>5, <3>4 DEF Usable, ClientTypeOK
      <3> QED BY <3>1, <3>2, <3>3, <3>4 DEF Outcomes
    <2>2. session' = "pending" => live' \subseteq replay' \cup givenUp
      BY <1>0, <1>5
    <2> QED BY <1>0, <1>5, <2>1, <2>2 DEF BranchInv
  <1>12. EventInv' /\ LogInv'
    BY <1>0, <1>5, <1>7
       DEF EventInv, EventChoiceSurvives, LogInv, LabelledRunIsComplete, config, resultVars
  <1> QED BY <1>8, <1>9, <1>10, <1>11, <1>12

LEMMA LeastOption ==
    ASSUME NEW T \in SUBSET Options, T # {}
    PROVE  \E i \in T : \A j \in T : i <= j
  <1>1. CASE 1 \in T
    BY <1>1 DEF Options
  <1>2. CASE 1 \notin T
    <2>1. T = {2}
      BY <1>2 DEF Options
    <2> QED BY <2>1
  <1> QED BY <1>1, <1>2

\* The next candidate is one of the options not yet tried.
LEMMA EvaluateNextStep ==
    ASSUME IInv, EvaluateNext
    PROVE  IInv'
  <1> USE DEF IInv
  <1> DEFINE i == CHOOSE o \in Options \ tried : \A j \in Options \ tried : o <= j
  <1>0. /\ pc = "evaluate" /\ ~ batch /\ Usable /\ label = FALSE
        /\ live \subseteq givenUp \cup created /\ tried \subseteq Options /\ tried # Options
        /\ created \subseteq Branches
        /\ UNCHANGED <<config, seen, clock, made, outcomeVars, resultVars, givenUp>>
        /\ seen.point \in 1..MaxPoints
    <2>1. /\ pc = "evaluate" /\ ~ batch
          /\ UNCHANGED <<config, seen, clock, made, outcomeVars, resultVars, givenUp>>
      BY DEF EvaluateNext
    <2> QED BY <2>1, Evaluating
  <1>1. i \in Options
    <2>1. \E o \in Options \ tried : \A j \in Options \ tried : o <= j
      BY <1>0, LeastOption
    <2> QED BY <2>1
  <1>a. PICK outcome \in Outcomes : \E r \in Resolutions(outcome, {i}) :
          /\ Emulate(outcome, {Branch(i)}, {Branch(j) : j \in r.done}, OwnedByRetry(i))
          /\ hp' = [hp EXCEPT ![i] = r.hp[i]]
          /\ tried' = tried \cup {i}
          /\ created' = IF outcome \in {"completed", "faulted"}
                        THEN created \cup {Branch(i)} ELSE created
          /\ raised' = (outcome \in {"unsent", "uncertain", "invalid"})
          /\ pc' = IF raised' \/ tried' = Options THEN "cleanup" ELSE "evaluate"
    BY <1>0, PossibleWhenUsable DEF EvaluateNext
  <1>2. PICK r \in Resolutions(outcome, {i}) :
          /\ Emulate(outcome, {Branch(i)}, {Branch(j) : j \in r.done}, OwnedByRetry(i))
          /\ hp' = [hp EXCEPT ![i] = r.hp[i]]
          /\ tried' = tried \cup {i}
          /\ created' = IF outcome \in {"completed", "faulted"}
                        THEN created \cup {Branch(i)} ELSE created
          /\ raised' = (outcome \in {"unsent", "uncertain", "invalid"})
          /\ pc' = IF raised' \/ tried' = Options THEN "cleanup" ELSE "evaluate"
    BY <1>a
  <1> HIDE DEF i
  <1>3. r.hp[i] \in 0..2 /\ r.done \subseteq {i}
    BY DEF Resolutions
  <1>4. /\ Branch(i) \in Branches /\ Branch(i) \in Candidates
        /\ {Branch(j) : j \in r.done} \subseteq {Branch(i)}
    BY <1>0, <1>1, <1>3, Constants DEF Candidates, Branch
  <1>5. /\ ClientTypeOK' /\ refused' = 0 /\ (Usable' => replay' = {})
        /\ Usable' <=> outcome \notin {"uncertain", "invalid"}
        /\ session' = "pending" <=> outcome = "uncertain"
        /\ outcome = "uncertain" => replay' = OwnedByRetry(i)
        /\ UNCHANGED <<root, kind, rootHeard>>
        /\ live' \subseteq live \cup {Branch(i)}
        /\ outcome \in {"rejected", "unsent"} => live' = live
        /\ heard' \subseteq live' \cup givenUp
        /\ missing' = {} \/ hole'
    <2>1. /\ {Branch(i)} \in SUBSET Candidates
          /\ {Branch(j) : j \in r.done} \in SUBSET {Branch(i)}
          /\ OwnedByRetry(i) \in SUBSET Branches /\ {Branch(i)} \subseteq OwnedByRetry(i)
      BY <1>0, <1>4 DEF OwnedByRetry
    <2>2. Emulate(outcome, {Branch(i)}, {Branch(j) : j \in r.done}, OwnedByRetry(i))
      BY <1>2
    <2> QED BY <1>0, <2>1, <2>2, EmulateEffect
  <1>6. raised' \in BOOLEAN /\ pc' \in {"evaluate", "cleanup"}
    BY <1>2
  <1>7. tried' \subseteq Options /\ created' \subseteq Branches /\ hp' \in [Options -> 0..2]
    BY <1>0, <1>1, <1>2, <1>3, <1>4 DEF TypeOK
  <1>8. TypeOK'
    BY <1>0, <1>5, <1>6, <1>7 DEF TypeOK, config, outcomeVars, resultVars, Places
  <1>9. SessionInv'
    <2>1. closing' = FALSE
      BY <1>0, Evaluating DEF resultVars
    <2> QED BY <1>2, <1>5, <1>6, <2>1 DEF SessionInv, ReplayIsNotRaced
  <1>10. GameInv'
    BY <1>0, <1>5, <1>6 DEF GameInv, Deciding
  <1>11. BranchInv'
    <2>1. session' # "invalid" => live' \subseteq replay' \cup givenUp \cup created'
      <3>1. CASE outcome \in {"completed", "faulted"}
        BY <1>0, <1>2, <1>5, <3>1
      <3>2. CASE outcome \in {"rejected", "unsent"}
        BY <1>0, <1>2, <1>5, <3>2
      <3>3. CASE outcome = "uncertain"
        BY <1>0, <1>2, <1>5, <3>3 DEF OwnedByRetry
      <3>4. CASE outcome = "invalid"
        BY <1>5, <3>4 DEF Usable, ClientTypeOK
      <3> QED BY <3>1, <3>2, <3>3, <3>4 DEF Outcomes
    <2>2. session' = "pending" => live' \subseteq replay' \cup givenUp
      BY <1>0, <1>5 DEF OwnedByRetry
    <2>3. ~ batch'
      BY <1>0 DEF config
    <2> QED BY <1>0, <1>5, <1>6, <2>1, <2>2, <2>3 DEF BranchInv
  <1>12. EventInv'
    BY <1>2, <1>6 DEF EventInv, EventChoiceSurvives
  <1>13. LogInv'
    BY <1>0, <1>5, <1>6 DEF LogInv, LabelledRunIsComplete, config, resultVars
  <1> QED BY <1>8, <1>9, <1>10, <1>11, <1>12, <1>13

\* The preferred option survives, and no option that was tried keeps more.
LEMMA BestEffect ==
    ASSUME hp \in [Options -> 0..2], tried \subseteq Options, Best # 0
    PROVE  Best \in tried /\ hp[Best] > 0 /\ \A j \in tried : hp[j] <= hp[Best]
  <1> DEFINE alive == {i \in tried : hp[i] > 0}
             best == {i \in alive : \A j \in alive : hp[j] <= hp[i]}
             first == CHOOSE i \in best : \A j \in best : i <= j
  <1>1. best # {} /\ Best = first
    BY DEF Best
  <1>2. best \subseteq Options
    OBVIOUS
  <1>3. \E i \in best : \A j \in best : i <= j
    BY <1>1, <1>2, LeastOption
  <1>4. first \in best
    BY <1>3
  <1> QED BY <1>1, <1>4

\* How best_event_option ends, once its cleanup has done what it could.
LEMMA SearchEndsStep ==
    ASSUME IInv, pc = "cleanup", NEW raises \in BOOLEAN, EventSearchEnds(raises),
           ~ raises => ~ raised /\ Usable', UNCHANGED <<config, made>>, ClientTypeOK',
           givenUp' \subseteq Branches, refused' = 0, Usable' => replay' = {},
           UNCHANGED <<root, kind, rootHeard, missing, hole>>,
           session' # "invalid" => live' \subseteq replay' \cup givenUp',
           Usable' => heard' \subseteq live' \cup givenUp'
    PROVE  IInv'
  <1> USE DEF IInv
  <1>0. /\ label = FALSE /\ closing = FALSE
        /\ seen = [point |-> root, kind |-> kind] /\ rootHeard = root
        /\ made \in 0..MaxDecisions /\ made < MaxDecisions
        /\ root = MaxPoints => kind = "end"
        /\ kind \in {"event", "combat", "other", "forced"}
        /\ missing = {} \/ hole
    BY DEF LogInv, GameInv, Deciding, TypeOK, SessionInv
  <1>1. CASE raises
    <2>1. Leave(FALSE, NoDecision)
      BY <1>1 DEF EventSearchEnds, Raise
    <2> QED BY <1>0, <2>1, LeaveStep
  <1>2. ASSUME ~ raises, pc' \in {"search", "commit"},
               UNCHANGED <<seen, clock, resultVars>>, created' \subseteq Branches,
               tried' \subseteq Options, hp' \in [Options -> 0..2], raised' \in BOOLEAN,
               source' \in Sources, option' \in Options \cup {0}, EventChoiceSurvives'
        PROVE  IInv'
    <2>1. TypeOK'
      BY <1>0, <1>2 DEF TypeOK, config, resultVars, Places
    <2>2. SessionInv'
      BY <1>0, <1>2 DEF SessionInv, ReplayIsNotRaced, resultVars
    <2>3. GameInv'
      BY <1>0, <1>2 DEF GameInv, Deciding
    <2>4. BranchInv'
      BY <1>2 DEF BranchInv, Usable
    <2>5. EventInv'
      BY <1>2 DEF EventInv
    <2>6. LogInv'
      BY <1>0, <1>2 DEF LogInv, LabelledRunIsComplete, config, resultVars
    <2> QED BY <2>1, <2>2, <2>3, <2>4, <2>5, <2>6
  <1>3. CASE ~ raises /\ Best = 0
    <2>1. Goto("search")
      BY <1>3 DEF EventSearchEnds
    <2>2. /\ pc' = "search" /\ UNCHANGED <<seen, clock, outcomeVars, resultVars>>
          /\ created' = {} /\ tried' = {} /\ hp' = NoHp
      BY <2>1 DEF Goto, OutOfScope
    <2>3. raised' \in BOOLEAN
      BY <2>1 DEF Goto, OutOfScope
    <2>4. source' \in Sources /\ option' \in Options \cup {0}
      BY <2>2 DEF TypeOK, outcomeVars
    <2>5. EventChoiceSurvives'
      BY <2>2 DEF EventChoiceSurvives
    <2> QED BY <1>2, <1>3, <2>2, <2>3, <2>4, <2>5, Constants
  <1>4. CASE ~ raises /\ Best # 0
    <2>1. Choose("event_branch_search", Best) /\ UNCHANGED clock
      BY <1>4 DEF EventSearchEnds
    <2>2. /\ pc' = "commit" /\ source' = "event_branch_search" /\ option' = Best
          /\ UNCHANGED <<seen, clock, created, tried, hp, raised, resultVars>>
      BY <2>1 DEF Choose, eventVars
    <2>3. Best \in tried /\ hp[Best] > 0 /\ \A j \in tried : hp[j] <= hp[Best]
      BY <1>4, BestEffect DEF TypeOK
    <2>4. tried = Options
      BY <1>4, <2>3 DEF EventInv
    <2>5. EventChoiceSurvives'
      BY <1>0, <2>2, <2>3, <2>4 DEF EventChoiceSurvives, Options
    <2>6. source' \in Sources /\ option' \in Options \cup {0}
      BY <2>2, <2>3, <2>4 DEF Sources
    <2> QED BY <1>2, <1>4, <2>2, <2>5, <2>6 DEF TypeOK
  <1> QED BY <1>1, <1>3, <1>4

\* What the cleanup cannot release is given up, or left to the exact retry.
LEMMA CleanupStep ==
    ASSUME IInv, Cleanup
    PROVE  IInv'
  <1> USE DEF IInv
  <1>0. /\ pc = "cleanup" /\ UNCHANGED <<config, made>> /\ refused = 0
        /\ raised \in BOOLEAN /\ created \subseteq Branches /\ givenUp \subseteq Branches
    BY NothingRefused DEF Cleanup, SessionInv, TypeOK, Ended
  <1>1. CASE MayRelease
    <2>0. /\ Usable /\ replay = {}
          /\ live \subseteq givenUp \cup created /\ heard \subseteq live \cup givenUp
      BY <1>0, <1>1 DEF MayRelease, SessionInv, BranchInv, Usable
    <2>1. PICK outcome \in Outcomes :
            /\ Release(outcome, created)
            /\ givenUp' = IF outcome \in {"rejected", "faulted", "unsent"}
                          THEN givenUp \cup created ELSE givenUp
            /\ EventSearchEnds(raised \/ outcome \in {"faulted", "uncertain", "invalid"})
      BY <1>1, <2>0, PossibleWhenUsable DEF Cleanup
    <2>2. PICK done \in Executed(outcome, created) : live' = live \ done
      BY <2>1 DEF Release
    <2>3. done \subseteq created /\ (outcome = "completed" => done = created)
      BY <2>2, ExecutedEffect
    <2>4. /\ refused' = 0 /\ refused' \in Nat
          /\ session' \in {"usable", "pending", "invalid"} /\ replay' \subseteq Branches
          /\ Usable' <=> outcome \notin {"uncertain", "invalid"}
          /\ Usable' => replay' = {}
          /\ session' = "pending" <=> outcome = "uncertain"
          /\ outcome = "uncertain" => replay' = created
      BY <1>0, <2>0, <2>1, AdmittedWhenUsable, EndsEffect DEF Release
    <2>5. /\ UNCHANGED <<root, kind, rootHeard, missing, hole>>
          /\ heard' = IF outcome = "completed" THEN heard \ created ELSE heard
      BY <2>1 DEF Release, logVars
    <2>6. live' \subseteq Branches /\ heard' \subseteq Branches /\ givenUp' \subseteq Branches
      BY <1>0, <2>1, <2>2, <2>5 DEF TypeOK, ClientTypeOK
    <2>7. ClientTypeOK'
      BY <2>4, <2>5, <2>6 DEF TypeOK, ClientTypeOK
    <2>8. session' # "invalid" => live' \subseteq replay' \cup givenUp'
      <3>1. CASE outcome = "completed"
        BY <2>0, <2>1, <2>2, <2>3, <3>1
      <3>2. CASE outcome \in {"rejected", "faulted", "unsent"}
        BY <2>0, <2>1, <2>2, <3>2
      <3>3. CASE outcome = "uncertain"
        BY <2>0, <2>1, <2>2, <2>4, <3>3
      <3>4. CASE outcome = "invalid"
        BY <2>4, <3>4 DEF Usable
      <3> QED BY <3>1, <3>2, <3>3, <3>4 DEF Outcomes
    <2>9. Usable' => heard' \subseteq live' \cup givenUp'
      <3>1. CASE outcome = "completed"
        BY <2>0, <2>1, <2>2, <2>3, <2>5, <3>1
      <3>2. CASE outcome \in {"rejected", "faulted", "unsent"}
        BY <2>0, <2>1, <2>5, <3>2
      <3>3. CASE outcome \in {"uncertain", "invalid"}
        BY <2>4, <3>3
      <3> QED BY <3>1, <3>2, <3>3 DEF Outcomes
    <2> DEFINE raises == raised \/ outcome \in {"faulted", "uncertain", "invalid"}
    <2>10. raises \in BOOLEAN /\ EventSearchEnds(raises)
      BY <1>0, <2>1
    <2>11. ~ raises => ~ raised /\ Usable'
      BY <2>4
    <2> HIDE DEF raises
    <2> QED BY <1>0, <2>4, <2>5, <2>6, <2>7, <2>8, <2>9, <2>10, <2>11, SearchEndsStep
  <1>2. CASE ~ MayRelease
    <2>1. /\ UNCHANGED clientVars
          /\ givenUp' = IF Usable THEN givenUp \cup created ELSE givenUp
          /\ EventSearchEnds(raised)
      BY <1>2 DEF Cleanup
    <2>2. givenUp' \subseteq Branches
      BY <1>0, <2>1
    <2>3. session # "invalid" => live \subseteq replay \cup givenUp'
      <3>1. CASE Usable
        BY <1>0, <2>1, <3>1 DEF BranchInv
      <3>2. CASE ~ Usable
        BY <2>1, <3>2 DEF BranchInv, Usable, TypeOK, ClientTypeOK
      <3> QED BY <3>1, <3>2
    <2>4. Usable => heard \subseteq live \cup givenUp'
      BY <2>1 DEF BranchInv
    <2>5. ~ raised => Usable
      BY <1>0 DEF SessionInv
    <2> QED BY <1>0, <2>1, <2>2, <2>3, <2>4, <2>5, ClientKept, SearchEndsStep
  <1> QED BY <1>1, <1>2

\* A commit into a session that settling has left with something unresolved: the client
\* refuses it, and the run fails.
LEMMA RefusedCommitStep ==
    ASSUME IInv, CommitAction, ~ Usable
    PROVE  IInv'
  <1> USE DEF IInv
  <1>1. /\ pc = "commit" /\ UNCHANGED <<config, givenUp>> /\ label = FALSE
        /\ closing = FALSE /\ refused = 0 /\ settles
        /\ (root = MaxPoints => kind = "end")
    BY NothingRefused DEF CommitAction, SessionInv, LogInv, GameInv, Ended, TypeOK
  <1>2. /\ Commit("unsent", seen.point) /\ made' = made /\ Leave(FALSE, NoDecision)
    BY DEF CommitAction, Possible, Raise
  <1>3. UNCHANGED sessionVars /\ refused' = 1
    BY <1>1, <1>2 DEF Commit, Admitted, Ends, sessionVars
  <1>4. UNCHANGED <<root, kind, live, heard, rootHeard, missing, hole>>
    <2>1. PICK done \in Executed("unsent", IF seen.point = root THEN {<<seen.point, 0>>} ELSE {}) :
            /\ Logged({<<seen.point, 0>>}, done, "unsent")
            /\ IF done = {} THEN UNCHANGED <<root, kind>>
                            ELSE root' = root + 1 /\ kind' \in NextKind
      BY <1>2 DEF Commit
    <2>2. done = {}
      BY <2>1, ExecutedEffect
    <2> QED BY <1>2, <2>1, <2>2 DEF Commit, Logged, logVars
  <1>5. /\ ClientTypeOK' /\ made' \in 0..MaxDecisions /\ givenUp' \subseteq Branches
        /\ ~ Usable'
    BY <1>1, <1>2, <1>3, <1>4 DEF TypeOK, ClientTypeOK, sessionVars, Usable
  <1>6. session' # "invalid" => live' \subseteq replay' \cup givenUp'
    BY <1>1, <1>3, <1>4 DEF BranchInv, sessionVars
  <1> QED BY <1>1, <1>2, <1>3, <1>4, <1>5, <1>6, LeaveStep

\* A commit: RL moves to the next Decision, or the episode ends.
LEMMA CommitActionStep ==
    ASSUME IInv, CommitAction, Usable
    PROVE  IInv'
  <1> USE DEF IInv
  <1>0. /\ pc = "commit" /\ refused = 0 /\ replay = {} /\ label = FALSE /\ closing = FALSE
        /\ seen = [point |-> root, kind |-> kind] /\ rootHeard = root
        /\ made \in 0..MaxDecisions /\ made < MaxDecisions /\ (missing = {} \/ hole)
        /\ UNCHANGED <<config, givenUp>> /\ givenUp \subseteq Branches
    <2>1. pc = "commit" /\ UNCHANGED <<config, givenUp>>
      BY DEF CommitAction
    <2>2. refused = 0 /\ replay = {} /\ closing = FALSE
      BY <2>1, NothingRefused DEF SessionInv, TypeOK
    <2>3. label = FALSE /\ (missing = {} \/ hole)
      BY <2>1 DEF LogInv, TypeOK
    <2> QED BY <2>1, <2>2, <2>3 DEF GameInv, Deciding, TypeOK
  <1>1. /\ root \in 1..MaxPoints /\ root # MaxPoints
        /\ live \subseteq givenUp /\ heard \subseteq live \cup givenUp
    BY <1>0 DEF GameInv, Deciding, BranchInv, TypeOK, ClientTypeOK, Usable
  <1>2. PICK outcome \in Outcomes :
          /\ Commit(outcome, seen.point)
          /\ made' = IF outcome = "completed" THEN made + 1 ELSE made
          /\ IF outcome # "completed" THEN Raise
             ELSE LET next == [point |-> root', kind |-> kind']
                  IN IF kind' = "end" THEN Leave(TRUE, next)
                     ELSE IF kind' = "stuck" \/ LimitReached(made') THEN Raise
                     ELSE Decide(next)
    BY <1>0, PossibleWhenUsable DEF CommitAction
  <1>3. Commit(outcome, root)
    BY <1>0, <1>2
  <1>4. PICK done \in Executed(outcome, {<<root, 0>>}) :
          /\ Logged({<<root, 0>>}, done, outcome)
          /\ IF done = {} THEN UNCHANGED <<root, kind>>
                          ELSE root' = root + 1 /\ kind' \in NextKind
    BY <1>3 DEF Commit
  <1>5. done \subseteq {<<root, 0>>} /\ (outcome = "completed" => done = {<<root, 0>>})
    BY <1>4, ExecutedEffect
  <1>6. /\ refused' = 0 /\ refused' \in Nat
        /\ session' \in {"usable", "pending", "invalid"} /\ replay' \subseteq Branches
        /\ Usable' <=> outcome \notin {"uncertain", "invalid"}
        /\ Usable' => replay' = {}
        /\ session' = "pending" <=> outcome = "uncertain"
    BY <1>0, <1>3, AdmittedWhenUsable, EndsEffect DEF Commit
  <1>7. /\ missing' \subseteq Actions /\ hole' \in BOOLEAN
        /\ outcome = "completed" => missing' = {} \/ hole'
    <2>1. {<<root, 0>>} \in SUBSET Actions /\ done \in SUBSET {<<root, 0>>}
      BY <1>1, <1>5 DEF Actions
    <2>2. missing \subseteq Actions /\ hole \in BOOLEAN
      BY DEF TypeOK, ClientTypeOK
    <2>3. outcome = "completed" => \A a \in done : Tells(a, outcome)
      BY <1>0, <1>5 DEF Tells
    <2> QED BY <1>0, <1>4, <2>1, <2>2, <2>3, LoggedEffect
  <1>8. /\ root' \in 1..MaxPoints /\ kind' \in Kinds
        /\ root' = MaxPoints => kind' = "end"
    <2>1. CASE done = {}
      BY <1>1, <1>4, <2>1 DEF TypeOK, ClientTypeOK
    <2>2. CASE done # {}
      BY <1>1, <1>4, <2>2, Constants DEF NextKind, Kinds
    <2> QED BY <2>1, <2>2
  <1>9. /\ heard' = IF outcome = "completed" THEN {} ELSE heard
        /\ rootHeard' = IF outcome = "completed" THEN root' ELSE rootHeard
        /\ live' = live
    BY <1>3 DEF Commit
  <1>10. ClientTypeOK'
    BY <1>6, <1>7, <1>8, <1>9, Constants DEF TypeOK, ClientTypeOK
  <1>11. made' \in 0..MaxDecisions
    BY <1>0, <1>2, Constants
  <1>12. live' \subseteq givenUp' /\ heard' \subseteq live' \cup givenUp'
    BY <1>0, <1>1, <1>9
  <1>13. CASE outcome = "completed" /\ kind' = "end"
    <2>1. Leave(TRUE, [point |-> root', kind |-> kind'])
      BY <1>2, <1>13
    <2>2. [point |-> root', kind |-> kind'] \in Decision
      BY <1>8 DEF Decision
    <2> QED BY <1>0, <1>6, <1>7, <1>8, <1>10, <1>11, <1>12, <1>13, <2>1, <2>2, LeaveStep
  <1>14. CASE \/ outcome # "completed"
              \/ kind' # "end" /\ (kind' = "stuck" \/ LimitReached(made'))
    <2>1. Leave(FALSE, NoDecision)
      BY <1>2, <1>14 DEF Raise
    <2> QED BY <1>0, <1>6, <1>8, <1>10, <1>11, <1>12, <2>1, LeaveStep
  <1>15. CASE /\ outcome = "completed" /\ kind' # "end"
              /\ ~ (kind' = "stuck" \/ LimitReached(made'))
    <2>1. Decide([point |-> root', kind |-> kind'])
      BY <1>2, <1>15
    <2>2. made' < MaxDecisions
      BY <1>11, <1>15, Constants DEF LimitReached
    <2> QED BY <1>0, <1>6, <1>7, <1>8, <1>9, <1>10, <1>11, <1>12, <1>15, <2>1, <2>2, DecideStep
  <1> QED BY <1>13, <1>14, <1>15

-----------------------------------------------------------------------------
(* The invariant.                                                          *)

LEMMA InitIInv == Init => IInv
  <1> SUFFICES ASSUME Init PROVE IInv
    OBVIOUS
  <1>1. /\ ClientInit /\ pc = "open" /\ seen = NoDecision /\ clock = "eval" /\ made = 0
        /\ created = {} /\ tried = {} /\ hp = NoHp /\ source = "none" /\ option = 0
        /\ final = NoDecision /\ givenUp = {}
        /\ batch \in BOOLEAN /\ settles \in BOOLEAN
        /\ godMode \in BOOLEAN /\ honoured \in BOOLEAN
    BY DEF Init
  <1>2. /\ raised \in BOOLEAN /\ started \in BOOLEAN /\ closing \in BOOLEAN
        /\ label \in BOOLEAN /\ error \in BOOLEAN /\ ~ label
    BY Zenon DEF Init
  <1>3. ClientTypeOK
    <2>1. kind \in Kinds
      BY <1>1 DEF ClientInit, Kinds
    <2>2. hole \in BOOLEAN
      BY <1>1, Zenon DEF ClientInit
    <2>3. /\ session = "usable" /\ replay = {} /\ root = 1 /\ live = {} /\ heard = {}
          /\ rootHeard = 0 /\ missing = {} /\ refused = 0
      BY <1>1 DEF ClientInit
    <2> QED BY <2>1, <2>2, <2>3, Constants DEF ClientTypeOK
  <1>4. TypeOK
    BY <1>1, <1>2, <1>3, Constants DEF TypeOK, Places, Clock, Sources
  <1>5. SessionInv
    <2>1. ~ closing
      BY Zenon DEF Init
    <2> QED BY <1>1, <2>1 DEF ClientInit, SessionInv, ReplayIsNotRaced, Usable
  <1>6. GameInv
    BY <1>1, Constants DEF ClientInit, GameInv, Deciding, Kinds
  <1>7. BranchInv
    BY <1>1 DEF ClientInit, BranchInv
  <1>8. EventInv /\ LogInv
    BY <1>1, <1>2 DEF ClientInit, EventInv, EventChoiceSurvives, LogInv, LabelledRunIsComplete
  <1> QED BY <1>4, <1>5, <1>6, <1>7, <1>8 DEF IInv

LEMMA StutterStep ==
    ASSUME IInv, UNCHANGED vars
    PROVE  IInv'
  <1> USE DEF IInv
  <1>1. UNCHANGED <<clientVars, pc, config, seen, clock, made, eventVars, outcomeVars,
                    resultVars, givenUp>>
    BY DEF vars, runVars
  <1>2. TypeOK'
    BY <1>1, ClientKept DEF TypeOK, config, eventVars, outcomeVars, resultVars
  <1>a. SessionInv'
    BY <1>1, ClientKept DEF SessionInv, ReplayIsNotRaced, config, eventVars, resultVars
  <1>3. GameInv' /\ BranchInv'
    BY <1>1, ClientKept DEF GameInv, Deciding, BranchInv, config, eventVars
  <1>4. EventInv' /\ LogInv'
    BY <1>1, ClientKept
       DEF EventInv, EventChoiceSurvives, LogInv, LabelledRunIsComplete, config, eventVars,
           outcomeVars, resultVars
  <1> QED BY <1>2, <1>a, <1>3, <1>4

LEMMA IInvStep == IInv /\ [Next]_vars => IInv'
  <1> SUFFICES ASSUME IInv, [Next]_vars PROVE IInv'
    OBVIOUS
  <1>1. CASE Open
    BY <1>1, OpenStep
  <1>2. CASE Start
    BY <1>2, StartStep
  <1>3. CASE Get
    BY <1>3, GetStep
  <1>4. CASE Tick
    BY <1>4, TickStep
  <1>5. CASE NoAvailableAction \/ TooLateToCommit
    BY <1>5, LoopStep
  <1>6. CASE ForcedSingleAction \/ BeamSearch \/ HeuristicFallback
    BY <1>6, ChooseStep
  <1>7. CASE Dispatch
    BY <1>7, DispatchStep
  <1>8. CASE EvaluateBatch
    BY <1>8, EvaluateBatchStep
  <1>9. CASE EvaluateNext
    BY <1>9, EvaluateNextStep
  <1>10. CASE EvaluationExpires
    BY <1>10, ExpiresStep
  <1>11. CASE Cleanup
    BY <1>11, CleanupStep
  <1>12. CASE BeamSearchRaises
    BY <1>12, BeamSearchRaisesStep
  <1>13. CASE CommitAction
    BY <1>13, CommitActionStep, RefusedCommitStep
  <1>14. CASE Close
    BY <1>14, CloseStep
  <1>15. CASE Label
    BY <1>15, LabelStep
  <1>16. CASE End
    BY <1>16, EndStep
  <1>17. CASE Done \/ UNCHANGED vars
    BY <1>17, StutterStep DEF Done
  <1> QED
    BY <1>1, <1>2, <1>3, <1>4, <1>5, <1>6, <1>7, <1>8, <1>9, <1>10, <1>11, <1>12, <1>13,
       <1>14, <1>15, <1>16, <1>17 DEF Next, Step

LEMMA Invariant == Spec => []IInv
  BY InitIInv, IInvStep, PTL DEF Spec

-----------------------------------------------------------------------------
(* The theorems.                                                           *)

\* Whatever requests fail and however, once best_event_option is over each Branch it
\* made is released, owned by the exact retry, or one whose release was tried in vain,
\* and the audit of a usable session remembers no other (event_branch_search.py,
\* contract.py); every variable keeps its type.
THEOREM EveryBranchHasAnOwner == Spec => []BranchesHaveAnOwner
  <1>1. IInv => BranchesHaveAnOwner
    <2> SUFFICES ASSUME IInv PROVE BranchesHaveAnOwner
      OBVIOUS
    <2>1. (pc \notin {"evaluate", "cleanup"} /\ session # "invalid")
            => live \subseteq replay \cup givenUp
      BY DEF IInv, BranchInv
    <2>2. Usable => heard \subseteq live \cup givenUp
      BY DEF IInv, BranchInv
    <2> QED BY <2>1, <2>2 DEF IInv, BranchesHaveAnOwner
  <1> QED BY <1>1, Invariant, PTL

\* However requests fail, neither the cleanup of an Event search nor _close_best_effort
\* makes a call while something is unresolved.  Only a Beam search that settles leaves
\* goes on as if nothing were, with its next request or with the commit of its choice: the
\* client refuses that one call, nothing follows it, and the run ends as a failed one
\* without a label (beam_search.py, engine.py, self_play.py).
THEOREM NothingRacesTheReplay == Spec => []ReplayIsNotRaced
  <1>1. IInv => ReplayIsNotRaced
    BY DEF IInv, SessionInv, ReplayIsNotRaced
  <1> QED BY <1>1, Invariant, PTL

\* A log that carries self_play_run_result has a full record of every action RL
\* executed, ends in a terminal Decision and was played in the mode it claims.
THEOREM LabelMeansComplete == Spec => []LabelledRunIsComplete
  <1>1. IInv => LabelledRunIsComplete
    BY DEF IInv, LogInv
  <1> QED BY <1>1, Invariant, PTL

\* The option an Event is committed with survived its simulation, no other kept more
\* hit points, and all were tried, however the clock and the requests went.
THEOREM ChosenOptionSurvives == Spec => []EventChoiceSurvives
  <1>1. IInv => EventChoiceSurvives
    BY DEF IInv, EventInv
  <1> QED BY <1>1, Invariant, PTL
=============================================================================
