---------------------------- MODULE ClientSession ----------------------------
(***************************************************************************)
(* AsyncTrainingApiClient as the code that drives it sees it: one request  *)
(* at a time, each ending in one of six ways, with the Branches it made on *)
(* RL, the audit's cached Decisions and the JSONL selection log.           *)
(* TrainingClient.tla has what happens inside a request.                   *)
(***************************************************************************)
EXTENDS Integers

CONSTANTS
    MaxPoints   \* bound: Decisions of a run, the last one is terminal

ASSUME MaxPointsAssumption == MaxPoints \in Nat \ {0}

VARIABLES
    session,    \* "pending": pending_retry is set; "invalid": session_invalid
    replay,     \* Branches the pending exact retry and its cleanup will release
    root,       \* RL: number of the root Decision, one more per executed commit
    kind,       \* RL: what the root Decision offers, see Kinds
    live,       \* RL: Branches it holds
    heard,      \* SelectionAudit._decisions: Branches with a cached Decision
    rootHeard,  \* SelectionAudit._decisions: the cached root Decision, 0 for none
    missing,    \* JSONL log: executed actions without a full record, see Actions
    hole,       \* _TrackingSelectionLogger.error is not None
    refused     \* history: calls the client refused in a state not "usable"

sessionVars == <<session, replay>>
gameVars == <<root, kind, live>>
auditVars == <<heard, rootHeard>>
logVars == <<missing, hole>>
clientVars == <<sessionVars, gameVars, auditVars, logVars, refused>>

\* "event": several choice_event_option actions; "combat": several actions Beam
\* may search; "other": several it may not; "forced": one; "blocked": none of
\* the legal_actions is available; "stuck": none at all; "end": terminal.
Kinds == {"event", "combat", "other", "forced", "blocked", "stuck", "end"}

\* The candidates of an Event: two options, each a Branch of the root.
Options == {1, 2}
Branches == (1..MaxPoints) \X Options

\* A commit of the root Decision n is <<n, 0>>, an emulated option <<n, i>>.
Actions == (1..MaxPoints) \X (Options \cup {0})

\* "completed"; "rejected" (not executed) and "faulted" (executed, in part) are
\* answers that leave the session usable; "unsent": TransportError, and nothing
\* left the process; "uncertain": it may have, pending_retry is set; "invalid":
\* answered or not, the session is failed closed.
Outcomes == {"completed", "rejected", "faulted", "unsent", "uncertain", "invalid"}

Usable == session = "usable"

\* How a call can end: _ensure_fresh_request_allowed raises before anything is
\* sent unless the session is usable.
Possible == IF Usable THEN Outcomes ELSE {"unsent"}

Admitted == refused' = IF Usable THEN refused ELSE refused + 1

ClientTypeOK ==
    /\ session \in {"usable", "pending", "invalid"}
    /\ replay \subseteq Branches
    /\ root \in 1..MaxPoints
    /\ kind \in Kinds
    /\ live \subseteq Branches
    /\ heard \subseteq Branches
    /\ rootHeard \in 0..MaxPoints
    /\ missing \subseteq Actions
    /\ hole \in BOOLEAN
    /\ refused \in Nat

ClientInit ==
    /\ session = "usable"
    /\ replay = {}
    /\ root = 1
    /\ kind \in IF MaxPoints = 1 THEN {"end"} ELSE Kinds
    /\ live = {}
    /\ heard = {}
    /\ rootHeard = 0
    /\ missing = {}
    /\ hole = FALSE
    /\ refused = 0

\* What RL shows next; it stops the run at the bound.
NextKind == IF root + 1 = MaxPoints THEN {"end"} ELSE Kinds

\* The subsets of xs that RL may have executed when a request ends like this.
Executed(outcome, xs) ==
    CASE outcome = "completed" -> {xs}
      [] outcome \in {"rejected", "unsent"} -> {{}}
      [] OTHER -> SUBSET xs

\* Where the request leaves the session, and who owns its Branches meanwhile.
Ends(outcome, owned) ==
    /\ session' = CASE outcome = "uncertain" -> "pending"
                    [] outcome = "invalid" -> "invalid"
                    [] OTHER -> session
    /\ replay' = IF outcome = "uncertain" THEN owned ELSE replay

\* What a record tells of its action: that of a commit must quote the cached
\* Decision it acted on, and the response.
Tells(action, outcome) ==
    action[2] = 0 => (rootHeard = action[1] /\ outcome = "completed")

\* SelectionAudit.record_action for each action of one request, of which RL
\* executed done.  The logger may fail on any of them; record_action swallows that.  A
\* call the client refuses has no record.
Logged(actions, done, outcome) ==
    \/ /\ Usable
       /\ \E written \in SUBSET actions :
            /\ missing' = missing \cup {a \in done : a \notin written \/ ~ Tells(a, outcome)}
            /\ hole' = (hole \/ written # actions)
    \/ ~ Usable /\ UNCHANGED logVars

-----------------------------------------------------------------------------
(* The requests of the driver, by outcome.                                 *)

StartInstance(outcome) ==
    /\ Admitted
    /\ Ends(outcome, {})
    /\ rootHeard' = IF outcome = "completed" THEN root ELSE rootHeard
    /\ UNCHANGED <<gameVars, heard, logVars>>

GetDecision(outcome) ==
    /\ Admitted
    /\ Ends(outcome, {})
    /\ rootHeard' = IF outcome = "completed" THEN root ELSE rootHeard
    /\ UNCHANGED <<gameVars, heard, logVars>>

\* emulate_action(s) of Branches of the root; hits are the ones that completed.
\* owned is what the caller defers to the exact retry if the outcome is uncertain.
Emulate(outcome, batch, hits, owned) ==
    /\ Admitted
    /\ Ends(outcome, owned)
    /\ \E done \in Executed(outcome, batch) :
        /\ live' = live \cup done
        /\ Logged(batch, done, outcome)
    /\ heard' = IF outcome = "completed" THEN heard \cup hits ELSE heard
    /\ UNCHANGED <<root, kind, rootHeard>>

\* release_branches; the replay of an uncertain one still releases them.
Release(outcome, batch) ==
    /\ Admitted
    /\ Ends(outcome, batch)
    /\ \E done \in Executed(outcome, batch) : live' = live \ done
    /\ heard' = IF outcome = "completed" THEN heard \ batch ELSE heard
    /\ UNCHANGED <<root, kind, rootHeard, logVars>>

\* commit_action of the Decision n.  RL rejects one that is not its current
\* Decision.  A completed commit clears the audit and caches the new Decision.
Commit(outcome, n) ==
    /\ Admitted
    /\ n # root => outcome # "completed"
    /\ Ends(outcome, {})
    /\ \E done \in Executed(outcome, IF n = root THEN {<<n, 0>>} ELSE {}) :
        /\ Logged({<<n, 0>>}, done, outcome)
        /\ IF done = {} THEN UNCHANGED <<root, kind>>
                        ELSE root' = root + 1 /\ kind' \in NextKind
    /\ heard' = IF outcome = "completed" THEN {} ELSE heard
    /\ rootHeard' = IF outcome = "completed" THEN root' ELSE rootHeard
    /\ UNCHANGED live

\* close_instance; RL drops the Branches with the instance.
CloseInstance(outcome) ==
    /\ Admitted
    /\ Ends(outcome, {})
    /\ \E done \in Executed(outcome, live) : live' = live \ done
    /\ IF outcome \in {"completed", "faulted"}
       THEN heard' = {} /\ rootHeard' = 0
       ELSE UNCHANGED auditVars
    /\ UNCHANGED <<root, kind, logVars>>
=============================================================================
