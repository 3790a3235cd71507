-------------------------- MODULE WholeRunEvaluation --------------------------
(***************************************************************************)
(* tools/evaluate_whole_run.py with --start-rl-servers: a pool of RL       *)
(* servers is started, one per port (runner/rl_server_pool.py), every      *)
(* condition plays its runs with one worker pinned to each port            *)
(* (runner/floor_reach_eval.py), and the pool is stopped, whatever         *)
(* happened.                                                               *)
(*                                                                         *)
(* An RL server is a process with a crew of worker processes of its own;   *)
(* it boots slowly, may crash, and may find its port taken by a stranger,  *)
(* another program or a server of an earlier evaluation.  A run is the     *)
(* floors it reaches, decision by decision; SelfPlayRun.tla has the rest.  *)
(***************************************************************************)
EXTENDS Integers, FiniteSets

CONSTANTS
    NumPorts, NumRuns, Concurrency,
    NumConditions,      \* model conditions times search modes
    MaxDecisions, MaxFloor,
    MaxCrashes, MaxStrangers, MaxInterrupts,    \* bounds on what may go wrong
    Stubborn            \* whether a crew may outlive the signal to its group

ASSUME EvaluationAssumption ==
    /\ {NumPorts, NumRuns, Concurrency, NumConditions, MaxDecisions} \subseteq Nat \ {0}
    /\ {MaxFloor, MaxCrashes, MaxStrangers, MaxInterrupts} \subseteq Nat
    /\ Stubborn \in BOOLEAN

Ports == 1 .. NumPorts
Runs == 1 .. NumRuns

VARIABLES
    pc,             \* "spawn", "wait", "probe", "play", "stop" or "done"
    outcome,        \* why the pool is stopped: "ok" or the error
    spawned,        \* number of servers in _processes
    stopped,        \* of them, how many _kill_tree has dealt with
    pending, round, \* ports not ready yet, and those still to look at in this round
    late,           \* the startup deadline has passed
    server, crew, listener,     \* at each port
    condition,      \* number of conditions whose results are in the report
    next,           \* next_index
    worker,         \* at each worker, see Idle
    results,        \* of this condition
    crashes, strangers, interrupts,
    excused         \* history: ports whose processes the pool could not answer for

poolVars == <<outcome, spawned, stopped, pending, round, late>>
serverVars == <<server, crew, listener>>
playVars == <<condition, next, worker, results>>
faultVars == <<crashes, strangers, interrupts, excused>>
vars == <<pc, poolVars, serverVars, playVars, faultVars>>

\* min(concurrency, num_runs) workers, each pinned to one port.
Workers == 1 .. (IF Concurrency < NumRuns THEN Concurrency ELSE NumRuns)
PortOf(w) == ((w - 1) % NumPorts) + 1

Floors == 0 .. MaxFloor
Deeper(a, b) == IF a > b THEN a ELSE b

\* reached is where the game is, best what _RunState has recorded of it.
Idle == [at |-> "take", run |-> 0, reached |-> 0, best |-> 0, made |-> 0]
Stages == {"take", "connect", "decide", "commit", "gone"}
NoResult == [state |-> "none", reached |-> 0, best |-> 0]
Fresh == [w \in Workers |-> Idle]
Empty == [r \in Runs |-> NoResult]

TypeOK ==
    /\ pc \in {"spawn", "wait", "probe", "play", "stop", "done"}
    /\ outcome \in {"ok", "startup", "timeout", "missing", "interrupted"}
    /\ spawned \in 0 .. NumPorts /\ stopped \in 0 .. NumPorts
    /\ pending \subseteq Ports /\ round \subseteq Ports /\ late \in BOOLEAN
    /\ server \in [Ports -> {"none", "booting", "up", "gone"}]
    /\ crew \in [Ports -> BOOLEAN]
    /\ listener \in [Ports -> {"nobody", "server", "stranger"}]
    /\ condition \in 0 .. NumConditions /\ next \in 0 .. NumRuns
    /\ worker \in [Workers -> [at : Stages, run : 0 .. NumRuns, reached : Floors,
                               best : Floors, made : 0 .. MaxDecisions]]
    /\ results \in [Runs -> [state : {"none", "ok", "error"}, reached : Floors,
                             best : Floors]]
    /\ crashes \in 0 .. MaxCrashes /\ strangers \in 0 .. MaxStrangers
    /\ interrupts \in 0 .. MaxInterrupts
    /\ excused \subseteq Ports

Init ==
    /\ pc = "spawn" /\ outcome = "ok" /\ spawned = 0 /\ stopped = 0
    /\ pending = {} /\ round = {} /\ late = FALSE
    /\ server = [p \in Ports |-> "none"]
    /\ crew = [p \in Ports |-> FALSE]
    /\ listener = [p \in Ports |-> "nobody"]
    /\ condition = 0 /\ next = 0 /\ worker = Fresh /\ results = Empty
    /\ crashes = 0 /\ strangers = 0 /\ interrupts = 0
    /\ excused = {}

----------------------------------------------------------------------------
(* The servers (external).                                                 *)

StartCrew(p) ==
    /\ server[p] = "booting" /\ ~crew[p]
    /\ crew' = [crew EXCEPT ![p] = TRUE]
    /\ UNCHANGED <<pc, poolVars, server, listener, playVars, faultVars>>

\* Binding comes last; a port that is taken ends the server, and its crew with it.
Bind(p) ==
    /\ server[p] = "booting" /\ crew[p]
    /\ IF listener[p] = "nobody"
       THEN /\ server' = [server EXCEPT ![p] = "up"]
            /\ listener' = [listener EXCEPT ![p] = "server"]
            /\ UNCHANGED crew
       ELSE /\ server' = [server EXCEPT ![p] = "gone"]
            /\ crew' = [crew EXCEPT ![p] = FALSE]
            /\ UNCHANGED listener
    /\ UNCHANGED <<pc, poolVars, playVars, faultVars>>

\* What a port answers once the server of ours that held it is gone.
Freed(p) == [listener EXCEPT ![p] = IF @ = "server" THEN "nobody" ELSE @]

\* A server that dies may leave its crew behind.
Crash(p) ==
    /\ pc # "done" /\ crashes < MaxCrashes
    /\ server[p] \in {"booting", "up"}
    /\ crashes' = crashes + 1
    /\ server' = [server EXCEPT ![p] = "gone"]
    /\ listener' = Freed(p)
    /\ \E left \in BOOLEAN :
          /\ left => crew[p]
          /\ crew' = [crew EXCEPT ![p] = left]
          /\ excused' = IF left THEN excused \cup {p} ELSE excused
    /\ UNCHANGED <<pc, poolVars, playVars, strangers, interrupts>>

\* free_ports has closed the sockets it reserved; somebody else binds one of them.
StrangerBinds(p) ==
    /\ pc # "done" /\ strangers < MaxStrangers /\ listener[p] = "nobody"
    /\ strangers' = strangers + 1
    /\ listener' = [listener EXCEPT ![p] = "stranger"]
    /\ UNCHANGED <<pc, poolVars, server, crew, playVars, crashes, interrupts, excused>>

----------------------------------------------------------------------------
(* RlServerPool.                                                           *)

\* Mutant: an error while starting leaves __enter__ without stop().
LeaveWithoutStop(place, why) ==
    pc' = (IF why = "startup" THEN "done" ELSE place) /\ outcome' = why

\* Every way out of the pool, an error while it starts included, passes through stop().
Leave(place, why) == pc' = place /\ outcome' = why

Spawn ==
    /\ pc = "spawn"
    /\ spawned' = spawned + 1
    /\ server' = [server EXCEPT ![spawned + 1] = "booting"]
    /\ IF spawned + 1 < NumPorts
       THEN UNCHANGED <<pc, pending, round>>
       ELSE pc' = "wait" /\ pending' = Ports /\ round' = Ports
    /\ UNCHANGED <<outcome, stopped, late, crew, listener, playVars, faultVars>>

\* The log directory or the process cannot be made.
SpawnFails ==
    /\ pc = "spawn"
    /\ Leave("stop", "startup")
    /\ UNCHANGED <<spawned, stopped, pending, round, late, serverVars, playVars, faultVars>>

DeadlinePasses ==
    /\ pc = "wait" /\ ~late
    /\ late' = TRUE
    /\ UNCHANGED <<pc, outcome, spawned, stopped, pending, round, serverVars, playVars,
                   faultVars>>

\* One port of a round: a server that has exited is an error, one whose port accepts a
\* connection is ready, whoever accepts it.
Look ==
    /\ pc = "wait" /\ round # {}
    /\ LET p == CHOOSE q \in round : \A r \in round : q <= r
       IN  IF server[p] = "gone"
           THEN /\ Leave("stop", "startup")
                /\ UNCHANGED <<pending, round>>
           ELSE /\ round' = round \ {p}
                /\ pending' = IF listener[p] = "nobody" THEN pending ELSE pending \ {p}
                /\ UNCHANGED <<pc, outcome>>
    /\ UNCHANGED <<spawned, stopped, late, serverVars, playVars, faultVars>>

\* Mutant: the deadline is not looked at.
NeverExpired == FALSE

Expired == late

RoundEnds ==
    /\ pc = "wait" /\ round = {}
    /\ IF pending = {} THEN pc' = "probe" /\ UNCHANGED <<outcome, round>>
       ELSE IF Expired THEN Leave("stop", "timeout") /\ UNCHANGED round
       ELSE round' = pending /\ UNCHANGED <<pc, outcome>>
    /\ UNCHANGED <<spawned, stopped, pending, late, serverVars, playVars, faultVars>>

\* _kill_tree.  A server that is gone already is not looked at again, nor is its crew.
\* The signal to the group ends server and crew; a server that outlasts it for 15 seconds
\* is killed alone, and nobody asks about a crew that does not heed it.
KillTree(p) ==
    IF server[p] = "gone" THEN UNCHANGED <<serverVars, excused>>
    ELSE /\ server' = [server EXCEPT ![p] = "gone"]
         /\ listener' = Freed(p)
         /\ \E left \in BOOLEAN :
               /\ left => Stubborn /\ crew[p]
               /\ crew' = [crew EXCEPT ![p] = left]
               /\ excused' = IF left THEN excused \cup {p} ELSE excused

Stop ==
    /\ pc = "stop"
    /\ IF stopped < spawned
       THEN stopped' = stopped + 1 /\ KillTree(stopped + 1) /\ UNCHANGED pc
       ELSE pc' = "done" /\ UNCHANGED <<serverVars, stopped, excused>>
    /\ UNCHANGED <<outcome, spawned, pending, round, late, playVars,
                   crashes, strangers, interrupts>>

----------------------------------------------------------------------------
(* run_floor_reach_eval, once per condition.                               *)

\* _require_listening_ports: one connection to every port.  A missing one ends the
\* evaluation, and with it the conditions already played.
Probe ==
    /\ pc = "probe"
    /\ IF \A p \in Ports : listener[p] # "nobody"
       THEN pc' = "play" /\ UNCHANGED outcome
       ELSE Leave("stop", "missing")
    /\ UNCHANGED <<spawned, stopped, pending, round, late, serverVars, playVars, faultVars>>

At(w, stage) == pc = "play" /\ worker[w].at = stage
Step(w) == UNCHANGED <<pc, poolVars, serverVars, condition, faultVars>>

\* Mutant: the counter is not moved on.
TakenAgain(n) == n

Taken(n) == n + 1

\* The next index, or the end of the worker.
Take(w) ==
    /\ At(w, "take")
    /\ IF next < NumRuns
       THEN /\ next' = Taken(next)
            /\ worker' = [worker EXCEPT ![w] = [Idle EXCEPT !.at = "connect", !.run = next + 1]]
       ELSE worker' = [worker EXCEPT ![w].at = "gone"] /\ UNCHANGED next
    /\ UNCHANGED results
    /\ Step(w)

Answers(w) == listener[PortOf(w)] # "nobody"

\* Connecting and start_new_run.
Start(w) ==
    /\ At(w, "connect") /\ Answers(w)
    /\ worker' = [worker EXCEPT ![w].at = "decide"]
    /\ UNCHANGED <<next, results>>
    /\ Step(w)

\* decide() has returned; only then is the floor of its Decision recorded.
Decide(w) ==
    /\ At(w, "decide") /\ Answers(w)
    /\ worker' = [worker EXCEPT ![w].at = "commit", ![w].made = @ + 1,
                                ![w].best = Deeper(@, worker[w].reached)]
    /\ UNCHANGED <<next, results>>
    /\ Step(w)

\* The result of a run, and its worker goes on with the next.
Ends(w, state, reached, best) ==
    /\ results' = [results EXCEPT ![worker[w].run] =
                     [state |-> state, reached |-> reached, best |-> best]]
    /\ worker' = [worker EXCEPT ![w] = Idle]
    /\ UNCHANGED next

\* A run that ends records its final state, too.
Last(best, reached) == Deeper(best, reached)

\* A commit may lead to the next floor and may end the game.  The decision limit is an
\* exception, and so an error of the run.
Commit(w) ==
    /\ At(w, "commit") /\ Answers(w)
    /\ \E to \in {worker[w].reached, worker[w].reached + 1} \cap Floors :
          \/ Ends(w, "ok", to, Last(worker[w].best, to))
          \/ worker[w].made >= MaxDecisions /\ Ends(w, "error", to, worker[w].best)
          \/ /\ worker[w].made < MaxDecisions
             /\ worker' = [worker EXCEPT ![w].at = "decide", ![w].reached = to]
             /\ UNCHANGED <<next, results>>
    /\ Step(w)

\* Anything that raises on the way: nobody listens, a request fails, and a commit may
\* have been executed all the same.
Fail(w) ==
    /\ \E stage \in {"connect", "decide", "commit"} : At(w, stage)
    /\ \E to \in IF worker[w].at = "commit"
                 THEN {worker[w].reached, worker[w].reached + 1} \cap Floors
                 ELSE {worker[w].reached} :
          Ends(w, "error", to, worker[w].best)
    /\ Step(w)

\* gather() returns when every worker has found the indices used up.
Gather ==
    /\ pc = "play" /\ \A w \in Workers : worker[w].at = "gone"
    /\ condition' = condition + 1
    /\ IF condition + 1 < NumConditions
       THEN /\ pc' = "probe" /\ UNCHANGED outcome
            /\ next' = 0 /\ worker' = Fresh /\ results' = Empty
       ELSE Leave("stop", "ok") /\ UNCHANGED <<next, worker, results>>
    /\ UNCHANGED <<spawned, stopped, pending, round, late, serverVars, faultVars>>

\* Ctrl-C: the tasks are cancelled and the exception passes through the pool.  While the
\* pool is being stopped it ends that as well, and leaves the rest of the servers.
Interrupt ==
    /\ pc # "done" /\ interrupts < MaxInterrupts
    /\ interrupts' = interrupts + 1
    /\ IF pc = "stop"
       THEN pc' = "done" /\ excused' = excused \cup (stopped + 1 .. spawned)
       ELSE pc' = "stop" /\ UNCHANGED excused
    /\ outcome' = "interrupted"
    /\ UNCHANGED <<spawned, stopped, pending, round, late, serverVars, playVars,
                   crashes, strangers>>

Done == pc = "done" /\ UNCHANGED vars

Environment == \E p \in Ports : StartCrew(p) \/ Bind(p) \/ Crash(p) \/ StrangerBinds(p)
Pool == Spawn \/ SpawnFails \/ Look \/ RoundEnds \/ Stop \/ Probe \/ Gather
Play == \E w \in Workers : Take(w) \/ Start(w) \/ Decide(w) \/ Commit(w) \/ Fail(w)

Next == Environment \/ Pool \/ Play \/ DeadlinePasses \/ Interrupt \/ Done

\* The program runs on, time passes, and every request has a timeout.
Spec == Init /\ [][Next]_vars /\ WF_vars(Pool) /\ WF_vars(Play) /\ WF_vars(DeadlinePasses)

----------------------------------------------------------------------------
(* Properties.                                                             *)

Alive(p) == server[p] \in {"booting", "up"} \/ crew[p]

\* "Leaving shuts every server's process tree down, including on an exception or
\* KeyboardInterrupt": however the evaluation ends, no server and no worker process of one
\* is left, unless its parent had died before, outlasted the signal, or the stopping
\* itself was interrupted.
NothingIsLeft == pc = "done" => \A p \in Ports : Alive(p) => p \in excused

\* Every index below next_index belongs to exactly one run, which is in progress at one
\* worker or has one result, and no other has either: concurrent workers neither play a
\* run twice nor lose one, and a condition is reported with all of its results.  A result
\* is the run's own, "the deepest observed totalFloor": without an error it is the deepest
\* floor the run's game has reached, and never one that it has not.
RunsAccounted ==
    /\ pc = "play" =>
         \A r \in Runs :
            LET players == {w \in Workers : worker[w].at # "gone" /\ worker[w].run = r}
            IN  Cardinality(players) + (IF results[r] = NoResult THEN 0 ELSE 1)
                  = (IF r <= next THEN 1 ELSE 0)
    /\ pc = "done" /\ outcome = "ok" =>
         condition = NumConditions /\ \A r \in Runs : results[r].state # "none"
    /\ \A r \in Runs :
         /\ results[r].best <= results[r].reached
         /\ results[r].state = "ok" => results[r].best = results[r].reached

\* An evaluation ends, even if a server never listens or dies while it is played.
EvaluationEnds == <>(pc = "done")
=============================================================================
