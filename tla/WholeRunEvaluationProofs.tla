----------------------- MODULE WholeRunEvaluationProofs -----------------------
(***************************************************************************)
(* For any numbers of ports, runs, workers and conditions, and any number  *)
(* of crashes, strangers and interrupts: the pool leaves no process it can *)
(* answer for, and every run is played once and recorded truly.            *)
(***************************************************************************)
EXTENDS WholeRunEvaluation, FiniteSetTheorems, TLAPS

Playing(w) == worker[w].at \in {"connect", "decide", "commit"}

\* Of every port, what the pool knows and what it must answer for.
PoolInv ==
    /\ pc = "spawn" => spawned < NumPorts
    /\ pc \notin {"stop", "done"} => stopped = 0
    /\ stopped <= spawned
    /\ \A p \in Ports :
          /\ spawned < p => server[p] = "none"
          /\ server[p] = "none" => ~crew[p]
          /\ (server[p] = "gone" /\ crew[p]) => p \in excused
          /\ (p <= stopped /\ Alive(p)) => p \in excused
          /\ (pc = "done" /\ Alive(p)) => p \in excused

\* A worker has made fewer decisions than the limit before each, and knows every floor
\* it has reached once it has decided.
Orderly(w) ==
    /\ ~Playing(w) => worker[w].run = 0
    /\ worker[w].at \in {"take", "connect"} =>
         worker[w].made = 0 /\ worker[w].reached = 0 /\ worker[w].best = 0
    /\ worker[w].at = "decide" => worker[w].made < MaxDecisions
    /\ worker[w].best <= worker[w].reached
    /\ worker[w].at = "commit" => worker[w].best = worker[w].reached
    /\ worker[w].at = "gone" => next = NumRuns
WorkerInv == \A w \in Workers : Orderly(w)

\* The indices handed out are those in play and those with a result, each once.
IndexInv ==
    /\ \A w \in Workers : Playing(w) =>
          /\ worker[w].run \in 1 .. next /\ results[worker[w].run] = NoResult
          /\ \A v \in Workers \ {w} : Playing(v) => worker[v].run # worker[w].run
    /\ \A r \in Runs :
          /\ next < r => results[r] = NoResult
          /\ r <= next => \/ results[r] # NoResult
                          \/ \E w \in Workers : Playing(w) /\ worker[w].run = r
          /\ results[r].state = "none" => results[r] = NoResult
          /\ results[r].best <= results[r].reached
          /\ results[r].state = "ok" => results[r].best = results[r].reached

\* What the report of an evaluation that went well consists of.
ReportInv ==
    /\ pc \notin {"stop", "done"} => outcome = "ok" /\ condition < NumConditions
    /\ (pc \in {"stop", "done"} /\ outcome = "ok") =>
         condition = NumConditions /\ \A r \in Runs : results[r] # NoResult

IInv == TypeOK /\ PoolInv /\ WorkerInv /\ IndexInv /\ ReportInv

----------------------------------------------------------------------------
(* Types.                                                                  *)

WorkerType == [at : Stages, run : 0 .. NumRuns, reached : Floors, best : Floors,
               made : 0 .. MaxDecisions]

LEMMA Types ==
    /\ \A w \in Workers : PortOf(w) \in Ports
    /\ \A a, b \in Floors : Deeper(a, b) \in Floors
    /\ Idle \in WorkerType
    /\ NoResult \in [state : {"none", "ok", "error"}, reached : Floors, best : Floors]
  BY EvaluationAssumption
     DEF Workers, PortOf, Ports, Floors, Deeper, Idle, NoResult, Stages, WorkerType

ResultType == [state : {"none", "ok", "error"}, reached : Floors, best : Floors]

\* A worker's step disturbs nothing but the three variables of the runs.
LEMMA PlayType ==
    ASSUME TypeOK, NEW w \in Workers, Step(w), next' \in 0 .. NumRuns,
           worker' \in [Workers -> WorkerType], results' \in [Runs -> ResultType]
    PROVE  TypeOK'
  BY DEF TypeOK, Step, WorkerType, ResultType, poolVars, serverVars, faultVars

LEMMA EndsType ==
    ASSUME TypeOK, NEW w \in Workers, NEW state \in {"ok", "error"},
           NEW reached \in Floors, NEW best \in Floors, Ends(w, state, reached, best)
    PROVE  /\ next' \in 0 .. NumRuns
           /\ worker' \in [Workers -> WorkerType]
           /\ results' \in [Runs -> ResultType]
  <1>1. worker \in [Workers -> WorkerType] /\ results \in [Runs -> ResultType]
    BY DEF TypeOK, WorkerType, ResultType
  <1>2. [state |-> state, reached |-> reached, best |-> best] \in ResultType
    BY DEF ResultType
  <1> QED BY <1>1, <1>2, Types DEF Ends, TypeOK

LEMMA TypeStep == IInv /\ [Next]_vars => TypeOK'
  <1> SUFFICES ASSUME IInv, [Next]_vars PROVE TypeOK'
    OBVIOUS
  <1> USE EvaluationAssumption, Types DEF IInv, TypeOK
  <1>0. worker \in [Workers -> WorkerType] /\ results \in [Runs -> ResultType]
    BY DEF WorkerType, ResultType
  <1>1. ASSUME NEW p \in Ports, StartCrew(p) \/ Bind(p) \/ Crash(p) \/ StrangerBinds(p)
        PROVE TypeOK'
    <2>1. CASE StartCrew(p)
      BY <2>1 DEF StartCrew, poolVars, playVars, faultVars
    <2>2. CASE Bind(p)
      BY <2>2 DEF Bind, poolVars, playVars, faultVars
    <2>3. CASE Crash(p)
      BY <2>3 DEF Crash, Freed, poolVars, playVars
    <2>4. CASE StrangerBinds(p)
      BY <2>4 DEF StrangerBinds, poolVars, playVars
    <2> QED BY <1>1, <2>1, <2>2, <2>3, <2>4
  <1>2. CASE Spawn
    <2>1. spawned + 1 \in Ports /\ spawned' \in 0 .. NumPorts
      BY <1>2 DEF Spawn, PoolInv, Ports
    <2>2. server' \in [Ports -> {"none", "booting", "up", "gone"}]
      BY <1>2, <2>1 DEF Spawn
    <2> QED BY <1>2, <2>1, <2>2 DEF Spawn, playVars, faultVars
  <1>3. CASE SpawnFails
    BY <1>3 DEF SpawnFails, Leave, serverVars, playVars, faultVars
  <1>4. CASE Look
    BY <1>4 DEF Look, Leave, serverVars, playVars, faultVars
  <1>5. CASE RoundEnds
    BY <1>5 DEF RoundEnds, Leave, serverVars, playVars, faultVars
  <1>6. CASE Stop
    <2>1. CASE stopped < spawned
      <3>1. stopped + 1 \in Ports /\ stopped' \in 0 .. NumPorts /\ KillTree(stopped + 1)
        BY <1>6, <2>1 DEF Stop, Ports
      <3>2. /\ server' \in [Ports -> {"none", "booting", "up", "gone"}]
            /\ crew' \in [Ports -> BOOLEAN]
            /\ listener' \in [Ports -> {"nobody", "server", "stranger"}]
            /\ excused' \subseteq Ports
        BY <3>1 DEF KillTree, Freed, serverVars
      <3> QED BY <1>6, <2>1, <3>1, <3>2 DEF Stop, playVars
    <2> QED BY <1>6, <2>1 DEF Stop, serverVars, playVars
  <1>7. CASE Probe
    BY <1>7 DEF Probe, Leave, serverVars, playVars, faultVars
  <1>8. CASE Gather
    <2>1. condition' \in 0 .. NumConditions
      BY <1>8 DEF Gather, ReportInv
    <2>2. /\ worker' \in [Workers -> WorkerType]
          /\ results' \in [Runs -> ResultType]
          /\ next' \in 0 .. NumRuns
      BY <1>0, <1>8 DEF Gather, Fresh, Empty, ResultType
    <2> QED BY <1>8, <2>1, <2>2 DEF Gather, Leave, WorkerType, ResultType, serverVars, faultVars
  <1>9. ASSUME NEW w \in Workers, Take(w) \/ Start(w) \/ Decide(w) \/ Commit(w) \/ Fail(w)
        PROVE TypeOK'
    <2>1. worker[w] \in WorkerType
      BY <1>0
    <2>2. CASE Take(w)
      <3>1. CASE next < NumRuns
        <4>1. next' \in 0 .. NumRuns /\ next + 1 \in 0 .. NumRuns
          BY <2>2, <3>1 DEF Take, Taken
        <4>2. [Idle EXCEPT !.at = "connect", !.run = next + 1] \in WorkerType
          BY <4>1 DEF WorkerType, Idle, Stages
        <4>3. worker' \in [Workers -> WorkerType]
          BY <2>2, <3>1, <4>2, <1>0, Zenon DEF Take
        <4> QED BY <2>2, <4>1, <4>3, <1>0, PlayType DEF Take
      <3>2. CASE ~(next < NumRuns)
        <4>1. worker' \in [Workers -> WorkerType]
          BY <2>2, <3>2, <1>0 DEF Take, WorkerType, Stages
        <4> QED BY <2>2, <3>2, <4>1, <1>0, PlayType DEF Take
      <3> QED BY <3>1, <3>2
    <2>3. CASE Start(w)
      <3>1. worker' \in [Workers -> WorkerType]
        BY <2>3, <1>0 DEF Start, WorkerType, Stages
      <3> QED BY <2>3, <3>1, <1>0, PlayType DEF Start
    <2>4. CASE Decide(w)
      <3>1. worker[w].made + 1 \in 0 .. MaxDecisions
        BY <2>4, <2>1 DEF Decide, At, WorkerInv, Orderly, WorkerType
      <3>2. Deeper(worker[w].best, worker[w].reached) \in Floors
        BY <2>1 DEF WorkerType
      <3>3. worker' \in [Workers -> WorkerType]
        BY <2>4, <3>1, <3>2, <1>0 DEF Decide, WorkerType, Stages
      <3> QED BY <2>4, <3>3, <1>0, PlayType DEF Decide
    <2>5. CASE Commit(w)
      <3>1. PICK to \in Floors :
              \/ Ends(w, "ok", to, Last(worker[w].best, to))
              \/ Ends(w, "error", to, worker[w].best)
              \/ /\ worker' = [worker EXCEPT ![w].at = "decide", ![w].reached = to]
                 /\ UNCHANGED <<next, results>>
        BY <2>5 DEF Commit
      <3>2. worker[w].best \in Floors /\ Last(worker[w].best, to) \in Floors
        BY <2>1 DEF WorkerType, Last
      <3>3. CASE Ends(w, "ok", to, Last(worker[w].best, to))
        BY <2>5, <3>2, <3>3, EndsType, <1>0, PlayType DEF Commit
      <3>4. CASE Ends(w, "error", to, worker[w].best)
        BY <2>5, <3>2, <3>4, EndsType, <1>0, PlayType DEF Commit
      <3>5. CASE /\ worker' = [worker EXCEPT ![w].at = "decide", ![w].reached = to]
                 /\ UNCHANGED <<next, results>>
        <4>1. worker' \in [Workers -> WorkerType]
          BY <3>5, <1>0 DEF WorkerType, Stages
        <4> QED BY <2>5, <3>5, <4>1, <1>0, PlayType DEF Commit
      <3> QED BY <3>1, <3>3, <3>4, <3>5
    <2>6. CASE Fail(w)
      <3>1. PICK to \in Floors : Ends(w, "error", to, worker[w].best)
        BY <2>6, <2>1 DEF Fail, WorkerType
      <3>2. worker[w].best \in Floors
        BY <2>1 DEF WorkerType
      <3> QED BY <2>6, <3>1, <3>2, EndsType, <1>0, PlayType DEF Fail
    <2> QED BY <1>9, <2>2, <2>3, <2>4, <2>5, <2>6
  <1>10. CASE DeadlinePasses
    BY <1>10 DEF DeadlinePasses, serverVars, playVars, faultVars
  <1>11. CASE Interrupt
    <2>1. stopped + 1 .. spawned \subseteq Ports
      BY DEF Ports
    <2> QED BY <1>11, <2>1 DEF Interrupt, serverVars, playVars
  <1>12. CASE UNCHANGED vars
    BY <1>12 DEF vars, poolVars, serverVars, playVars, faultVars
  <1> QED
    BY <1>1, <1>2, <1>3, <1>4, <1>5, <1>6, <1>7, <1>8, <1>9, <1>10, <1>11, <1>12
       DEF Next, Environment, Pool, Play, Done

----------------------------------------------------------------------------
(* The pool and its servers.                                               *)

\* A worker's step changes no port.
LEMMA PlayKeepsPool ==
    ASSUME NEW w \in Workers,
           Take(w) \/ Start(w) \/ Decide(w) \/ Commit(w) \/ Fail(w)
    PROVE  UNCHANGED <<pc, poolVars, serverVars, condition, faultVars>>
  BY DEF Take, Start, Decide, Commit, Fail, Step

LEMMA PoolStep == IInv /\ [Next]_vars => PoolInv'
  <1> SUFFICES ASSUME IInv, [Next]_vars PROVE PoolInv'
    OBVIOUS
  <1> USE EvaluationAssumption DEF IInv, TypeOK, PoolInv, Alive
  <1>1. ASSUME NEW p \in Ports, StartCrew(p) \/ Bind(p) \/ Crash(p) \/ StrangerBinds(p)
        PROVE PoolInv'
    <2>1. CASE StartCrew(p)
      BY <2>1 DEF StartCrew, poolVars, playVars, faultVars
    <2>2. CASE Bind(p)
      BY <2>2 DEF Bind, poolVars, playVars, faultVars
    <2>3. CASE Crash(p)
      BY <2>3 DEF Crash, poolVars, playVars
    <2>4. CASE StrangerBinds(p)
      BY <2>4 DEF StrangerBinds, poolVars, playVars
    <2> QED BY <1>1, <2>1, <2>2, <2>3, <2>4
  <1>2. CASE Spawn
    BY <1>2 DEF Spawn, Ports, playVars, faultVars
  <1>3. CASE SpawnFails \/ Look \/ RoundEnds \/ Probe \/ Gather
    <2>1. pc \notin {"stop", "done"} /\ pc' \notin {"spawn", "done"}
      BY <1>3 DEF SpawnFails, Look, RoundEnds, Probe, Gather, Leave
    <2>2. UNCHANGED <<spawned, stopped, serverVars, excused>>
      BY <1>3 DEF SpawnFails, Look, RoundEnds, Probe, Gather, faultVars
    <2> QED BY <2>1, <2>2 DEF serverVars
  <1>4. CASE Stop
    <2>1. CASE stopped < spawned
      <3>1. stopped + 1 \in Ports /\ KillTree(stopped + 1)
        BY <1>4, <2>1 DEF Stop, Ports
      <3>2. ASSUME NEW p \in Ports
            PROVE  /\ p # stopped + 1 => server'[p] = server[p]
                   /\ crew'[p] => crew[p]
                   /\ (server'[p] = "gone" /\ crew'[p]) => p \in excused'
                   /\ p = stopped + 1 => server'[p] = "gone"
                   /\ p \in excused => p \in excused'
        BY <3>1 DEF KillTree, serverVars
      <3>3. pc' = "stop" /\ stopped' = stopped + 1 /\ spawned' = spawned
        BY <1>4, <2>1 DEF Stop
      <3>4. ASSUME NEW p \in Ports
            PROVE  /\ spawned' < p => server'[p] = "none"
                   /\ server'[p] = "none" => ~crew'[p]
                   /\ (p <= stopped' /\ Alive(p)') => p \in excused'
        <4>1. p \in 1 .. NumPorts
          BY DEF Ports
        <4>2. CASE p = stopped + 1
          BY <2>1, <3>2, <3>3, <4>2
        <4>3. CASE p # stopped + 1
          BY <3>2, <3>3, <4>1, <4>3
        <4> QED BY <4>2, <4>3
      <3> QED BY <2>1, <3>2, <3>3, <3>4
    <2>2. CASE ~(stopped < spawned)
      BY <1>4, <2>2 DEF Stop, Ports, serverVars
    <2> QED BY <2>1, <2>2
  <1>5. CASE Play
    BY <1>5, PlayKeepsPool DEF Play, poolVars, serverVars, faultVars
  <1>6. CASE DeadlinePasses
    BY <1>6 DEF DeadlinePasses, serverVars, faultVars
  <1>7. CASE Interrupt
    <2>1. CASE pc = "stop"
      <3>1. ASSUME NEW p \in Ports, Alive(p) PROVE p \in excused'
        <4>1. p <= spawned
          BY <3>1 DEF Ports
        <4>2. p <= stopped \/ p \in stopped + 1 .. spawned
          BY <4>1 DEF Ports
        <4> QED BY <1>7, <2>1, <3>1, <4>2 DEF Interrupt
      <3>2. excused \subseteq excused' /\ pc' = "done"
        BY <1>7, <2>1 DEF Interrupt
      <3> QED BY <1>7, <3>1, <3>2 DEF Interrupt, serverVars
    <2>2. CASE pc # "stop"
      BY <1>7, <2>2 DEF Interrupt, serverVars
    <2> QED BY <2>1, <2>2
  <1>8. CASE UNCHANGED vars
    BY <1>8 DEF vars, poolVars, serverVars, faultVars
  <1> QED
    BY <1>1, <1>2, <1>3, <1>4, <1>5, <1>6, <1>7, <1>8 DEF Next, Environment, Pool, Done

----------------------------------------------------------------------------
(* The workers and the indices.                                            *)

\* Whatever is not a worker's step leaves the runs alone or starts a condition afresh.
LEMMA OthersKeepRuns ==
    ASSUME Environment \/ Pool \/ DeadlinePasses \/ Interrupt \/ UNCHANGED vars
    PROVE  \/ UNCHANGED <<next, worker, results>>
           \/ next' = 0 /\ worker' = Fresh /\ results' = Empty
  <1>1. CASE Environment
    BY <1>1 DEF Environment, StartCrew, Bind, Crash, StrangerBinds, playVars
  <1>2. CASE Pool
    BY <1>2 DEF Pool, Spawn, SpawnFails, Look, RoundEnds, Stop, Probe, Gather, playVars
  <1>3. CASE DeadlinePasses \/ Interrupt \/ UNCHANGED vars
    BY <1>3 DEF DeadlinePasses, Interrupt, vars, playVars
  <1> QED BY <1>1, <1>2, <1>3

\* Only the worker that steps changes.
LEMMA OthersWait ==
    ASSUME TypeOK, NEW w \in Workers,
           Take(w) \/ Start(w) \/ Decide(w) \/ Commit(w) \/ Fail(w)
    PROVE  \A v \in Workers \ {w} : worker'[v] = worker[v]
  BY DEF TypeOK, Take, Start, Decide, Commit, Fail, Ends

\* What a worker that ends its run leaves behind.
LEMMA EndsRun ==
    ASSUME TypeOK, NEW w \in Workers, worker[w].run \in Runs,
           NEW state, NEW reached, NEW best, Ends(w, state, reached, best)
    PROVE  /\ worker'[w] = Idle /\ next' = next
           /\ results'[worker[w].run] = [state |-> state, reached |-> reached, best |-> best]
           /\ \A r \in Runs \ {worker[w].run} : results'[r] = results[r]
  BY DEF TypeOK, Ends

LEMMA FloorFacts ==
    ASSUME NEW a \in Floors, NEW b \in Floors, a <= b
    PROVE  Deeper(a, b) = b /\ \A to \in {b, b + 1} : a <= to
  BY EvaluationAssumption DEF Floors, Deeper

\* The three ways a commit or a failure goes on.
LEMMA CommitForms ==
    ASSUME IInv, NEW w \in Workers, Commit(w) \/ Fail(w)
    PROVE  /\ Playing(w)
           /\ \E to \in Floors :
                /\ worker[w].best <= to
                /\ \/ Ends(w, "ok", to, to)
                   \/ Ends(w, "error", to, worker[w].best)
                   \/ /\ worker[w].at = "commit" /\ worker[w].made < MaxDecisions
                      /\ worker' = [worker EXCEPT ![w].at = "decide", ![w].reached = to]
                      /\ UNCHANGED <<next, results>>
  <1>1. /\ worker[w].best \in Floors /\ worker[w].reached \in Floors
        /\ worker[w].best <= worker[w].reached
    BY DEF IInv, TypeOK, WorkerInv, Orderly
  <1>2. \A to \in {worker[w].reached, worker[w].reached + 1} : worker[w].best <= to
    BY <1>1, FloorFacts
  <1>3. CASE Commit(w)
    <2>1. worker[w].at = "commit" /\ worker[w].best = worker[w].reached
      BY <1>3 DEF Commit, At, IInv, WorkerInv, Orderly
    <2>2. ASSUME NEW to \in {worker[w].reached, worker[w].reached + 1} \cap Floors
          PROVE  Last(worker[w].best, to) = to /\ worker[w].best <= to
      BY <1>1, <1>2, <2>1, FloorFacts DEF Last
    <2> QED BY <1>3, <2>1, <2>2 DEF Commit, Playing
  <1>4. CASE Fail(w)
    <2>1. PICK to \in IF worker[w].at = "commit"
                      THEN {worker[w].reached, worker[w].reached + 1} \cap Floors
                      ELSE {worker[w].reached} : Ends(w, "error", to, worker[w].best)
      BY <1>4 DEF Fail
    <2>2. to \in Floors /\ worker[w].best <= to
      BY <1>1, <1>2, <2>1, FloorFacts
    <2> QED BY <1>4, <2>1, <2>2 DEF Fail, At, Playing
  <1> QED BY <1>3, <1>4

LEMMA WorkerStep == IInv /\ [Next]_vars => WorkerInv'
  <1> SUFFICES ASSUME IInv, [Next]_vars PROVE WorkerInv'
    OBVIOUS
  <1> USE EvaluationAssumption DEF IInv, WorkerInv, Orderly, Playing
  <1>1. CASE Environment \/ Pool \/ DeadlinePasses \/ Interrupt \/ UNCHANGED vars
    <2>1. CASE UNCHANGED <<next, worker, results>>
      BY <2>1
    <2>2. CASE next' = 0 /\ worker' = Fresh /\ results' = Empty
      BY <2>2 DEF Fresh, Idle
    <2> QED BY <1>1, <2>1, <2>2, OthersKeepRuns
  <1>2. ASSUME NEW w \in Workers, Take(w) \/ Start(w) \/ Decide(w) \/ Commit(w) \/ Fail(w)
        PROVE WorkerInv'
    <2> DEFINE own == worker'[w]
    <2>1. worker \in [Workers -> WorkerType] /\ worker[w] \in WorkerType
      BY DEF TypeOK, WorkerType
    <2>2. next \in 0 .. NumRuns /\ Floors \subseteq Int
      BY DEF TypeOK, Floors
    <2>3. ASSUME Orderly(w)', (\E v \in Workers : worker[v].at = "gone") => next' = next
          PROVE  WorkerInv'
      <3>1. ASSUME NEW v \in Workers \ {w} PROVE Orderly(v)'
        <4>1. worker'[v] = worker[v] /\ Orderly(v)
          BY <1>2, OthersWait
        <4> QED BY <2>3, <4>1
      <3> QED BY <2>3, <3>1
    <2>4. CASE Take(w)
      <3>1. CASE next < NumRuns
        <4>1. own = [Idle EXCEPT !.at = "connect", !.run = next + 1]
          BY <2>1, <2>4, <3>1 DEF Take
        <4>2. \A v \in Workers : worker[v].at # "gone"
          BY <2>2, <3>1
        <4> QED BY <2>3, <4>1, <4>2 DEF Idle
      <3>2. CASE ~(next < NumRuns)
        BY <2>1, <2>2, <2>3, <2>4, <3>2 DEF Take, At, WorkerType
      <3> QED BY <3>1, <3>2
    <2>5. CASE Start(w)
      BY <2>1, <2>3, <2>5 DEF Start, At, WorkerType
    <2>6. CASE Decide(w)
      <3>1. own = [worker[w] EXCEPT !.at = "commit", !.made = @ + 1,
                                    !.best = Deeper(@, worker[w].reached)]
        BY <2>1, <2>6 DEF Decide
      <3>2. Deeper(worker[w].best, worker[w].reached) = worker[w].reached
        BY <2>1, FloorFacts DEF WorkerType
      <3>3. own.at = "commit" /\ own.best = worker[w].reached
            /\ own.reached = worker[w].reached
        BY <2>1, <3>1, <3>2 DEF WorkerType
      <3>4. next' = next
        BY <2>6 DEF Decide
      <3>5. worker[w].reached <= worker[w].reached
        BY <2>1 DEF WorkerType, Floors
      <3> HIDE DEF own
      <3>6. Orderly(w)'
        BY <3>3, <3>5 DEF own
      <3> QED BY <2>3, <3>4, <3>6
    <2>7. CASE Commit(w) \/ Fail(w)
      <3>1. PICK to \in Floors :
              /\ worker[w].best <= to
              /\ \/ Ends(w, "ok", to, to)
                 \/ Ends(w, "error", to, worker[w].best)
                 \/ /\ worker[w].at = "commit" /\ worker[w].made < MaxDecisions
                    /\ worker' = [worker EXCEPT ![w].at = "decide", ![w].reached = to]
                    /\ UNCHANGED <<next, results>>
        BY <2>7, CommitForms
      <3>2. CASE Ends(w, "ok", to, to) \/ Ends(w, "error", to, worker[w].best)
        <4>1. own = Idle /\ next' = next
          BY <2>1, <3>2 DEF Ends
        <4> QED BY <2>3, <4>1 DEF Idle
      <3>3. CASE /\ worker[w].at = "commit" /\ worker[w].made < MaxDecisions
                 /\ worker' = [worker EXCEPT ![w].at = "decide", ![w].reached = to]
                 /\ UNCHANGED <<next, results>>
        BY <2>1, <2>3, <3>1, <3>3 DEF WorkerType
      <3> QED BY <3>1, <3>2, <3>3
    <2> QED BY <1>2, <2>4, <2>5, <2>6, <2>7
  <1> QED BY <1>1, <1>2 DEF Next, Play, Done

\* A step within a run hands out nothing and records nothing.
LEMMA SameRun ==
    ASSUME IInv, NEW w \in Workers, Playing(w), Playing(w)',
           worker'[w].run = worker[w].run, UNCHANGED <<next, results>>,
           \A v \in Workers \ {w} : worker'[v] = worker[v]
    PROVE  IndexInv'
  <1>1. \A v \in Workers : Playing(v)' = Playing(v) /\ worker'[v].run = worker[v].run
    BY DEF Playing
  <1> QED BY <1>1 DEF IInv, IndexInv

\* The end of a run turns its worker's hold on the index into a result.
LEMMA RunEnds ==
    ASSUME IInv, NEW w \in Workers, Playing(w), NEW state \in {"ok", "error"},
           NEW reached \in Floors, NEW best \in Floors, best <= reached,
           state = "ok" => best = reached, Ends(w, state, reached, best),
           \A v \in Workers \ {w} : worker'[v] = worker[v]
    PROVE  IndexInv'
  <1> DEFINE mine == worker[w].run
             result == [state |-> state, reached |-> reached, best |-> best]
  <1>1. mine \in Runs /\ mine \in 1 .. next /\ next \in 0 .. NumRuns
    BY EvaluationAssumption DEF IInv, IndexInv, TypeOK, Runs
  <1>2. /\ worker'[w] = Idle /\ next' = next /\ results'[mine] = result
        /\ \A r \in Runs \ {mine} : results'[r] = results[r]
    BY <1>1, EndsRun DEF IInv
  <1>3. result # NoResult /\ result.state # "none" /\ result.best <= result.reached
        /\ (result.state = "ok" => result.best = result.reached)
    BY DEF NoResult
  <1>4. ~Playing(w)' /\ \A v \in Workers \ {w} : Playing(v)' = Playing(v)
    BY <1>2 DEF Playing, Idle
  <1>5. ASSUME NEW v \in Workers, Playing(v)'
        PROVE  /\ v # w /\ Playing(v) /\ worker'[v].run = worker[v].run
               /\ worker[v].run # mine /\ worker[v].run \in Runs
    BY <1>1, <1>4, <1>5, EvaluationAssumption DEF IInv, IndexInv, Runs
  <1>6. ASSUME NEW v \in Workers, Playing(v)'
        PROVE  /\ worker'[v].run \in 1 .. next' /\ results'[worker'[v].run] = NoResult
               /\ \A u \in Workers \ {v} : Playing(u)' => worker'[u].run # worker'[v].run
    <2>1. worker'[v].run \in 1 .. next' /\ results'[worker'[v].run] = NoResult
      BY <1>2, <1>5, <1>6 DEF IInv, IndexInv
    <2>2. ASSUME NEW u \in Workers \ {v}, Playing(u)' PROVE worker'[u].run # worker'[v].run
      BY <1>5, <1>6, <2>2 DEF IInv, IndexInv
    <2> QED BY <2>1, <2>2
  <1>7. ASSUME NEW r \in Runs
        PROVE  /\ next' < r => results'[r] = NoResult
               /\ r <= next' => \/ results'[r] # NoResult
                                \/ \E v \in Workers : Playing(v)' /\ worker'[v].run = r
               /\ results'[r].state = "none" => results'[r] = NoResult
               /\ results'[r].best <= results'[r].reached
               /\ results'[r].state = "ok" => results'[r].best = results'[r].reached
    <2>1. CASE r = mine
      <3> HIDE DEF mine, result
      <3> QED BY <1>1, <1>2, <1>3, <2>1
    <2>2. CASE r # mine
      <3>1. ASSUME NEW v \in Workers, Playing(v), worker[v].run = r
            PROVE  Playing(v)' /\ worker'[v].run = r
        BY <1>4, <2>2, <3>1
      <3> QED BY <1>2, <2>2, <3>1 DEF IInv, IndexInv
    <2> QED BY <2>1, <2>2
  <1> QED BY <1>6, <1>7 DEF IndexInv

LEMMA IndexStep == IInv /\ [Next]_vars => IndexInv'
  <1> SUFFICES ASSUME IInv, [Next]_vars PROVE IndexInv'
    OBVIOUS
  <1>1. CASE Environment \/ Pool \/ DeadlinePasses \/ Interrupt \/ UNCHANGED vars
    <2>1. CASE UNCHANGED <<next, worker, results>>
      BY <2>1 DEF IInv, IndexInv, Playing
    <2>2. CASE next' = 0 /\ worker' = Fresh /\ results' = Empty
      BY <2>2, EvaluationAssumption
         DEF IndexInv, Playing, Fresh, Idle, Empty, NoResult, Runs
    <2> QED BY <1>1, <2>1, <2>2, OthersKeepRuns
  <1>2. ASSUME NEW w \in Workers, Take(w) \/ Start(w) \/ Decide(w) \/ Commit(w) \/ Fail(w)
        PROVE IndexInv'
    <2>1. worker \in [Workers -> WorkerType] /\ worker[w] \in WorkerType
      BY DEF IInv, TypeOK, WorkerType
    <2>2. \A v \in Workers \ {w} : worker'[v] = worker[v]
      BY <1>2, OthersWait DEF IInv
    <2>3. CASE Take(w)
      <3>1. CASE next < NumRuns
        <4>1. /\ worker'[w].at = "connect" /\ worker'[w].run = next + 1
              /\ next' = next + 1 /\ results' = results
          BY <2>1, <2>3, <3>1 DEF Take, Taken, Idle
        <4>2. next \in 0 .. NumRuns /\ ~Playing(w) /\ next + 1 \in Runs
          BY <2>3, <3>1, EvaluationAssumption DEF Take, At, Playing, IInv, TypeOK, Runs
        <4>3. Playing(w)' /\ \A v \in Workers \ {w} : Playing(v)' = Playing(v)
          BY <2>2, <4>1 DEF Playing
        <4>4. \A v \in Workers \ {w} : Playing(v)' =>
                 worker'[v].run = worker[v].run /\ worker[v].run \in 1 .. next
          BY <2>2, <4>3 DEF IInv, IndexInv
        <4>5. results[next + 1] = NoResult
          BY <4>2 DEF IInv, IndexInv
        <4>6. ASSUME NEW v \in Workers, Playing(v)'
              PROVE  /\ worker'[v].run \in 1 .. next' /\ results'[worker'[v].run] = NoResult
                     /\ \A u \in Workers \ {v} : Playing(u)' => worker'[u].run # worker'[v].run
          <5>1. CASE v = w
            BY <4>1, <4>2, <4>4, <4>5, <5>1
          <5>2. CASE v # w
            <6>1. worker'[v].run \in 1 .. next' /\ results'[worker'[v].run] = NoResult
              BY <4>1, <4>2, <4>3, <4>4, <4>6, <5>2 DEF IInv, IndexInv
            <6>2. ASSUME NEW u \in Workers \ {v}, Playing(u)'
                  PROVE  worker'[u].run # worker'[v].run
              <7>1. CASE u = w
                BY <4>1, <4>2, <4>4, <4>6, <5>2, <7>1
              <7>2. CASE u # w
                BY <4>3, <4>4, <4>6, <5>2, <6>2, <7>2 DEF IInv, IndexInv
              <7> QED BY <7>1, <7>2
            <6> QED BY <6>1, <6>2
          <5> QED BY <5>1, <5>2
        <4>7. ASSUME NEW r \in Runs, r <= next', results'[r] = NoResult
              PROVE  \E v \in Workers : Playing(v)' /\ worker'[v].run = r
          <5>1. CASE r = next + 1
            BY <4>1, <4>3, <5>1
          <5>2. CASE r <= next
            <6>1. PICK v \in Workers : Playing(v) /\ worker[v].run = r
              BY <4>1, <4>7, <5>2 DEF IInv, IndexInv
            <6> QED BY <2>2, <4>2, <4>3, <6>1
          <5> QED BY <4>1, <4>2, <4>7, <5>1, <5>2 DEF Runs
        <4>8. \A r \in Runs : next' < r => next < r
          BY <4>1, <4>2 DEF Runs
        <4> QED BY <4>1, <4>6, <4>7, <4>8 DEF IInv, IndexInv
      <3>2. CASE ~(next < NumRuns)
        <4>1. ~Playing(w) /\ worker'[w].at = "gone" /\ UNCHANGED <<next, results>>
          BY <2>1, <2>3, <3>2 DEF Take, At, Playing, WorkerType
        <4>2. ~Playing(w)' /\ \A v \in Workers \ {w} : Playing(v)' = Playing(v)
          BY <2>2, <4>1 DEF Playing
        <4> QED BY <2>2, <4>1, <4>2 DEF IInv, IndexInv
      <3> QED BY <3>1, <3>2
    <2>4. CASE Start(w) \/ Decide(w)
      <3>1. Playing(w) /\ Playing(w)' /\ worker'[w].run = worker[w].run
            /\ UNCHANGED <<next, results>>
        BY <2>1, <2>4 DEF Start, Decide, At, Playing, WorkerType
      <3> QED BY <2>2, <3>1, SameRun
    <2>5. CASE Commit(w) \/ Fail(w)
      <3>1. Playing(w)
        BY <2>5, CommitForms
      <3>2. PICK to \in Floors :
              /\ worker[w].best <= to
              /\ \/ Ends(w, "ok", to, to)
                 \/ Ends(w, "error", to, worker[w].best)
                 \/ /\ worker[w].at = "commit" /\ worker[w].made < MaxDecisions
                    /\ worker' = [worker EXCEPT ![w].at = "decide", ![w].reached = to]
                    /\ UNCHANGED <<next, results>>
        BY <2>5, CommitForms
      <3>3. to <= to /\ worker[w].best \in Floors
        BY <2>1, EvaluationAssumption DEF WorkerType, Floors
      <3>4. CASE Ends(w, "ok", to, to)
        BY <2>2, <3>1, <3>3, <3>4, RunEnds
      <3>5. CASE Ends(w, "error", to, worker[w].best)
        BY <2>2, <3>1, <3>2, <3>3, <3>5, RunEnds
      <3>6. CASE /\ worker' = [worker EXCEPT ![w].at = "decide", ![w].reached = to]
                 /\ UNCHANGED <<next, results>>
        <4>1. Playing(w)' /\ worker'[w].run = worker[w].run
          BY <2>1, <3>6 DEF Playing, WorkerType
        <4> QED BY <2>2, <3>1, <3>6, <4>1, SameRun
      <3> QED BY <3>2, <3>4, <3>5, <3>6
    <2> QED BY <1>2, <2>3, <2>4, <2>5
  <1> QED BY <1>1, <1>2 DEF Next, Play, Done

----------------------------------------------------------------------------
(* The report.                                                             *)

\* Once every worker has found the indices used up, every run has its result.
LEMMA AllPlayed ==
    ASSUME IInv, \A w \in Workers : worker[w].at = "gone"
    PROVE  \A r \in Runs : results[r] # NoResult
  <1>1. 1 \in Workers
    BY EvaluationAssumption DEF Workers
  <1>2. next = NumRuns
    BY <1>1 DEF IInv, WorkerInv, Orderly
  <1>3. \A w \in Workers : ~Playing(w)
    BY DEF Playing
  <1>4. \A r \in Runs : r <= next
    BY <1>2 DEF Runs
  <1> QED BY <1>3, <1>4 DEF IInv, IndexInv

LEMMA ReportStep == IInv /\ [Next]_vars => ReportInv'
  <1> SUFFICES ASSUME IInv, [Next]_vars PROVE ReportInv'
    OBVIOUS
  <1> USE EvaluationAssumption DEF IInv, ReportInv
  <1>1. CASE Environment
    BY <1>1 DEF Environment, StartCrew, Bind, Crash, StrangerBinds, poolVars, playVars
  <1>2. CASE Spawn \/ SpawnFails \/ Look \/ RoundEnds \/ Probe
    <2>1. UNCHANGED <<condition, results>>
      BY <1>2 DEF Spawn, SpawnFails, Look, RoundEnds, Probe, playVars
    <2>2. pc \notin {"stop", "done"}
      BY <1>2 DEF Spawn, SpawnFails, Look, RoundEnds, Probe
    <2>3. \/ pc' \notin {"stop", "done"} /\ outcome' = outcome
          \/ pc' = "stop" /\ outcome' # "ok"
      BY <1>2 DEF Spawn, SpawnFails, Look, RoundEnds, Probe, Leave
    <2> QED BY <2>1, <2>2, <2>3
  <1>3. CASE Stop
    BY <1>3 DEF Stop, playVars
  <1>4. CASE Gather
    <2>1. \A r \in Runs : results[r] # NoResult
      BY <1>4, AllPlayed DEF Gather
    <2>2. condition \in Nat /\ condition < NumConditions /\ outcome = "ok"
      BY <1>4 DEF Gather, TypeOK
    <2>3. CASE condition + 1 < NumConditions
      BY <1>4, <2>2, <2>3 DEF Gather
    <2>4. CASE ~(condition + 1 < NumConditions)
      BY <1>4, <2>1, <2>2, <2>4 DEF Gather, Leave
    <2> QED BY <2>3, <2>4
  <1>5. CASE Play
    <2>1. UNCHANGED <<pc, outcome, condition>>
      BY <1>5, PlayKeepsPool DEF Play, poolVars
    <2>2. pc = "play"
      BY <1>5 DEF Play, Take, Start, Decide, Commit, Fail, At
    <2> QED BY <2>1, <2>2
  <1>6. CASE DeadlinePasses
    BY <1>6 DEF DeadlinePasses, playVars
  <1>7. CASE Interrupt
    BY <1>7 DEF Interrupt, playVars
  <1>8. CASE UNCHANGED vars
    BY <1>8 DEF vars, poolVars, playVars
  <1> QED
    BY <1>1, <1>2, <1>3, <1>4, <1>5, <1>6, <1>7, <1>8 DEF Next, Pool, Done

----------------------------------------------------------------------------
(* Theorems.                                                               *)

LEMMA Initially == Init => IInv
  <1> SUFFICES ASSUME Init PROVE IInv
    OBVIOUS
  <1> USE EvaluationAssumption, Types DEF Init
  <1>1. TypeOK
    <2>1. worker \in [Workers -> WorkerType] /\ results \in [Runs -> ResultType]
      BY DEF Fresh, Empty, ResultType
    <2>2. /\ 0 \in 0 .. NumPorts /\ 0 \in 0 .. NumRuns /\ 0 \in 0 .. NumConditions
          /\ 0 \in 0 .. MaxCrashes /\ 0 \in 0 .. MaxStrangers /\ 0 \in 0 .. MaxInterrupts
      OBVIOUS
    <2>3. /\ server \in [Ports -> {"none", "booting", "up", "gone"}]
          /\ crew \in [Ports -> BOOLEAN]
          /\ listener \in [Ports -> {"nobody", "server", "stranger"}]
      OBVIOUS
    <2> QED BY <2>1, <2>2, <2>3 DEF TypeOK, WorkerType, ResultType
  <1>2. PoolInv
    BY DEF PoolInv, Alive, Ports
  <1>3. WorkerInv
    BY DEF WorkerInv, Orderly, Playing, Fresh, Idle
  <1>4. IndexInv
    BY DEF IndexInv, Playing, Fresh, Idle, Empty, NoResult, Runs
  <1>5. ReportInv
    BY DEF ReportInv
  <1> QED BY <1>1, <1>2, <1>3, <1>4, <1>5 DEF IInv

\* The inductive invariant: what the pool must answer for at each port, where each worker
\* stands, which indices are in play and which have a result.
THEOREM EvaluationInvariant == Spec => []IInv
  <1>1. IInv /\ [Next]_vars => IInv'
    BY TypeStep, PoolStep, WorkerStep, IndexStep, ReportStep DEF IInv
  <1> QED BY Initially, <1>1, PTL DEF Spec

\* However the servers die, boot late or ignore the signal, and whenever the evaluation
\* is interrupted, it leaves only processes it could not answer for
\* (RlServerPool.__exit__, _kill_tree).
THEOREM PoolLeavesNothing == Spec => []NothingIsLeft
  <1>1. IInv => NothingIsLeft
    BY DEF IInv, PoolInv, NothingIsLeft
  <1> QED BY EvaluationInvariant, <1>1, PTL

\* Every index handed out is played by one worker or has a result, and none is both; an
\* evaluation without error has a result for every run of every condition, with the
\* deepest floor the run reached (run_floor_reach_eval).
THEOREM EveryRunIsAccounted == Spec => []RunsAccounted
  <1>1. IInv => RunsAccounted
    <2> SUFFICES ASSUME IInv PROVE RunsAccounted
      OBVIOUS
    <2>1. ASSUME NEW r \in Runs
          PROVE  LET players == {w \in Workers : worker[w].at # "gone" /\ worker[w].run = r}
                 IN  Cardinality(players) + (IF results[r] = NoResult THEN 0 ELSE 1)
                       = (IF r <= next THEN 1 ELSE 0)
      <3> DEFINE players == {w \in Workers : worker[w].at # "gone" /\ worker[w].run = r}
      <3>1. r # 0 /\ r \in Int /\ next \in Int
        BY DEF Runs, IInv, TypeOK
      <3>2. players = {w \in Workers : Playing(w) /\ worker[w].run = r}
        BY <3>1 DEF IInv, TypeOK, WorkerInv, Orderly, Playing, Stages
      <3>3. ASSUME NEW w \in players
            PROVE  players = {w} /\ r <= next /\ results[r] = NoResult
        BY <3>1, <3>2 DEF IInv, IndexInv
      <3>4. CASE players = {}
        <4>1. Cardinality(players) = 0
          BY <3>4, FS_EmptySet
        <4>2. results[r] = NoResult <=> ~(r <= next)
          BY <3>1, <3>2, <3>4 DEF IInv, IndexInv
        <4> HIDE DEF players
        <4> QED BY <4>1, <4>2 DEF players
      <3>5. CASE players # {}
        <4>1. PICK w \in players : TRUE
          BY <3>5
        <4>2. players = {w} /\ r <= next /\ results[r] = NoResult
          BY <3>3
        <4>3. Cardinality(players) = 1
          BY <4>2, FS_Singleton
        <4> HIDE DEF players
        <4> QED BY <4>2, <4>3 DEF players
      <3> QED BY <3>4, <3>5
    <2>2. pc = "done" /\ outcome = "ok" =>
            condition = NumConditions /\ \A r \in Runs : results[r].state # "none"
      BY DEF IInv, ReportInv, IndexInv
    <2>3. \A r \in Runs : /\ results[r].best <= results[r].reached
                          /\ results[r].state = "ok" => results[r].best = results[r].reached
      BY DEF IInv, IndexInv
    <2> QED BY <2>1, <2>2, <2>3 DEF RunsAccounted
  <1> QED BY EvaluationInvariant, <1>1, PTL
=============================================================================
