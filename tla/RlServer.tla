------------------------------ MODULE RlServer ------------------------------
(***************************************************************************)
(* The RL process as the Training client sees it: one ledger per logical   *)
(* session, which admits the next sequence, replays the last one and       *)
(* refuses everything else.  RL is another program; this module is the     *)
(* contract that src/sts2_training/api relies on, with the freedom RL has  *)
(* left open: any status, any moment of a restart, and frames of a         *)
(* connection the client has already abandoned being read late.            *)
(***************************************************************************)
EXTENDS Naturals

VARIABLES
    epoch,      \* server_epoch of the running RL process
    ledger,     \* last admitted request of the session and its stored answer
    admitted,   \* history: every [ep, req] RL has ever executed
    wire,       \* frames written by the client, not yet read by RL
    inbox,      \* the answer waiting on the client's current stream
    live,       \* branch ids RL holds for the session's instance
    asked       \* history: branch ids named in an executed release_branches

(***************************************************************************)
(* A request is its serialized payload.  id tells payloads of one kind     *)
(* apart; branches are the branch ids the payload names: those an emulate  *)
(* creates, those a release drops.  "plain" stands for the operations that *)
(* neither side keeps anything for: get_decision, commit_action,           *)
(* cancel_branches and get_branch_status.                                  *)
(***************************************************************************)
Ops == {"start", "plain", "emulate", "release", "close"}

Request == [seq : Nat, op : Ops \cup {"none"}, id : Nat, branches : SUBSET Nat]

NoReq == [seq |-> 0, op |-> "none", id |-> 0, branches |-> {}]

\* Outcomes RL keeps in the ledger: each of them consumes the sequence.
\* "fatal" is session_instance_conflict or unknown_instance.
Consuming == {"completed", "rejected", "faulted", "fatal"}

\* Refusals of the session layer, given before admission: invalid_request or
\* session_capacity_exceeded, session_sequence_gap, session_sequence_conflict.
SessionRejections == {"unadmitted", "gap", "conflict"}

Kinds == Consuming \cup SessionRejections \cup {"transport_error", "hello", "none"}

\* attached: the client still reads the stream the frame was written to.
Frame == [req : Request, attached : BOOLEAN]

Answer == [req : Request, kind : Kinds, ep : Nat]

NoAnswer == [req |-> NoReq, kind |-> "none", ep |-> 0]

EmptyLedger == [req |-> NoReq, kind |-> "none"]

ServerTypeOK ==
    /\ epoch \in Nat \ {0}
    /\ ledger \in [req : Request, kind : Kinds]
    /\ admitted \subseteq [ep : Nat, req : Request]
    /\ wire \subseteq Frame
    /\ inbox \in Answer
    /\ live \subseteq Nat
    /\ asked \subseteq Nat

ServerInit ==
    /\ epoch = 1
    /\ ledger = EmptyLedger
    /\ admitted = {}
    /\ wire = {}
    /\ inbox = NoAnswer
    /\ live = {}
    /\ asked = {}

\* The unread frames once the client no longer reads their stream.
Detached == {[req |-> f.req, attached |-> FALSE] : f \in wire}

\* RL has read frame f and answers it on the stream f came from.
Reply(f, kind) ==
    /\ wire' = wire \ {f}
    /\ inbox' = IF f.attached THEN [req |-> f.req, kind |-> kind, ep |-> epoch]
                              ELSE inbox

\* The branches executing r with this outcome may leave behind: a rejected
\* request has changed nothing, a faulted emulate may have done its work.
Created(r, kind) ==
    IF r.op # "emulate" \/ kind \notin {"completed", "faulted"} THEN {{}}
    ELSE IF kind = "completed" THEN {r.branches}
    ELSE {{}, r.branches}

\* ... and those it removes.
Removed(r, kind) ==
    IF r.op = "release" /\ kind = "completed" THEN r.branches
    ELSE IF r.op = "close" /\ kind \in {"completed", "faulted"} THEN live
    ELSE {}

\* The next sequence is executed once and its answer is kept for replay.
Admit(f) ==
    /\ f.req.seq = ledger.req.seq + 1
    /\ \E kind \in Consuming :
         /\ Reply(f, kind)
         /\ ledger' = [req |-> f.req, kind |-> kind]
         /\ \E bs \in Created(f.req, kind) :
               live' = (live \cup bs) \ Removed(f.req, kind)
    /\ admitted' = admitted \cup {[ep |-> epoch, req |-> f.req]}
    /\ asked' = IF f.req.op = "release" THEN asked \cup f.req.branches ELSE asked
    /\ UNCHANGED epoch

\* The exact payload of the last sequence gets the stored answer again.
Replay(f) ==
    /\ f.req = ledger.req
    /\ Reply(f, ledger.kind)
    /\ UNCHANGED <<epoch, ledger, admitted, live, asked>>

\* Any other sequence is refused without touching the ledger.
RefuseSequence(f) ==
    /\ f.req # ledger.req
    /\ f.req.seq # ledger.req.seq + 1
    /\ Reply(f, IF f.req.seq <= ledger.req.seq THEN "conflict" ELSE "gap")
    /\ UNCHANGED <<epoch, ledger, admitted, live, asked>>

\* RL may refuse an admissible frame before admission, in the session layer
\* or in the transport.
RefuseAdmission(f) ==
    /\ f.req.seq = ledger.req.seq + 1
    /\ \E kind \in {"unadmitted", "transport_error"} : Reply(f, kind)
    /\ UNCHANGED <<epoch, ledger, admitted, live, asked>>

\* A new RL process: nothing of the session is left, every stream is dead, and
\* an answer already on its way may or may not still be read.
NewEpoch ==
    /\ epoch' = epoch + 1
    /\ ledger' = EmptyLedger
    /\ wire' = {}
    /\ inbox' \in {inbox, NoAnswer}
    /\ live' = {}
    /\ UNCHANGED <<admitted, asked>>
=============================================================================
