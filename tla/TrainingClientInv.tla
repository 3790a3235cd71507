-------------------------- MODULE TrainingClientInv --------------------------
(***************************************************************************)
(* The inductive invariant behind SessionSync, NoLostExecution and the     *)
(* refinement of AtMostOnceSession.  None of them is inductive: what RL    *)
(* may still read and answer depends on what is in flight, on who holds    *)
(* the lock, and on whether RL is the process the session is pinned to.    *)
(***************************************************************************)
EXTENDS TrainingClient

\* The lock is held by the task inside an exchange, the others wait or idle.
LockInv ==
    \A t \in Tasks :
        /\ pc[t] \in {"send", "await"} <=> lock = t
        /\ pc[t] = "idle" => cur[t] = NoReq /\ mode[t] = "fresh"
        /\ pc[t] = "lock" => mode[t] # "cleanup"
        /\ pc[t] = "lock" /\ mode[t] = "fresh" => cur[t] = NoReq

\* The request in hand has the next sequence; a replay in hand is pending.
TokenInv ==
    /\ pending # NoReq => pending.seq = nextSeq
    /\ \A t \in Tasks :
        /\ lock = t => cur[t].seq = nextSeq /\ pending \in {NoReq, cur[t]}
        /\ lock = t /\ mode[t] = "fresh" => ~invalid /\ pending = NoReq
        /\ lock = t /\ mode[t] # "fresh" => invalid \/ pending = cur[t]
        /\ pc[t] = "lock" /\ mode[t] = "retry" =>
              /\ cur[t].seq \in 1 .. nextSeq
              /\ ~invalid /\ cur[t].seq = nextSeq => pending = cur[t]

\* A token that may be replayed, or is in flight, for the next sequence.
InPlay(t) == (mode[t] # "fresh" \/ pc[t] = "await") /\ cur[t].seq = nextSeq

Claims ==
    Outstanding \cup ({pending} \ {NoReq}) \cup {cur[t] : t \in {u \in Tasks : InPlay(u)}}

\* One payload per sequence.
AgreementInv ==
    /\ \A a, b \in Claims : a = b
    /\ \A x, y \in admitted : x.req.seq = y.req.seq => x.req = y.req

\* Frames: none is ahead, one at most is attached, and a process other than
\* the pinned one can only be asked for the next sequence.
WireInv ==
    /\ \A f \in wire : f.req.seq \in 1 .. nextSeq
    /\ \A f \in wire : f.attached =>
          /\ inbox = NoAnswer
          /\ stream = "ready"
          /\ lock \in Tasks /\ pc[lock] = "await" /\ f.req = cur[lock]
          /\ mode[lock] = "fresh" =>
                /\ \A g \in wire : g.req.seq = nextSeq => g = f
                /\ \A x \in admitted : x.req.seq # nextSeq
    /\ pinned # epoch => \A f \in wire : f.req.seq = nextSeq

\* Answers: the one that waits is for the request in hand, and one that
\* consumes is backed by an execution in the pinned process.
InboxInv ==
    /\ inbox # NoAnswer => lock \in Tasks /\ pc[lock] = "await"
    /\ inbox.kind = "none" => inbox = NoAnswer
    /\ inbox.kind = "hello" => inbox.req = NoReq /\ inbox.ep \in 1 .. epoch
    /\ inbox.kind \in Consuming => [ep |-> pinned, req |-> inbox.req] \in admitted
    /\ inbox.kind = "transport_error" /\ mode[lock] = "fresh" => Outstanding = {}
    /\ inbox.kind \notin {"none", "hello"} =>
          /\ inbox.req = cur[lock] /\ inbox.ep = pinned
          /\ pinned # epoch => wire = {}

\* RL's ledger in the pinned process is at most one step away.
EpochInv ==
    /\ stream = "ready" => pinned = epoch
    /\ pinned <= epoch
    /\ pinned = 0 => nextSeq = 1
    /\ ledger.req.seq <= nextSeq
    /\ pinned = epoch => ledger.req.seq >= nextSeq - 1
    /\ \/ ledger = EmptyLedger
       \/ ledger.kind \in Consuming /\ [ep |-> epoch, req |-> ledger.req] \in admitted
    /\ \A x \in admitted :
          /\ x.ep \in 1 .. epoch
          /\ x.req.seq \in 1 .. nextSeq
          /\ x.ep = epoch => x.req.seq <= ledger.req.seq

(***************************************************************************)
(* The conjunction that every step preserves: lock discipline, tokens in   *)
(* step with nextSeq, one payload per sequence, and the ledger, the frames *)
(* and the answers in step with the pinned process.                        *)
(***************************************************************************)
IInv ==
    /\ TypeOK
    /\ LockInv
    /\ TokenInv
    /\ AgreementInv
    /\ WireInv
    /\ InboxInv
    /\ EpochInv
    /\ SessionSync
    /\ NoLostExecution
=============================================================================
