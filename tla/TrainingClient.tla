--------------------------- MODULE TrainingClient ---------------------------
(***************************************************************************)
(* AsyncTrainingApiClient (api/async_client.py) over its TcpConnection and *)
(* RL: one logical request stream, shared by asyncio tasks, that survives  *)
(* lost answers by replaying the exact pending request.                    *)
(*                                                                         *)
(* A step is what the event loop runs between two awaits.  The connection  *)
(* is here as its stream and its pinned epoch; the awaits inside a         *)
(* handshake are taken with the step that starts it.                       *)
(***************************************************************************)
EXTENDS RlServer

CONSTANTS
    Tasks,      \* asyncio tasks that share the client
    NoTask,     \* holder of the operation lock when it is free
    Payloads,   \* numbers that tell the payloads of one operation apart
    MaxSeq,     \* bound: last sequence a fresh request is built for
    MaxFaults,  \* bound: faults (lost frames, refusals, restarts) in a behaviour
    MaxEpoch    \* bound: RL processes in a behaviour

ASSUME ConstantsAssumption ==
    /\ NoTask \notin Tasks
    /\ Payloads \subseteq Nat
    /\ MaxSeq \in Nat /\ MaxFaults \in Nat /\ MaxEpoch \in Nat

VARIABLES
    nextSeq,    \* _next_request_seq
    pending,    \* _pending_retry, NoReq for None
    invalid,    \* _session_invalid
    cleanup,    \* _pending_retry_cleanup, NoRecord for None
    active,     \* instance_id is not None
    closed,     \* TcpConnection._closed
    stream,     \* the TCP stream, see Streams
    pinned,     \* TcpConnection._server_epoch, 0 for None
    lock,       \* holder of _operation_lock
    pc,         \* where each task stands, see Places
    cur,        \* the request each task sends or wants to retry
    mode,       \* why it sends it, see Modes
    held,       \* branches the callers know they created and have not released
    deferred,   \* history: branches defer_branch_cleanup_after_retry has accepted
    dropped,    \* history: branches it has raised for
    faults      \* faults so far

clientVars == <<nextSeq, pending, invalid, cleanup, active, closed, stream,
                pinned, lock, pc, cur, mode, held, deferred, dropped, faults>>
serverVars == <<epoch, ledger, admitted, wire, inbox, live, asked>>
vars == <<clientVars, serverVars>>

Record == [tok : Request, branches : SUBSET Nat]
NoRecord == [tok |-> NoReq, branches |-> {}]

\* "half": opened and hello written, but the handshake was interrupted before
\* its answer was read; "dead": gone, which is_alive() may not show yet.
Streams == {"none", "ready", "half", "dead"}

\* "lock": waits for the operation lock; "send": owns it, inside exchange()
\* before the frame is written; "await": the frame is written.
Places == {"idle", "lock", "send", "await"}

Modes == {"fresh", "retry", "cleanup"}

TypeOK ==
    /\ ServerTypeOK
    /\ nextSeq \in Nat \ {0}
    /\ pending \in Request
    /\ invalid \in BOOLEAN
    /\ cleanup \in Record
    /\ active \in BOOLEAN
    /\ closed \in BOOLEAN
    /\ stream \in Streams
    /\ pinned \in Nat
    /\ lock \in Tasks \cup {NoTask}
    /\ pc \in [Tasks -> Places]
    /\ cur \in [Tasks -> Request]
    /\ mode \in [Tasks -> Modes]
    /\ held \subseteq Nat
    /\ deferred \subseteq Nat
    /\ dropped \subseteq Nat
    /\ faults \in Nat

\* A client whose first request will carry this sequence.
StartAt(seq) ==
    /\ ServerInit
    /\ nextSeq = seq
    /\ pending = NoReq
    /\ invalid = FALSE
    /\ cleanup = NoRecord
    /\ active = FALSE
    /\ closed = FALSE
    /\ stream = "none"
    /\ pinned = 0
    /\ lock = NoTask
    /\ pc = [t \in Tasks |-> "idle"]
    /\ cur = [t \in Tasks |-> NoReq]
    /\ mode = [t \in Tasks |-> "fresh"]
    /\ held = {}
    /\ deferred = {}
    /\ dropped = {}
    /\ faults = 0

Init == StartAt(1)

-----------------------------------------------------------------------------
(* Pieces the handlers share.                                              *)

\* The call returns or raises, and its deadline context releases the lock.
Finish(t) ==
    /\ pc' = [pc EXCEPT ![t] = "idle"]
    /\ cur' = [cur EXCEPT ![t] = NoReq]
    /\ mode' = [mode EXCEPT ![t] = "fresh"]
    /\ lock' = NoTask

\* Seeded bug: the stream survives, with whatever is still to be read from it.
DisconnectKeepsStream ==
    /\ stream' = stream
    /\ wire' = wire
    /\ inbox' = inbox

\* _disconnect: the client never reads this stream again, RL may still do.
Disconnect ==
    /\ stream' = "none"
    /\ wire' = Detached
    /\ inbox' = NoAnswer

\* The session is failed closed for good.
Invalidate ==
    /\ invalid' = TRUE
    /\ pending' = NoReq
    /\ cleanup' = NoRecord

Fault ==
    /\ faults < MaxFaults
    /\ faults' = faults + 1

\* What a caller can ask for now, and for which branches.
FreshOps == IF active THEN Ops \ {"start"} ELSE {"start"}

FreshBranches(op) ==
    IF op = "emulate" THEN {{nextSeq}}
    ELSE IF op = "release" THEN (SUBSET held) \ {{}}
    ELSE {{}}

\* Seeded bug: include_retry_created the wrong way round.
ToReleaseSwapped(t, created) ==
    IF created THEN cleanup.branches \ cur[t].branches ELSE cleanup.branches

\* created: the replayed emulate was not rejected, its branches may exist.
ToRelease(t, created) ==
    IF created THEN cleanup.branches ELSE cleanup.branches \ cur[t].branches

(***************************************************************************)
(* _complete_deferred_branch_cleanup after the replayed emulate cur[t] has *)
(* resolved: with a record for it, the release of the recorded branches is *)
(* claimed as the next sequence before anything can be awaited, and the    *)
(* same call goes on to send it.                                           *)
(***************************************************************************)
CleanupAfter(t, created) ==
    LET bs  == ToRelease(t, created)
        tok == [seq |-> nextSeq', op |-> "release", id |-> 0, branches |-> bs]
    IN  IF cleanup.tok # cur[t] \/ bs = {}
        THEN /\ Finish(t)
             /\ pending' = NoReq
             /\ cleanup' = IF cleanup.tok = cur[t] THEN NoRecord ELSE cleanup
        ELSE /\ cleanup' = [tok |-> tok, branches |-> bs]
             /\ pending' = tok
             /\ pc' = [pc EXCEPT ![t] = "send"]
             /\ cur' = [cur EXCEPT ![t] = tok]
             /\ mode' = [mode EXCEPT ![t] = "cleanup"]
             /\ UNCHANGED lock

(***************************************************************************)
(* The caller of an emulate that has become uncertain: the event search    *)
(* hands over the branches it owns, the new ones and some it created       *)
(* before; other callers do nothing.  A different record in the way makes  *)
(* defer_branch_cleanup_after_retry raise.                                 *)
(***************************************************************************)
CallerDefers(t) ==
    \/ UNCHANGED <<cleanup, deferred, dropped, held>>
    \/ /\ mode[t] = "fresh" /\ cur[t].op = "emulate"
       /\ \E own \in SUBSET held :
            LET rec == [tok |-> cur[t], branches |-> own \cup cur[t].branches] IN
            /\ held' = held \ own
            /\ IF cleanup \in {NoRecord, rec}
               THEN /\ cleanup' = rec
                    /\ deferred' = deferred \cup rec.branches
                    /\ UNCHANGED dropped
               ELSE /\ dropped' = dropped \cup rec.branches
                    /\ UNCHANGED <<cleanup, deferred>>

-----------------------------------------------------------------------------
(* Starting a call.                                                        *)

\* Any operation but retry_request: wait for the lock first.
CallFresh(t) ==
    /\ pc[t] = "idle"
    /\ pc' = [pc EXCEPT ![t] = "lock"]
    /\ UNCHANGED <<nextSeq, pending, invalid, cleanup, active, closed, stream, pinned,
                   lock, cur, mode, held, deferred, dropped, faults, serverVars>>

\* retry_request checks the session and the token before it waits.
CallRetry(t) ==
    /\ pc[t] = "idle"
    /\ ~invalid
    /\ pending # NoReq
    /\ pc' = [pc EXCEPT ![t] = "lock"]
    /\ cur' = [cur EXCEPT ![t] = pending]
    /\ mode' = [mode EXCEPT ![t] = "retry"]
    /\ UNCHANGED <<nextSeq, pending, invalid, cleanup, active, closed, stream, pinned,
                   lock, held, deferred, dropped, faults, serverVars>>

\* The deadline passes while another task owns the lock, or the lock is free
\* and _ensure_fresh_request_allowed raises.  (Past MaxSeq every call times out.)
CallRefused(t) ==
    /\ pc[t] = "lock"
    /\ \/ lock # NoTask
       \/ mode[t] = "fresh" /\ (invalid \/ pending # NoReq \/ nextSeq > MaxSeq)
    /\ pc' = [pc EXCEPT ![t] = "idle"]
    /\ cur' = [cur EXCEPT ![t] = NoReq]
    /\ mode' = [mode EXCEPT ![t] = "fresh"]
    /\ UNCHANGED <<nextSeq, pending, invalid, cleanup, active, closed, stream, pinned,
                   lock, held, deferred, dropped, faults, serverVars>>

\* _ensure_fresh_request_allowed and the _build_... under the lock.
BeginFresh(t) ==
    /\ pc[t] = "lock" /\ mode[t] = "fresh" /\ lock = NoTask
    /\ ~invalid /\ pending = NoReq
    /\ nextSeq <= MaxSeq
    /\ lock' = t
    /\ pc' = [pc EXCEPT ![t] = "send"]
    /\ \E op \in FreshOps, i \in Payloads : \E bs \in FreshBranches(op) :
          cur' = [cur EXCEPT ![t] = [seq |-> nextSeq, op |-> op, id |-> i, branches |-> bs]]
    /\ UNCHANGED <<nextSeq, pending, invalid, cleanup, active, closed, stream, pinned,
                   mode, held, deferred, dropped, faults, serverVars>>

\* Seeded bug: a token from before the wait is sent unchecked.
TokenUnchecked(t) == cur[t] # NoReq

\* Seeded bug: any pending request refuses the call, its own replay too.
TokenNeverPending(t) == cur[t].seq = nextSeq /\ pending = NoReq

\* The checks at the top of _execute, for a token taken before the wait.
TokenCurrent(t) ==
    /\ cur[t].seq = nextSeq
    /\ pending \in {NoReq, cur[t]}

BeginRetry(t) ==
    /\ pc[t] = "lock" /\ mode[t] = "retry" /\ lock = NoTask
    /\ TokenCurrent(t)
    /\ lock' = t
    /\ pc' = [pc EXCEPT ![t] = "send"]
    /\ UNCHANGED <<nextSeq, pending, invalid, cleanup, active, closed, stream, pinned,
                   cur, mode, held, deferred, dropped, faults, serverVars>>

\* Another task has resolved the token meanwhile: RuntimeError.  (The cleanup
\* in retry_request's except clause finds no record for it any more.)
RetryOutdated(t) ==
    /\ pc[t] = "lock" /\ mode[t] = "retry" /\ lock = NoTask
    /\ ~TokenCurrent(t)
    /\ Finish(t)
    /\ UNCHANGED <<nextSeq, pending, invalid, cleanup, active, closed, stream, pinned,
                   held, deferred, dropped, faults, serverVars>>

-----------------------------------------------------------------------------
(* TcpConnection.exchange before the frame is written.                     *)

Connecting(t) == pc[t] = "send" /\ stream \in {"none", "dead"}

\* A new stream whose hello is answered by the pinned epoch, or by the first.
Hello(t) ==
    /\ Connecting(t) /\ ~closed
    /\ pinned \in {0, epoch}
    /\ pinned' = epoch
    /\ stream' = "ready"
    /\ UNCHANGED <<nextSeq, pending, invalid, cleanup, active, closed, lock, pc, cur,
                   mode, held, deferred, dropped, faults, serverVars>>

\* A new stream to another RL process: ServerEpochChangedError.
HelloChanged(t) ==
    /\ Connecting(t) /\ ~closed
    /\ pinned \notin {0, epoch}
    /\ Invalidate
    /\ stream' = "none"
    /\ Finish(t)
    /\ UNCHANGED <<nextSeq, active, closed, pinned, held, deferred, dropped, faults, serverVars>>

\* No stream to send on: nothing was sent, nothing is remembered.
NotSent(t) ==
    /\ Connecting(t)
    /\ stream' = "none"
    /\ Finish(t)
    /\ UNCHANGED <<nextSeq, pending, invalid, cleanup, active, closed, pinned, held,
                   deferred, dropped, serverVars>>

\* TransportClosedError.
ConnectClosed(t) ==
    /\ closed
    /\ NotSent(t)
    /\ UNCHANGED faults

\* A refused, late or cancelled connect, or a hello that RL refuses.
ConnectFails(t) ==
    /\ ~closed
    /\ Fault
    /\ NotSent(t)

\* The handshake is cancelled after the stream was stored and before the
\* answer to hello was read: the stream stays, and counts as alive.
HelloInterrupted(t) ==
    /\ Connecting(t) /\ ~closed
    /\ Fault
    /\ stream' = "half"
    /\ Finish(t)
    /\ UNCHANGED <<nextSeq, pending, invalid, cleanup, active, closed, pinned, held,
                   deferred, dropped, serverVars>>

\* is_alive() holds and the frame is written.  On a dead stream nobody gets
\* it; on a half-open one the next line to be read is the answer to hello.
Write(t) ==
    /\ pc[t] = "send"
    /\ stream # "none"
    /\ pc' = [pc EXCEPT ![t] = "await"]
    /\ wire' = IF stream = "dead" THEN wire
               ELSE wire \cup {[req |-> cur[t], attached |-> stream = "ready"]}
    /\ inbox' = IF stream = "half"
                THEN [req |-> NoReq, kind |-> "hello", ep |-> epoch] ELSE NoAnswer
    /\ UNCHANGED <<nextSeq, pending, invalid, cleanup, active, closed, stream, pinned,
                   lock, cur, mode, held, deferred, dropped, faults,
                   epoch, ledger, admitted, live, asked>>

-----------------------------------------------------------------------------
(* What becomes of a written frame.                                        *)

\* Timeout, cancellation, end of stream, an answer that cannot be decoded or
\* fails validation: the token is kept, the stream is dropped.
Forget(t) ==
    /\ pc[t] = "await"
    /\ pending' = cur[t]
    /\ Disconnect
    /\ CallerDefers(t)
    /\ Finish(t)
    /\ UNCHANGED <<nextSeq, invalid, active, closed, epoch, ledger, admitted, live, asked>>

\* Seeded bug: the lost answer is reported, the token is not kept.
UncertainForgets(t) ==
    /\ Fault
    /\ pc[t] = "await"
    /\ Disconnect
    /\ Finish(t)
    /\ UNCHANGED <<nextSeq, pending, invalid, cleanup, active, closed, pinned, held,
                   deferred, dropped, epoch, ledger, admitted, live, asked>>

Uncertain(t) ==
    /\ Fault
    /\ Forget(t)
    /\ UNCHANGED pinned

\* Seeded bug: reading an answer has no deadline.
TimeoutNever(t) == FALSE /\ Forget(t)

\* The deadline of a call that no answer can reach any more.
Timeout(t) ==
    /\ inbox = NoAnswer
    /\ \A f \in wire : ~f.attached
    /\ Forget(t)
    /\ UNCHANGED <<pinned, faults>>

\* The answer to an unread hello is taken for the answer to the request: its
\* epoch is checked, or pinned, and then it fails validation.
HelloAsAnswer(t) ==
    /\ inbox.kind = "hello"
    /\ pinned \in {0, inbox.ep}
    /\ Forget(t)
    /\ pinned' = inbox.ep
    /\ UNCHANGED faults

\* Any answer of another epoch: ServerEpochChangedError.
EpochChanged(t) ==
    /\ pc[t] = "await"
    /\ inbox # NoAnswer
    /\ pinned \notin {0, inbox.ep}
    /\ Invalidate
    /\ inbox' = NoAnswer
    /\ Finish(t)
    /\ UNCHANGED <<nextSeq, active, closed, stream, pinned, held, deferred, dropped, faults,
                   epoch, ledger, admitted, wire, live, asked>>

Answered(t) ==
    /\ pc[t] = "await"
    /\ inbox.req = cur[t]
    /\ inbox.ep = pinned
    /\ inbox' = NoAnswer

\* What an answer to cur[t] tells the client about its instance.
Closed(t, kind) == cur[t].op = "close" /\ kind \in {"completed", "faulted"}

Instance(t, kind) ==
    active' = /\ active \/ (cur[t].op = "start" /\ kind = "completed")
              /\ ~Closed(t, kind)

\* ... and its callers about their branches: a replayed emulate's are taken
\* over by the recorded cleanup, the others belong to the caller.
Gained(t, kind) == /\ cur[t].op = "emulate"
                   /\ kind \in {"completed", "faulted"}
                   /\ cleanup.tok # cur[t]

Ownership(t, kind) ==
    held' = IF Closed(t, kind) THEN {}
            ELSE IF Gained(t, kind) THEN held \cup cur[t].branches
            ELSE IF cur[t].op = "release" /\ kind = "completed" THEN held \ cur[t].branches
            ELSE held

\* The record after an answer that does not lead to a deferred cleanup.
RecordAfter(t, kind) ==
    cleanup' = IF \/ cur[t].op = "start" /\ kind = "completed"
                  \/ Closed(t, kind)
                  \/ mode[t] = "cleanup"
                  \/ mode[t] = "retry" /\ cleanup.tok = cur[t] /\ kind = "completed"
               THEN NoRecord ELSE cleanup

\* The except clauses of retry_request: also a rejected or faulted replay of
\* an emulate takes up the cleanup recorded for it.
TakesUp(t, kind) ==
    mode[t] = "retry" /\ cur[t].op = "emulate" /\ ~invalid /\ kind # "fatal"

\* completed, rejected or faulted: the sequence is consumed, and a replayed
\* emulate goes on with the cleanup recorded for it.
Consumed(t) ==
    /\ Answered(t)
    /\ inbox.kind \in {"completed", "rejected", "faulted"}
    /\ nextSeq' = nextSeq + 1
    /\ Instance(t, inbox.kind)
    /\ Ownership(t, inbox.kind)
    /\ IF TakesUp(t, inbox.kind)
       THEN CleanupAfter(t, inbox.kind # "rejected")
       ELSE /\ pending' = NoReq
            /\ RecordAfter(t, inbox.kind)
            /\ Finish(t)
    /\ UNCHANGED <<invalid, closed, stream, pinned, deferred, dropped, faults,
                   epoch, ledger, admitted, wire, live, asked>>

\* A consumed request RL answers with a fatal ownership rejection.
ConsumedFatal(t) ==
    /\ Answered(t)
    /\ inbox.kind = "fatal"
    /\ nextSeq' = nextSeq + 1
    /\ Invalidate
    /\ Finish(t)
    /\ UNCHANGED <<active, closed, stream, pinned, held, deferred, dropped, faults,
                   epoch, ledger, admitted, wire, live, asked>>

\* Seeded bug: a request RL never admitted consumes its sequence.
SessionRejectedConsumes(t) ==
    /\ Answered(t)
    /\ inbox.kind \in SessionRejections
    /\ nextSeq' = nextSeq + 1
    /\ Invalidate
    /\ Finish(t)
    /\ UNCHANGED <<active, closed, stream, pinned, held, deferred, dropped, faults,
                   epoch, ledger, admitted, wire, live, asked>>

\* RL has not admitted the request: nothing is consumed, the client is done.
SessionRejected(t) ==
    /\ Answered(t)
    /\ inbox.kind \in SessionRejections
    /\ Invalidate
    /\ Finish(t)
    /\ UNCHANGED <<nextSeq, active, closed, stream, pinned, held, deferred, dropped, faults,
                   epoch, ledger, admitted, wire, live, asked>>

\* A transport_error answer: known not to have run, the stream is dropped.
TransportRejected(t) ==
    /\ Answered(t)
    /\ inbox.kind = "transport_error"
    /\ stream' = "none"
    /\ wire' = Detached
    /\ Finish(t)
    /\ UNCHANGED <<nextSeq, pending, invalid, cleanup, active, closed, pinned, held,
                   deferred, dropped, faults, epoch, ledger, admitted, live, asked>>

\* close(): takes the lock and closes the connection.
Close(t) ==
    /\ pc[t] = "idle" /\ lock = NoTask /\ ~closed
    /\ closed' = TRUE
    /\ Disconnect
    /\ UNCHANGED <<nextSeq, pending, invalid, cleanup, active, pinned, lock, pc, cur,
                   mode, held, deferred, dropped, faults, epoch, ledger, admitted, live, asked>>

-----------------------------------------------------------------------------
(* RL and the network.                                                     *)

RlReads ==
    /\ \E f \in wire :
         \/ (Admit(f) \/ Replay(f) \/ RefuseSequence(f)) /\ UNCHANGED faults
         \/ RefuseAdmission(f) /\ Fault
    /\ UNCHANGED <<nextSeq, pending, invalid, cleanup, active, closed, stream, pinned,
                   lock, pc, cur, mode, held, deferred, dropped>>

Restart ==
    /\ epoch < MaxEpoch
    /\ NewEpoch
    /\ stream' = IF stream = "none" THEN "none" ELSE "dead"
    /\ UNCHANGED <<nextSeq, pending, invalid, cleanup, active, closed, pinned,
                   lock, pc, cur, mode, held, deferred, dropped, faults>>

\* The connection breaks: what RL has read it may still execute.
StreamDies ==
    /\ stream \in {"ready", "half"}
    /\ Fault
    /\ stream' = "dead"
    /\ wire' = Detached
    /\ inbox' \in {inbox, NoAnswer}
    /\ UNCHANGED <<nextSeq, pending, invalid, cleanup, active, closed, pinned, lock, pc,
                   cur, mode, held, deferred, dropped, epoch, ledger, admitted, live, asked>>

-----------------------------------------------------------------------------
Exchange(t) ==
    \/ Hello(t) \/ HelloChanged(t) \/ ConnectClosed(t) \/ Write(t)
    \/ Timeout(t) \/ HelloAsAnswer(t) \/ EpochChanged(t)
    \/ Consumed(t) \/ ConsumedFatal(t) \/ SessionRejected(t) \/ TransportRejected(t)

Begin(t) == CallRefused(t) \/ BeginFresh(t) \/ BeginRetry(t) \/ RetryOutdated(t)

Interrupt(t) == ConnectFails(t) \/ HelloInterrupted(t) \/ Uncertain(t)

Next ==
    \/ \E t \in Tasks : CallFresh(t) \/ CallRetry(t) \/ Close(t)
                        \/ Begin(t) \/ Exchange(t) \/ Interrupt(t)
    \/ RlReads \/ Restart \/ StreamDies

Spec == Init /\ [][Next]_vars

(***************************************************************************)
(* The event loop runs what can run, and every wait of a call has a        *)
(* deadline.  RL reads what reaches it.  Whoever sees a pending retry      *)
(* keeps calling retry_request: that is the callers' part, as README.md    *)
(* asks of them.                                                           *)
(***************************************************************************)
Fairness ==
    /\ \A t \in Tasks : /\ WF_vars(Begin(t))
                         /\ WF_vars(Exchange(t))
                         /\ SF_vars(CallRetry(t))
                         /\ SF_vars(BeginRetry(t))
    /\ WF_vars(RlReads)

FairSpec == Spec /\ Fairness

-----------------------------------------------------------------------------
(* Properties.                                                             *)

\* The tokens of sequence nextSeq that RL has or may get without a new call.
Outstanding == {r \in {f.req : f \in wire} \cup {x.req : x \in admitted} :
                    r.seq = nextSeq}

(***************************************************************************)
(* RL never sees a gap or a conflict from this client: whatever was lost,  *)
(* replayed or read late, a frame whose answer the client waits for is the *)
(* next sequence of RL's ledger or the exact replay of its last one.  (The *)
(* fail-closed branch for session_sequence_gap/conflict is a backstop.)    *)
(***************************************************************************)
SessionSync == inbox.kind \notin {"gap", "conflict"}

(***************************************************************************)
(* As long as the session is valid, a request that RL has executed, or may *)
(* still read, and that the client has not consumed, is the pending retry  *)
(* or is being waited for: no path through timeouts, cancellations, broken *)
(* streams and transport errors forgets it and lets another payload have   *)
(* its sequence.                                                           *)
(***************************************************************************)
NoLostExecution ==
    ~invalid => \A r \in Outstanding :
                    \/ pending = r
                    \/ \E t \in Tasks : lock = t /\ pc[t] = "await" /\ cur[t] = r

(***************************************************************************)
(* Once nothing is pending and no deferred cleanup is under way, every     *)
(* branch whose cleanup the client has taken over is gone from RL, or RL   *)
(* has executed a release that names it.                                   *)
(***************************************************************************)
Settled == ~invalid /\ active /\ pinned = epoch /\ pending = NoReq

ReplayReleases == Settled => deferred \cap live \subseteq asked

(***************************************************************************)
(* Every call comes back to its caller: its task never stays in the queue  *)
(* for the lock or in an exchange.                                         *)
(***************************************************************************)
CallsReturn == \A t \in Tasks : pc[t] # "idle" ~> pc[t] = "idle"

(***************************************************************************)
(* With finitely many faults, callers that keep retrying and RL that keeps *)
(* reading, an unresolved request gets its outcome or the session ends: no *)
(* pending token is one that RL will never take.                           *)
(***************************************************************************)
PendingResolves == pending # NoReq ~> (pending = NoReq \/ invalid \/ closed)

(***************************************************************************)
(* The session implements AtMostOnceSession: one payload per sequence, at  *)
(* most one execution per RL process, in order, and no sequence consumed   *)
(* that RL has not executed.                                               *)
(***************************************************************************)
AtMostOnce == INSTANCE AtMostOnceSession WITH executed <- admitted,
                                              acked <- nextSeq - 1
AtMostOnceSpec == AtMostOnce!Spec

-----------------------------------------------------------------------------
(* What the documentation says of the client and the code does not do.     *)

(***************************************************************************)
(* A changed epoch is noticed before anything runs there: no process that  *)
(* came after the pinned one executes a request (README.md:70-72).         *)
(***************************************************************************)
PinnedEpochOnly == pinned # 0 => \A x \in admitted : x.ep <= pinned
=============================================================================
