----------------------- MODULE TrainingClientSafety -----------------------
(***************************************************************************)
(* The safety theorems of TrainingClient for every set of tasks and every  *)
(* bound: types are kept, IInv is inductive, and with it the session never *)
(* desynchronises, never loses an execution, and implements                *)
(* AtMostOnceSession.  The last part is about the deferred cleanup.        *)
(***************************************************************************)
EXTENDS TrainingClientInv, TLAPS

-----------------------------------------------------------------------------
(* Types.                                                                  *)

LEMMA NoReqType == NoReq \in Request /\ NoReq.seq = 0
  BY DEF NoReq, Request, Ops

LEMMA NoRecordType == NoRecord \in Record /\ NoRecord.tok = NoReq
  BY NoReqType DEF NoRecord, Record

LEMMA NoAnswerType ==
    NoAnswer \in Answer /\ NoAnswer.req = NoReq /\ NoAnswer.kind = "none"
  BY NoReqType DEF NoAnswer, Answer, Kinds

LEMMA EmptyLedgerType ==
    /\ EmptyLedger \in [req : Request, kind : Kinds]
    /\ EmptyLedger.req = NoReq /\ EmptyLedger.kind = "none"
  BY NoReqType DEF EmptyLedger, Kinds

\* Disconnecting keeps the frames and detaches them.
LEMMA DetachedType ==
    ASSUME wire \subseteq Frame
    PROVE  \A f \in Detached :
              f \in Frame /\ f.attached = FALSE /\ \E g \in wire : f.req = g.req
  <1> TAKE f \in Detached
  <1>1. PICK g \in wire : f = [req |-> g.req, attached |-> FALSE]
    BY DEF Detached
  <1>2. g.req \in Request
    BY DEF Frame
  <1> QED BY <1>1, <1>2 DEF Frame

LEMMA DisconnectType ==
    ASSUME wire \subseteq Frame, wire' = Detached
    PROVE  wire' \subseteq Frame
  BY DetachedType

LEMMA InitType == Init => TypeOK
  <1> SUFFICES ASSUME Init PROVE TypeOK
    OBVIOUS
  <1>1. ServerTypeOK
    BY NoReqType, NoAnswerType, EmptyLedgerType DEF Init, StartAt, ServerInit, ServerTypeOK
  <1>2. /\ pc \in [Tasks -> Places] /\ cur \in [Tasks -> Request]
        /\ mode \in [Tasks -> Modes]
    BY NoReqType DEF Init, StartAt, Places, Modes
  <1>3. pending \in Request /\ cleanup \in Record /\ stream \in Streams
    BY NoReqType, NoRecordType DEF Init, StartAt, Streams
  <1>4. /\ nextSeq = 1 /\ pinned = 0 /\ faults = 0 /\ lock = NoTask
        /\ held = {} /\ deferred = {} /\ dropped = {}
    BY DEF Init, StartAt
  <1>5. invalid \in BOOLEAN /\ active \in BOOLEAN /\ closed \in BOOLEAN
    BY Zenon DEF Init, StartAt
  <1> HIDE DEF Init
  <1> QED BY <1>1, <1>2, <1>3, <1>4, <1>5 DEF TypeOK

LEMMA FreshBranchesType ==
    ASSUME nextSeq \in Nat, held \subseteq Nat, NEW op, NEW bs \in FreshBranches(op)
    PROVE  bs \subseteq Nat
  <1>1. bs = {nextSeq} \/ bs \in SUBSET held \/ bs = {}
    BY DEF FreshBranches
  <1> QED BY <1>1

LEMMA CreatedType ==
    ASSUME NEW r \in Request, NEW kind, NEW bs \in Created(r, kind)
    PROVE  bs \subseteq Nat
  <1>1. bs = {} \/ bs = r.branches
    BY DEF Created
  <1> QED BY <1>1 DEF Request

\* What CallerDefers does to the record and the histories.
LEMMA DeferType ==
    ASSUME NEW t, CallerDefers(t), cur[t] \in Request, cleanup \in Record,
           held \subseteq Nat, deferred \subseteq Nat, dropped \subseteq Nat
    PROVE  /\ cleanup' \in Record /\ held' \subseteq Nat
           /\ deferred' \subseteq Nat /\ dropped' \subseteq Nat
  <1>1. CASE UNCHANGED <<cleanup, deferred, dropped, held>>
    BY <1>1
  <1>2. CASE ~UNCHANGED <<cleanup, deferred, dropped, held>>
    <2> DEFINE rec(own) == [tok |-> cur[t], branches |-> own \cup cur[t].branches]
    <2>1. PICK own \in SUBSET held :
             /\ held' = held \ own
             /\ \/ /\ cleanup' = rec(own)
                   /\ deferred' = deferred \cup rec(own).branches
                   /\ UNCHANGED dropped
                \/ /\ dropped' = dropped \cup rec(own).branches
                   /\ UNCHANGED <<cleanup, deferred>>
      BY <1>2 DEF CallerDefers
    <2>2. own \cup cur[t].branches \subseteq Nat
      BY DEF Request
    <2>3. rec(own) \in Record /\ rec(own).branches \subseteq Nat
      BY <2>2 DEF Record
    <2> QED BY <2>1, <2>3
  <1> QED BY <1>1, <1>2

USE DEF Streams, Places, Modes
USE NoReqType, NoRecordType, NoAnswerType, EmptyLedgerType

LEMMA TypeStep == TypeOK /\ [Next]_vars => TypeOK'
  <1> SUFFICES ASSUME TypeOK, [Next]_vars PROVE TypeOK'
    OBVIOUS
  <1> USE DEF TypeOK, ServerTypeOK
  <1>1. ASSUME NEW t \in Tasks, CallFresh(t) \/ CallRetry(t) \/ Close(t) PROVE TypeOK'
    <2>1. CASE CallFresh(t)
      BY <2>1 DEF CallFresh, serverVars
    <2>2. CASE CallRetry(t)
      BY <2>2 DEF CallRetry, serverVars
    <2>3. CASE Close(t)
      BY <2>3, DisconnectType DEF Close, Disconnect
    <2> QED BY <1>1, <2>1, <2>2, <2>3
  <1>2. ASSUME NEW t \in Tasks, Begin(t) PROVE TypeOK'
    <2>1. CASE CallRefused(t)
      BY <2>1 DEF CallRefused, serverVars
    <2>2. CASE BeginFresh(t)
      <3>0. PICK op \in FreshOps, i \in Payloads : \E bs \in FreshBranches(op) :
              cur' = [cur EXCEPT ![t] =
                        [seq |-> nextSeq, op |-> op, id |-> i, branches |-> bs]]
        BY <2>2 DEF BeginFresh
      <3>1. PICK bs \in FreshBranches(op) :
              cur' = [cur EXCEPT ![t] =
                        [seq |-> nextSeq, op |-> op, id |-> i, branches |-> bs]]
        BY <3>0
      <3>2. op \in Ops /\ i \in Nat /\ bs \in SUBSET Nat
        BY ConstantsAssumption, FreshBranchesType DEF FreshOps, Ops
      <3>3. [seq |-> nextSeq, op |-> op, id |-> i, branches |-> bs] \in Request
        BY <3>2 DEF Request
      <3> QED BY <2>2, <3>1, <3>3 DEF BeginFresh, serverVars
    <2>3. CASE BeginRetry(t)
      BY <2>3 DEF BeginRetry, serverVars
    <2>4. CASE RetryOutdated(t)
      BY <2>4 DEF RetryOutdated, Finish, serverVars
    <2> QED BY <1>2, <2>1, <2>2, <2>3, <2>4 DEF Begin
  <1>3. ASSUME NEW t \in Tasks, Forget(t), faults' \in Nat, pinned' \in Nat PROVE TypeOK'
    <2>1. cleanup' \in Record /\ deferred' \subseteq Nat /\ dropped' \subseteq Nat
          /\ held' \subseteq Nat
      BY <1>3, DeferType DEF Forget
    <2>2. wire' \subseteq Frame /\ stream' \in Streams /\ inbox' \in Answer
      BY <1>3, DisconnectType DEF Forget, Disconnect
    <2> QED BY <1>3, <2>1, <2>2 DEF Forget, Finish
  <1>4. ASSUME NEW t \in Tasks, Exchange(t) PROVE TypeOK'
    <2>1. CASE Hello(t)
      BY <2>1 DEF Hello, serverVars
    <2>2. CASE HelloChanged(t)
      BY <2>2 DEF HelloChanged, Invalidate, Finish, serverVars
    <2>3. CASE ConnectClosed(t)
      BY <2>3 DEF ConnectClosed, NotSent, Finish, serverVars
    <2>4. CASE Write(t)
      <3>1. [req |-> cur[t], attached |-> stream = "ready"] \in Frame
        BY DEF Frame
      <3>2. [req |-> NoReq, kind |-> "hello", ep |-> epoch] \in Answer
        BY DEF Answer, Kinds
      <3> QED BY <2>4, <3>1, <3>2 DEF Write
    <2>5. CASE Timeout(t)
      BY <2>5, <1>3 DEF Timeout
    <2>6. CASE HelloAsAnswer(t)
      BY <2>6, <1>3 DEF HelloAsAnswer, Answer
    <2>7. CASE EpochChanged(t)
      BY <2>7 DEF EpochChanged, Invalidate, Finish
    <2>8. CASE Consumed(t)
      <3>1. held' \subseteq Nat /\ active' \in BOOLEAN /\ nextSeq' \in Nat \ {0}
        <4>1. cur[t].branches \subseteq Nat
          BY DEF Request
        <4>2. held' \subseteq Nat
          BY <2>8, <4>1 DEF Consumed, Ownership
        <4>3. active' \in BOOLEAN
          BY <2>8, Zenon DEF Consumed, Instance
        <4>4. nextSeq' \in Nat \ {0}
          BY <2>8 DEF Consumed
        <4> QED BY <4>2, <4>3, <4>4
      <3>2. /\ pending' \in Request /\ cleanup' \in Record /\ lock' \in Tasks \cup {NoTask}
            /\ pc' \in [Tasks -> Places] /\ cur' \in [Tasks -> Request]
            /\ mode' \in [Tasks -> Modes]
        <4>1. CASE TakesUp(t, inbox.kind)
          <5> DEFINE bs == ToRelease(t, inbox.kind # "rejected")
                     tok == [seq |-> nextSeq', op |-> "release", id |-> 0, branches |-> bs]
          <5>1. bs \subseteq Nat
            BY DEF Record, ToRelease
          <5>2. tok \in Request /\ [tok |-> tok, branches |-> bs] \in Record
            BY <3>1, <5>1 DEF Request, Record, Ops
          <5>3. CleanupAfter(t, inbox.kind # "rejected")
            BY <2>8, <4>1 DEF Consumed
          <5> HIDE DEF bs, tok
          <5>4. \/ /\ Finish(t)
                   /\ pending' = NoReq
                   /\ cleanup' \in {NoRecord, cleanup}
                \/ /\ cleanup' = [tok |-> tok, branches |-> bs]
                   /\ pending' = tok
                   /\ pc' = [pc EXCEPT ![t] = "send"]
                   /\ cur' = [cur EXCEPT ![t] = tok]
                   /\ mode' = [mode EXCEPT ![t] = "cleanup"]
                   /\ UNCHANGED lock
            BY <5>3 DEF CleanupAfter, bs, tok
          <5> QED BY <5>2, <5>4 DEF Finish
        <4>2. CASE ~TakesUp(t, inbox.kind)
          BY <2>8, <4>2 DEF Consumed, RecordAfter, Closed, Finish
        <4> QED BY <4>1, <4>2
      <3> QED BY <2>8, <3>1, <3>2 DEF Consumed, Answered
    <2>9. CASE ConsumedFatal(t)
      BY <2>9 DEF ConsumedFatal, Answered, Invalidate, Finish
    <2>10. CASE SessionRejected(t)
      BY <2>10 DEF SessionRejected, Answered, Invalidate, Finish
    <2>11. CASE TransportRejected(t)
      BY <2>11, DisconnectType DEF TransportRejected, Answered, Finish
    <2> QED BY <1>4, <2>1, <2>2, <2>3, <2>4, <2>5, <2>6, <2>7, <2>8, <2>9, <2>10, <2>11
            DEF Exchange
  <1>5. ASSUME NEW t \in Tasks, Interrupt(t) PROVE TypeOK'
    <2>1. CASE ConnectFails(t)
      BY <2>1 DEF ConnectFails, NotSent, Finish, Fault, serverVars
    <2>2. CASE HelloInterrupted(t)
      BY <2>2 DEF HelloInterrupted, Finish, Fault, serverVars
    <2>3. CASE Uncertain(t)
      BY <2>3, <1>3 DEF Uncertain, Fault
    <2> QED BY <1>5, <2>1, <2>2, <2>3 DEF Interrupt
  <1>6. CASE RlReads
    <2>0. faults' \in Nat
      BY <1>6 DEF RlReads, Fault
    <2>1. PICK f \in wire : Admit(f) \/ Replay(f) \/ RefuseSequence(f) \/ RefuseAdmission(f)
      BY <1>6 DEF RlReads
    <2>2. f.req \in Request /\ f.req.branches \subseteq Nat
      BY <2>1 DEF Frame, Request
    <2>3. ASSUME NEW kind \in Kinds, Reply(f, kind)
          PROVE  wire' \subseteq Frame /\ inbox' \in Answer
      BY <2>2, <2>3 DEF Reply, Answer
    <2>4. CASE Admit(f)
      <3>1. PICK kind \in Consuming :
               /\ Reply(f, kind)
               /\ ledger' = [req |-> f.req, kind |-> kind]
               /\ \E bs \in Created(f.req, kind) :
                     live' = (live \cup bs) \ Removed(f.req, kind)
        BY <2>4 DEF Admit
      <3>2. kind \in Kinds
        BY DEF Kinds
      <3>3. live' \subseteq Nat
        <4>1. PICK bs \in Created(f.req, kind) :
                 live' = (live \cup bs) \ Removed(f.req, kind)
          BY <3>1
        <4> QED BY <2>2, <4>1, CreatedType
      <3>4. admitted' \subseteq [ep : Nat, req : Request] /\ asked' \subseteq Nat
        <4>1. [ep |-> epoch, req |-> f.req] \in [ep : Nat, req : Request]
          BY <2>2
        <4> QED BY <2>2, <2>4, <4>1 DEF Admit
      <3> QED BY <1>6, <2>0, <2>2, <2>3, <2>4, <3>1, <3>2, <3>3, <3>4 DEF Admit, RlReads
    <2>5. CASE Replay(f)
      BY <1>6, <2>0, <2>3, <2>5 DEF Replay, RlReads
    <2>6. CASE RefuseSequence(f)
      <3>1. "conflict" \in Kinds /\ "gap" \in Kinds
        BY DEF Kinds, SessionRejections
      <3> QED BY <1>6, <2>0, <2>3, <2>6, <3>1 DEF RefuseSequence, RlReads
    <2>7. CASE RefuseAdmission(f)
      <3>1. "unadmitted" \in Kinds /\ "transport_error" \in Kinds
        BY DEF Kinds, SessionRejections
      <3> QED BY <1>6, <2>0, <2>3, <2>7, <3>1 DEF RefuseAdmission, RlReads
    <2> QED BY <2>1, <2>4, <2>5, <2>6, <2>7
  <1>7. CASE Restart
    BY <1>7 DEF Restart, NewEpoch
  <1>8. CASE StreamDies
    BY <1>8, DisconnectType DEF StreamDies, Fault
  <1>9. CASE UNCHANGED vars
    BY <1>9 DEF vars, clientVars, serverVars
  <1> QED BY <1>1, <1>2, <1>4, <1>5, <1>6, <1>7, <1>8, <1>9 DEF Next

(***************************************************************************)
(* Every variable of client, connection and RL keeps its type, for any     *)
(* tasks, payloads and bounds.                                             *)
(***************************************************************************)
THEOREM TypeCorrect == Spec => []TypeOK
  <1>1. Init => TypeOK
    BY InitType
  <1>2. TypeOK /\ [Next]_vars => TypeOK'
    BY TypeStep
  <1> QED BY <1>1, <1>2, PTL DEF Spec

-----------------------------------------------------------------------------
(* The invariant, action by action.                                        *)

\* The holder of the lock before it has written anything: no answer waits
\* and no frame is attached.
LEMMA Sending ==
    ASSUME IInv, NEW t \in Tasks, pc[t] = "send"
    PROVE  lock = t /\ inbox = NoAnswer /\ \A f \in wire : ~f.attached
  <1>1. lock = t
    BY DEF IInv, LockInv
  <1>2. inbox = NoAnswer
    BY <1>1 DEF IInv, InboxInv
  <1>3. \A f \in wire : ~f.attached
    BY <1>1 DEF IInv, WireInv
  <1> QED BY <1>1, <1>2, <1>3

\* A task that waits for an answer holds the lock, and an answer that has
\* arrived leaves no attached frame behind.
LEMMA Awaiting ==
    ASSUME IInv, NEW t \in Tasks, pc[t] = "await"
    PROVE  lock = t /\ (inbox # NoAnswer => \A f \in wire : ~f.attached)
  <1>1. lock = t
    BY DEF IInv, LockInv
  <1>2. inbox # NoAnswer => \A f \in wire : ~f.attached
    BY DEF IInv, WireInv
  <1> QED BY <1>1, <1>2

\* A call that returns frees the lock; the other tasks stay where they are,
\* and none of them is inside an exchange.
LEMMA Returns ==
    ASSUME IInv, NEW t \in Tasks, lock = t, Finish(t)
    PROVE  /\ LockInv'
           /\ \A u \in Tasks : pc'[u] \notin {"send", "await"}
           /\ \A u \in Tasks \ {t} : /\ pc'[u] = pc[u] /\ cur'[u] = cur[u]
                                     /\ mode'[u] = mode[u]
           /\ pc'[t] = "idle" /\ cur'[t] = NoReq /\ mode'[t] = "fresh"
           /\ lock' = NoTask /\ lock' \notin Tasks
  BY ConstantsAssumption DEF IInv, LockInv, Finish, TypeOK

\* A step that adds no claim to the next sequence keeps the agreement.
LEMMA ClaimsShrink ==
    ASSUME AgreementInv, nextSeq' = nextSeq, admitted' = admitted,
           \A f \in wire' : \E g \in wire : f.req = g.req,
           pending' \in Claims \cup {NoReq},
           \A u \in Tasks : InPlay(u)' => cur'[u] \in Claims
    PROVE  AgreementInv' /\ Outstanding' \subseteq Outstanding
  <1>1. Outstanding' \subseteq Outstanding
    BY DEF Outstanding
  <1>2. Claims' \subseteq Claims
    BY <1>1 DEF Claims
  <1> QED BY <1>1, <1>2 DEF AgreementInv

\* With no answer waiting there is nothing to say about answers.
LEMMA NoAnswerWaits ==
    ASSUME inbox' = NoAnswer
    PROVE  InboxInv' /\ SessionSync'
  BY NoAnswerType DEF InboxInv, SessionSync, Consuming

\* A call that joins or leaves the queue for the lock: nobody in an exchange
\* is disturbed.
LEMMA QueueStep ==
    ASSUME IInv, TypeOK', NEW t \in Tasks, CallFresh(t) \/ CallRetry(t) \/ CallRefused(t)
    PROVE  IInv'
  <1>1. /\ pc[t] \in {"idle", "lock"} /\ pc'[t] \in {"idle", "lock"}
        /\ \A u \in Tasks \ {t} : /\ pc'[u] = pc[u] /\ cur'[u] = cur[u]
                                  /\ mode'[u] = mode[u]
        /\ UNCHANGED <<nextSeq, pending, invalid, pinned, stream, lock, epoch, ledger,
                       admitted, wire, inbox>>
    BY DEF IInv, LockInv, TypeOK, CallFresh, CallRetry, CallRefused, serverVars
  <1>2. \/ pc'[t] = "lock" /\ cur'[t] = NoReq /\ mode'[t] = "fresh"
        \/ /\ pc'[t] = "lock" /\ cur'[t] = pending /\ mode'[t] = "retry"
           /\ pending # NoReq
        \/ pc'[t] = "idle" /\ cur'[t] = NoReq /\ mode'[t] = "fresh"
    BY DEF IInv, LockInv, TypeOK, CallFresh, CallRetry, CallRefused
  <1>3. lock # t
    BY <1>1 DEF IInv, LockInv
  <1>4. LockInv'
    BY <1>1, <1>2, <1>3 DEF IInv, LockInv
  <1>5. TokenInv'
    BY <1>1, <1>2, <1>3 DEF IInv, TokenInv, TypeOK
  <1>6. AgreementInv' /\ Outstanding' \subseteq Outstanding
    <2>1. \A u \in Tasks : InPlay(u)' => cur'[u] \in Claims
      BY <1>1, <1>2 DEF InPlay, Claims
    <2> QED BY <1>1, <2>1, ClaimsShrink DEF IInv, Claims
  <1>7. lock \in Tasks => pc'[lock] = pc[lock] /\ cur'[lock] = cur[lock] /\ mode'[lock] = mode[lock]
    BY <1>1, <1>3
  <1>8. WireInv'
    BY <1>1, <1>7 DEF IInv, WireInv
  <1>9. InboxInv' /\ SessionSync'
    <2>1. CASE inbox = NoAnswer
      BY <1>1, <2>1, NoAnswerWaits
    <2>2. CASE inbox # NoAnswer
      BY <1>1, <1>6, <1>7, <2>2 DEF IInv, InboxInv, SessionSync
    <2> QED BY <2>1, <2>2
  <1>10. EpochInv'
    BY <1>1 DEF IInv, EpochInv
  <1>11. NoLostExecution'
    BY <1>1, <1>3, <1>6 DEF IInv, NoLostExecution
  <1> QED BY <1>4, <1>5, <1>6, <1>8, <1>9, <1>10, <1>11 DEF IInv

LEMMA BeginRetryStep ==
    ASSUME IInv, TypeOK', NEW t \in Tasks, BeginRetry(t)
    PROVE  IInv'
  <1>0. lock \notin Tasks /\ inbox = NoAnswer /\ \A f \in wire : ~f.attached
    BY ConstantsAssumption DEF BeginRetry, IInv, InboxInv, WireInv
  <1>1. /\ pc[t] = "lock" /\ mode[t] = "retry" /\ cur[t].seq = nextSeq
        /\ pending \in {NoReq, cur[t]} /\ lock' = t /\ pc'[t] = "send"
        /\ \A u \in Tasks \ {t} : pc'[u] = pc[u]
        /\ UNCHANGED <<nextSeq, pending, invalid, pinned, stream, cur, mode, epoch, ledger,
                       admitted, wire, inbox>>
    BY DEF BeginRetry, TokenCurrent, IInv, TypeOK, serverVars
  <1>2. LockInv' /\ TokenInv'
    BY <1>0, <1>1 DEF IInv, LockInv, TokenInv
  <1>3. AgreementInv' /\ Outstanding' \subseteq Outstanding
    <2>1. \A u \in Tasks : InPlay(u)' => cur'[u] \in Claims
      BY <1>1 DEF InPlay, Claims
    <2> QED BY <1>1, <2>1, ClaimsShrink DEF IInv, Claims
  <1>4. WireInv'
    BY <1>0, <1>1 DEF IInv, WireInv
  <1>5. InboxInv' /\ SessionSync'
    BY <1>0, <1>1, NoAnswerWaits
  <1>6. EpochInv'
    BY <1>1 DEF IInv, EpochInv
  <1>7. NoLostExecution'
    BY <1>0, <1>1, <1>3 DEF IInv, NoLostExecution
  <1> QED BY <1>2, <1>3, <1>4, <1>5, <1>6, <1>7 DEF IInv

\* A call that returns without consuming its sequence, with nothing on its
\* way: either it never wrote its frame, or the session ends with it.
LEMMA QuietReturn ==
    ASSUME IInv, TypeOK', NEW t \in Tasks, Finish(t), lock = t,
           inbox' = NoAnswer, \A f \in wire : ~f.attached,
           invalid' \/ (pc[t] = "send" /\ pending' = pending /\ invalid' = invalid),
           pending' \in {pending, NoReq}, stream' # "ready" \/ stream' = stream,
           UNCHANGED <<nextSeq, pinned, epoch, ledger, admitted, wire>>
    PROVE  IInv'
  <1>1. /\ LockInv' /\ lock' \notin Tasks
        /\ pc'[t] = "idle" /\ cur'[t] = NoReq /\ mode'[t] = "fresh"
        /\ \A u \in Tasks \ {t} : /\ pc'[u] = pc[u] /\ cur'[u] = cur[u]
                                  /\ mode'[u] = mode[u]
        /\ \A u \in Tasks : pc'[u] \notin {"send", "await"}
    BY Returns
  <1>2. TokenInv'
    BY <1>1 DEF IInv, TokenInv
  <1>3. AgreementInv' /\ Outstanding' \subseteq Outstanding
    <2>1. \A u \in Tasks : InPlay(u)' => cur'[u] \in Claims
      BY <1>1 DEF InPlay, Claims
    <2> QED BY <2>1, ClaimsShrink DEF IInv, Claims
  <1>4. WireInv'
    BY DEF IInv, WireInv
  <1>5. InboxInv' /\ SessionSync'
    BY NoAnswerWaits
  <1>6. EpochInv'
    BY DEF IInv, EpochInv
  <1>7. NoLostExecution'
    BY <1>3 DEF IInv, NoLostExecution
  <1> QED BY <1>1, <1>2, <1>3, <1>4, <1>5, <1>6, <1>7 DEF IInv

LEMMA NotSentStep ==
    ASSUME IInv, TypeOK', NEW t \in Tasks,
           HelloChanged(t) \/ ConnectClosed(t) \/ ConnectFails(t) \/ HelloInterrupted(t)
    PROVE  IInv'
  <1>1. pc[t] = "send" /\ Finish(t) /\ stream' # "ready"
    BY DEF HelloChanged, ConnectClosed, ConnectFails, NotSent, HelloInterrupted, Connecting
  <1>2. lock = t /\ inbox = NoAnswer /\ \A f \in wire : ~f.attached
    BY <1>1, Sending
  <1>3. /\ invalid' \/ (pending' = pending /\ invalid' = invalid)
        /\ pending' \in {pending, NoReq}
        /\ UNCHANGED <<nextSeq, pinned, serverVars>>
    BY DEF HelloChanged, Invalidate, ConnectClosed, ConnectFails, NotSent, HelloInterrupted
  <1> QED BY <1>1, <1>2, <1>3, QuietReturn DEF serverVars

LEMMA RefusedStep ==
    ASSUME IInv, TypeOK', NEW t \in Tasks, EpochChanged(t) \/ SessionRejected(t)
    PROVE  IInv'
  <1>1. /\ pc[t] = "await" /\ Finish(t) /\ inbox # NoAnswer /\ inbox' = NoAnswer
        /\ invalid' /\ pending' = NoReq
        /\ UNCHANGED <<nextSeq, stream, pinned, epoch, ledger, admitted, wire>>
    BY NoAnswerType
       DEF EpochChanged, SessionRejected, Answered, Invalidate, SessionRejections
  <1>2. lock = t /\ \A f \in wire : ~f.attached
    BY <1>1, Awaiting
  <1> QED BY <1>1, <1>2, QuietReturn

LEMMA HelloStep ==
    ASSUME IInv, TypeOK', NEW t \in Tasks, Hello(t)
    PROVE  IInv'
  <1>0. /\ lock = t /\ inbox = NoAnswer /\ (\A f \in wire : ~f.attached)
        /\ ledger.req.seq \in Nat
    BY Sending DEF Hello, Connecting, IInv, TypeOK, ServerTypeOK, Request
  <1>1. LockInv' /\ TokenInv'
    BY DEF IInv, LockInv, TokenInv, Hello
  <1>2. AgreementInv'
    <2>1. \A u \in Tasks : InPlay(u)' => cur'[u] \in Claims
      BY DEF InPlay, Claims, Hello
    <2> QED BY <2>1, ClaimsShrink DEF IInv, Claims, Hello, serverVars
  <1>3. WireInv'
    BY <1>0 DEF IInv, WireInv, Hello, serverVars
  <1>4. InboxInv' /\ SessionSync'
    BY <1>0, NoAnswerWaits DEF Hello, serverVars
  <1>5. EpochInv'
    <2>1. ledger.req.seq >= nextSeq - 1
      BY <1>0 DEF IInv, EpochInv, Hello
    <2>2. /\ pinned' = epoch /\ epoch # 0 /\ epoch \in Nat
          /\ UNCHANGED <<nextSeq, epoch, ledger, admitted>>
      BY DEF Hello, serverVars, IInv, TypeOK, ServerTypeOK
    <2> QED BY <2>1, <2>2 DEF IInv, EpochInv
  <1>6. NoLostExecution'
    BY DEF IInv, NoLostExecution, Outstanding, Hello, serverVars
  <1> QED BY <1>1, <1>2, <1>3, <1>4, <1>5, <1>6 DEF IInv

LEMMA BeginFreshStep ==
    ASSUME IInv, TypeOK', NEW t \in Tasks, BeginFresh(t)
    PROVE  IInv'
  <1>0. lock \notin Tasks /\ inbox = NoAnswer /\ \A f \in wire : ~f.attached
    BY ConstantsAssumption DEF BeginFresh, IInv, InboxInv, WireInv
  <1>1. /\ cur'[t].seq = nextSeq
        /\ \A u \in Tasks \ {t} : cur'[u] = cur[u]
    BY DEF BeginFresh, IInv, TypeOK
  <1>2. /\ pc[t] = "lock" /\ mode[t] = "fresh" /\ ~invalid /\ pending = NoReq
        /\ lock' = t /\ pc'[t] = "send" /\ mode' = mode
        /\ \A u \in Tasks \ {t} : pc'[u] = pc[u]
        /\ UNCHANGED <<nextSeq, pending, invalid, pinned, stream, epoch, ledger,
                       admitted, wire, inbox>>
    BY DEF BeginFresh, IInv, TypeOK, serverVars
  <1>3. LockInv'
    BY <1>0, <1>1, <1>2 DEF IInv, LockInv
  <1>4. TokenInv'
    BY <1>0, <1>1, <1>2, NoReqType DEF IInv, TokenInv, TypeOK
  <1>5. AgreementInv' /\ Outstanding' \subseteq Outstanding
    <2>1. \A u \in Tasks : InPlay(u)' => cur'[u] \in Claims
      BY <1>1, <1>2 DEF InPlay, Claims
    <2> QED BY <1>2, <2>1, ClaimsShrink DEF IInv, Claims
  <1>6. WireInv'
    BY <1>0, <1>2 DEF IInv, WireInv
  <1>7. InboxInv' /\ SessionSync'
    BY <1>0, <1>2, NoAnswerWaits
  <1>8. EpochInv'
    BY <1>2 DEF IInv, EpochInv
  <1>9. NoLostExecution'
    BY <1>0, <1>2, <1>5 DEF IInv, NoLostExecution
  <1> QED BY <1>3, <1>4, <1>5, <1>6, <1>7, <1>8, <1>9 DEF IInv

LEMMA RetryOutdatedStep ==
    ASSUME IInv, TypeOK', NEW t \in Tasks, RetryOutdated(t)
    PROVE  IInv'
  <1>0. /\ lock \notin Tasks /\ lock' = NoTask /\ lock' \notin Tasks
        /\ inbox = NoAnswer /\ \A f \in wire : ~f.attached
    BY ConstantsAssumption DEF RetryOutdated, Finish, IInv, InboxInv, WireInv
  <1>1. /\ pc'[t] = "idle" /\ cur'[t] = NoReq /\ mode'[t] = "fresh"
        /\ \A u \in Tasks \ {t} : pc'[u] = pc[u] /\ cur'[u] = cur[u] /\ mode'[u] = mode[u]
        /\ UNCHANGED <<nextSeq, pending, invalid, pinned, stream, epoch, ledger,
                       admitted, wire, inbox>>
    BY DEF RetryOutdated, Finish, IInv, TypeOK, serverVars
  <1>2. LockInv' /\ TokenInv'
    BY <1>0, <1>1, NoReqType DEF IInv, LockInv, TokenInv
  <1>3. AgreementInv' /\ Outstanding' \subseteq Outstanding
    <2>1. \A u \in Tasks : InPlay(u)' => cur'[u] \in Claims
      BY <1>1 DEF InPlay, Claims
    <2> QED BY <1>1, <2>1, ClaimsShrink DEF IInv, Claims
  <1>4. WireInv'
    BY <1>0, <1>1 DEF IInv, WireInv
  <1>5. InboxInv' /\ SessionSync'
    BY <1>0, <1>1, NoAnswerWaits
  <1>6. EpochInv'
    BY <1>1 DEF IInv, EpochInv
  <1>7. NoLostExecution'
    BY <1>0, <1>1, <1>3 DEF IInv, NoLostExecution
  <1> QED BY <1>2, <1>3, <1>4, <1>5, <1>6, <1>7 DEF IInv

\* Before a fresh request is written its sequence is unclaimed.
LEMMA Unclaimed ==
    ASSUME IInv, NEW t \in Tasks, pc[t] = "send", mode[t] = "fresh"
    PROVE  Claims = {}
  <1>1. lock = t /\ ~invalid /\ pending = NoReq /\ nextSeq \in Nat \ {0}
    BY Sending DEF IInv, TokenInv, TypeOK
  <1>2. Outstanding = {}
    BY <1>1, NoReqType DEF IInv, NoLostExecution, Outstanding
  <1>3. ASSUME NEW u \in Tasks, InPlay(u) PROVE FALSE
    <2>1. CASE u = t
      BY <1>3, <2>1 DEF InPlay
    <2>2. CASE u # t
      <3>1. pc[u] \notin {"send", "await"}
        BY <1>1, <2>2 DEF IInv, LockInv
      <3>2. mode[u] # "fresh" /\ cur[u].seq = nextSeq
        BY <1>3, <3>1 DEF InPlay
      <3>3. pc[u] = "lock" /\ mode[u] = "retry"
        <4>1. pc[u] \in {"idle", "lock"} /\ mode[u] \in {"retry", "cleanup"}
          BY <3>1, <3>2 DEF IInv, TypeOK, Places, Modes
        <4> QED BY <3>2, <4>1 DEF IInv, LockInv
      <3>4. pending = cur[u]
        BY <1>1, <3>2, <3>3 DEF IInv, TokenInv
      <3> QED BY <1>1, <3>2, <3>4, NoReqType
    <2> QED BY <2>1, <2>2
  <1> QED BY <1>1, <1>2, <1>3 DEF Claims

LEMMA WriteStep ==
    ASSUME IInv, TypeOK', NEW t \in Tasks, Write(t)
    PROVE  IInv'
  <1> DEFINE frame == [req |-> cur[t], attached |-> stream = "ready"]
  <1>0. lock = t /\ inbox = NoAnswer /\ \A f \in wire : ~f.attached
    BY Sending DEF Write
  <1>1. /\ pc[t] = "send" /\ pc'[t] = "await" /\ \A u \in Tasks \ {t} : pc'[u] = pc[u]
        /\ wire' \subseteq wire \cup {frame}
        /\ cur[t].seq = nextSeq /\ nextSeq \in Nat \ {0}
        /\ UNCHANGED <<nextSeq, pending, invalid, pinned, stream, lock, cur, mode,
                       epoch, ledger, admitted>>
    BY <1>0 DEF Write, IInv, TypeOK, TokenInv
  <1>2. /\ inbox' = NoAnswer \/ (inbox' = [req |-> NoReq, kind |-> "hello", ep |-> epoch])
        /\ stream = "ready" => inbox' = NoAnswer
    BY DEF Write
  <1> HIDE DEF frame
  <1>3. frame.req = cur[t] /\ (frame.attached => stream = "ready")
    BY DEF frame
  <1>4. Outstanding' \subseteq Outstanding \cup {cur[t]}
    BY <1>1, <1>3 DEF Outstanding
  <1>5. Claims' \subseteq Claims \cup {cur[t]}
    BY <1>1, <1>4 DEF Claims, InPlay
  <1>6. LockInv' /\ TokenInv'
    BY <1>0, <1>1 DEF IInv, LockInv, TokenInv
  <1>7. AgreementInv'
    <2>1. CASE mode[t] = "fresh"
      <3>1. Claims' \subseteq {cur[t]}
        BY <1>1, <1>5, <2>1, Unclaimed
      <3> QED BY <1>1, <3>1 DEF IInv, AgreementInv
    <2>2. CASE mode[t] # "fresh"
      <3>1. cur[t] \in Claims
        BY <1>1, <2>2 DEF Claims, InPlay
      <3> QED BY <1>1, <1>5, <3>1 DEF IInv, AgreementInv
    <2> QED BY <2>1, <2>2
  <1>8. WireInv'
    <2>1. mode[t] = "fresh" => /\ \A g \in wire : g.req.seq # nextSeq
                               /\ \A x \in admitted : x.req.seq # nextSeq
      BY <1>1, Unclaimed DEF Claims, Outstanding
    <2> QED BY <1>0, <1>1, <1>2, <1>3, <2>1 DEF IInv, WireInv
  <1>9. InboxInv' /\ SessionSync'
    <2>1. CASE inbox' = NoAnswer
      BY <2>1, NoAnswerWaits
    <2>2. CASE inbox' = [req |-> NoReq, kind |-> "hello", ep |-> epoch]
      <3>1. /\ inbox'.kind = "hello" /\ inbox'.req = NoReq /\ inbox'.ep = epoch
            /\ epoch \in Nat \ {0} /\ epoch' = epoch /\ pc'[lock'] = "await" /\ lock' \in Tasks
        BY <1>0, <1>1, <2>2 DEF IInv, TypeOK, ServerTypeOK
      <3> QED BY <3>1 DEF InboxInv, SessionSync, Consuming
    <2> QED BY <1>2, <2>1, <2>2
  <1>10. EpochInv'
    BY <1>1 DEF IInv, EpochInv
  <1>11. NoLostExecution'
    BY <1>0, <1>1, <1>4 DEF IInv, NoLostExecution
  <1> QED BY <1>6, <1>7, <1>8, <1>9, <1>10, <1>11 DEF IInv

\* An uncertain outcome: the token in hand becomes, or stays, the pending one.
LEMMA ForgetStep ==
    ASSUME IInv, TypeOK', NEW t \in Tasks, Forget(t),
           pinned' = pinned \/ (pinned = 0 /\ pinned' \in 1 .. epoch)
    PROVE  IInv'
  <1>0. Finish(t) /\ lock = t /\ pc[t] = "await" /\ inbox' = NoAnswer
    BY Awaiting DEF Forget, Disconnect
  <1>1. /\ pending' = cur[t] /\ wire' = Detached /\ stream' = "none"
        /\ cur[t].seq = nextSeq /\ nextSeq \in Nat \ {0} /\ pinned \in Nat
        /\ UNCHANGED <<nextSeq, invalid, epoch, ledger, admitted>>
    BY <1>0 DEF Forget, Disconnect, IInv, TypeOK, TokenInv
  <1>2. \A f \in wire' : ~f.attached /\ \E g \in wire : f.req = g.req
    BY <1>1, DetachedType DEF IInv, TypeOK, ServerTypeOK
  <1>3. LockInv'
    BY <1>0, Returns
  <1>4. cur[t] \in Claims
    BY <1>0, <1>1 DEF Claims, InPlay
  <1>5. TokenInv'
    BY <1>0, <1>1, Returns, NoReqType DEF IInv, TokenInv
  <1>6. AgreementInv' /\ Outstanding' \subseteq Outstanding
    <2>1. \A u \in Tasks : InPlay(u)' => cur'[u] \in Claims
      BY <1>0, <1>1, Returns, NoReqType DEF InPlay, Claims
    <2> QED BY <1>1, <1>2, <1>4, <2>1, ClaimsShrink DEF IInv
  <1>7. WireInv'
    BY <1>1, <1>2 DEF IInv, WireInv, TypeOK, ServerTypeOK
  <1>8. InboxInv' /\ SessionSync'
    BY <1>0, NoAnswerWaits
  <1>9. EpochInv'
    <2>1. ledger.req.seq \in Nat /\ epoch \in Nat \ {0}
      BY DEF IInv, TypeOK, ServerTypeOK, Request
    <2>2. /\ stream' # "ready" /\ pinned' <= epoch' /\ (pinned' = 0 => nextSeq' = 1)
          /\ (pinned' = epoch' => ledger'.req.seq >= nextSeq' - 1)
      BY <1>1, <2>1 DEF IInv, EpochInv
    <2> QED BY <1>1, <2>2 DEF IInv, EpochInv
  <1>10. NoLostExecution'
    BY <1>0, <1>1, <1>4, <1>6 DEF IInv, NoLostExecution, AgreementInv, Claims
  <1> QED BY <1>3, <1>5, <1>6, <1>7, <1>8, <1>9, <1>10 DEF IInv

LEMMA UncertainStep ==
    ASSUME IInv, TypeOK', NEW t \in Tasks, Uncertain(t) \/ Timeout(t) \/ HelloAsAnswer(t)
    PROVE  IInv'
  <1>1. CASE Uncertain(t) \/ Timeout(t)
    BY <1>1, ForgetStep DEF Uncertain, Timeout
  <1>2. CASE HelloAsAnswer(t)
    <2>1. inbox.ep \in 1 .. epoch /\ pinned' = inbox.ep /\ pinned \in {0, inbox.ep}
      BY <1>2 DEF HelloAsAnswer, IInv, InboxInv
    <2> QED BY <1>2, <2>1, ForgetStep DEF HelloAsAnswer
  <1> QED BY <1>1, <1>2

LEMMA TransportRejectedStep ==
    ASSUME IInv, TypeOK', NEW t \in Tasks, TransportRejected(t)
    PROVE  IInv'
  <1>0. /\ Finish(t) /\ lock = t /\ pc[t] = "await" /\ inbox' = NoAnswer
        /\ inbox.kind = "transport_error"
    BY Awaiting DEF TransportRejected, Answered
  <1>1. /\ wire' = Detached /\ stream' = "none" /\ nextSeq \in Nat \ {0}
        /\ cur[t].seq = nextSeq
        /\ UNCHANGED <<nextSeq, pending, pinned, invalid, epoch, ledger, admitted>>
    BY <1>0 DEF TransportRejected, IInv, TypeOK, TokenInv
  <1>2. \A f \in wire' : ~f.attached /\ \E g \in wire : f.req = g.req
    BY <1>1, DetachedType DEF IInv, TypeOK, ServerTypeOK
  <1>3. LockInv' /\ TokenInv'
    BY <1>0, <1>1, Returns DEF IInv, TokenInv
  <1>4. AgreementInv' /\ Outstanding' \subseteq Outstanding
    <2>1. \A u \in Tasks : InPlay(u)' => cur'[u] \in Claims
      BY <1>0, <1>1, Returns, NoReqType DEF InPlay, Claims
    <2> QED BY <1>1, <1>2, <2>1, ClaimsShrink DEF IInv, Claims
  <1>5. WireInv'
    BY <1>1, <1>2 DEF IInv, WireInv, TypeOK, ServerTypeOK
  <1>6. InboxInv' /\ SessionSync'
    BY <1>0, NoAnswerWaits
  <1>7. EpochInv'
    BY <1>1 DEF IInv, EpochInv
  <1>8. NoLostExecution'
    <2>1. CASE mode[t] = "fresh"
      <3>1. Outstanding = {}
        BY <1>0, <2>1 DEF IInv, InboxInv
      <3> QED BY <1>4, <3>1 DEF NoLostExecution
    <2>2. CASE mode[t] # "fresh"
      <3>1. invalid \/ pending = cur[t]
        BY <1>0, <2>2 DEF IInv, TokenInv
      <3>2. ~invalid => \A r \in Outstanding : r = pending
        BY <1>0, <3>1 DEF IInv, NoLostExecution
      <3> QED BY <1>1, <1>4, <3>2 DEF NoLostExecution
    <2> QED BY <2>1, <2>2
  <1> QED BY <1>3, <1>4, <1>5, <1>6, <1>7, <1>8 DEF IInv

\* The sequence is consumed: nothing of the old one is outstanding any more,
\* whatever the call does next.
LEMMA Advance ==
    ASSUME IInv, TypeOK', NEW t \in Tasks, Answered(t), inbox.kind \in Consuming,
           nextSeq' = nextSeq + 1,
           UNCHANGED <<pinned, stream, epoch, ledger, admitted, wire>>
    PROVE  /\ Outstanding' = {}
           /\ lock = t /\ nextSeq \in Nat \ {0}
           /\ \A u \in Tasks \ {t} : pc[u] = "lock" /\ mode[u] = "retry" =>
                                        cur[u].seq \in 1 .. nextSeq
           /\ WireInv' /\ InboxInv' /\ EpochInv' /\ SessionSync' /\ NoLostExecution'
  <1>0. /\ lock = t /\ pc[t] = "await" /\ inbox' = NoAnswer /\ inbox.req = cur[t]
        /\ inbox # NoAnswer /\ inbox.kind \notin {"none", "hello"}
        /\ nextSeq \in Nat \ {0} /\ pinned \in Nat /\ epoch \in Nat /\ ledger.req.seq \in Nat
    BY Awaiting, NoAnswerType
       DEF Answered, Consuming, IInv, TypeOK, ServerTypeOK, Request
  <1>1. \A f \in wire : ~f.attached
    BY <1>0, Awaiting
  <1>2. [ep |-> pinned, req |-> cur[t]] \in admitted /\ cur[t].seq = nextSeq
    BY <1>0 DEF IInv, InboxInv, TokenInv
  <1>3. Outstanding' = {}
    <2>1. \A f \in wire : f.req.seq \in 1 .. nextSeq
      BY DEF IInv, WireInv
    <2>2. \A x \in admitted : x.req.seq \in 1 .. nextSeq
      BY DEF IInv, EpochInv
    <2> QED BY <1>0, <2>1, <2>2 DEF Outstanding
  <1>4. \A u \in Tasks \ {t} : pc[u] = "lock" /\ mode[u] = "retry" =>
                                  cur[u].seq \in 1 .. nextSeq
    BY DEF IInv, TokenInv
  <1>5. WireInv'
    <2>1. pinned # epoch => wire = {}
      BY <1>0 DEF IInv, InboxInv
    <2> QED BY <1>0, <1>1, <2>1 DEF IInv, WireInv
  <1>6. EpochInv'
    <2>1. pinned \in 1 .. epoch /\ (pinned = epoch => nextSeq <= ledger.req.seq)
      BY <1>0, <1>2 DEF IInv, EpochInv
    <2> QED BY <1>0, <2>1 DEF IInv, EpochInv
  <1>7. InboxInv' /\ SessionSync'
    BY <1>0, NoAnswerWaits
  <1>8. NoLostExecution'
    BY <1>3 DEF NoLostExecution
  <1> QED BY <1>0, <1>3, <1>4, <1>5, <1>6, <1>7, <1>8

\* A consumed call that returns.
LEMMA AdvanceReturns ==
    ASSUME IInv, TypeOK', NEW t \in Tasks, Answered(t), inbox.kind \in Consuming,
           nextSeq' = nextSeq + 1, Finish(t), pending' = NoReq,
           UNCHANGED <<pinned, stream, epoch, ledger, admitted, wire>>
    PROVE  IInv'
  <1>1. /\ Outstanding' = {} /\ lock = t /\ nextSeq \in Nat \ {0}
        /\ WireInv' /\ InboxInv' /\ EpochInv' /\ SessionSync' /\ NoLostExecution'
        /\ \A u \in Tasks \ {t} : pc[u] = "lock" /\ mode[u] = "retry" =>
                                     cur[u].seq \in 1 .. nextSeq
    BY Advance
  <1>2. LockInv'
    BY <1>1, Returns
  <1>3. /\ pc'[t] = "idle" /\ cur'[t] = NoReq /\ mode'[t] = "fresh" /\ lock' \notin Tasks
        /\ \A u \in Tasks \ {t} : /\ pc'[u] = pc[u] /\ cur'[u] = cur[u]
                                  /\ mode'[u] = mode[u]
        /\ \A u \in Tasks : pc'[u] \notin {"send", "await"}
    BY <1>1, Returns
  <1>4. \A u \in Tasks : pc'[u] = "lock" /\ mode'[u] = "retry" =>
            cur'[u].seq \in 1 .. nextSeq' /\ cur'[u].seq # nextSeq'
    BY <1>1, <1>3
  <1>5. TokenInv'
    BY <1>3, <1>4 DEF TokenInv
  <1>6. \A u \in Tasks : ~InPlay(u)'
    <2>1. \A u \in Tasks : mode'[u] = "fresh" \/ (pc'[u] = "lock" /\ mode'[u] = "retry")
      BY <1>2, <1>3 DEF LockInv, TypeOK, Places, Modes
    <2> QED BY <1>3, <1>4, <2>1 DEF InPlay
  <1>7. AgreementInv'
    <2>1. Claims' = {}
      BY <1>1, <1>6 DEF Claims
    <2> QED BY <2>1 DEF IInv, AgreementInv
  <1> QED BY <1>1, <1>2, <1>5, <1>7 DEF IInv

\* A consumed replay that goes on with the release it claims next.
LEMMA AdvanceToCleanup ==
    ASSUME IInv, TypeOK', NEW t \in Tasks, Answered(t), inbox.kind \in Consuming,
           nextSeq' = nextSeq + 1, NEW tok, tok.seq = nextSeq', pending' = tok,
           pc' = [pc EXCEPT ![t] = "send"], cur' = [cur EXCEPT ![t] = tok],
           mode' = [mode EXCEPT ![t] = "cleanup"], lock' = lock, invalid' = invalid,
           UNCHANGED <<pinned, stream, epoch, ledger, admitted, wire>>
    PROVE  IInv'
  <1>1. /\ Outstanding' = {} /\ lock = t /\ nextSeq \in Nat \ {0}
        /\ WireInv' /\ InboxInv' /\ EpochInv' /\ SessionSync' /\ NoLostExecution'
        /\ \A u \in Tasks \ {t} : pc[u] = "lock" /\ mode[u] = "retry" =>
                                     cur[u].seq \in 1 .. nextSeq
    BY Advance
  <1>2. /\ pc'[t] = "send" /\ cur'[t] = tok /\ mode'[t] = "cleanup"
        /\ \A u \in Tasks \ {t} : /\ pc'[u] = pc[u] /\ cur'[u] = cur[u]
                                  /\ mode'[u] = mode[u]
    BY DEF IInv, TypeOK
  <1>3. LockInv'
    BY <1>1, <1>2 DEF IInv, LockInv
  <1>4. \A u \in Tasks : pc'[u] = "lock" /\ mode'[u] = "retry" =>
            cur'[u].seq \in 1 .. nextSeq' /\ cur'[u].seq # nextSeq'
    BY <1>1, <1>2
  <1>5. TokenInv'
    BY <1>1, <1>2, <1>4 DEF TokenInv
  <1>6. \A u \in Tasks \ {t} : ~InPlay(u)'
    <2>1. \A u \in Tasks \ {t} : mode'[u] = "fresh" \/ (pc'[u] = "lock" /\ mode'[u] = "retry")
      BY <1>1, <1>2, <1>3 DEF LockInv, TypeOK, Places, Modes
    <2>2. \A u \in Tasks \ {t} : pc'[u] # "await"
      BY <1>1, <1>3 DEF LockInv
    <2> QED BY <1>4, <2>1, <2>2 DEF InPlay
  <1>7. AgreementInv'
    <2>1. Claims' \subseteq {tok}
      BY <1>1, <1>2, <1>6 DEF Claims
    <2> QED BY <2>1 DEF IInv, AgreementInv
  <1> QED BY <1>1, <1>3, <1>5, <1>7 DEF IInv

LEMMA ConsumedStep ==
    ASSUME IInv, TypeOK', NEW t \in Tasks, Consumed(t) \/ ConsumedFatal(t)
    PROVE  IInv'
  <1>0. /\ Answered(t) /\ inbox.kind \in Consuming /\ nextSeq' = nextSeq + 1
        /\ UNCHANGED <<pinned, stream, epoch, ledger, admitted, wire>>
    BY DEF Consumed, ConsumedFatal, Consuming
  <1>1. CASE Finish(t) /\ pending' = NoReq
    BY <1>0, <1>1, AdvanceReturns
  <1>2. CASE ~(Finish(t) /\ pending' = NoReq)
    <2>1. invalid' = invalid /\ CleanupAfter(t, inbox.kind # "rejected")
      BY <1>2 DEF Consumed, ConsumedFatal, Invalidate
    <2>2. PICK tok : /\ tok.seq = nextSeq' /\ pending' = tok
                     /\ pc' = [pc EXCEPT ![t] = "send"] /\ cur' = [cur EXCEPT ![t] = tok]
                     /\ mode' = [mode EXCEPT ![t] = "cleanup"] /\ lock' = lock
      <3> DEFINE bs == ToRelease(t, inbox.kind # "rejected")
                 tok == [seq |-> nextSeq', op |-> "release", id |-> 0, branches |-> bs]
      <3>1. /\ pending' = tok
            /\ pc' = [pc EXCEPT ![t] = "send"] /\ cur' = [cur EXCEPT ![t] = tok]
            /\ mode' = [mode EXCEPT ![t] = "cleanup"] /\ lock' = lock
        BY <1>2, <2>1 DEF CleanupAfter
      <3>2. tok.seq = nextSeq'
        OBVIOUS
      <3> HIDE DEF tok
      <3> QED BY <3>1, <3>2
    <2> QED BY <1>0, <2>1, <2>2, AdvanceToCleanup
  <1> QED BY <1>1, <1>2

LEMMA CloseStep ==
    ASSUME IInv, TypeOK', NEW t \in Tasks, Close(t)
    PROVE  IInv'
  <1>0. /\ lock \notin Tasks /\ inbox' = NoAnswer /\ wire' = Detached /\ stream' = "none"
        /\ UNCHANGED <<nextSeq, pending, invalid, pinned, lock, pc, cur, mode,
                       epoch, ledger, admitted>>
    BY ConstantsAssumption DEF Close, Disconnect
  <1>1. \A f \in wire' : ~f.attached /\ \E g \in wire : f.req = g.req
    BY <1>0, DetachedType DEF IInv, TypeOK, ServerTypeOK
  <1>2. LockInv' /\ TokenInv'
    BY <1>0 DEF IInv, LockInv, TokenInv
  <1>3. AgreementInv' /\ Outstanding' \subseteq Outstanding
    <2>1. \A u \in Tasks : InPlay(u)' => cur'[u] \in Claims
      BY <1>0 DEF InPlay, Claims
    <2> QED BY <1>0, <1>1, <2>1, ClaimsShrink DEF IInv, Claims
  <1>4. WireInv'
    BY <1>0, <1>1 DEF IInv, WireInv, TypeOK, ServerTypeOK
  <1>5. InboxInv' /\ SessionSync'
    BY <1>0, NoAnswerWaits
  <1>6. EpochInv'
    BY <1>0 DEF IInv, EpochInv
  <1>7. NoLostExecution'
    BY <1>0, <1>3 DEF IInv, NoLostExecution
  <1> QED BY <1>2, <1>3, <1>4, <1>5, <1>6, <1>7 DEF IInv

\* What RL does with a frame changes nothing of the client; a frame it has
\* read is answered on its stream or not at all.
LEMMA ReadFrame ==
    ASSUME IInv, TypeOK', NEW f \in wire, NEW kind \in Kinds, Reply(f, kind), epoch' = epoch,
           UNCHANGED <<nextSeq, pending, invalid, stream, pinned, lock, pc, cur, mode>>
    PROVE  /\ LockInv' /\ TokenInv' /\ wire' = wire \ {f}
           /\ f.req.seq \in 1 .. nextSeq /\ nextSeq \in Nat \ {0} /\ ledger.req.seq \in Nat
           /\ pinned # epoch => f.req.seq = nextSeq
           /\ \A g \in wire' : g.attached => ~f.attached
           /\ ~f.attached => inbox' = inbox
           /\ f.attached =>
                 /\ inbox' # NoAnswer /\ inbox'.req = f.req /\ inbox'.kind = kind
                 /\ inbox'.ep = pinned /\ pinned = epoch
                 /\ lock \in Tasks /\ pc[lock] = "await" /\ f.req = cur[lock]
                 /\ f.req.seq = nextSeq
                 /\ mode[lock] = "fresh" => /\ \A g \in wire' : g.req.seq # nextSeq
                                            /\ \A x \in admitted : x.req.seq # nextSeq
  <1>1. /\ f \in Frame /\ f.req.seq \in 1 .. nextSeq /\ nextSeq \in Nat \ {0}
        /\ ledger.req.seq \in Nat
    BY DEF IInv, WireInv, TypeOK, ServerTypeOK, Request
  <1>2. LockInv' /\ TokenInv' /\ wire' = wire \ {f}
    BY DEF IInv, LockInv, TokenInv, Reply
  <1>3. pinned # epoch => f.req.seq = nextSeq
    BY DEF IInv, WireInv
  <1>4. \A g \in wire' : g.attached => ~f.attached
    <2>1. SUFFICES ASSUME NEW g \in wire', g.attached, f.attached PROVE FALSE
      OBVIOUS
    <2>2. g \in wire /\ g # f /\ g \in Frame /\ f \in Frame
      BY <1>1, <1>2 DEF IInv, TypeOK, ServerTypeOK
    <2>3. g.req = cur[lock] /\ f.req = cur[lock]
      BY <2>1, <2>2 DEF IInv, WireInv
    <2>4. g = [req |-> g.req, attached |-> g.attached]
          /\ f = [req |-> f.req, attached |-> f.attached]
      BY <2>2 DEF Frame
    <2>5. g.attached = TRUE /\ f.attached = TRUE
      BY <2>1, <2>2 DEF Frame
    <2>6. g = f
      BY <2>3, <2>4, <2>5, Zenon
    <2> QED BY <2>2, <2>6
  <1>5. ~f.attached => inbox' = inbox
    BY DEF Reply
  <1>6. ASSUME f.attached
        PROVE  /\ inbox' # NoAnswer /\ inbox'.req = f.req /\ inbox'.kind = kind
               /\ inbox'.ep = pinned /\ pinned = epoch
               /\ lock \in Tasks /\ pc[lock] = "await" /\ f.req = cur[lock]
               /\ f.req.seq = nextSeq
               /\ mode[lock] = "fresh" => /\ \A g \in wire' : g.req.seq # nextSeq
                                          /\ \A x \in admitted : x.req.seq # nextSeq
    <2>1. inbox' = [req |-> f.req, kind |-> kind, ep |-> epoch]
      BY <1>6 DEF Reply
    <2>2. /\ stream = "ready" /\ lock \in Tasks /\ pc[lock] = "await" /\ f.req = cur[lock]
          /\ mode[lock] = "fresh" => /\ \A g \in wire : g.req.seq = nextSeq => g = f
                                     /\ \A x \in admitted : x.req.seq # nextSeq
      BY <1>6 DEF IInv, WireInv
    <2>3. pinned = epoch /\ f.req.seq = nextSeq
      BY <2>2 DEF IInv, EpochInv, TokenInv
    <2>4. f.req # NoReq
      BY <1>1, NoReqType
    <2>5. inbox' # NoAnswer
      BY <2>1, <2>4, NoAnswerType
    <2> QED BY <1>2, <2>1, <2>2, <2>3, <2>5
  <1> QED BY <1>1, <1>2, <1>3, <1>4, <1>5, <1>6

\* What is left to show of a read, once admitted and the ledger are known.
LEMMA AfterRead ==
    ASSUME IInv, TypeOK', NEW f \in wire, NEW kind \in Kinds, Reply(f, kind), epoch' = epoch,
           UNCHANGED <<nextSeq, pending, invalid, stream, pinned, lock, pc, cur, mode>>,
           admitted' = admitted
           \/ (f.req.seq = nextSeq
               /\ admitted' = admitted \cup {[ep |-> epoch, req |-> f.req]}),
           (kind = "transport_error" /\ f.attached) => admitted' = admitted,
           f.attached /\ kind \in Consuming => [ep |-> epoch, req |-> f.req] \in admitted',
           f.attached => kind \notin {"none", "hello", "gap", "conflict"},
           EpochInv'
    PROVE  IInv'
  <1>1. /\ LockInv' /\ TokenInv' /\ wire' = wire \ {f}
        /\ f.req.seq \in 1 .. nextSeq /\ nextSeq \in Nat \ {0}
        /\ \A g \in wire' : g.attached => ~f.attached
        /\ ~f.attached => inbox' = inbox
        /\ f.attached =>
              /\ inbox' # NoAnswer /\ inbox'.req = f.req /\ inbox'.kind = kind
              /\ inbox'.ep = pinned /\ pinned = epoch
              /\ lock \in Tasks /\ pc[lock] = "await" /\ f.req = cur[lock]
              /\ f.req.seq = nextSeq
              /\ mode[lock] = "fresh" => /\ \A g \in wire' : g.req.seq # nextSeq
                                         /\ \A x \in admitted : x.req.seq # nextSeq
    BY ReadFrame
  <1>2. Outstanding' \subseteq Outstanding
    <2>1. \A x \in admitted' : x \in admitted \/ (x.req = f.req /\ f.req.seq = nextSeq)
      OBVIOUS
    <2> QED BY <1>1, <2>1 DEF Outstanding
  <1>3. AgreementInv'
    <2>1. Claims' \subseteq Claims
      BY <1>2 DEF Claims, InPlay
    <2>2. \A x \in admitted' : x \in admitted \/ (x.req = f.req /\ f.req.seq = nextSeq)
      OBVIOUS
    <2>3. f.req.seq = nextSeq => f.req \in Claims
      BY DEF Claims, Outstanding
    <2>4. \A x \in admitted : x.req.seq = nextSeq => x.req \in Claims
      BY DEF Claims, Outstanding
    <2> QED BY <2>1, <2>2, <2>3, <2>4 DEF IInv, AgreementInv
  <1>4. WireInv'
    <2>1. ASSUME NEW g \in wire', g.attached, lock \in Tasks, mode[lock] = "fresh"
          PROVE  admitted' = admitted
      <3>1. f.req.seq # nextSeq
        BY <1>1, <2>1 DEF IInv, WireInv
      <3> QED BY <3>1
    <2> QED BY <1>1, <2>1 DEF IInv, WireInv
  <1>5. InboxInv' /\ SessionSync'
    <2>1. CASE ~f.attached
      <3>1. inbox.kind = "transport_error" /\ mode[lock] = "fresh" => Outstanding' = {}
        BY <1>2 DEF IInv, InboxInv
      <3>2. admitted \subseteq admitted'
        OBVIOUS
      <3> QED BY <1>1, <2>1, <3>1, <3>2 DEF IInv, InboxInv, SessionSync
    <2>2. CASE f.attached
      <3>1. kind = "transport_error" /\ mode[lock] = "fresh" => Outstanding' = {}
        BY <1>1, <2>2 DEF Outstanding
      <3> QED BY <1>1, <2>2, <3>1 DEF InboxInv, SessionSync
    <2> QED BY <2>1, <2>2
  <1>6. NoLostExecution'
    BY <1>2 DEF IInv, NoLostExecution
  <1> QED BY <1>1, <1>3, <1>4, <1>5, <1>6 DEF IInv

LEMMA RlReadsStep ==
    ASSUME IInv, TypeOK', RlReads
    PROVE  IInv'
  <1>0. PICK f \in wire : Admit(f) \/ Replay(f) \/ RefuseSequence(f) \/ RefuseAdmission(f)
    BY DEF RlReads
  <1>1. UNCHANGED <<nextSeq, pending, invalid, stream, pinned, lock, pc, cur, mode>>
    BY DEF RlReads
  <1>2. /\ epoch \in Nat \ {0} /\ ledger.req.seq \in Nat /\ nextSeq \in Nat \ {0}
        /\ f.req.seq \in 1 .. nextSeq /\ pinned \in Nat
    BY DEF IInv, TypeOK, ServerTypeOK, Request, WireInv
  <1>3. CASE Admit(f)
    <2>1. PICK kind \in Consuming : Reply(f, kind) /\ ledger' = [req |-> f.req, kind |-> kind]
      BY <1>3 DEF Admit
    <2>2. /\ f.req.seq = ledger.req.seq + 1 /\ epoch' = epoch
          /\ admitted' = admitted \cup {[ep |-> epoch, req |-> f.req]}
      BY <1>3 DEF Admit
    <2>3. f.req.seq = nextSeq
      BY <1>2, <2>2 DEF IInv, WireInv, EpochInv
    <2>4. EpochInv'
      <3>1. ledger'.req = f.req /\ ledger'.kind \in Consuming
        BY <2>1
      <3>2. [ep |-> epoch', req |-> ledger'.req] \in admitted'
        BY <2>2, <3>1
      <3>3. \A x \in admitted' : /\ x.ep \in 1 .. epoch
                                 /\ x.req.seq \in 1 .. nextSeq
                                 /\ x.ep = epoch => x.req.seq <= nextSeq
        BY <1>2, <2>2, <2>3 DEF IInv, EpochInv
      <3> QED BY <1>1, <1>2, <2>2, <2>3, <3>1, <3>2, <3>3 DEF IInv, EpochInv
    <2>5. kind \in Kinds /\ kind \notin {"none", "hello", "gap", "conflict", "transport_error"}
      BY DEF Kinds, Consuming
    <2>6. [ep |-> epoch, req |-> f.req] \in admitted'
      BY <2>2
    <2> QED BY <1>1, <2>1, <2>2, <2>3, <2>4, <2>5, <2>6, AfterRead
  <1>4. CASE Replay(f)
    <2>1. Reply(f, ledger.kind) /\ f.req = ledger.req /\ UNCHANGED <<epoch, ledger, admitted>>
      BY <1>4 DEF Replay
    <2>2. ledger.kind \in Consuming /\ [ep |-> epoch, req |-> ledger.req] \in admitted
      BY <1>2, <2>1, EmptyLedgerType, NoReqType DEF IInv, EpochInv
    <2>3. EpochInv'
      BY <1>1, <2>1 DEF IInv, EpochInv
    <2>4. /\ ledger.kind \in Kinds
          /\ ledger.kind \notin {"none", "hello", "gap", "conflict", "transport_error"}
      BY <2>2 DEF Kinds, Consuming
    <2> QED BY <1>1, <2>1, <2>2, <2>3, <2>4, AfterRead
  <1>5. CASE RefuseSequence(f)
    <2> DEFINE kind == IF f.req.seq <= ledger.req.seq THEN "conflict" ELSE "gap"
    <2>1. /\ Reply(f, kind) /\ f.req # ledger.req /\ f.req.seq # ledger.req.seq + 1
          /\ UNCHANGED <<epoch, ledger, admitted>>
      BY <1>5 DEF RefuseSequence
    <2>2. EpochInv'
      BY <1>1, <2>1 DEF IInv, EpochInv
    <2>3. kind \in Kinds /\ kind # "transport_error" /\ kind \notin Consuming
      BY DEF Kinds, SessionRejections, Consuming
    <2> HIDE DEF kind
    <2>4. ~f.attached
      <3>1. SUFFICES ASSUME f.attached PROVE FALSE
        OBVIOUS
      <3>2. pinned = epoch /\ f.req.seq = nextSeq
        BY <1>1, <2>1, <2>3, <3>1, ReadFrame
      <3>3. ledger.req.seq = nextSeq
        BY <1>2, <2>1, <3>2 DEF IInv, EpochInv
      <3>4. [ep |-> epoch, req |-> ledger.req] \in admitted
        BY <1>2, <3>3, EmptyLedgerType, NoReqType DEF IInv, EpochInv
      <3>5. ledger.req \in Outstanding /\ f.req \in Outstanding
        BY <3>2, <3>3, <3>4 DEF Outstanding
      <3> QED BY <2>1, <3>5 DEF IInv, AgreementInv, Claims
    <2> QED BY <1>1, <2>1, <2>2, <2>3, <2>4, AfterRead
  <1>6. CASE RefuseAdmission(f)
    <2>1. PICK kind \in {"unadmitted", "transport_error"} : Reply(f, kind)
      BY <1>6 DEF RefuseAdmission
    <2>2. UNCHANGED <<epoch, ledger, admitted>>
      BY <1>6 DEF RefuseAdmission
    <2>3. EpochInv'
      BY <1>1, <2>2 DEF IInv, EpochInv
    <2>4. kind \in Kinds /\ kind \notin {"none", "hello", "gap", "conflict"}
          /\ kind \notin Consuming
      BY DEF Kinds, SessionRejections, Consuming
    <2> QED BY <1>1, <2>1, <2>2, <2>3, <2>4, AfterRead
  <1> QED BY <1>0, <1>3, <1>4, <1>5, <1>6

LEMMA RestartStep ==
    ASSUME IInv, TypeOK', Restart
    PROVE  IInv'
  <1>0. /\ epoch' = epoch + 1 /\ ledger' = EmptyLedger /\ wire' = {} /\ stream' # "ready"
        /\ inbox' \in {inbox, NoAnswer}
        /\ UNCHANGED <<nextSeq, pending, invalid, pinned, lock, pc, cur, mode, admitted>>
    BY DEF Restart, NewEpoch
  <1>1. epoch \in Nat \ {0} /\ pinned \in Nat /\ nextSeq \in Nat \ {0}
    BY DEF IInv, TypeOK, ServerTypeOK
  <1>2. LockInv' /\ TokenInv'
    BY <1>0 DEF IInv, LockInv, TokenInv
  <1>3. AgreementInv' /\ Outstanding' \subseteq Outstanding
    <2>1. \A u \in Tasks : InPlay(u)' => cur'[u] \in Claims
      BY <1>0 DEF InPlay, Claims
    <2> QED BY <1>0, <2>1, ClaimsShrink DEF IInv, Claims
  <1>4. WireInv'
    BY <1>0 DEF WireInv
  <1>5. InboxInv' /\ SessionSync'
    <2>1. CASE inbox' = NoAnswer
      BY <2>1, NoAnswerWaits
    <2>2. CASE inbox' = inbox
      BY <1>0, <1>1, <1>3, <2>2 DEF IInv, InboxInv, SessionSync
    <2> QED BY <1>0, <2>1, <2>2
  <1>6. EpochInv'
    <2>1. \A x \in admitted : x.ep \in 1 .. epoch /\ x.req.seq \in 1 .. nextSeq
      BY DEF IInv, EpochInv
    <2> QED BY <1>0, <1>1, <2>1, EmptyLedgerType, NoReqType DEF IInv, EpochInv
  <1>7. NoLostExecution'
    BY <1>0, <1>3 DEF IInv, NoLostExecution
  <1> QED BY <1>2, <1>3, <1>4, <1>5, <1>6, <1>7 DEF IInv

LEMMA StreamDiesStep ==
    ASSUME IInv, TypeOK', StreamDies
    PROVE  IInv'
  <1>0. /\ wire' = Detached /\ stream' = "dead" /\ inbox' \in {inbox, NoAnswer}
        /\ UNCHANGED <<nextSeq, pending, invalid, pinned, lock, pc, cur, mode,
                       epoch, ledger, admitted>>
    BY DEF StreamDies
  <1>1. \A f \in wire' : ~f.attached /\ \E g \in wire : f.req = g.req
    BY <1>0, DetachedType DEF IInv, TypeOK, ServerTypeOK
  <1>2. LockInv' /\ TokenInv'
    BY <1>0 DEF IInv, LockInv, TokenInv
  <1>3. AgreementInv' /\ Outstanding' \subseteq Outstanding
    <2>1. \A u \in Tasks : InPlay(u)' => cur'[u] \in Claims
      BY <1>0 DEF InPlay, Claims
    <2> QED BY <1>0, <1>1, <2>1, ClaimsShrink DEF IInv, Claims
  <1>4. WireInv'
    BY <1>0, <1>1 DEF IInv, WireInv
  <1>5. InboxInv' /\ SessionSync'
    <2>1. CASE inbox' = NoAnswer
      BY <2>1, NoAnswerWaits
    <2>2. CASE inbox' = inbox
      <3>1. wire = {} => wire' = {}
        BY <1>1
      <3> QED BY <1>0, <1>3, <2>2, <3>1 DEF IInv, InboxInv, SessionSync
    <2> QED BY <1>0, <2>1, <2>2
  <1>6. EpochInv'
    BY <1>0 DEF IInv, EpochInv
  <1>7. NoLostExecution'
    BY <1>0, <1>3 DEF IInv, NoLostExecution
  <1> QED BY <1>2, <1>3, <1>4, <1>5, <1>6, <1>7 DEF IInv

LEMMA StutterStep ==
    ASSUME IInv, UNCHANGED vars
    PROVE  IInv'
  <1> USE DEF vars, clientVars, serverVars
  <1>1. TypeOK' /\ LockInv' /\ TokenInv'
    BY DEF IInv, TypeOK, ServerTypeOK, LockInv, TokenInv
  <1>2. AgreementInv'
    BY DEF IInv, AgreementInv, Claims, InPlay, Outstanding
  <1>3. WireInv' /\ InboxInv' /\ EpochInv'
    BY DEF IInv, WireInv, InboxInv, EpochInv, Outstanding
  <1>4. SessionSync' /\ NoLostExecution'
    BY DEF IInv, SessionSync, NoLostExecution, Outstanding
  <1> QED BY <1>1, <1>2, <1>3, <1>4 DEF IInv

LEMMA InitIInv == Init => IInv
  <1> SUFFICES ASSUME Init PROVE IInv
    OBVIOUS
  <1>1. TypeOK
    BY InitType
  <1>2. /\ nextSeq = 1 /\ pending = NoReq /\ lock \notin Tasks /\ pinned = 0
        /\ stream = "none" /\ wire = {} /\ admitted = {} /\ epoch = 1
        /\ ledger = EmptyLedger /\ inbox = NoAnswer
        /\ \A t \in Tasks : pc[t] = "idle" /\ cur[t] = NoReq /\ mode[t] = "fresh"
    BY ConstantsAssumption DEF Init, StartAt, ServerInit
  <1>3. LockInv /\ TokenInv
    BY <1>2 DEF LockInv, TokenInv
  <1>4. AgreementInv
    <2>1. Claims = {}
      BY <1>2 DEF Claims, InPlay, Outstanding
    <2> QED BY <1>2, <2>1 DEF AgreementInv
  <1>5. WireInv /\ InboxInv /\ SessionSync
    BY <1>2, NoAnswerType DEF WireInv, InboxInv, SessionSync, Consuming
  <1>6. EpochInv
    BY <1>2, EmptyLedgerType, NoReqType DEF EpochInv
  <1>7. NoLostExecution
    BY <1>2 DEF NoLostExecution, Outstanding
  <1> QED BY <1>1, <1>3, <1>4, <1>5, <1>6, <1>7 DEF IInv

LEMMA IInvStep == IInv /\ [Next]_vars => IInv'
  <1> SUFFICES ASSUME IInv, [Next]_vars PROVE IInv'
    OBVIOUS
  <1>0. TypeOK'
    BY TypeStep DEF IInv
  <1>1. ASSUME NEW t \in Tasks, CallFresh(t) \/ CallRetry(t) \/ Close(t) PROVE IInv'
    BY <1>0, <1>1, QueueStep, CloseStep
  <1>2. ASSUME NEW t \in Tasks, Begin(t) PROVE IInv'
    BY <1>0, <1>2, QueueStep, BeginFreshStep, BeginRetryStep, RetryOutdatedStep DEF Begin
  <1>3. ASSUME NEW t \in Tasks, Exchange(t) PROVE IInv'
    BY <1>0, <1>3, HelloStep, NotSentStep, WriteStep, UncertainStep,
       RefusedStep, ConsumedStep, TransportRejectedStep
       DEF Exchange
  <1>4. ASSUME NEW t \in Tasks, Interrupt(t) PROVE IInv'
    BY <1>0, <1>4, NotSentStep, UncertainStep DEF Interrupt
  <1>5. CASE RlReads \/ Restart \/ StreamDies
    BY <1>0, <1>5, RlReadsStep, RestartStep, StreamDiesStep
  <1>6. CASE UNCHANGED vars
    BY <1>6, StutterStep
  <1> QED BY <1>1, <1>2, <1>3, <1>4, <1>5, <1>6 DEF Next

(***************************************************************************)
(* The conjunction IInv holds in every reachable state: lock discipline of *)
(* the client's tasks, one payload per sequence, and ledger, frames and    *)
(* answers in step with the pinned RL process.                             *)
(***************************************************************************)
THEOREM SessionInvariant == Spec => []IInv
  <1> QED BY InitIInv, IInvStep, PTL DEF Spec

(***************************************************************************)
(* RL never answers this client with a sequence gap or conflict, for any   *)
(* number of tasks, faults and restarts: _NON_CONSUMING_SESSION_REJECTIONS *)
(* of those two kinds are a backstop of _execute.                          *)
(***************************************************************************)
THEOREM NeverDesynchronised == Spec => []SessionSync
  <1>1. IInv => SessionSync
    BY DEF IInv
  <1> QED BY <1>1, SessionInvariant, PTL

(***************************************************************************)
(* While the session is valid, a request of the next sequence that RL has  *)
(* executed or may still read is the pending retry or is being waited for: *)
(* _remember_pending covers every uncertain way out of _execute.           *)
(***************************************************************************)
THEOREM NothingLost == Spec => []NoLostExecution
  <1>1. IInv => NoLostExecution
    BY DEF IInv
  <1> QED BY <1>1, SessionInvariant, PTL

-----------------------------------------------------------------------------
(* The refinement of AtMostOnceSession.                                    *)

\* RL executes only the next sequence, and not twice in one process.
LEMMA AdmitExecutes ==
    ASSUME IInv, IInv', RlReads, NEW f \in wire, Admit(f)
    PROVE  AtMostOnce!Next
  <1> DEFINE x == [ep |-> epoch, req |-> f.req]
  <1>1. /\ epoch \in Nat \ {0} /\ ledger.req.seq \in Nat /\ nextSeq \in Nat \ {0}
        /\ f.req.seq \in 1 .. nextSeq /\ pinned \in Nat /\ nextSeq' = nextSeq
    BY DEF IInv, TypeOK, ServerTypeOK, Request, WireInv, RlReads
  <1>2. /\ f.req.seq = ledger.req.seq + 1
        /\ admitted' = admitted \cup {x}
    BY DEF Admit
  <1>3. f.req.seq = nextSeq
    BY <1>1, <1>2 DEF IInv, WireInv, EpochInv
  <1>4. \A y \in admitted : y.req.seq = x.req.seq => y.req = x.req /\ y.ep # x.ep
    <2> TAKE y \in admitted
    <2> HAVE y.req.seq = x.req.seq
    <2>1. y.req = x.req
      BY <1>2 DEF IInv, AgreementInv
    <2>2. y.ep # epoch
      BY <1>1, <1>2 DEF IInv, EpochInv
    <2> QED BY <2>1, <2>2
  <1>5. x \in admitted' /\ x.req.seq = (nextSeq - 1) + 1
    BY <1>1, <1>2, <1>3
  <1>6. AtMostOnce!Execute(x)
    BY <1>1, <1>2, <1>4, <1>5 DEF AtMostOnce!Execute
  <1> QED BY <1>5, <1>6 DEF AtMostOnce!Next

\* The client consumes only a sequence that RL has executed.
LEMMA ConsumedAcknowledges ==
    ASSUME IInv, NEW t \in Tasks, Consumed(t) \/ ConsumedFatal(t)
    PROVE  AtMostOnce!Next
  <1>1. /\ Answered(t) /\ inbox.kind \in Consuming /\ nextSeq' = nextSeq + 1
        /\ admitted' = admitted /\ nextSeq \in Nat \ {0}
    BY DEF Consumed, ConsumedFatal, Consuming, IInv, TypeOK
  <1>2. inbox.req = cur[t] /\ lock = t
    BY <1>1, Awaiting DEF Answered
  <1>3. [ep |-> pinned, req |-> cur[t]] \in admitted /\ cur[t].seq = (nextSeq - 1) + 1
    BY <1>1, <1>2 DEF IInv, InboxInv, TokenInv
  <1>4. AtMostOnce!Acknowledge
    BY <1>1, <1>3 DEF AtMostOnce!Acknowledge
  <1> QED BY <1>4 DEF AtMostOnce!Next

LEMMA RefinementStep ==
    ASSUME IInv, IInv', [Next]_vars
    PROVE  [AtMostOnce!Next]_<<admitted, nextSeq - 1>>
  <1>1. ASSUME NEW t \in Tasks, CallFresh(t) \/ CallRetry(t) \/ Close(t) \/ Begin(t)
        PROVE  UNCHANGED <<admitted, nextSeq>>
    BY <1>1 DEF CallFresh, CallRetry, Close, Begin, CallRefused, BeginFresh, BeginRetry,
                RetryOutdated, serverVars
  <1>2. ASSUME NEW t \in Tasks, Interrupt(t)
        PROVE  UNCHANGED <<admitted, nextSeq>>
    BY <1>2 DEF Interrupt, ConnectFails, NotSent, HelloInterrupted, Uncertain, Forget,
                serverVars
  <1>3. ASSUME NEW t \in Tasks, Exchange(t), ~(Consumed(t) \/ ConsumedFatal(t))
        PROVE  UNCHANGED <<admitted, nextSeq>>
    BY <1>3 DEF Exchange, Hello, HelloChanged, ConnectClosed, NotSent, Write, Timeout,
                HelloAsAnswer, Forget, EpochChanged, SessionRejected, TransportRejected,
                serverVars
  <1>4. CASE RlReads
    <2>1. PICK f \in wire : Admit(f) \/ Replay(f) \/ RefuseSequence(f) \/ RefuseAdmission(f)
      BY <1>4 DEF RlReads
    <2>2. CASE Admit(f)
      BY <1>4, <2>2, AdmitExecutes
    <2>3. CASE ~Admit(f)
      BY <1>4, <2>1, <2>3 DEF RlReads, Replay, RefuseSequence, RefuseAdmission
    <2> QED BY <2>2, <2>3
  <1>5. CASE Restart \/ StreamDies \/ UNCHANGED vars
    BY <1>5 DEF Restart, NewEpoch, StreamDies, vars, clientVars, serverVars
  <1> QED BY <1>1, <1>2, <1>3, <1>4, <1>5, ConsumedAcknowledges DEF Next

(***************************************************************************)
(* The client with its RL implements AtMostOnceSession: one payload per    *)
(* sequence, executed at most once and in order by a process, acknowledged *)
(* only after an execution.                                                *)
(***************************************************************************)
THEOREM AtMostOnceRefinement == Spec => AtMostOnceSpec
  <1>1. Init => AtMostOnce!Init
    BY DEF Init, StartAt, ServerInit, AtMostOnce!Init
  <1>2. IInv /\ IInv' /\ [Next]_vars => [AtMostOnce!Next]_<<admitted, nextSeq - 1>>
    BY RefinementStep
  <1> QED BY <1>1, <1>2, SessionInvariant, PTL DEF Spec, AtMostOnceSpec, AtMostOnce!Spec

-----------------------------------------------------------------------------
(* A replay releases what was deferred to it: ReplayReleases, for any number of
   tasks, faults and restarts.  It only speaks of states in which nothing is
   pending, and is kept because, in between, a deferred branch that RL may still
   hold is named in the cleanup record, the record belongs to the pending token,
   and a release takes the record's branches along.                        *)

\* An emulate names the branch it creates after its own sequence, and there is none
\* before an instance has been started.
Named(r) == r.op = "emulate" => r.branches = {r.seq} /\ r.seq > 1

RequestInv ==
    /\ active => nextSeq > 1
    /\ Named(pending) /\ Named(ledger.req) /\ Named(inbox.req)
    /\ \A f \in wire : Named(f.req)
    /\ \A t \in Tasks : Named(cur[t]) /\ (mode[t] = "cleanup" => cur[t].op = "release")

\* What RL holds was created by a request it has admitted, and not by a rejected one;
\* what it has been asked to release it was asked by an admitted one.
BranchInv ==
    /\ \A b \in live : b <= ledger.req.seq
    /\ (ledger.kind = "rejected" /\ ledger.req.op = "emulate") => ledger.req.seq \notin live
    /\ (inbox.kind = "rejected" /\ inbox.req.op = "emulate" /\ inbox.ep = epoch) =>
          inbox.req.seq \notin live
    /\ \A x \in admitted : x.req.op = "release" => x.req.branches \subseteq asked

\* The record of deferred branches belongs to the pending token, or to one that is over.
RecordInv ==
    /\ cleanup.tok.seq < nextSeq \/ cleanup.tok = pending
    /\ (pending # NoReq /\ cleanup.tok = pending) =>
          \/ pending.op = "emulate"
          \/ pending.op = "release" /\ pending.branches = cleanup.branches

\* A deferred branch that RL holds or may yet create has been asked for, or the record
\* of the pending token names it.
Recorded(b) == pending # NoReq /\ cleanup.tok = pending /\ b \in cleanup.branches

DeferredInv ==
    /\ pinned = 0 => deferred = {}
    /\ (~invalid /\ pinned = epoch) =>
          \A b \in deferred : b \in live \/ b >= nextSeq => b \in asked \/ Recorded(b)

ReplayInv == IInv /\ RequestInv /\ BranchInv /\ RecordInv /\ DeferredInv

-----------------------------------------------------------------------------
(* What a step does to requests.                                           *)

LEMMA NamedNoReq == Named(NoReq)
  BY DEF Named, NoReq

\* A request that is built, or a record's release, is named as it should be.
LEMMA FreshNamed ==
    ASSUME RequestInv, NEW op \in FreshOps, NEW i, NEW bs \in FreshBranches(op)
    PROVE  Named([seq |-> nextSeq, op |-> op, id |-> i, branches |-> bs])
  BY DEF Named, RequestInv, FreshOps, FreshBranches

LEMMA DetachedNamed ==
    ASSUME TypeOK, \A f \in wire : Named(f.req)
    PROVE  \A f \in Detached : Named(f.req)
  <1> TAKE f \in Detached
  <1>1. PICK g \in wire : f.req = g.req
    BY DetachedType DEF TypeOK, ServerTypeOK
  <1> QED BY <1>1

LEMMA RequestClientStep ==
    ASSUME IInv, RequestInv, NEW t \in Tasks,
           CallFresh(t) \/ CallRetry(t) \/ Close(t) \/ Begin(t)
    PROVE  RequestInv'
  <1> USE NamedNoReq, NoAnswerType DEF RequestInv
  <1>0. TypeOK
    BY DEF IInv
  <1>1. CASE CallFresh(t)
    BY <1>1 DEF CallFresh, serverVars, Named
  <1>2. CASE CallRetry(t)
    BY <1>0, <1>2 DEF CallRetry, serverVars, Named, TypeOK
  <1>3. CASE Close(t)
    BY <1>0, <1>3, DetachedNamed DEF Close, Disconnect, Named
  <1>4. CASE CallRefused(t)
    BY <1>0, <1>4 DEF CallRefused, serverVars, Named, TypeOK
  <1>5. CASE BeginFresh(t)
    <2>1. PICK op \in FreshOps, i \in Payloads : \E bs \in FreshBranches(op) :
             cur' = [cur EXCEPT ![t] =
                       [seq |-> nextSeq, op |-> op, id |-> i, branches |-> bs]]
      BY <1>5 DEF BeginFresh
    <2>2. PICK bs \in FreshBranches(op) :
             cur' = [cur EXCEPT ![t] =
                       [seq |-> nextSeq, op |-> op, id |-> i, branches |-> bs]]
      BY <2>1
    <2>3. Named([seq |-> nextSeq, op |-> op, id |-> i, branches |-> bs])
      BY FreshNamed
    <2>4. mode[t] = "fresh" /\ mode' = mode
      BY <1>5 DEF BeginFresh
    <2>5. \A u \in Tasks : Named(cur'[u]) /\ (mode'[u] = "cleanup" => cur'[u].op = "release")
      BY <1>0, <2>2, <2>3, <2>4 DEF TypeOK
    <2>6. UNCHANGED <<nextSeq, pending, active, ledger, inbox, wire>>
      BY <1>5 DEF BeginFresh, serverVars
    <2> QED BY <2>5, <2>6 DEF Named
  <1>6. CASE BeginRetry(t)
    BY <1>6 DEF BeginRetry, serverVars, Named
  <1>7. CASE RetryOutdated(t)
    BY <1>0, <1>7 DEF RetryOutdated, Finish, serverVars, Named, TypeOK
  <1> QED BY <1>1, <1>2, <1>3, <1>4, <1>5, <1>6, <1>7 DEF Begin

\* A call that returns without an answer that consumes its sequence.
LEMMA RequestReturn ==
    ASSUME IInv, RequestInv, NEW t \in Tasks, Finish(t),
           pending' \in {pending, NoReq, cur[t]}, inbox' \in {inbox, NoAnswer},
           wire' \in {wire, Detached}, UNCHANGED <<nextSeq, active, ledger>>
    PROVE  RequestInv'
  <1>0. TypeOK
    BY DEF IInv
  <1>1. Named(pending') /\ Named(inbox'.req) /\ \A f \in wire' : Named(f.req)
    BY <1>0, NamedNoReq, NoAnswerType, DetachedNamed DEF RequestInv
  <1>2. \A u \in Tasks : Named(cur'[u]) /\ (mode'[u] = "cleanup" => cur'[u].op = "release")
    BY <1>0, NamedNoReq DEF RequestInv, Finish, TypeOK
  <1> QED BY <1>1, <1>2 DEF RequestInv, Named

\* An answer that consumes the sequence of the task that waits for it.
LEMMA RequestConsumed ==
    ASSUME IInv, IInv', RequestInv, NEW t \in Tasks, Consumed(t) \/ ConsumedFatal(t)
    PROVE  RequestInv'
  <1> USE NamedNoReq, NoAnswerType
  <1>0. TypeOK /\ TypeOK'
    BY DEF IInv
  <1>1. /\ nextSeq' = nextSeq + 1 /\ nextSeq \in Nat \ {0} /\ inbox' = NoAnswer
        /\ UNCHANGED <<ledger, wire>>
    BY <1>0 DEF Consumed, ConsumedFatal, Answered, TypeOK
  <1>2. Named(ledger'.req) /\ Named(inbox'.req) /\ \A f \in wire' : Named(f.req)
    BY <1>1 DEF RequestInv
  <1>3. CASE Finish(t) /\ pending' = NoReq
    <2>1. \A u \in Tasks : Named(cur'[u]) /\ (mode'[u] = "cleanup" => cur'[u].op = "release")
      BY <1>0, <1>3 DEF RequestInv, Finish, TypeOK
    <2> QED BY <1>1, <1>2, <1>3, <2>1 DEF RequestInv, Named
  <1>4. CASE ~(Finish(t) /\ pending' = NoReq)
    <2>1. CleanupAfter(t, inbox.kind # "rejected")
      BY <1>4 DEF Consumed, ConsumedFatal, Invalidate
    <2>2. PICK bs : LET tok == [seq |-> nextSeq', op |-> "release", id |-> 0, branches |-> bs]
                    IN  /\ pending' = tok
                        /\ cur' = [cur EXCEPT ![t] = tok]
                        /\ mode' = [mode EXCEPT ![t] = "cleanup"]
      BY <1>4, <2>1 DEF CleanupAfter
    <2>3. Named([seq |-> nextSeq', op |-> "release", id |-> 0, branches |-> bs])
      BY DEF Named
    <2>4. \A u \in Tasks : Named(cur'[u]) /\ (mode'[u] = "cleanup" => cur'[u].op = "release")
      BY <1>0, <2>2, <2>3 DEF RequestInv, TypeOK
    <2> QED BY <1>1, <1>2, <2>2, <2>3, <2>4 DEF RequestInv, Named
  <1> QED BY <1>3, <1>4

LEMMA RequestExchangeStep ==
    ASSUME IInv, IInv', RequestInv, NEW t \in Tasks, Exchange(t) \/ Interrupt(t)
    PROVE  RequestInv'
  <1> USE NamedNoReq, NoAnswerType
  <1>1. CASE Hello(t)
    BY <1>1 DEF Hello, serverVars, RequestInv, Named
  <1>2. CASE Write(t)
    <2>1. UNCHANGED <<nextSeq, pending, active, ledger, cur, mode>>
      BY <1>2 DEF Write
    <2>2. Named(inbox'.req)
      BY <1>2 DEF Write
    <2>3. \A f \in wire' : Named(f.req)
      BY <1>2 DEF Write, RequestInv
    <2> QED BY <2>1, <2>2, <2>3 DEF RequestInv, Named
  <1>3. CASE Consumed(t) \/ ConsumedFatal(t)
    BY <1>3, RequestConsumed
  <1>4. CASE \/ HelloChanged(t) \/ ConnectClosed(t) \/ ConnectFails(t) \/ HelloInterrupted(t)
             \/ EpochChanged(t) \/ SessionRejected(t) \/ TransportRejected(t)
    <2>1. /\ Finish(t) /\ pending' \in {pending, NoReq} /\ inbox' \in {inbox, NoAnswer}
          /\ wire' \in {wire, Detached} /\ UNCHANGED <<nextSeq, active, ledger>>
      BY <1>4 DEF HelloChanged, ConnectClosed, ConnectFails, NotSent, HelloInterrupted,
                  EpochChanged, SessionRejected, TransportRejected, Answered, Invalidate,
                  serverVars
    <2> QED BY <2>1, RequestReturn
  <1>5. CASE Uncertain(t) \/ Timeout(t) \/ HelloAsAnswer(t)
    <2>1. /\ Finish(t) /\ pending' = cur[t] /\ inbox' = NoAnswer
          /\ wire' = Detached /\ UNCHANGED <<nextSeq, active, ledger>>
      BY <1>5 DEF Uncertain, Timeout, HelloAsAnswer, Forget, Disconnect
    <2> QED BY <2>1, RequestReturn
  <1> QED BY <1>1, <1>2, <1>3, <1>4, <1>5 DEF Exchange, Interrupt

LEMMA RequestServerStep ==
    ASSUME IInv, RequestInv, RlReads \/ Restart \/ StreamDies
    PROVE  RequestInv'
  <1> USE NamedNoReq, NoAnswerType, EmptyLedgerType
  <1>0. UNCHANGED <<nextSeq, pending, active, cur, mode>>
    BY DEF RlReads, Restart, StreamDies
  <1>1. /\ Named(ledger'.req) /\ Named(inbox'.req) /\ \A f \in wire' : Named(f.req)
    <2>1. CASE RlReads
      <3>1. PICK f \in wire : Admit(f) \/ Replay(f) \/ RefuseSequence(f) \/ RefuseAdmission(f)
        BY <2>1 DEF RlReads
      <3>2. PICK kind : Reply(f, kind)
        BY <3>1 DEF Admit, Replay, RefuseSequence, RefuseAdmission
      <3>3. ledger'.req \in {f.req, ledger.req}
        BY <3>1 DEF Admit, Replay, RefuseSequence, RefuseAdmission
      <3> QED BY <3>2, <3>3 DEF Reply, RequestInv
    <2>2. CASE Restart
      BY <2>2 DEF Restart, NewEpoch, RequestInv
    <2>3. CASE StreamDies
      <3>1. \A f \in wire' : Named(f.req)
        BY <2>3, DetachedNamed DEF StreamDies, RequestInv, IInv
      <3> QED BY <2>3, <3>1 DEF StreamDies, RequestInv
    <2> QED BY <2>1, <2>2, <2>3
  <1> QED BY <1>0, <1>1 DEF RequestInv, Named

-----------------------------------------------------------------------------
(* What a step does to the branches RL holds.                              *)

\* Only RL changes what it holds and has been asked; the client only takes
\* answers, or finds that of an unread hello.
LEMMA BranchClientStep ==
    ASSUME BranchInv, UNCHANGED <<live, ledger, epoch, admitted, asked>>,
           inbox' = inbox \/ inbox'.kind # "rejected"
    PROVE  BranchInv'
  BY DEF BranchInv

LEMMA BranchAdmit ==
    ASSUME IInv, IInv', RequestInv, BranchInv, NEW f \in wire, Admit(f),
           UNCHANGED pinned
    PROVE  BranchInv'
  <1>0. /\ ledger.req.seq \in Nat /\ f.req.seq = ledger.req.seq + 1 /\ epoch' = epoch
        /\ live \subseteq Nat /\ Named(f.req)
        /\ admitted' = admitted \cup {[ep |-> epoch, req |-> f.req]}
    BY DEF Admit, IInv, TypeOK, ServerTypeOK, Request, RequestInv
  <1>1. PICK kind \in Consuming : 
          /\ Reply(f, kind)
          /\ ledger' = [req |-> f.req, kind |-> kind]
          /\ \E bs \in Created(f.req, kind) : live' = (live \cup bs) \ Removed(f.req, kind)
    BY DEF Admit
  <1>2. /\ live' \subseteq live \cup {f.req.seq}
        /\ kind = "rejected" => live' \subseteq live
    BY <1>0, <1>1 DEF Created, Named
  <1>3. f.req.seq \notin live
    BY <1>0 DEF BranchInv
  <1>4. \A b \in live' : b <= ledger'.req.seq
    <2> TAKE b \in live'
    <2>1. b \in Nat /\ (b <= ledger.req.seq \/ b = f.req.seq)
      BY <1>0, <1>2 DEF BranchInv
    <2>2. ledger'.req.seq = ledger.req.seq + 1
      BY <1>0, <1>1
    <2> QED BY <1>0, <2>1, <2>2
  <1>5. (ledger'.kind = "rejected" /\ ledger'.req.op = "emulate") => ledger'.req.seq \notin live'
    BY <1>1, <1>2, <1>3
  <1>6. (inbox'.kind = "rejected" /\ inbox'.req.op = "emulate" /\ inbox'.ep = epoch') =>
           inbox'.req.seq \notin live'
    <2>1. CASE f.attached
      BY <1>1, <1>2, <1>3, <2>1 DEF Reply
    <2>2. CASE ~f.attached
      <3>1. inbox' = inbox
        BY <1>1, <2>2 DEF Reply
      <3>2. SUFFICES ASSUME inbox.kind = "rejected", inbox.req.op = "emulate", inbox.ep = epoch
                     PROVE  inbox.req.seq \notin live'
        BY <1>0, <3>1
      <3>3. [ep |-> epoch, req |-> inbox.req] \in admitted
        BY <3>2 DEF IInv, InboxInv, Consuming
      <3>4. inbox.req.seq <= ledger.req.seq
        BY <3>3 DEF IInv, EpochInv
      <3>5. inbox.req.seq # f.req.seq
        BY <1>0, <3>4 DEF IInv, TypeOK, ServerTypeOK, Answer, Request
      <3> QED BY <1>2, <3>2, <3>5 DEF BranchInv
    <2> QED BY <2>1, <2>2
  <1>7. \A x \in admitted' : x.req.op = "release" => x.req.branches \subseteq asked'
    BY <1>0 DEF Admit, BranchInv
  <1> QED BY <1>4, <1>5, <1>6, <1>7 DEF BranchInv

LEMMA BranchServerStep ==
    ASSUME IInv, IInv', RequestInv, BranchInv, RlReads \/ Restart \/ StreamDies
    PROVE  BranchInv'
  <1>1. CASE RlReads
    <2>0. PICK f \in wire : Admit(f) \/ Replay(f) \/ RefuseSequence(f) \/ RefuseAdmission(f)
      BY <1>1 DEF RlReads
    <2>1. CASE Admit(f)
      BY <1>1, <2>1, BranchAdmit DEF RlReads
    <2>2. CASE Replay(f)
      BY <2>2 DEF Replay, Reply, BranchInv
    <2>3. CASE RefuseSequence(f) \/ RefuseAdmission(f)
      <3>1. UNCHANGED <<live, ledger, epoch, admitted, asked>>
        BY <2>3 DEF RefuseSequence, RefuseAdmission
      <3>2. inbox' = inbox \/ inbox'.kind # "rejected"
        BY <2>3 DEF RefuseSequence, RefuseAdmission, Reply
      <3> QED BY <3>1, <3>2, BranchClientStep
    <2> QED BY <2>0, <2>1, <2>2, <2>3
  <1>2. CASE Restart
    BY <1>2, EmptyLedgerType DEF Restart, NewEpoch, BranchInv
  <1>3. CASE StreamDies
    BY <1>3, NoAnswerType, BranchClientStep DEF StreamDies
  <1> QED BY <1>1, <1>2, <1>3

-----------------------------------------------------------------------------
(* What a step does to the record and to the deferred branches.            *)

\* The record's token is the pending one, or one that is over.
LEMMA RecordBounds ==
    ASSUME IInv, RecordInv
    PROVE  /\ nextSeq \in Nat \ {0} /\ cleanup.tok.seq \in Nat
           /\ cleanup.tok.seq <= nextSeq
           /\ cleanup.tok.seq = nextSeq => cleanup.tok = pending
  BY NoReqType DEF IInv, TypeOK, TokenInv, RecordInv, Record, Request

\* A step of which the record, the token and the deferred branches see nothing.
LEMMA DeferralUntouched ==
    ASSUME RecordInv, DeferredInv,
           UNCHANGED <<pinned, epoch, deferred, invalid, nextSeq, pending, cleanup, live, asked>>
    PROVE  RecordInv' /\ DeferredInv'
  BY DEF RecordInv, DeferredInv, Recorded

\* The session ends: no record is left, and nothing is promised any more.
LEMMA DeferralInvalidated ==
    ASSUME IInv, IInv', DeferredInv, Invalidate, UNCHANGED <<pinned, deferred>>
    PROVE  RecordInv' /\ DeferredInv'
  BY NoReqType, NoRecordType DEF Invalidate, RecordInv, DeferredInv, IInv, TypeOK

\* A replay that succeeds and a stale record leave nothing to be pending.
LEMMA RecordCleared ==
    ASSUME IInv, IInv', RecordInv, nextSeq' = nextSeq + 1, pending' = NoReq,
           cleanup' \in {cleanup, NoRecord}
    PROVE  RecordInv'
  BY RecordBounds, NoReqType, NoRecordType DEF RecordInv

LEMMA DeferralHello ==
    ASSUME IInv, RecordInv, DeferredInv, NEW t \in Tasks, Hello(t)
    PROVE  RecordInv' /\ DeferredInv'
  <1>1. RecordInv'
    BY DEF Hello, RecordInv
  <1>2. CASE pinned = 0
    <2>1. deferred' = {}
      BY <1>2 DEF Hello, DeferredInv
    <2> QED BY <1>1, <2>1 DEF DeferredInv
  <1>3. CASE pinned = epoch
    BY <1>1, <1>3, DeferralUntouched DEF Hello, serverVars
  <1> QED BY <1>1, <1>2, <1>3 DEF Hello

\* The uncertain outcome becomes the pending token: what is deferred with it is in
\* its record, and what a record promised before is promised by the same token.
LEMMA DeferralForget ==
    ASSUME IInv, IInv', RequestInv, RecordInv, DeferredInv, NEW t \in Tasks, Forget(t),
           pinned' = pinned \/ (pinned = 0 /\ pinned' \in 1 .. epoch)
    PROVE  RecordInv' /\ DeferredInv'
  <1> DEFINE rec(own) == [tok |-> cur[t], branches |-> own \cup cur[t].branches]
  <1>0. /\ pending' = cur[t] /\ lock = t /\ cur[t].seq = nextSeq /\ cur[t] # NoReq
        /\ UNCHANGED <<nextSeq, invalid, epoch, live, asked>>
        /\ nextSeq \in Nat \ {0} /\ pending \in {NoReq, cur[t]} /\ Named(cur[t])
    BY Awaiting, NoReqType DEF Forget, IInv, TokenInv, TypeOK, RequestInv
  <1>1. \/ UNCHANGED <<cleanup, deferred>>
        \/ /\ mode[t] = "fresh" /\ cur[t].op = "emulate"
           /\ \E own \in SUBSET held : /\ cleanup' = rec(own)
                                       /\ deferred' = deferred \cup rec(own).branches
    BY DEF Forget, CallerDefers
  <1>2. CASE UNCHANGED <<cleanup, deferred>>
    <2>1. RecordInv'
      BY <1>0, <1>2, RecordBounds, NoReqType DEF RecordInv
    <2>2. pinned' = 0 => deferred' = {}
      BY <1>0, <1>2 DEF DeferredInv, IInv, TypeOK
    <2>3. ASSUME ~invalid', pinned' = epoch', NEW b \in deferred', b \in live' \/ b >= nextSeq'
          PROVE  b \in asked' \/ Recorded(b)'
      <3>1. pinned = epoch
        BY <1>0, <1>2, <2>3 DEF DeferredInv
      <3>2. b \in asked \/ Recorded(b)
        BY <1>0, <1>2, <2>3, <3>1 DEF DeferredInv
      <3> QED BY <1>0, <1>2, <3>2 DEF Recorded
    <2> QED BY <2>1, <2>2, <2>3 DEF DeferredInv
  <1>3. CASE ~UNCHANGED <<cleanup, deferred>>
    <2>1. PICK own \in SUBSET held : /\ cleanup' = rec(own)
                                     /\ deferred' = deferred \cup rec(own).branches
      BY <1>1, <1>3
    <2>2. /\ mode[t] = "fresh" /\ cur[t].op = "emulate" /\ pending = NoReq /\ ~invalid
          /\ nextSeq > 1
      BY <1>0, <1>1, <1>3 DEF IInv, TokenInv, Named
    <2>3. RecordInv'
      BY <1>0, <2>1, <2>2 DEF RecordInv
    <2>4. pinned # 0 /\ pinned' = pinned /\ pinned' # 0
      BY <1>0, <2>2 DEF IInv, EpochInv, TypeOK
    <2>5. ASSUME pinned' = epoch', NEW b \in deferred', b \in live' \/ b >= nextSeq'
          PROVE  b \in asked' \/ Recorded(b)'
      <3>1. CASE b \in deferred
        BY <1>0, <2>2, <2>4, <2>5, <3>1 DEF DeferredInv, Recorded
      <3>2. CASE b \in rec(own).branches
        BY <1>0, <2>1, <3>2 DEF Recorded
      <3> QED BY <2>1, <2>5, <3>1, <3>2
    <2> QED BY <2>3, <2>4, <2>5 DEF DeferredInv
  <1> QED BY <1>2, <1>3

\* The release that a recorded token has become has been executed when it consumes
\* its sequence.
LEMMA RecordedReleased ==
    ASSUME IInv, BranchInv, RecordInv, NEW t \in Tasks, Answered(t),
           inbox.kind \in Consuming, ~invalid, NEW b, Recorded(b)
    PROVE  /\ pending = cur[t] /\ cleanup.tok = cur[t] /\ mode[t] # "fresh"
           /\ cur[t].op = "emulate" \/ b \in asked
  <1>1. /\ lock = t /\ inbox.req = cur[t]
        /\ [ep |-> pinned, req |-> cur[t]] \in admitted
    BY Awaiting DEF Answered, IInv, InboxInv
  <1>2. pending = cur[t] /\ cleanup.tok = cur[t] /\ mode[t] # "fresh"
    BY <1>1 DEF Recorded, IInv, TokenInv
  <1>3. cur[t].op = "release" => cur[t].branches \subseteq asked
    BY <1>1 DEF BranchInv
  <1> QED BY <1>2, <1>3 DEF Recorded, RecordInv

LEMMA DeferralConsumed ==
    ASSUME IInv, IInv', RequestInv, BranchInv, RecordInv, DeferredInv,
           NEW t \in Tasks, Consumed(t)
    PROVE  RecordInv' /\ DeferredInv'
  <1>0. /\ Answered(t) /\ inbox.kind \in {"completed", "rejected", "faulted"}
        /\ inbox.kind \in Consuming /\ inbox.kind # "fatal"
        /\ nextSeq' = nextSeq + 1 /\ nextSeq \in Nat \ {0} /\ deferred \subseteq Nat
        /\ UNCHANGED <<invalid, pinned, deferred, epoch, live, asked>>
    BY DEF Consumed, Consuming, IInv, TypeOK
  <1>1. /\ lock = t /\ inbox.req = cur[t] /\ inbox.ep = pinned
        /\ cur[t].seq = nextSeq /\ Named(cur[t])
        /\ mode[t] \in {"fresh", "retry", "cleanup"}
        /\ mode[t] = "cleanup" => cur[t].op = "release"
    BY <1>0, Awaiting DEF Answered, IInv, TokenInv, RequestInv, TypeOK, Modes
  <1>2. pinned' = 0 => deferred' = {}
    BY <1>0 DEF DeferredInv
  \* What was promised before the answer is asked for or recorded under the token.
  <1>3. ASSUME ~invalid, pinned = epoch, NEW b \in deferred, b \in live \/ b >= nextSeq'
        PROVE  b \in asked \/ Recorded(b)
    <2>1. b \in live \/ b >= nextSeq
      BY <1>0, <1>3
    <2> QED BY <1>3, <2>1 DEF DeferredInv
  <1>4. CASE ~TakesUp(t, inbox.kind)
    <2>1. pending' = NoReq /\ cleanup' \in {cleanup, NoRecord}
      BY <1>4 DEF Consumed, RecordAfter
    <2>2. RecordInv'
      BY <1>0, <2>1, RecordCleared
    <2>3. ASSUME ~invalid, pinned = epoch, NEW b \in deferred, b \in live \/ b >= nextSeq'
          PROVE  b \in asked
      <3>1. CASE Recorded(b)
        BY <1>0, <1>1, <1>4, <2>3, <3>1, RecordedReleased DEF TakesUp
      <3> QED BY <1>3, <2>3, <3>1
    <2> QED BY <1>0, <1>2, <2>2, <2>3 DEF DeferredInv
  <1>5. CASE TakesUp(t, inbox.kind)
    <2> DEFINE created == inbox.kind # "rejected"
               bs == ToRelease(t, created)
               tok == [seq |-> nextSeq', op |-> "release", id |-> 0, branches |-> bs]
    <2>0. CleanupAfter(t, created) /\ cur[t].op = "emulate" /\ mode[t] = "retry"
      BY <1>5 DEF Consumed, TakesUp
    \* A branch that is not taken along is one that a rejected emulate has not created.
    <2>1. ASSUME ~invalid, pinned = epoch, NEW b \in deferred, b \in live \/ b >= nextSeq',
                 Recorded(b)
          PROVE  b \in bs /\ cleanup.tok = cur[t]
      <3>1. cleanup.tok = cur[t] /\ b \in cleanup.branches
        BY <1>0, <2>1, RecordedReleased DEF Recorded
      <3>2. CASE created
        BY <3>1, <3>2 DEF ToRelease
      <3>3. CASE ~created
        <4>1. cur[t].branches = {nextSeq}
          BY <1>1, <2>0 DEF Named
        <4>2. nextSeq \notin live
          BY <1>0, <1>1, <2>0, <2>1, <3>3 DEF BranchInv
        <4>3. b # nextSeq
          BY <1>0, <2>1, <4>2
        <4> QED BY <3>1, <3>3, <4>1, <4>3 DEF ToRelease
      <3> QED BY <3>1, <3>2, <3>3
    <2>2. CASE cleanup.tok # cur[t] \/ bs = {}
      <3>1. pending' = NoReq /\ cleanup' \in {cleanup, NoRecord}
        BY <2>0, <2>2 DEF CleanupAfter
      <3>2. RecordInv'
        BY <1>0, <3>1, RecordCleared
      <3> QED BY <1>0, <1>2, <1>3, <2>1, <2>2, <3>2 DEF DeferredInv
    <2>3. CASE ~(cleanup.tok # cur[t] \/ bs = {})
      <3>1. cleanup' = [tok |-> tok, branches |-> bs] /\ pending' = tok
        BY <2>0, <2>3 DEF CleanupAfter
      <3>2. RecordInv'
        BY <3>1 DEF RecordInv
      <3>3. tok # NoReq
        BY DEF NoReq
      <3>4. \A b \in bs : Recorded(b)'
        BY <3>1, <3>3 DEF Recorded
      <3> QED BY <1>0, <1>2, <1>3, <2>1, <3>2, <3>4 DEF DeferredInv
    <2> QED BY <2>2, <2>3
  <1> QED BY <1>4, <1>5

\* A branch that appears is one whose emulate had not been executed yet.
LEMMA DeferralAdmit ==
    ASSUME IInv, RequestInv, RecordInv, DeferredInv, NEW f \in wire, Admit(f),
           UNCHANGED <<pinned, deferred, invalid, nextSeq, pending, cleanup>>
    PROVE  RecordInv' /\ DeferredInv'
  <1>0. /\ f.req.seq = ledger.req.seq + 1 /\ ledger.req.seq \in Nat /\ epoch' = epoch
        /\ nextSeq \in Nat \ {0} /\ Named(f.req) /\ asked \subseteq asked'
    BY DEF Admit, IInv, TypeOK, ServerTypeOK, Request, RequestInv
  <1>1. RecordInv'
    BY DEF RecordInv
  <1>2. live' \subseteq live \cup {f.req.seq}
    BY DEF Admit, Created, Named, RequestInv
  <1>3. pinned = epoch => f.req.seq >= nextSeq
    BY <1>0 DEF IInv, EpochInv
  <1>4. ASSUME ~invalid, pinned = epoch, NEW b \in deferred, b \in live' \/ b >= nextSeq
        PROVE  b \in asked' \/ Recorded(b)'
    <2>1. b \in live \/ b >= nextSeq
      BY <1>2, <1>3, <1>4
    <2>2. b \in asked \/ Recorded(b)
      BY <1>4, <2>1 DEF DeferredInv
    <2> QED BY <1>0, <2>2 DEF Recorded
  <1> QED BY <1>0, <1>1, <1>4 DEF DeferredInv

LEMMA DeferralServerStep ==
    ASSUME IInv, RequestInv, RecordInv, DeferredInv, RlReads \/ Restart \/ StreamDies
    PROVE  RecordInv' /\ DeferredInv'
  <1>0. UNCHANGED <<pinned, deferred, invalid, nextSeq, pending, cleanup>>
    BY DEF RlReads, Restart, StreamDies
  <1>1. CASE RlReads
    <2>0. PICK f \in wire : Admit(f) \/ Replay(f) \/ RefuseSequence(f) \/ RefuseAdmission(f)
      BY <1>1 DEF RlReads
    <2>1. CASE Admit(f)
      BY <1>0, <2>1, DeferralAdmit
    <2>2. CASE ~Admit(f)
      <3>1. UNCHANGED <<epoch, live, asked>>
        BY <2>0, <2>2 DEF Replay, RefuseSequence, RefuseAdmission
      <3> QED BY <1>0, <3>1, DeferralUntouched
    <2> QED BY <2>1, <2>2
  <1>2. CASE Restart
    <2>1. pinned' # epoch'
      BY <1>0, <1>2 DEF Restart, NewEpoch, IInv, EpochInv, TypeOK, ServerTypeOK
    <2> QED BY <1>0, <2>1 DEF RecordInv, DeferredInv
  <1>3. CASE StreamDies
    BY <1>0, <1>3, DeferralUntouched DEF StreamDies
  <1> QED BY <1>1, <1>2, <1>3

LEMMA DeferralClientStep ==
    ASSUME IInv, IInv', RequestInv, BranchInv, RecordInv, DeferredInv, NEW t \in Tasks,
           \/ CallFresh(t) \/ CallRetry(t) \/ Close(t)
           \/ Begin(t) \/ Exchange(t) \/ Interrupt(t)
    PROVE  RecordInv' /\ DeferredInv'
  <1>1. CASE CallFresh(t) \/ CallRetry(t) \/ Close(t) \/ Begin(t)
    BY <1>1, DeferralUntouched
       DEF CallFresh, CallRetry, Close, Begin, CallRefused, BeginFresh, BeginRetry,
           RetryOutdated, serverVars
  <1>2. CASE \/ ConnectClosed(t) \/ ConnectFails(t) \/ HelloInterrupted(t)
             \/ Write(t) \/ TransportRejected(t)
    BY <1>2, DeferralUntouched
       DEF ConnectClosed, ConnectFails, NotSent, HelloInterrupted, Write,
           TransportRejected, serverVars
  <1>3. CASE HelloChanged(t) \/ EpochChanged(t) \/ SessionRejected(t) \/ ConsumedFatal(t)
    BY <1>3, DeferralInvalidated
       DEF HelloChanged, EpochChanged, SessionRejected, ConsumedFatal
  <1>4. CASE Uncertain(t) \/ Timeout(t)
    BY <1>4, DeferralForget DEF Uncertain, Timeout
  <1>5. CASE HelloAsAnswer(t)
    <2>1. Forget(t) /\ pinned' = inbox.ep /\ pinned \in {0, inbox.ep} /\ inbox.ep \in 1 .. epoch
      BY <1>5 DEF HelloAsAnswer, IInv, InboxInv
    <2> QED BY <2>1, DeferralForget
  <1>6. CASE Hello(t)
    BY <1>6, DeferralHello
  <1>7. CASE Consumed(t)
    BY <1>7, DeferralConsumed
  <1> QED BY <1>1, <1>2, <1>3, <1>4, <1>5, <1>6, <1>7 DEF Exchange, Interrupt

-----------------------------------------------------------------------------
(* The theorem.                                                            *)

\* The client's steps leave what RL holds alone.
LEMMA BranchTaskStep ==
    ASSUME BranchInv, NEW t \in Tasks,
           \/ CallFresh(t) \/ CallRetry(t) \/ Close(t)
           \/ Begin(t) \/ Exchange(t) \/ Interrupt(t)
    PROVE  BranchInv'
  <1>1. UNCHANGED <<live, ledger, epoch, admitted, asked>>
    BY DEF CallFresh, CallRetry, Close, Begin, CallRefused, BeginFresh, BeginRetry,
           RetryOutdated, Exchange, Hello, HelloChanged, ConnectClosed, NotSent, Write,
           Timeout, HelloAsAnswer, Forget, EpochChanged, Consumed, ConsumedFatal,
           SessionRejected, TransportRejected, Interrupt, ConnectFails, HelloInterrupted,
           Uncertain, serverVars
  <1>2. inbox' = inbox \/ inbox' = NoAnswer \/ inbox'.kind = "hello"
    BY DEF CallFresh, CallRetry, Close, Begin, CallRefused, BeginFresh, BeginRetry,
           RetryOutdated, Exchange, Hello, HelloChanged, ConnectClosed, NotSent, Write,
           Timeout, HelloAsAnswer, Forget, Disconnect, EpochChanged, Answered, Consumed,
           ConsumedFatal, SessionRejected, TransportRejected, Interrupt, ConnectFails,
           HelloInterrupted, Uncertain, serverVars
  <1> QED BY <1>1, <1>2, NoAnswerType, BranchClientStep

LEMMA ReplayInvInit == Init => ReplayInv
  <1> SUFFICES ASSUME Init PROVE ReplayInv
    OBVIOUS
  <1>1. IInv
    BY InitIInv
  <1>2. /\ nextSeq = 1 /\ pending = NoReq /\ cleanup = NoRecord /\ active = FALSE
        /\ wire = {} /\ inbox = NoAnswer /\ ledger = EmptyLedger /\ live = {}
        /\ admitted = {} /\ deferred = {}
        /\ \A t \in Tasks : cur[t] = NoReq /\ mode[t] = "fresh"
    BY DEF Init, StartAt, ServerInit
  <1>3. RequestInv
    BY <1>2, NamedNoReq, NoAnswerType, EmptyLedgerType DEF RequestInv
  <1>4. BranchInv /\ RecordInv /\ DeferredInv
    BY <1>2, NoReqType, NoRecordType DEF BranchInv, RecordInv, DeferredInv
  <1> QED BY <1>1, <1>3, <1>4 DEF ReplayInv

LEMMA ReplayInvStep == ReplayInv /\ [Next]_vars => ReplayInv'
  <1> SUFFICES ASSUME ReplayInv, [Next]_vars PROVE ReplayInv'
    OBVIOUS
  <1>0. IInv /\ IInv' /\ RequestInv /\ BranchInv /\ RecordInv /\ DeferredInv
    BY IInvStep DEF ReplayInv
  <1>1. ASSUME NEW t \in Tasks,
               \/ CallFresh(t) \/ CallRetry(t) \/ Close(t)
               \/ Begin(t) \/ Exchange(t) \/ Interrupt(t)
        PROVE  ReplayInv'
    <2>1. RequestInv'
      BY <1>0, <1>1, RequestClientStep, RequestExchangeStep
    <2>2. BranchInv'
      BY <1>0, <1>1, BranchTaskStep
    <2>3. RecordInv' /\ DeferredInv'
      BY <1>0, <1>1, DeferralClientStep
    <2> QED BY <1>0, <2>1, <2>2, <2>3 DEF ReplayInv
  <1>2. CASE RlReads \/ Restart \/ StreamDies
    BY <1>0, <1>2, RequestServerStep, BranchServerStep, DeferralServerStep DEF ReplayInv
  <1>3. CASE UNCHANGED vars
    BY <1>0, <1>3
       DEF ReplayInv, vars, clientVars, serverVars, RequestInv, Named, BranchInv,
           RecordInv, DeferredInv, Recorded
  <1> QED BY <1>1, <1>2, <1>3 DEF Next

(***************************************************************************)
(* Once nothing is pending in a valid session, every branch whose cleanup  *)
(* defer_branch_cleanup_after_retry has accepted is gone from RL or named  *)
(* by a release RL has executed: _complete_deferred_branch_cleanup never   *)
(* loses a record to a stale token, a rejected replay or a second failure. *)
(***************************************************************************)
THEOREM DeferredIsReleased == Spec => []ReplayReleases
  <1>1. ReplayInv => ReplayReleases
    BY DEF ReplayInv, DeferredInv, ReplayReleases, Settled, Recorded
  <1> QED BY <1>1, ReplayInvInit, ReplayInvStep, PTL DEF Spec
=============================================================================
