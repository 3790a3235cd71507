------------------------- MODULE AtMostOnceSession -------------------------
(***************************************************************************)
(* What a session-sequenced request stream promises, without connections,  *)
(* locks or replays: every sequence belongs to one payload, an RL process  *)
(* executes it at most once and in order, and it is acknowledged to the    *)
(* caller only after some RL process has executed it.                      *)
(***************************************************************************)
EXTENDS Naturals

VARIABLES
    executed,   \* the [ep, req] pairs: RL process ep has executed req
    acked       \* the last sequence whose outcome a caller was given

Init ==
    /\ executed = {}
    /\ acked = 0

\* Process x.ep executes x.req, the only payload its sequence will ever have.
Execute(x) ==
    /\ x.req.seq = acked + 1
    /\ \A y \in executed : y.req.seq = x.req.seq => y.req = x.req /\ y.ep # x.ep
    /\ executed' = executed \cup {x}
    /\ UNCHANGED acked

Acknowledge ==
    /\ \E x \in executed : x.req.seq = acked + 1
    /\ acked' = acked + 1
    /\ UNCHANGED executed

Next == Acknowledge \/ \E x \in executed' : Execute(x)

Spec == Init /\ [][Next]_<<executed, acked>>
=============================================================================
