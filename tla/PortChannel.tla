---------------------------- MODULE PortChannel ----------------------------
(***************************************************************************)
(* What a receive port promises (spec 4.4 and 5): messages sent to a port  *)
(* wait in a FIFO queue and are delivered to its receiver one at a time,   *)
(* in send order, each exactly once.                                       *)
(***************************************************************************)
EXTENDS Sequences

CONSTANTS Ports, Messages

VARIABLES
    pending,     \* port -> messages sent and not yet delivered, oldest first
    delivered    \* port -> messages delivered, in delivery order

Init ==
    /\ pending = [p \in Ports |-> <<>>]
    /\ delivered = [p \in Ports |-> <<>>]

Send(p, m) ==
    /\ pending' = [pending EXCEPT ![p] = Append(@, m)]
    /\ UNCHANGED delivered

Deliver(p) ==
    /\ pending[p] # <<>>
    /\ delivered' = [delivered EXCEPT ![p] = Append(@, Head(pending[p]))]
    /\ pending' = [pending EXCEPT ![p] = Tail(@)]

(* The port is destroyed; its undelivered messages are dropped. *)
Close(p) ==
    /\ pending' = [pending EXCEPT ![p] = <<>>]
    /\ UNCHANGED delivered

Next == \E p \in Ports : Deliver(p) \/ Close(p) \/ \E m \in Messages : Send(p, m)

Spec == Init /\ [][Next]_<<pending, delivered>>
=============================================================================
