---------------------------- MODULE LossyChannel ----------------------------
(***************************************************************************)
(* What a pair of ObscuraProto sessions promises to the code above it.     *)
(* Every endpoint has one log of the payloads it sent.  A receiver takes   *)
(* payloads out of the logs of endpoints of the opposite role, some may be *)
(* lost, but what it takes is genuine, is taken at most once, and is taken *)
(* in the order in which it was sent - also across the logs of several     *)
(* peers the sequence numbers a receiver accepts only grow.                *)
(***************************************************************************)
EXTENDS Naturals, Sequences

CONSTANTS Clients,    \* endpoints in the client role
          Servers,    \* endpoints in the server role
          Payloads    \* application data

VARIABLES sent,       \* sent[s]: the payloads s sent, in order
          delivered   \* delivered[r]: what r took, in order

vars == <<sent, delivered>>

Endpoints == Clients \cup Servers

(***************************************************************************)
(* A delivery names the log it was taken from and its position there.      *)
(***************************************************************************)
Deliveries == [from : Endpoints, index : Nat, payload : Payloads]

Peers(r) == IF r \in Clients THEN Servers ELSE Clients

LastIndex(r) == IF delivered[r] = <<>> THEN 0
                ELSE delivered[r][Len(delivered[r])].index

Init == /\ sent = [s \in Endpoints |-> <<>>]
        /\ delivered = [s \in Endpoints |-> <<>>]

Send(s, m) == /\ sent' = [sent EXCEPT ![s] = Append(@, m)]
              /\ UNCHANGED delivered

Deliver(r, s) ==
  \E i \in 1..Len(sent[s]) :
     /\ i > LastIndex(r)
     /\ delivered' = [delivered EXCEPT ![r] =
            Append(@, [from |-> s, index |-> i, payload |-> sent[s][i]])]
     /\ UNCHANGED sent

Next == \/ \E s \in Endpoints, m \in Payloads : Send(s, m)
        \/ \E r \in Endpoints : \E s \in Peers(r) : Deliver(r, s)

Spec == Init /\ [][Next]_vars
=============================================================================
