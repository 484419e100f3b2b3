---------------------------- MODULE StreamPipes ----------------------------
(***************************************************************************)
(* What streams promise to the application.  A pipe is one direction of    *)
(* one stream of one connection.  Chunks are numbered in the order they    *)
(* are written; the reader gets chunks of its own pipe, each at most once  *)
(* and in order, possibly with gaps, and none once it was told that the    *)
(* stream is cancelled.                                                    *)
(***************************************************************************)
EXTENDS Naturals, Sequences

CONSTANT Pipes

VARIABLES written,   \* written[p]: how many chunks were written
          received,  \* received[p]: the chunks the reader was given, in order
          cut        \* the pipes whose reader was told of a cancellation

vars == <<written, received, cut>>

LastReceived(p) == IF received[p] = <<>> THEN 0 ELSE received[p][Len(received[p])]

Init == /\ written = [p \in Pipes |-> 0]
        /\ received = [p \in Pipes |-> <<>>]
        /\ cut = {}

Write(p) == /\ written' = [written EXCEPT ![p] = @ + 1]
            /\ UNCHANGED <<received, cut>>

Receive(p) ==
  /\ p \notin cut
  /\ \E n \in (LastReceived(p) + 1)..written[p] :
       received' = [received EXCEPT ![p] = Append(@, n)]
  /\ UNCHANGED <<written, cut>>

Cut(p) == /\ cut' = cut \cup {p}
          /\ UNCHANGED <<written, received>>

Next == \E p \in Pipes : Write(p) \/ Receive(p) \/ Cut(p)

Spec == Init /\ [][Next]_vars
=============================================================================
