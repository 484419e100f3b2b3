------------------------------ MODULE Exchange ------------------------------
(***************************************************************************)
(* Requests and responses in both directions over one connection whose     *)
(* handshake is complete: the two wrappers composed with the counters of   *)
(* their sessions.  At each end user threads call sync_request and the io  *)
(* thread reads packets and runs request handlers, which may themselves    *)
(* call sync_request.  Requests have timeouts.                             *)
(*                                                                         *)
(* The server encrypts and transmits under sessions_mutex_.  The client    *)
(* does not: "send_counter_++; encrypt(payload, send_counter_, key)" is a  *)
(* data race of the threads that send, so the increment is a load and a    *)
(* store, and the counter a packet gets is the incremented value or what   *)
(* the variable holds when the packet is built.                            *)
(*                                                                         *)
(* How promises, the watchdog, disconnect and on_close work inside a       *)
(* wrapper is the subject of WsClient and WsServer; here they are steps.   *)
(***************************************************************************)
EXTENDS Naturals, Sequences

CONSTANTS ClientThreads, ServerThreads,  \* user threads of the two ends
          None,
          MaxClientRequests,             \* bounds: requests made by each end
          MaxServerRequests

Ends == {"client", "server"}
Peer(e) == IF e = "client" THEN "server" ELSE "client"

\* The io thread of an end is named after the end.
Workers == ClientThreads \cup ServerThreads \cup Ends
Home(w) == IF w \in ClientThreads \cup {"client"} THEN "client" ELSE "server"
IsIo(w) == w \in Ends

MaxRequests(e) == IF e = "client" THEN MaxClientRequests ELSE MaxServerRequests

Ids == UNION {0..(MaxRequests(e) - 1) : e \in Ends}
Option(S) == S \cup {None}

ASSUME ExchangeAssumption ==
  /\ MaxClientRequests \in Nat /\ MaxServerRequests \in Nat
  /\ (ClientThreads \cup ServerThreads) \cap Ends = {}
  /\ ClientThreads \cap ServerThreads = {}
  /\ None \notin Ids

VARIABLES
  link,             \* the transport is up
  up,               \* is_connected_ of the client, the session of the server
  send_counter, recv_counter,
  next_request_id,
  pending,          \* pending[e]: pending_requests_
  wire,             \* wire[e]: packets on their way to e
  work,             \* work[w]: what worker w is doing
  \* History, not state of the code:
  overlapped,       \* two client threads were sending at the same time
  rejected,         \* rejected[e]: e rejected the counter of a packet
  unanswered        \* <<e, id>>: the handler threw, or there was none, or the
                    \* response could not be sent

connVars == <<link, up>>
counterVars == <<send_counter, recv_counter>>
historyVars == <<overlapped, rejected, unanswered>>
vars == <<connVars, counterVars, next_request_id, pending, wire, work, historyVars>>

(***************************************************************************)
(* pc: where the worker is; msg: the payload it sends; id: the request it  *)
(* waits for, bounded or not; req: the request whose handler it runs;      *)
(* local: the counter it has loaded.                                       *)
(***************************************************************************)
Idle == [pc |-> "idle", msg |-> None, id |-> None, bounded |-> TRUE, req |-> None,
         local |-> 0]

Init ==
  /\ link = TRUE
  /\ up = [e \in Ends |-> TRUE]
  /\ send_counter = [e \in Ends |-> 0]
  /\ recv_counter = [e \in Ends |-> 0]
  /\ next_request_id = [e \in Ends |-> 0]
  /\ pending = [e \in Ends |-> {}]
  /\ wire = [e \in Ends |-> <<>>]
  /\ work = [w \in Workers |-> Idle]
  /\ overlapped = FALSE
  /\ rejected = [e \in Ends |-> FALSE]
  /\ unanswered = {}

Request(id) == [kind |-> "request", id |-> id]
Response(id) == [kind |-> "response", id |-> id]

\* A worker whose call or handler is over; the io thread may be in a handler.
Return(w) == IF work[w].req = None THEN Idle
             ELSE [Idle EXCEPT !.pc = "handle", !.req = work[w].req]

-----------------------------------------------------------------------------
(***************************************************************************)
(* sync_request, and sync_request_to_identity of the server, which does    *)
(* not bound its wait: the promise is registered, then the request sent.   *)
(***************************************************************************)
FreshId(e) == next_request_id[e]

sync_request(w, bounded) ==
  LET e == Home(w)
      id == FreshId(e)
  IN /\ work[w].pc \in {"idle", "handle"}
     /\ IsIo(w) => work[w].pc = "handle"
     /\ bounded \/ e = "server"
     /\ up[e]
     /\ next_request_id[e] < MaxRequests(e)
     /\ next_request_id' = [next_request_id EXCEPT ![e] = @ + 1]
     /\ pending' = [pending EXCEPT ![e] = @ \cup {id}]
     /\ work' = [work EXCEPT ![w] = [@ EXCEPT !.pc = "send", !.msg = Request(id),
                                              !.id = id, !.bounded = bounded]]
     /\ UNCHANGED <<connVars, counterVars, wire, historyVars>>

(***************************************************************************)
(* send().                                                                 *)
(***************************************************************************)
Transmit(w, counter) ==
  LET e == Home(w)
      packet == [kind |-> work[w].msg.kind, id |-> work[w].msg.id, counter |-> counter]
  IN /\ wire' = IF link THEN [wire EXCEPT ![Peer(e)] = Append(@, packet)] ELSE wire
     /\ work' = [work EXCEPT ![w] =
                   IF work[w].msg.kind = "request"
                     THEN [@ EXCEPT !.pc = "wait", !.msg = None, !.local = 0]
                     ELSE Idle]

\* Mistake: the server sends without sessions_mutex_.
Locked_Never(e) == FALSE

Locked(e) == e = "server"

send_locked(w) ==
  LET e == Home(w)
  IN /\ work[w].pc = "send"
     /\ up[e]
     /\ Locked(e)
     /\ send_counter' = [send_counter EXCEPT ![e] = @ + 1]
     /\ Transmit(w, send_counter[e] + 1)
     /\ UNCHANGED <<connVars, recv_counter, next_request_id, pending, historyVars>>

Sending(e) == {w \in Workers : Home(w) = e /\ work[w].pc \in {"store", "transmit"}}

load_counter(w) ==
  LET e == Home(w)
  IN /\ work[w].pc = "send"
     /\ up[e]
     /\ ~Locked(e)
     /\ work' = [work EXCEPT ![w].pc = "store", ![w].local = send_counter[e]]
     /\ overlapped' = (overlapped \/ (e = "client" /\ Sending(e) # {}))
     /\ UNCHANGED <<connVars, counterVars, next_request_id, pending, wire, rejected,
                    unanswered>>

store_counter(w) ==
  /\ work[w].pc = "store"
  /\ send_counter' = [send_counter EXCEPT ![Home(w)] = work[w].local + 1]
  /\ work' = [work EXCEPT ![w].pc = "transmit"]
  /\ UNCHANGED <<connVars, recv_counter, next_request_id, pending, wire, historyVars>>

transmit(w) ==
  /\ work[w].pc = "transmit"
  /\ \E counter \in {work[w].local + 1, send_counter[Home(w)]} : Transmit(w, counter)
  /\ UNCHANGED <<connVars, counterVars, next_request_id, pending, historyVars>>

\* disconnect() of the client on its io thread.  client_.stop() comes before the
\* close, so nobody sends the close frame: the server need not notice.
Disconnect ==
  /\ pending' = [pending EXCEPT !["client"] = {}]
  /\ up' = [up EXCEPT !["client"] = FALSE]
  /\ work' = [work EXCEPT !["client"] = [Idle EXCEPT !.pc = "stopped"]]
  /\ UNCHANGED link

\* What a failure on an io thread leads to.
HandlerThrows(e) ==
  \/ /\ e = "client"
     /\ Disconnect
  \/ /\ e = "server"
     /\ work' = [work EXCEPT !["server"] = Idle]
     /\ UNCHANGED <<connVars, pending>>

\* send() throws: the request is undone, or the response never sent.
send_throws(w) ==
  LET e == Home(w)
  IN /\ work[w].pc = "send"
     /\ ~up[e]
     /\ IF work[w].msg.kind = "request"
          THEN /\ pending' = [pending EXCEPT ![e] = @ \ {work[w].id}]
               /\ work' = [work EXCEPT ![w] = Return(w)]
               /\ UNCHANGED <<connVars, unanswered>>
          ELSE /\ HandlerThrows(e)
               /\ unanswered' = unanswered \cup {<<Peer(e), work[w].msg.id>>}
     /\ UNCHANGED <<counterVars, next_request_id, wire, overlapped, rejected>>

-----------------------------------------------------------------------------
(***************************************************************************)
(* on_message of both ends.                                                *)
(***************************************************************************)
CanRead(e) == work[e].pc = "idle" /\ up[e] /\ wire[e] # <<>>

\* Mistake: a counter must be more than one above the last.
Accepts_OffByOne(e, counter) == counter > recv_counter[e] + 1

Accepts(e, counter) == counter > recv_counter[e]

\* The server ignores a packet it cannot decrypt, the client disconnects.
on_message_rejected(e) ==
  /\ CanRead(e)
  /\ ~Accepts(e, Head(wire[e]).counter)
  /\ wire' = [wire EXCEPT ![e] = Tail(@)]
  /\ rejected' = [rejected EXCEPT ![e] = TRUE]
  /\ HandlerThrows(e)
  /\ UNCHANGED <<counterVars, next_request_id, overlapped, unanswered>>

Decrypt(e, kind) ==
  /\ CanRead(e)
  /\ Head(wire[e]).kind = kind
  /\ Accepts(e, Head(wire[e]).counter)
  /\ wire' = [wire EXCEPT ![e] = Tail(@)]
  /\ recv_counter' = [recv_counter EXCEPT ![e] = Head(wire[e]).counter]

on_response(e) ==
  /\ Decrypt(e, "response")
  /\ pending' = [pending EXCEPT ![e] = @ \ {Head(wire[e]).id}]
  /\ UNCHANGED <<connVars, send_counter, next_request_id, work, historyVars>>

on_request(e) ==
  /\ Decrypt(e, "request")
  /\ work' = [work EXCEPT ![e] = [Idle EXCEPT !.pc = "handle", !.req = Head(wire[e]).id]]
  /\ UNCHANGED <<connVars, send_counter, next_request_id, pending, historyVars>>

\* No request handler is registered for the op code.
on_payload(e) ==
  /\ Decrypt(e, "request")
  /\ unanswered' = unanswered \cup {<<Peer(e), Head(wire[e]).id>>}
  /\ UNCHANGED <<connVars, send_counter, next_request_id, pending, work, overlapped,
                 rejected>>

handler_returns(e) ==
  /\ work[e].pc = "handle"
  /\ work' = [work EXCEPT ![e] = [Idle EXCEPT !.pc = "send",
                                              !.msg = Response(work[e].req)]]
  /\ UNCHANGED <<connVars, counterVars, next_request_id, pending, wire, historyVars>>

handler_throws(e) ==
  /\ work[e].pc = "handle"
  /\ HandlerThrows(e)
  /\ unanswered' = unanswered \cup {<<Peer(e), work[e].req>>}
  /\ UNCHANGED <<counterVars, next_request_id, wire, overlapped, rejected>>

-----------------------------------------------------------------------------
(***************************************************************************)
(* Waiting, and the ways a request ends without an answer.                 *)
(***************************************************************************)
sync_request_returns(w) ==
  /\ work[w].pc = "wait"
  /\ work[w].id \notin pending[Home(w)]
  /\ work' = [work EXCEPT ![w] = Return(w)]
  /\ UNCHANGED <<connVars, counterVars, next_request_id, pending, wire, historyVars>>

\* Mistake: sync_request waits with get().
Bounded_Never(w) == FALSE

Bounded(w) == work[w].bounded

\* wait_for runs out: the call throws and leaves its promise behind.
wait_for_times_out(w) ==
  /\ work[w].pc = "wait"
  /\ Bounded(w)
  /\ work' = [work EXCEPT ![w] = Return(w)]
  /\ UNCHANGED <<connVars, counterVars, next_request_id, pending, wire, historyVars>>

\* The client's watchdog has a thread of its own, the server's sweep runs on
\* the io thread.
request_expires(e, id) ==
  /\ e = "server" => work[e].pc = "idle"
  /\ id \in pending[e]
  /\ pending' = [pending EXCEPT ![e] = @ \ {id}]
  /\ UNCHANGED <<connVars, counterVars, next_request_id, wire, work, historyVars>>

link_lost ==
  /\ link
  /\ link' = FALSE
  /\ UNCHANGED <<up, counterVars, next_request_id, pending, wire, work, historyVars>>

\* The server's on_close fails the pending requests, the client's does not.
on_close(e) ==
  /\ ~link
  /\ work[e].pc = "idle"
  /\ up[e]
  /\ up' = [up EXCEPT ![e] = FALSE]
  /\ pending' = IF e = "server" THEN [pending EXCEPT ![e] = {}] ELSE pending
  /\ UNCHANGED <<link, counterVars, next_request_id, wire, work, historyVars>>

-----------------------------------------------------------------------------
SendStep(w) == \/ send_locked(w) \/ load_counter(w) \/ store_counter(w) \/ transmit(w)
               \/ send_throws(w)

WaitStep(w) == sync_request_returns(w) \/ wait_for_times_out(w)

on_message(e) == \/ on_message_rejected(e) \/ on_response(e) \/ on_request(e)
                 \/ on_payload(e)

HandlerStep(e) == handler_returns(e) \/ handler_throws(e)

Next ==
  \/ \E w \in Workers : \/ \E bounded \in BOOLEAN : sync_request(w, bounded)
                        \/ SendStep(w)
                        \/ WaitStep(w)
  \/ \E e \in Ends : \/ on_message(e)
                     \/ HandlerStep(e)
                     \/ \E id \in Ids : request_expires(e, id)
                     \/ on_close(e)
  \/ link_lost

Spec == Init /\ [][Next]_vars

(***************************************************************************)
(* The server's io thread keeps running, its handlers return or throw, and *)
(* its timer fires when the thread is free.  Nothing is assumed of the     *)
(* client, the network or user threads.                                    *)
(***************************************************************************)
IoStep(e) == SendStep(e) \/ WaitStep(e) \/ on_message(e) \/ HandlerStep(e)

Fairness ==
  /\ WF_vars(IoStep("server"))
  /\ \A id \in Ids : WF_vars(request_expires("server", id))

FairSpec == Spec /\ Fairness

-----------------------------------------------------------------------------
Messages == [kind : {"request", "response"}, id : Ids]

(***************************************************************************)
(* The types of the state of both ends.                                    *)
(***************************************************************************)
TypeOK ==
  /\ link \in BOOLEAN
  /\ up \in [Ends -> BOOLEAN]
  /\ send_counter \in [Ends -> Nat] /\ recv_counter \in [Ends -> Nat]
  /\ \A e \in Ends : next_request_id[e] \in 0..MaxRequests(e)
  /\ pending \in [Ends -> SUBSET Ids]
  /\ work \in [Workers ->
                 [pc : {"idle", "send", "store", "transmit", "wait", "handle", "stopped"},
                  msg : Option(Messages), id : Option(Ids), bounded : BOOLEAN,
                  req : Option(Ids), local : Nat]]

(***************************************************************************)
(* The server's packets reach the client with rising counters, whatever    *)
(* threads send them: sessions_mutex_ spans encrypting and transmitting.   *)
(***************************************************************************)
ClientNeverRejects == ~rejected["client"]

(***************************************************************************)
(* Every request that waits for its answer is accounted for: it or its     *)
(* response is being sent, handled or on the wire.  It is lost only when   *)
(* the connection went down, the handler threw or was missing, or two      *)
(* client threads sent at the same time.                                   *)
(***************************************************************************)
OnTheWire(e, m) == \E i \in DOMAIN wire[e] : wire[e][i].kind = m.kind /\ wire[e][i].id = m.id

InHand(e, m) == \E w \in Workers : /\ Home(w) = e
                                   /\ work[w].pc \in {"send", "store", "transmit"}
                                   /\ work[w].msg = m

Underway(e, id) ==
  \/ InHand(e, Request(id)) \/ OnTheWire(Peer(e), Request(id))
  \/ work[Peer(e)].req = id
  \/ InHand(Peer(e), Response(id)) \/ OnTheWire(e, Response(id))

NoSilentLoss ==
  \A e \in Ends : \A id \in pending[e] :
    \/ Underway(e, id)
    \/ ~link \/ ~up["client"]
    \/ <<e, id>> \in unanswered \/ overlapped

(***************************************************************************)
(* Every promise of the server is completed even when handlers on both io  *)
(* threads wait for each other in sync_request; only                       *)
(* sync_request_to_identity on the server's io thread, whose wait has no   *)
(* bound, can hold the sweep up.                                           *)
(***************************************************************************)
Hung == work["server"].pc = "wait" /\ ~work["server"].bounded

PromisesCompleted ==
  \A id \in Ids : id \in pending["server"] ~> (id \notin pending["server"] \/ Hung)
=============================================================================
