--------------------------- MODULE ExchangeProofs ---------------------------
(***************************************************************************)
(* Theorems about Exchange, for every set of user threads and every bound. *)
(***************************************************************************)
EXTENDS Exchange, TLAPS

Packets == [kind : {"request", "response"}, id : Ids, counter : Nat]

Sends == {"send", "store", "transmit"}

(***************************************************************************)
(* What a worker holds while it sends or runs a handler, and what is left  *)
(* of it when it is done.                                                  *)
(***************************************************************************)
WorkInv ==
  \A w \in Workers :
    /\ work[w].pc \in Sends => /\ work[w].msg \in Messages
                               /\ work[w].msg.kind = "response" => work[w].req = None
    /\ work[w].pc = "idle" => work[w].req = None
    /\ work[w].pc = "handle" => work[w].req \in Ids

TypesInv ==
  /\ TypeOK
  /\ next_request_id \in [Ends -> Nat]
  /\ wire \in [Ends -> Seq(Packets)]
  /\ rejected \in [Ends -> BOOLEAN]
  /\ WorkInv

(***************************************************************************)
(* The packets of s are in the order of their counters, above lo and not   *)
(* above hi.                                                               *)
(***************************************************************************)
Ordered(s, lo, hi) ==
  /\ \A i \in DOMAIN s : lo < s[i].counter /\ s[i].counter <= hi
  /\ \A i, j \in DOMAIN s : i < j => s[i].counter < s[j].counter

(***************************************************************************)
(* What reaches the client is in order.  No worker of the server is ever   *)
(* between loading the counter and transmitting: sessions_mutex_.          *)
(***************************************************************************)
ToClientInv ==
  /\ \A w \in Workers : Home(w) = "server" => work[w].pc \notin {"store", "transmit"}
  /\ recv_counter["client"] <= send_counter["server"]
  /\ Ordered(wire["client"], recv_counter["client"], send_counter["server"])
  /\ ~rejected["client"]

(***************************************************************************)
(* What reaches the server is in order as long as no two client threads    *)
(* were sending at the same time.  One thread is then between loading the  *)
(* counter and transmitting, and the counter is still the one it loaded or *)
(* the one it stored; Sent is the counter of the last packet sent.         *)
(***************************************************************************)
Storing == \E w \in Sending("client") : work[w].pc = "transmit"

Sent == IF Storing THEN send_counter["client"] - 1 ELSE send_counter["client"]

OneSender ==
  /\ \A v, w \in Sending("client") : v = w
  /\ \A w \in Sending("client") :
       send_counter["client"] = IF work[w].pc = "store" THEN work[w].local
                                ELSE work[w].local + 1

ToServerInv ==
  ~overlapped =>
    /\ OneSender
    /\ recv_counter["server"] <= Sent
    /\ Ordered(wire["server"], recv_counter["server"], Sent)

\* The server has its session as long as the transport is up.
LinkInv == ~up["server"] => ~link

-----------------------------------------------------------------------------
(***************************************************************************)
(* Types.                                                                  *)
(***************************************************************************)
Work == [pc : {"idle", "send", "store", "transmit", "wait", "handle", "stopped"},
         msg : Option(Messages), id : Option(Ids), bounded : BOOLEAN,
         req : Option(Ids), local : Nat]

LEMMA Homes ==
  /\ \A w \in Workers : Home(w) \in Ends
  /\ \A e \in Ends : e \in Workers /\ Home(e) = e /\ Peer(e) \in Ends
BY ExchangeAssumption DEF Workers, Home, Ends, Peer

LEMMA IdleWork == Idle \in Work /\ Idle.pc = "idle" /\ Idle.req = None
BY DEF Idle, Work, Option

\* An io thread that runs a handler, sends its response or was stopped.
Handling(id) == [Idle EXCEPT !.pc = "handle", !.req = id]
Responding(id) == [Idle EXCEPT !.pc = "send", !.msg = Response(id)]
Stopped == [Idle EXCEPT !.pc = "stopped"]

LEMMA HandlingWork ==
  ASSUME NEW id \in Ids
  PROVE  /\ Handling(id) \in Work
         /\ Handling(id).pc = "handle" /\ Handling(id).req = id
BY IdleWork DEF Handling, Work, Option

LEMMA RespondingWork ==
  ASSUME NEW id \in Ids
  PROVE  /\ Responding(id) \in Work /\ Responding(id).pc = "send"
         /\ Responding(id).msg = Response(id) /\ Responding(id).msg \in Messages
         /\ Responding(id).req = None
<1>1. Response(id) \in Messages
  BY DEF Response, Messages
<1> QED
  BY <1>1, IdleWork DEF Responding, Work, Option

LEMMA StoppedWork == Stopped \in Work /\ Stopped.pc = "stopped"
BY IdleWork DEF Stopped, Work, Option

LEMMA WorkMoves ==
  ASSUME work \in [Workers -> Work], WorkInv, NEW w \in Workers, NEW r \in Work,
         work' = [work EXCEPT ![w] = r],
         r.pc \in Sends => /\ r.msg \in Messages
                           /\ r.msg.kind = "response" => r.req = None,
         r.pc = "idle" => r.req = None,
         r.pc = "handle" => r.req \in Ids
  PROVE  work' \in [Workers -> Work] /\ WorkInv'
BY DEF WorkInv

LEMMA WorkReturns ==
  ASSUME work \in [Workers -> Work], WorkInv, NEW w \in Workers,
         work' = [work EXCEPT ![w] = Idle]
  PROVE  work' \in [Workers -> Work] /\ WorkInv'
<1> DEFINE r == Idle
<1>1. r \in Work /\ r.pc = "idle" /\ r.req = None
  BY IdleWork
<1>2. work' = [work EXCEPT ![w] = r]
  OBVIOUS
<1> HIDE DEF r
<1> QED
  BY <1>1, <1>2, WorkMoves DEF Sends

LEMMA ReturnWork ==
  ASSUME TypesInv, NEW w \in Workers
  PROVE  /\ Return(w) \in Work
         /\ Return(w).req = work[w].req
         /\ \/ Return(w).pc = "idle" /\ Return(w).req = None
            \/ Return(w).pc = "handle" /\ Return(w).req \in Ids
<1>1. work[w].req \in Ids \cup {None}
  BY DEF TypesInv, TypeOK, Option
<1>2. CASE work[w].req = None
  BY <1>2, IdleWork DEF Return
<1>3. CASE work[w].req # None
  <2>1. work[w].req \in Ids /\ Return(w) = Handling(work[w].req)
    BY <1>1, <1>3 DEF Return, Handling
  <2> QED
    BY <2>1, HandlingWork
<1> QED
  BY <1>2, <1>3

LEMMA HeadPacket ==
  ASSUME NEW s \in Seq(Packets), s # <<>>
  PROVE  Head(s) \in Packets /\ Tail(s) \in Seq(Packets)
OBVIOUS

LEMMA WorkStep ==
  ASSUME TypesInv, [Next]_vars
  PROVE  work' \in [Workers -> Work] /\ WorkInv'
<1>0. work \in [Workers -> Work] /\ WorkInv
  BY DEF TypesInv, TypeOK, Work
<1>1. CASE UNCHANGED work
  BY <1>0, <1>1 DEF WorkInv
<1>2. ASSUME NEW w \in Workers, work' = [work EXCEPT ![w] = Return(w)]
      PROVE  work' \in [Workers -> Work] /\ WorkInv'
  BY <1>0, <1>2, ReturnWork, WorkMoves DEF Sends
<1>3. ASSUME NEW e \in Ends, HandlerThrows(e)
      PROVE  work' \in [Workers -> Work] /\ WorkInv'
  <2>1. \/ work' = [work EXCEPT !["client"] = Stopped]
        \/ work' = [work EXCEPT !["server"] = Idle]
    BY <1>3 DEF HandlerThrows, Disconnect, Stopped
  <2>2. "client" \in Workers /\ "server" \in Workers
    BY DEF Workers, Ends
  <2> QED
    BY <1>0, <2>1, <2>2, StoppedWork, WorkMoves, WorkReturns DEF Sends
<1>4. ASSUME NEW w \in Workers, NEW bounded \in BOOLEAN, sync_request(w, bounded)
      PROVE  work' \in [Workers -> Work] /\ WorkInv'
  <2> DEFINE id == FreshId(Home(w))
             r == [work[w] EXCEPT !.pc = "send", !.msg = Request(id),
                                  !.id = id, !.bounded = bounded]
  <2>1. id \in Ids
    <3>1. Home(w) \in Ends /\ id \in 0..(MaxRequests(Home(w)) - 1)
      BY <1>4, Homes, ExchangeAssumption
         DEF sync_request, FreshId, TypesInv, TypeOK, MaxRequests, Ends
    <3> QED
      BY <3>1 DEF Ids
  <2>2. work' = [work EXCEPT ![w] = r]
    BY <1>4 DEF sync_request
  <2>3. r \in Work /\ r.pc = "send" /\ r.msg \in Messages /\ r.msg.kind = "request"
    BY <1>0, <2>1 DEF Work, Option, Request, Messages
  <2> HIDE DEF r
  <2> QED
    BY <1>0, <2>2, <2>3, WorkMoves
<1>5. ASSUME NEW w \in Workers, NEW counter, Transmit(w, counter)
      PROVE  work' \in [Workers -> Work] /\ WorkInv'
  <2>1. CASE work' = [work EXCEPT ![w] = Idle]
    BY <1>0, <2>1, WorkReturns
  <2>2. CASE work' # [work EXCEPT ![w] = Idle]
    <3> DEFINE r == [work[w] EXCEPT !.pc = "wait", !.msg = None, !.local = 0]
    <3>1. work' = [work EXCEPT ![w] = r]
      BY <1>5, <2>2 DEF Transmit
    <3>2. r \in Work /\ r.pc = "wait"
      BY <1>0 DEF Work, Option
    <3> HIDE DEF r
    <3> QED
      BY <1>0, <3>1, <3>2, WorkMoves DEF Sends
  <2> QED
    BY <2>1, <2>2
<1>6. ASSUME NEW w \in Workers, load_counter(w)
      PROVE  work' \in [Workers -> Work] /\ WorkInv'
  <2> DEFINE r == [work[w] EXCEPT !.pc = "store", !.local = send_counter[Home(w)]]
  <2>1. work' = [work EXCEPT ![w] = r]
    BY <1>0, <1>6 DEF load_counter, Work
  <2>2. /\ r \in Work /\ r.pc = "store" /\ r.msg \in Messages
        /\ r.msg.kind = "response" => r.req = None
    BY <1>0, <1>6, Homes DEF load_counter, Work, Sends, WorkInv, TypesInv, TypeOK
  <2> HIDE DEF r
  <2> QED
    BY <1>0, <2>1, <2>2, WorkMoves
<1>7. ASSUME NEW w \in Workers, store_counter(w)
      PROVE  work' \in [Workers -> Work] /\ WorkInv'
  <2> DEFINE r == [work[w] EXCEPT !.pc = "transmit"]
  <2>1. work' = [work EXCEPT ![w] = r]
    BY <1>0, <1>7 DEF store_counter, Work
  <2>2. /\ r \in Work /\ r.pc = "transmit" /\ r.msg \in Messages
        /\ r.msg.kind = "response" => r.req = None
    BY <1>0, <1>7 DEF store_counter, Work, Sends, WorkInv
  <2> HIDE DEF r
  <2> QED
    BY <1>0, <2>1, <2>2, WorkMoves
<1>8. ASSUME NEW w \in Workers, SendStep(w)
      PROVE  work' \in [Workers -> Work] /\ WorkInv'
  BY <1>2, <1>3, <1>5, <1>6, <1>7, <1>8, Homes
     DEF SendStep, send_locked, transmit, send_throws
<1>9. ASSUME NEW w \in Workers, WaitStep(w)
      PROVE  work' \in [Workers -> Work] /\ WorkInv'
  BY <1>2, <1>9 DEF WaitStep, sync_request_returns, wait_for_times_out
<1>10. ASSUME NEW e \in Ends, on_request(e)
       PROVE  work' \in [Workers -> Work] /\ WorkInv'
  <2>1. Head(wire[e]).id \in Ids
    BY <1>10, HeadPacket DEF on_request, Decrypt, CanRead, TypesInv, Packets
  <2>2. work' = [work EXCEPT ![e] = Handling(Head(wire[e]).id)]
    BY <1>10 DEF on_request, Handling
  <2> QED
    BY <1>0, <2>1, <2>2, HandlingWork, WorkMoves, Homes DEF Sends
<1>11. ASSUME NEW e \in Ends, HandlerStep(e)
       PROVE  work' \in [Workers -> Work] /\ WorkInv'
  <2>1. CASE handler_returns(e)
    <3>1. work[e].req \in Ids
      BY <1>0, <2>1, Homes DEF handler_returns, WorkInv
    <3>2. work' = [work EXCEPT ![e] = Responding(work[e].req)]
      BY <2>1 DEF handler_returns, Responding
    <3> QED
      BY <1>0, <3>1, <3>2, RespondingWork, WorkMoves, Homes
  <2>2. CASE handler_throws(e)
    BY <1>3, <2>2 DEF handler_throws
  <2> QED
    BY <1>11, <2>1, <2>2 DEF HandlerStep
<1>12. ASSUME NEW e \in Ends, on_message(e)
       PROVE  work' \in [Workers -> Work] /\ WorkInv'
  BY <1>1, <1>3, <1>10, <1>12 DEF on_message, on_message_rejected, on_response, on_payload
<1> QED
  BY <1>1, <1>4, <1>8, <1>9, <1>11, <1>12
     DEF Next, vars, request_expires, on_close, link_lost

LEMMA Transmits ==
  ASSUME TypesInv, NEW w \in Workers, work[w].pc \in Sends, NEW counter \in Nat,
         Transmit(w, counter)
  PROVE  \E packet \in Packets :
           /\ packet.kind = work[w].msg.kind
           /\ packet.id = work[w].msg.id
           /\ packet.counter = counter
           /\ wire' = IF link THEN [wire EXCEPT ![Peer(Home(w))] = Append(@, packet)]
                      ELSE wire
           /\ wire' \in [Ends -> Seq(Packets)]
<1> DEFINE packet == [kind |-> work[w].msg.kind, id |-> work[w].msg.id,
                      counter |-> counter]
<1>1. work[w].msg \in Messages
  BY DEF TypesInv, WorkInv
<1>2. packet \in Packets
  BY <1>1 DEF Messages, Packets
<1>3. /\ packet.kind = work[w].msg.kind
      /\ packet.id = work[w].msg.id
      /\ packet.counter = counter
  OBVIOUS
<1>4. wire' = IF link THEN [wire EXCEPT ![Peer(Home(w))] = Append(@, packet)] ELSE wire
  BY DEF Transmit
<1> HIDE DEF packet
<1>5. wire' \in [Ends -> Seq(Packets)]
  BY <1>2, <1>4, Homes DEF TypesInv
<1> QED
  BY <1>2, <1>3, <1>4, <1>5

\* The part of TypesInv that is not about workers.
Others ==
  /\ up \in [Ends -> BOOLEAN]
  /\ send_counter \in [Ends -> Nat] /\ recv_counter \in [Ends -> Nat]
  /\ next_request_id \in [Ends -> Nat]
  /\ \A e \in Ends : next_request_id[e] \in 0..MaxRequests(e)
  /\ pending \in [Ends -> SUBSET Ids]
  /\ wire \in [Ends -> Seq(Packets)]
  /\ rejected \in [Ends -> BOOLEAN]

\* The transport goes down only once, and never comes up again.
LEMMA LinkSteps ==
  ASSUME [Next]_vars
  PROVE  UNCHANGED link \/ link_lost
<1> USE DEF connVars
<1>1. CASE UNCHANGED vars
  BY <1>1 DEF vars
<1>2. ASSUME NEW w \in Workers,
             \/ \E bounded \in BOOLEAN : sync_request(w, bounded)
             \/ SendStep(w) \/ WaitStep(w)
      PROVE  UNCHANGED link
  <2>1. CASE send_throws(w)
    BY <2>1 DEF send_throws, HandlerThrows, Disconnect
  <2>2. CASE send_locked(w) \/ load_counter(w) \/ store_counter(w) \/ transmit(w)
    BY <2>2 DEF send_locked, load_counter, store_counter, transmit
  <2>3. CASE WaitStep(w)
    BY <2>3 DEF WaitStep, sync_request_returns, wait_for_times_out
  <2>4. ASSUME NEW bounded \in BOOLEAN, sync_request(w, bounded)
        PROVE  UNCHANGED link
    BY <2>4 DEF sync_request
  <2> QED
    BY <1>2, <2>1, <2>2, <2>3, <2>4 DEF SendStep
<1>3. ASSUME NEW e \in Ends,
             \/ on_message(e) \/ HandlerStep(e) \/ on_close(e)
             \/ \E id \in Ids : request_expires(e, id)
      PROVE  UNCHANGED link
  BY <1>3 DEF on_message, on_message_rejected, on_response, on_request, on_payload,
     HandlerStep, handler_returns, handler_throws, HandlerThrows, Disconnect, on_close,
     request_expires
<1> QED
  BY <1>1, <1>2, <1>3 DEF Next

LEMMA TypesStep ==
  ASSUME TypesInv, [Next]_vars
  PROVE  TypesInv'
<1> USE DEF connVars, counterVars, historyVars
<1>1. Others /\ work \in [Workers -> Work] /\ WorkInv
  BY DEF TypesInv, TypeOK, Others, Work
<1>2. ASSUME UNCHANGED vars
      PROVE  Others'
  BY <1>1, <1>2 DEF vars, Others
<1>3. ASSUME NEW w \in Workers, NEW bounded \in BOOLEAN, sync_request(w, bounded)
      PROVE  Others'
  <2>1. Home(w) \in Ends /\ next_request_id[Home(w)] \in 0..(MaxRequests(Home(w)) - 1)
    BY <1>1, <1>3, Homes, ExchangeAssumption DEF sync_request, Others, MaxRequests, Ends
  <2>2. next_request_id[Home(w)] \in Ids
    BY <2>1 DEF Ids
  <2>3. /\ next_request_id' \in [Ends -> Nat]
        /\ \A e \in Ends : next_request_id'[e] \in 0..MaxRequests(e)
    BY <1>1, <1>3, <2>1, ExchangeAssumption DEF sync_request, Others, MaxRequests, Ends
  <2>4. pending' \in [Ends -> SUBSET Ids]
    BY <1>1, <1>3, <2>1, <2>2 DEF sync_request, FreshId, Others
  <2> QED
    BY <1>1, <1>3, <2>3, <2>4 DEF sync_request, Others
<1>4. ASSUME NEW w \in Workers, SendStep(w)
      PROVE  Others'
  <2>1. CASE send_locked(w)
    <3>1. send_counter' \in [Ends -> Nat] /\ send_counter[Home(w)] + 1 \in Nat
      BY <1>1, <2>1, Homes DEF send_locked, Others
    <3>2. wire' \in [Ends -> Seq(Packets)]
      BY <2>1, <3>1, Transmits DEF send_locked, Sends
    <3> QED
      BY <1>1, <2>1, <3>1, <3>2 DEF send_locked, Others
  <2>2. CASE load_counter(w)
    BY <1>1, <2>2 DEF load_counter, Others
  <2>3. CASE store_counter(w)
    BY <1>1, <2>3, Homes DEF store_counter, Others, Work
  <2>4. CASE transmit(w)
    <3>1. PICK counter \in Nat : Transmit(w, counter)
      BY <1>1, <2>4, Homes DEF transmit, Others, Work
    <3>2. wire' \in [Ends -> Seq(Packets)]
      BY <2>4, <3>1, Transmits DEF transmit, Sends
    <3> QED
      BY <1>1, <2>4, <3>2 DEF transmit, Others
  <2>5. CASE send_throws(w)
    <3>1. /\ up' = up \/ up' = [up EXCEPT !["client"] = FALSE]
          /\ \/ pending' = pending
             \/ pending' = [pending EXCEPT !["client"] = {}]
             \/ pending' = [pending EXCEPT ![Home(w)] = @ \ {work[w].id}]
      BY <2>5 DEF send_throws, HandlerThrows, Disconnect
    <3>2. up' \in [Ends -> BOOLEAN]
      BY <1>1, <3>1 DEF Others, Ends
    <3>3. pending' \in [Ends -> SUBSET Ids]
      BY <1>1, <3>1, Homes DEF Others, Ends
    <3>4. UNCHANGED <<send_counter, recv_counter, next_request_id, wire, rejected>>
      BY <2>5 DEF send_throws
    <3> QED
      BY <1>1, <3>2, <3>3, <3>4 DEF Others
  <2> QED
    BY <1>4, <2>1, <2>2, <2>3, <2>4, <2>5 DEF SendStep
<1>5. ASSUME NEW w \in Workers, WaitStep(w)
      PROVE  Others'
  BY <1>1, <1>5 DEF WaitStep, sync_request_returns, wait_for_times_out, Others
<1>6. ASSUME NEW e \in Ends, on_message(e)
      PROVE  Others'
  <2>1. wire' = [wire EXCEPT ![e] = Tail(@)] /\ wire[e] # <<>>
    BY <1>6 DEF on_message, on_message_rejected, on_response, on_request, on_payload,
                Decrypt, CanRead
  <2>2. wire' \in [Ends -> Seq(Packets)] /\ Head(wire[e]).counter \in Nat
    BY <1>1, <2>1, HeadPacket DEF Others, Packets
  <2>3. CASE on_message_rejected(e)
    BY <1>1, <2>2, <2>3 DEF on_message_rejected, HandlerThrows, Disconnect, Others, Ends
  <2>4. CASE on_response(e)
    BY <1>1, <2>2, <2>4 DEF on_response, Decrypt, Others
  <2>5. CASE on_request(e)
    BY <1>1, <2>2, <2>5 DEF on_request, Decrypt, Others
  <2>6. CASE on_payload(e)
    BY <1>1, <2>2, <2>6 DEF on_payload, Decrypt, Others
  <2> QED
    BY <1>6, <2>3, <2>4, <2>5, <2>6 DEF on_message
<1>7. ASSUME NEW e \in Ends, HandlerStep(e)
      PROVE  Others'
  BY <1>1, <1>7 DEF HandlerStep, handler_returns, handler_throws, HandlerThrows,
                    Disconnect, Others, Ends
<1>8. ASSUME NEW e \in Ends, NEW id \in Ids, request_expires(e, id)
      PROVE  Others'
  BY <1>1, <1>8 DEF request_expires, Others
<1>9. ASSUME NEW e \in Ends, on_close(e)
      PROVE  Others'
  BY <1>1, <1>9 DEF on_close, Others
<1>10. ASSUME link_lost
       PROVE  Others'
  BY <1>1, <1>10 DEF link_lost, Others
<1>11. Others'
  BY <1>2, <1>3, <1>4, <1>5, <1>6, <1>7, <1>8, <1>9, <1>10 DEF Next
<1>12. link' \in BOOLEAN
  BY LinkSteps DEF link_lost, TypesInv, TypeOK
<1> QED
  BY <1>11, <1>12, WorkStep DEF TypesInv, TypeOK, Others, Work

LEMMA TypesInit == Init => TypesInv
<1> SUFFICES ASSUME Init PROVE TypesInv
  OBVIOUS
<1>1. work \in [Workers -> Work] /\ WorkInv
  BY IdleWork DEF Init, WorkInv, Sends
<1>2. Others
  BY ExchangeAssumption DEF Init, Others, MaxRequests
<1>3. link \in BOOLEAN
  BY DEF Init
<1> QED
  BY <1>1, <1>2, <1>3 DEF TypesInv, TypeOK, Others, Work

-----------------------------------------------------------------------------
(***************************************************************************)
(* The order of counters on the wire.                                      *)
(***************************************************************************)
LEMMA PacketAt ==
  ASSUME NEW s \in Seq(Packets)
  PROVE  /\ Len(s) \in Nat /\ DOMAIN s = 1..Len(s)
         /\ \A i \in 1..Len(s) : s[i] \in Packets /\ s[i].counter \in Nat
<1>1. \A i \in 1..Len(s) : s[i] \in Packets
  OBVIOUS
<1>2. \A p \in Packets : p.counter \in Nat
  BY DEF Packets
<1> QED
  BY <1>1, <1>2

LEMMA OrderedAppend ==
  ASSUME NEW s \in Seq(Packets), NEW lo \in Nat, NEW hi \in Nat, NEW top \in Nat,
         NEW p \in Packets, Ordered(s, lo, hi), lo <= hi,
         hi < p.counter, p.counter <= top
  PROVE  Ordered(Append(s, p), lo, top)
<1> DEFINE t == Append(s, p)
           n == Len(s)
<1>1. /\ DOMAIN t = 1..(n + 1)
      /\ \A i \in 1..n : t[i] = s[i]
      /\ t[n + 1] = p
  OBVIOUS
<1>2. n \in Nat /\ DOMAIN s = 1..n /\ \A i \in 1..n : s[i].counter \in Nat
  BY PacketAt
<1> HIDE DEF t, n
<1>3. p.counter \in Nat
  BY DEF Packets
<1>4. ASSUME NEW i \in DOMAIN t
      PROVE  /\ lo < t[i].counter /\ t[i].counter <= top
             /\ \A j \in DOMAIN t : i < j => t[i].counter < t[j].counter
  <2>1. CASE i = n + 1
    BY <1>1, <1>2, <1>3, <2>1
  <2>2. CASE i \in 1..n
    <3>1. /\ lo < s[i].counter /\ s[i].counter <= hi
          /\ s[i].counter \in Nat /\ t[i] = s[i]
      BY <1>1, <1>2, <2>2 DEF Ordered
    <3>2. ASSUME NEW j \in DOMAIN t, i < j
          PROVE  t[i].counter < t[j].counter
      <4>1. CASE j = n + 1
        <5>1. t[j] = p
          BY <1>1, <4>1
        <5> QED
          BY <1>3, <3>1, <5>1
      <4>2. CASE j \in 1..n
        BY <1>1, <1>2, <2>2, <3>2, <4>2 DEF Ordered
      <4> QED
        BY <1>1, <1>2, <4>1, <4>2
    <3> QED
      BY <1>3, <3>1, <3>2
  <2> QED
    BY <1>1, <1>2, <2>1, <2>2
<1>5. Ordered(t, lo, top)
  BY <1>4 DEF Ordered
<1> QED
  BY <1>5 DEF t

LEMMA OrderedTail ==
  ASSUME NEW s \in Seq(Packets), s # <<>>, NEW lo \in Nat, NEW hi \in Nat,
         Ordered(s, lo, hi)
  PROVE  /\ Head(s).counter \in Nat
         /\ lo < Head(s).counter /\ Head(s).counter <= hi
         /\ Ordered(Tail(s), Head(s).counter, hi)
<1> DEFINE t == Tail(s)
           n == Len(s)
<1>1. /\ DOMAIN t = 1..(n - 1)
      /\ \A i \in 1..(n - 1) : t[i] = s[i + 1]
      /\ Head(s) = s[1] /\ n # 0
  OBVIOUS
<1>2. n \in Nat /\ DOMAIN s = 1..n /\ \A i \in 1..n : s[i].counter \in Nat
  BY PacketAt
<1> HIDE DEF t, n
<1>3. \A i \in DOMAIN t : i + 1 \in DOMAIN s /\ 1 < i + 1 /\ t[i] = s[i + 1]
  BY <1>1, <1>2
<1>4. 1 \in DOMAIN s
  BY <1>1, <1>2
<1>5. /\ \A i \in DOMAIN s : lo < s[i].counter /\ s[i].counter <= hi
      /\ \A i, j \in DOMAIN s : i < j => s[i].counter < s[j].counter
  BY DEF Ordered
<1>6. \A i \in DOMAIN t : s[1].counter < t[i].counter /\ t[i].counter <= hi
  BY <1>3, <1>4, <1>5
<1>7. ASSUME NEW i \in DOMAIN t, NEW j \in DOMAIN t, i < j
      PROVE  t[i].counter < t[j].counter
  <2>1. i + 1 < j + 1
    BY <1>1, <1>2, <1>7
  <2> QED
    BY <1>3, <1>5, <2>1
<1>8. Ordered(t, s[1].counter, hi)
  BY <1>6, <1>7 DEF Ordered
<1> QED
  BY <1>1, <1>2, <1>4, <1>5, <1>8 DEF t

LEMMA OrderedWiden ==
  ASSUME NEW s \in Seq(Packets), NEW lo \in Nat, NEW hi \in Nat, NEW top \in Nat,
         Ordered(s, lo, hi), hi <= top
  PROVE  Ordered(s, lo, top)
<1>1. \A i \in DOMAIN s : s[i].counter \in Nat
  BY PacketAt
<1> QED
  BY <1>1 DEF Ordered

\* A step that neither sends nor receives, nor lets anybody begin to send.
Quiet ==
  /\ UNCHANGED <<send_counter, recv_counter, wire, overlapped, rejected>>
  /\ \A w \in Workers : work'[w].pc \in {"store", "transmit"} => work'[w] = work[w]

\* What reading a packet does to the counters.
Reads(e) ==
  /\ wire[e] # <<>>
  /\ wire' = [wire EXCEPT ![e] = Tail(@)]
  /\ UNCHANGED <<send_counter, overlapped>>
  /\ \/ /\ on_message_rejected(e)
        /\ ~Accepts(e, Head(wire[e]).counter)
        /\ rejected' = [rejected EXCEPT ![e] = TRUE]
        /\ UNCHANGED recv_counter
     \/ /\ recv_counter' = [recv_counter EXCEPT ![e] = Head(wire[e]).counter]
        /\ UNCHANGED rejected
  /\ \A w \in Workers : work'[w].pc \in {"store", "transmit"} => work'[w] = work[w]

LEMMA WorkOf ==
  ASSUME TypesInv, NEW w \in Workers, NEW r, work' = [work EXCEPT ![w] = r]
  PROVE  work'[w] = r /\ \A v \in Workers \ {w} : work'[v] = work[v]
BY DEF TypesInv, TypeOK

LEMMA ThrowsQuietly ==
  ASSUME TypesInv, NEW e \in Ends, HandlerThrows(e)
  PROVE  \A w \in Workers : work'[w].pc \in {"store", "transmit"} => work'[w] = work[w]
<1>1. "client" \in Workers /\ "server" \in Workers
  BY DEF Workers, Ends
<1>2. \/ work' = [work EXCEPT !["client"] = Stopped]
      \/ work' = [work EXCEPT !["server"] = Idle]
  BY DEF HandlerThrows, Disconnect, Stopped
<1> QED
  BY <1>1, <1>2, WorkOf, StoppedWork, IdleWork

LEMMA ReadsPacket ==
  ASSUME TypesInv, NEW e \in Ends, on_message(e)
  PROVE  Reads(e)
<1> USE DEF Reads, connVars, counterVars, historyVars
<1>1. CASE on_message_rejected(e)
  BY <1>1, ThrowsQuietly DEF on_message_rejected, CanRead
<1>2. CASE on_response(e)
  BY <1>2 DEF on_response, Decrypt, CanRead
<1>3. CASE on_request(e)
  <2>1. work' = [work EXCEPT ![e] = Handling(Head(wire[e]).id)]
    BY <1>3 DEF on_request, Handling
  <2>2. Head(wire[e]).id \in Ids
    BY <1>3, HeadPacket DEF on_request, Decrypt, CanRead, TypesInv, Packets
  <2>3. \A w \in Workers : work'[w].pc \in {"store", "transmit"} => work'[w] = work[w]
    BY <2>1, <2>2, WorkOf, HandlingWork, Homes
  <2> QED
    BY <1>3, <2>3 DEF on_request, Decrypt, CanRead
<1>4. CASE on_payload(e)
  BY <1>4 DEF on_payload, Decrypt, CanRead
<1> QED
  BY <1>1, <1>2, <1>3, <1>4 DEF on_message

LEMMA TransferSteps ==
  ASSUME TypesInv, [Next]_vars
  PROVE  \/ Quiet
         \/ \E w \in Workers : \/ send_locked(w) \/ load_counter(w)
                              \/ store_counter(w) \/ transmit(w)
         \/ \E e \in Ends : on_message(e)
<1> USE DEF connVars, counterVars, historyVars
<1>1. ASSUME UNCHANGED vars
      PROVE  Quiet
  BY <1>1 DEF vars, Quiet
<1>2. ASSUME NEW w \in Workers, NEW bounded \in BOOLEAN, sync_request(w, bounded)
      PROVE  Quiet
  <2>1. work'[w].pc = "send" /\ \A v \in Workers \ {w} : work'[v] = work[v]
    BY <1>2 DEF sync_request, TypesInv, TypeOK
  <2> QED
    BY <1>2, <2>1 DEF sync_request, Quiet
<1>3. ASSUME NEW w \in Workers, send_throws(w)
      PROVE  Quiet
  <2>1. \A v \in Workers : work'[v].pc \in {"store", "transmit"} => work'[v] = work[v]
    <3>1. HandlerThrows(Home(w)) \/ work' = [work EXCEPT ![w] = Return(w)]
      BY <1>3 DEF send_throws
    <3>2. Return(w).pc \notin {"store", "transmit"}
      BY ReturnWork
    <3> QED
      BY <3>1, <3>2, ThrowsQuietly, WorkOf, Homes
  <2> QED
    BY <1>3, <2>1 DEF send_throws, Quiet
<1>4. ASSUME NEW w \in Workers, WaitStep(w)
      PROVE  Quiet
  <2>1. work' = [work EXCEPT ![w] = Return(w)]
    BY <1>4 DEF WaitStep, sync_request_returns, wait_for_times_out
  <2>2. \A v \in Workers : work'[v].pc \in {"store", "transmit"} => work'[v] = work[v]
    BY <2>1, ReturnWork, WorkOf
  <2> QED
    BY <1>4, <2>2 DEF WaitStep, sync_request_returns, wait_for_times_out, Quiet
<1>5. ASSUME NEW e \in Ends, HandlerStep(e)
      PROVE  Quiet
  <2>1. CASE handler_returns(e)
    <3>1. work' = [work EXCEPT ![e] = Responding(work[e].req)] /\ work[e].req \in Ids
      BY <2>1, Homes DEF handler_returns, Responding, TypesInv, WorkInv
    <3> QED
      BY <2>1, <3>1, WorkOf, RespondingWork, Homes DEF handler_returns, Quiet
  <2>2. CASE handler_throws(e)
    BY <2>2, ThrowsQuietly DEF handler_throws, Quiet
  <2> QED
    BY <1>5, <2>1, <2>2 DEF HandlerStep
<1>6. ASSUME NEW e \in Ends, on_close(e) \/ \E id \in Ids : request_expires(e, id)
      PROVE  Quiet
  BY <1>6 DEF on_close, request_expires, Quiet
<1>7. ASSUME link_lost
      PROVE  Quiet
  BY <1>7 DEF link_lost, Quiet
<1> QED
  BY <1>1, <1>2, <1>3, <1>4, <1>5, <1>6, <1>7 DEF Next, SendStep

-----------------------------------------------------------------------------
(***************************************************************************)
(* From the server to the client.                                          *)
(***************************************************************************)
\* A worker that sends a packet does not go on sending.
LEMMA TransmitsAway ==
  ASSUME TypesInv, NEW w \in Workers, NEW counter, Transmit(w, counter)
  PROVE  /\ work'[w].pc \in {"wait", "idle"}
         /\ \A v \in Workers \ {w} : work'[v] = work[v]
<1>1. \/ work' = [work EXCEPT ![w] = Idle]
      \/ work' = [work EXCEPT ![w] = [work[w] EXCEPT !.pc = "wait", !.msg = None,
                                                     !.local = 0]]
  BY DEF Transmit
<1>2. work[w] \in Work
  BY DEF TypesInv, TypeOK, Work
<1>3. [work[w] EXCEPT !.pc = "wait", !.msg = None, !.local = 0].pc = "wait"
  BY <1>2 DEF Work
<1> QED
  BY <1>1, <1>3, WorkOf, IdleWork

LEMMA ToClientStep ==
  ASSUME TypesInv, ToClientInv, [Next]_vars
  PROVE  ToClientInv'
<1> DEFINE s == wire["client"]
           lo == recv_counter["client"]
           hi == send_counter["server"]
<1>1. /\ s \in Seq(Packets) /\ lo \in Nat /\ hi \in Nat
      /\ lo <= hi /\ Ordered(s, lo, hi)
  BY DEF TypesInv, TypeOK, ToClientInv, Ends
<1>2. CASE Quiet
  BY <1>2 DEF Quiet, ToClientInv
<1>3. ASSUME NEW w \in Workers, send_locked(w)
      PROVE  ToClientInv'
  <2>1. Home(w) = "server" /\ Peer(Home(w)) = "client"
    BY <1>3 DEF send_locked, Locked, Peer
  <2>2. PICK p \in Packets :
          /\ p.counter = hi + 1
          /\ wire' = IF link THEN [wire EXCEPT !["client"] = Append(@, p)] ELSE wire
    BY <1>1, <1>3, <2>1, Transmits DEF send_locked, Sends
  <2>3. /\ send_counter'["server"] = hi + 1
        /\ UNCHANGED <<recv_counter, rejected>>
    BY <1>3, <2>1 DEF send_locked, historyVars, TypesInv, TypeOK, Ends
  <2>4. Ordered(wire'["client"], lo, hi + 1)
    <3>1. CASE link
      <4>1. wire'["client"] = Append(s, p)
        BY <2>2, <3>1 DEF TypesInv, Ends
      <4>2. hi + 1 \in Nat /\ hi < p.counter /\ p.counter <= hi + 1
        BY <1>1, <2>2
      <4> HIDE DEF s, lo, hi
      <4> QED
        BY <1>1, <4>1, <4>2, OrderedAppend
    <3>2. CASE ~link
      BY <1>1, <2>2, <3>2, OrderedWiden
    <3> QED
      BY <3>1, <3>2
  <2>5. \A v \in Workers : Home(v) = "server" => work'[v].pc \notin {"store", "transmit"}
    BY <1>3, TransmitsAway DEF send_locked, ToClientInv
  <2> QED
    BY <1>1, <2>3, <2>4, <2>5 DEF ToClientInv
<1>4. ASSUME NEW w \in Workers, load_counter(w) \/ store_counter(w)
      PROVE  ToClientInv'
  <2>1. Home(w) = "client"
    BY <1>4, Homes DEF load_counter, store_counter, Locked, ToClientInv, Ends
  <2>2. /\ UNCHANGED <<wire, recv_counter, rejected>>
        /\ send_counter'["server"] = hi
    BY <1>4, <2>1 DEF load_counter, store_counter, counterVars, historyVars, TypesInv,
                      TypeOK, Ends
  <2>3. \A v \in Workers \ {w} : work'[v] = work[v]
    BY <1>4 DEF load_counter, store_counter, TypesInv, TypeOK
  <2> QED
    BY <2>1, <2>2, <2>3 DEF ToClientInv
<1>5. ASSUME NEW w \in Workers, transmit(w)
      PROVE  ToClientInv'
  <2>1. PICK counter \in Nat : Transmit(w, counter)
    BY <1>5, Homes DEF transmit, TypesInv, TypeOK
  <2>2. Home(w) = "client" /\ Peer(Home(w)) = "server"
    BY <1>5, Homes DEF transmit, ToClientInv, Ends, Peer
  <2>3. wire'["client"] = s
    BY <2>1, <2>2 DEF Transmit, TypesInv, Ends
  <2> QED
    BY <1>5, <2>1, <2>3, TransmitsAway DEF transmit, counterVars, historyVars, ToClientInv
<1>6. ASSUME NEW e \in Ends, on_message(e)
      PROVE  ToClientInv'
  <2>1. Reads(e)
    BY <1>6, ReadsPacket
  <2>2. CASE e = "server"
    <3>1. /\ wire'["client"] = s
          /\ recv_counter'["client"] = lo
          /\ rejected'["client"] = rejected["client"]
          /\ UNCHANGED send_counter
      BY <2>1, <2>2 DEF Reads, TypesInv, TypeOK, Ends
    <3> QED
      BY <2>1, <3>1 DEF Reads, ToClientInv
  <2>3. CASE e = "client"
    <3>1. s # <<>> /\ wire'["client"] = Tail(s)
      BY <2>1, <2>3 DEF Reads, TypesInv, Ends
    <3>2. /\ Head(s).counter \in Nat
          /\ lo < Head(s).counter /\ Head(s).counter <= hi
          /\ Ordered(Tail(s), Head(s).counter, hi)
      BY <1>1, <3>1, OrderedTail
    <3>3. /\ recv_counter'["client"] = Head(s).counter
          /\ UNCHANGED <<rejected, send_counter>>
      BY <2>1, <2>3, <3>2 DEF Reads, Accepts, TypesInv, TypeOK, Ends
    <3> QED
      BY <2>1, <3>1, <3>2, <3>3 DEF Reads, ToClientInv
  <2> QED
    BY <2>2, <2>3 DEF Ends
<1> QED
  BY <1>2, <1>3, <1>4, <1>5, <1>6, TransferSteps

(***************************************************************************)
(* The client never rejects a packet of the server: whatever threads send  *)
(* them, sessions_mutex_ spans the counter, the encryption and the         *)
(* transmission (WsServerWrapper::send).                                   *)
(***************************************************************************)
THEOREM ClientNeverRejectsHolds == Spec => []ClientNeverRejects
<1>1. Init => ToClientInv
  BY IdleWork DEF Init, ToClientInv, Ordered, Ends
<1>2. TypesInv /\ [Next]_vars => TypesInv'
  BY TypesStep
<1>3. TypesInv /\ ToClientInv /\ [Next]_vars => ToClientInv'
  BY ToClientStep
<1>4. ToClientInv => ClientNeverRejects
  BY DEF ToClientInv, ClientNeverRejects
<1> QED
  BY <1>1, <1>2, <1>3, <1>4, TypesInit, PTL DEF Spec

-----------------------------------------------------------------------------
(***************************************************************************)
(* From the client to the server.                                          *)
(***************************************************************************)
LEMMA SendingTypes ==
  ASSUME TypesInv
  PROVE  /\ send_counter["client"] \in Nat /\ recv_counter["server"] \in Nat
         /\ wire["server"] \in Seq(Packets)
         /\ \A w \in Workers : work[w].local \in Nat
         /\ OneSender => Sent \in Nat
<1>1. /\ send_counter["client"] \in Nat /\ recv_counter["server"] \in Nat
      /\ wire["server"] \in Seq(Packets)
      /\ \A w \in Workers : work[w].local \in Nat
  BY DEF TypesInv, TypeOK, Ends
<1>2. CASE Storing
  BY <1>1, <1>2 DEF OneSender, Sent, Storing, Sending
<1>3. CASE ~Storing
  BY <1>1, <1>3 DEF Sent
<1> QED
  BY <1>1, <1>2, <1>3

\* Threads may stop sending, but nobody begins to.
LEMMA NobodyBegins ==
  ASSUME TypesInv, OneSender, UNCHANGED send_counter,
         \A w \in Workers : work'[w].pc \in {"store", "transmit"} => work'[w] = work[w]
  PROVE  OneSender' /\ Sent' \in Nat /\ Sent <= Sent'
<1>1. \A w \in Sending("client")' : w \in Sending("client") /\ work'[w] = work[w]
  BY DEF Sending
<1>2. OneSender'
  BY <1>1 DEF OneSender
<1>3. Storing' => Storing
  BY <1>1 DEF Storing
<1> QED
  BY <1>2, <1>3, SendingTypes DEF Sent

LEMMA ToServerStep ==
  ASSUME TypesInv, ToClientInv, ToServerInv, [Next]_vars
  PROVE  ToServerInv'
<1> DEFINE s == wire["server"]
           lo == recv_counter["server"]
           n == send_counter["client"]
<1>0. overlapped => overlapped'
  <2>1. CASE UNCHANGED overlapped
    BY <2>1
  <2>2. ASSUME NEW w \in Workers, load_counter(w)
        PROVE  overlapped => overlapped'
    BY <2>2 DEF load_counter
  <2> QED
    BY <2>1, <2>2, TransferSteps, ReadsPacket
       DEF Quiet, Reads, send_locked, store_counter, transmit, historyVars
<1> SUFFICES ASSUME ~overlapped, ~overlapped'
             PROVE  ToServerInv'
  BY <1>0 DEF ToServerInv
<1>1. /\ s \in Seq(Packets) /\ lo \in Nat /\ n \in Nat /\ Sent \in Nat
      /\ OneSender /\ lo <= Sent /\ Ordered(s, lo, Sent)
  BY SendingTypes DEF ToServerInv
<1>2. ASSUME UNCHANGED <<send_counter, recv_counter>>, wire'["server"] = s,
             \A w \in Workers : work'[w].pc \in {"store", "transmit"} => work'[w] = work[w]
      PROVE  ToServerInv'
  <2>1. OneSender' /\ Sent' \in Nat /\ Sent <= Sent'
    BY <1>1, <1>2, NobodyBegins
  <2>2. Ordered(s, lo, Sent')
    BY <1>1, <2>1, OrderedWiden
  <2>3. lo <= Sent'
    BY <1>1, <2>1
  <2> QED
    BY <1>2, <2>1, <2>2, <2>3 DEF ToServerInv
<1>3. ASSUME NEW w \in Workers, send_locked(w)
      PROVE  ToServerInv'
  <2>1. Home(w) = "server" /\ Peer(Home(w)) = "client"
    BY <1>3 DEF send_locked, Locked, Peer
  <2>2. /\ send_counter'["client"] = n /\ UNCHANGED recv_counter
        /\ wire'["server"] = s
    BY <1>3, <2>1 DEF send_locked, Transmit, TypesInv, TypeOK, Ends
  <2>3. Sending("client")' = Sending("client")
        /\ \A v \in Sending("client") : work'[v] = work[v]
    BY <1>3, <2>1, TransmitsAway DEF send_locked, Sending
  <2>4. OneSender' /\ Sent' = Sent
    BY <1>1, <2>2, <2>3 DEF OneSender, Sent, Storing
  <2> QED
    BY <1>1, <2>2, <2>4 DEF ToServerInv
<1>4. ASSUME NEW w \in Workers, load_counter(w)
      PROVE  ToServerInv'
  <2>1. Home(w) = "client"
    BY <1>4, Homes DEF load_counter, Locked, Ends
  <2>2. Sending("client") = {} /\ UNCHANGED <<wire, recv_counter, send_counter>>
    BY <1>4, <2>1 DEF load_counter, counterVars
  <2>3. /\ work'[w].pc = "store" /\ work'[w].local = n
        /\ \A v \in Workers \ {w} : work'[v] = work[v]
    BY <1>4, <2>1 DEF load_counter, TypesInv, TypeOK
  <2>4. Sending("client")' = {w}
    BY <2>1, <2>2, <2>3 DEF Sending
  <2>5. OneSender' /\ Sent' = n /\ Sent = n
    BY <2>2, <2>3, <2>4 DEF OneSender, Sent, Storing
  <2> QED
    BY <1>1, <2>2, <2>5 DEF ToServerInv
<1>5. ASSUME NEW w \in Workers, store_counter(w)
      PROVE  ToServerInv'
  <2>1. Home(w) = "client"
    BY <1>5, Homes DEF store_counter, ToClientInv, Ends
  <2>2. Sending("client") = {w} /\ work[w].local = n /\ work[w].pc = "store"
    BY <1>1, <1>5, <2>1 DEF store_counter, OneSender, Sending
  <2>3. /\ send_counter'["client"] = n + 1
        /\ UNCHANGED <<wire, recv_counter>>
    BY <1>5, <2>1, <2>2 DEF store_counter, TypesInv, TypeOK, Ends
  <2>4. /\ work'[w].pc = "transmit" /\ work'[w].local = n
        /\ \A v \in Workers \ {w} : work'[v] = work[v]
    BY <1>5, <2>2 DEF store_counter, TypesInv, TypeOK
  <2>5. Sending("client")' = {w}
    BY <2>1, <2>2, <2>4 DEF Sending
  <2>6. Sent = n /\ Sent' = n
    BY <1>1, <2>2, <2>3, <2>4, <2>5 DEF Sent, Storing
  <2>7. OneSender'
    BY <2>3, <2>4, <2>5 DEF OneSender
  <2> QED
    BY <1>1, <2>3, <2>6, <2>7 DEF ToServerInv
<1>6. ASSUME NEW w \in Workers, transmit(w)
      PROVE  ToServerInv'
  <2>1. Home(w) = "client" /\ Peer(Home(w)) = "server"
    BY <1>6, Homes DEF transmit, ToClientInv, Ends, Peer
  <2>2. /\ Sending("client") = {w} /\ work[w].local + 1 = n /\ work[w].pc = "transmit"
        /\ work[w].local \in Nat
    BY <1>1, <1>6, <2>1, SendingTypes DEF transmit, OneSender, Sending
  <2>3. Transmit(w, n) /\ UNCHANGED <<send_counter, recv_counter>>
    BY <1>6, <2>1, <2>2 DEF transmit, counterVars
  <2>4. PICK p \in Packets :
          /\ p.counter = n
          /\ wire' = IF link THEN [wire EXCEPT !["server"] = Append(@, p)] ELSE wire
    BY <1>1, <2>1, <2>2, <2>3, Transmits DEF Sends
  <2>5. Sending("client")' = {}
    BY <2>2, <2>3, TransmitsAway DEF Sending
  <2>6. OneSender' /\ Sent' = n /\ Sent = n - 1
    BY <2>2, <2>3, <2>5 DEF OneSender, Sent, Storing
  <2>7. Ordered(wire'["server"], lo, n)
    <3>1. CASE link
      <4>1. wire'["server"] = Append(s, p)
        BY <2>4, <3>1 DEF TypesInv, Ends
      <4>2. Sent < p.counter /\ p.counter <= n
        BY <1>1, <2>4, <2>6
      <4> HIDE DEF s, lo, n
      <4> QED
        BY <1>1, <4>1, <4>2, OrderedAppend
    <3>2. CASE ~link
      <4>1. wire'["server"] = s /\ Sent <= n
        BY <1>1, <2>4, <2>6, <3>2
      <4> QED
        BY <1>1, <4>1, OrderedWiden
    <3> QED
      BY <3>1, <3>2
  <2>8. lo <= n
    BY <1>1, <2>6
  <2> QED
    BY <2>3, <2>6, <2>7, <2>8 DEF ToServerInv
<1>7. ASSUME NEW e \in Ends, on_message(e)
      PROVE  ToServerInv'
  <2>1. Reads(e)
    BY <1>7, ReadsPacket
  <2>2. CASE e = "client"
    <3>1. recv_counter'["server"] = lo /\ wire'["server"] = s /\ UNCHANGED send_counter
      BY <2>1, <2>2 DEF Reads, TypesInv, TypeOK, Ends
    <3>2. OneSender' /\ Sent' \in Nat /\ Sent <= Sent'
      BY <1>1, <2>1, NobodyBegins DEF Reads
    <3>3. Ordered(s, lo, Sent') /\ lo <= Sent'
      BY <1>1, <3>2, OrderedWiden
    <3> QED
      BY <3>1, <3>2, <3>3 DEF ToServerInv
  <2>3. CASE e = "server"
    <3>1. s # <<>> /\ wire'["server"] = Tail(s) /\ UNCHANGED send_counter
      BY <2>1, <2>3 DEF Reads, TypesInv, Ends
    <3>2. /\ Head(s).counter \in Nat
          /\ lo < Head(s).counter /\ Head(s).counter <= Sent
          /\ Ordered(Tail(s), Head(s).counter, Sent)
      BY <1>1, <3>1, OrderedTail
    <3>3. recv_counter'["server"] = Head(s).counter
      BY <2>1, <2>3, <3>2 DEF Reads, Accepts, TypesInv, TypeOK, Ends
    <3>4. OneSender' /\ Sent' \in Nat /\ Sent <= Sent'
      BY <1>1, <2>1, NobodyBegins DEF Reads
    <3>5. Tail(s) \in Seq(Packets)
      BY <1>1, <3>1, HeadPacket
    <3>6. Ordered(Tail(s), Head(s).counter, Sent') /\ Head(s).counter <= Sent'
      <4> DEFINE t == Tail(s)
                 h == Head(s).counter
      <4>1. /\ t \in Seq(Packets) /\ h \in Nat /\ h <= Sent /\ Ordered(t, h, Sent)
            /\ Sent \in Nat /\ Sent' \in Nat /\ Sent <= Sent'
        BY <1>1, <3>2, <3>4, <3>5
      <4> HIDE DEF t, h
      <4>2. Ordered(t, h, Sent') /\ h <= Sent'
        BY <4>1, OrderedWiden
      <4> QED
        BY <4>2 DEF t, h
    <3> QED
      BY <3>1, <3>3, <3>4, <3>6 DEF ToServerInv
  <2> QED
    BY <2>2, <2>3 DEF Ends
<1>8. CASE Quiet
  BY <1>2, <1>8 DEF Quiet
<1> QED
  BY <1>3, <1>4, <1>5, <1>6, <1>7, <1>8, TransferSteps

-----------------------------------------------------------------------------
(***************************************************************************)
(* Requests that wait for their answer.                                    *)
(***************************************************************************)
LEMMA WireTail ==
  ASSUME TypesInv, NEW d \in Ends, wire[d] # <<>>, wire' = [wire EXCEPT ![d] = Tail(@)],
         NEW c \in Ends, NEW m, OnTheWire(c, m)
  PROVE  \/ OnTheWire(c, m)'
         \/ c = d /\ Head(wire[d]).kind = m.kind /\ Head(wire[d]).id = m.id
<1>1. CASE c # d
  BY <1>1 DEF OnTheWire, TypesInv
<1>2. CASE c = d
  <2> DEFINE s == wire[d]
             t == Tail(s)
  <2>1. wire'[c] = t /\ s \in Seq(Packets) /\ s # <<>>
    BY <1>2 DEF TypesInv
  <2>2. PICK i \in DOMAIN s : s[i].kind = m.kind /\ s[i].id = m.id
    BY <1>2 DEF OnTheWire
  <2>3. CASE i = 1
    <3>1. Head(s) = s[1]
      BY <2>1
    <3> QED
      BY <1>2, <2>2, <2>3, <3>1
  <2>4. CASE i # 1
    <3>1. i - 1 \in DOMAIN t /\ t[i - 1] = s[i]
      BY <2>1, <2>4
    <3> QED
      BY <2>1, <2>2, <3>1 DEF OnTheWire
  <2> QED
    BY <2>3, <2>4
<1> QED
  BY <1>1, <1>2

LEMMA WireAppend ==
  ASSUME TypesInv, NEW d \in Ends, NEW p \in Packets,
         wire' = [wire EXCEPT ![d] = Append(@, p)]
  PROVE  /\ \A c \in Ends, m \in Messages : OnTheWire(c, m) => OnTheWire(c, m)'
         /\ \A m \in Messages : p.kind = m.kind /\ p.id = m.id => OnTheWire(d, m)'
<1> DEFINE s == wire[d]
           t == Append(s, p)
           n == Len(s)
<1>1. /\ n \in Nat /\ DOMAIN s = 1..n /\ DOMAIN t = 1..(n + 1)
      /\ \A i \in 1..n : t[i] = s[i]
      /\ t[n + 1] = p
  BY DEF TypesInv
<1>2. wire'[d] = t /\ \A c \in Ends \ {d} : wire'[c] = wire[c]
  BY DEF TypesInv
<1> HIDE DEF t, n
<1>3. ASSUME NEW c \in Ends, NEW m \in Messages, OnTheWire(c, m)
      PROVE  OnTheWire(c, m)'
  <2>1. CASE c = d
    <3>1. PICK i \in 1..n : s[i].kind = m.kind /\ s[i].id = m.id
      BY <1>1, <1>3, <2>1 DEF OnTheWire
    <3>2. i \in DOMAIN t /\ t[i] = s[i]
      BY <1>1
    <3> QED
      BY <1>2, <2>1, <3>1, <3>2 DEF OnTheWire
  <2>2. CASE c # d
    BY <1>2, <1>3, <2>2 DEF OnTheWire
  <2> QED
    BY <2>1, <2>2
<1>4. n + 1 \in DOMAIN t
  BY <1>1
<1> QED
  BY <1>1, <1>2, <1>3, <1>4 DEF OnTheWire

\* Worker w moves on, drops no message it was to send and no request.
LEMMA MovesOn ==
  ASSUME TypesInv, NEW w \in Workers,
         \A v \in Workers \ {w} : work'[v] = work[v],
         UNCHANGED wire,
         work'[w].req = work[w].req,
         work[w].pc \in Sends => work'[w].pc \in Sends /\ work'[w].msg = work[w].msg,
         NEW e \in Ends, NEW id, Underway(e, id)
  PROVE  Underway(e, id)'
<1>1. \A c, m : InHand(c, m) => InHand(c, m)'
  BY DEF InHand, Sends
<1>2. \A c, m : OnTheWire(c, m) => OnTheWire(c, m)'
  BY DEF OnTheWire
<1>3. work'[Peer(e)].req = work[Peer(e)].req
  BY Homes
<1> QED
  BY <1>1, <1>2, <1>3 DEF Underway

\* Worker w transmits what it has in hand.
LEMMA TransmitsUnderway ==
  ASSUME TypesInv, link, NEW w \in Workers, work[w].pc \in Sends, NEW counter \in Nat,
         Transmit(w, counter), NEW e \in Ends, NEW id \in Ids, Underway(e, id)
  PROVE  Underway(e, id)'
<1>1. PICK p \in Packets : /\ p.kind = work[w].msg.kind /\ p.id = work[w].msg.id
                           /\ wire' = [wire EXCEPT ![Peer(Home(w))] = Append(@, p)]
  BY Transmits
<1>2. Peer(Home(w)) \in Ends
  BY Homes
<1>3. /\ \A c \in Ends, m \in Messages : OnTheWire(c, m) => OnTheWire(c, m)'
      /\ \A m \in Messages : p.kind = m.kind /\ p.id = m.id
                              => OnTheWire(Peer(Home(w)), m)'
  BY <1>1, <1>2, WireAppend
<1>4. \A c \in Ends, m \in Messages :
        InHand(c, m) => InHand(c, m)' \/ OnTheWire(Peer(c), m)'
  BY <1>1, <1>3, TransmitsAway DEF InHand
<1>5. work'[w].req = work[w].req
  <2>1. CASE work[w].msg.kind = "request"
    <3>1. work' = [work EXCEPT ![w] = [work[w] EXCEPT !.pc = "wait", !.msg = None,
                                                      !.local = 0]]
      BY <2>1 DEF Transmit
    <3>2. work[w] \in Work
      BY DEF TypesInv, TypeOK, Work
    <3> QED
      BY <3>1, <3>2, WorkOf DEF Work
  <2>2. CASE work[w].msg.kind # "request"
    <3>1. work' = [work EXCEPT ![w] = Idle]
      BY <2>2 DEF Transmit
    <3>2. work[w].msg.kind = "response"
      BY <2>2 DEF TypesInv, WorkInv, Messages
    <3> QED
      BY <3>1, <3>2, WorkOf, IdleWork DEF TypesInv, WorkInv
  <2> QED
    BY <2>1, <2>2
<1>6. work'[Peer(e)].req = work[Peer(e)].req
  BY <1>5, TransmitsAway, Homes
<1>7. Request(id) \in Messages /\ Response(id) \in Messages
  BY DEF Request, Response, Messages
<1>8. Peer(e) \in Ends /\ Peer(Peer(e)) = e
  BY DEF Peer, Ends
<1> QED
  BY <1>3, <1>4, <1>6, <1>7, <1>8 DEF Underway

\* What was lost or went wrong stays so.
LEMMA OnlyWorse ==
  ASSUME TypesInv, LinkInv, [Next]_vars
  PROVE  /\ link' => link
         /\ up'["client"] => up["client"]
         /\ overlapped => overlapped'
         /\ unanswered \subseteq unanswered'
         /\ LinkInv'
<1> USE DEF connVars, historyVars
<1>1. link' => link
  BY LinkSteps DEF link_lost
<1>2. ASSUME UNCHANGED <<up, overlapped, unanswered>>
      PROVE  /\ up'["client"] => up["client"]
             /\ overlapped => overlapped'
             /\ unanswered \subseteq unanswered'
             /\ up'["server"] = up["server"]
  BY <1>2
<1>3. ASSUME NEW e \in Ends, HandlerThrows(e)
      PROVE  (up'["client"] => up["client"]) /\ up'["server"] = up["server"]
  BY <1>3 DEF HandlerThrows, Disconnect, TypesInv, TypeOK, Ends
<1> DEFINE Worse == /\ up'["client"] => up["client"]
                    /\ overlapped => overlapped'
                    /\ unanswered \subseteq unanswered'
                    /\ up'["server"] # up["server"] => ~link'
<1>4. Worse
  <2>0. ASSUME UNCHANGED <<up, overlapped, unanswered>>
        PROVE  Worse
    BY <1>2, <2>0
  <2>1. ASSUME NEW w \in Workers, SendStep(w)
        PROVE  Worse
    <3>1. CASE send_locked(w) \/ store_counter(w) \/ transmit(w)
      BY <2>0, <3>1 DEF send_locked, store_counter, transmit
    <3>2. CASE load_counter(w)
      BY <3>2 DEF load_counter
    <3>3. CASE send_throws(w)
      <4>1. Home(w) \in Ends
        BY Homes
      <4> QED
        BY <1>3, <3>3, <4>1 DEF send_throws
    <3> QED
      BY <2>1, <3>1, <3>2, <3>3 DEF SendStep
  <2>2. ASSUME NEW w \in Workers,
               WaitStep(w) \/ \E bounded \in BOOLEAN : sync_request(w, bounded)
        PROVE  Worse
    BY <2>0, <2>2 DEF WaitStep, sync_request_returns, wait_for_times_out, sync_request
  <2>3. ASSUME NEW e \in Ends, on_message(e)
        PROVE  Worse
    BY <1>2, <1>3, <2>3
       DEF on_message, on_message_rejected, on_response, on_request, on_payload
  <2>4. ASSUME NEW e \in Ends, HandlerStep(e)
        PROVE  Worse
    BY <1>2, <1>3, <2>4 DEF HandlerStep, handler_returns, handler_throws
  <2>5. ASSUME NEW e \in Ends, on_close(e)
        PROVE  Worse
    BY <2>5 DEF on_close, TypesInv, TypeOK, Ends
  <2>6. CASE \/ link_lost \/ UNCHANGED vars
             \/ \E e \in Ends : \E id \in Ids : request_expires(e, id)
    BY <2>0, <2>6 DEF link_lost, vars, request_expires
  <2> HIDE DEF Worse
  <2> QED
    BY <2>1, <2>2, <2>3, <2>4, <2>5, <2>6 DEF Next
<1> QED
  BY <1>1, <1>4 DEF LinkInv

\* Only sync_request adds to pending_requests_.
LEMMA PendingSteps ==
  ASSUME TypesInv, [Next]_vars, NEW e \in Ends, NEW id \in pending'[e]
  PROVE  \/ id \in pending[e]
         \/ \E w \in Workers, bounded \in BOOLEAN :
              sync_request(w, bounded) /\ Home(w) = e /\ id = FreshId(e)
<1>1. ASSUME NEW d \in Ends, HandlerThrows(d)
      PROVE  id \in pending[e]
  BY <1>1 DEF HandlerThrows, Disconnect, TypesInv, TypeOK, Ends
<1>2. ASSUME NEW w \in Workers, NEW bounded \in BOOLEAN, sync_request(w, bounded),
             id \notin pending[e]
      PROVE  Home(w) = e /\ id = FreshId(e)
  BY <1>2, Homes DEF sync_request, TypesInv, TypeOK
<1>3. ASSUME NEW w \in Workers, SendStep(w) \/ WaitStep(w)
      PROVE  id \in pending[e]
  <2>1. CASE send_throws(w)
    <3>1. Home(w) \in Ends
      BY Homes
    <3> QED
      BY <1>1, <2>1, <3>1 DEF send_throws, TypesInv, TypeOK
  <2>2. CASE ~send_throws(w)
    <3>1. UNCHANGED pending
      BY <1>3, <2>2 DEF SendStep, WaitStep, send_locked, load_counter, store_counter,
         transmit, sync_request_returns, wait_for_times_out
    <3> QED
      BY <3>1
  <2> QED
    BY <2>1, <2>2
<1>4. ASSUME NEW d \in Ends,
             \/ on_message(d) \/ HandlerStep(d) \/ on_close(d)
             \/ \E i \in Ids : request_expires(d, i)
      PROVE  id \in pending[e]
  BY <1>1, <1>4 DEF on_message, on_message_rejected, on_response, on_request, on_payload,
     HandlerStep, handler_returns, handler_throws, on_close, request_expires, TypesInv,
     TypeOK
<1> QED
  BY <1>2, <1>3, <1>4 DEF Next, vars, link_lost

\* An io thread that may read has nothing in hand and no request to answer.
LEMMA ReaderIsFree ==
  ASSUME TypesInv, NEW d \in Ends, CanRead(d)
  PROVE  work[d].pc \notin Sends /\ work[d].req = None /\ wire[d] # <<>>
BY Homes DEF CanRead, TypesInv, WorkInv, Sends

LEMMA ReadsUnderway ==
  ASSUME TypesInv, ToServerInv, NEW d \in Ends, on_message(d),
         up'["client"], ~overlapped,
         NEW e \in Ends, NEW id \in pending'[e], id \in pending[e], id \in Ids,
         <<e, id>> \notin unanswered', Underway(e, id)
  PROVE  Underway(e, id)'
<1> DEFINE p == Head(wire[d])
<1>1. wire[d] # <<>> /\ wire' = [wire EXCEPT ![d] = Tail(@)]
  BY ReadsPacket DEF Reads
<1>2. p \in Packets
  BY <1>1, HeadPacket DEF TypesInv
<1>3. id # None /\ Peer(e) \in Ends /\ Peer(Peer(e)) = e
  BY ExchangeAssumption DEF Peer, Ends
<1>4. /\ OnTheWire(Peer(e), Request(id)) =>
           \/ OnTheWire(Peer(e), Request(id))'
           \/ Peer(e) = d /\ p.kind = "request" /\ p.id = id
      /\ OnTheWire(e, Response(id)) =>
           \/ OnTheWire(e, Response(id))'
           \/ e = d /\ p.kind = "response" /\ p.id = id
  <2>1. /\ Request(id).kind = "request" /\ Request(id).id = id
        /\ Response(id).kind = "response" /\ Response(id).id = id
    BY DEF Request, Response
  <2> DEFINE q == Request(id)
             r == Response(id)
  <2>2. ASSUME OnTheWire(Peer(e), q)
        PROVE  OnTheWire(Peer(e), q)' \/ (Peer(e) = d /\ p.kind = q.kind /\ p.id = q.id)
    BY <1>1, <1>3, <2>2, WireTail
  <2>3. ASSUME OnTheWire(e, r)
        PROVE  OnTheWire(e, r)' \/ (e = d /\ p.kind = r.kind /\ p.id = r.id)
    BY <1>1, <2>3, WireTail
  <2> QED
    BY <2>1, <2>2, <2>3
<1>5. ASSUME UNCHANGED work
      PROVE  /\ \A c, m : InHand(c, m) => InHand(c, m)'
             /\ work'[Peer(e)].req = work[Peer(e)].req
  BY <1>5 DEF InHand
<1>6. CASE on_message_rejected(d)
  <2>1. CASE d = "client"
    BY <1>6, <2>1 DEF on_message_rejected, HandlerThrows, Disconnect, TypesInv, TypeOK, Ends
  <2>2. CASE d = "server"
    <3>1. p.counter > recv_counter["server"]
      BY <1>1, <2>2, SendingTypes, OrderedTail DEF ToServerInv
    <3> QED
      BY <1>6, <2>2, <3>1 DEF on_message_rejected, Accepts
  <2> QED
    BY <2>1, <2>2 DEF Ends
<1>7. CASE on_response(d)
  <2>1. p.kind = "response" /\ pending' = [pending EXCEPT ![d] = @ \ {p.id}]
    BY <1>7 DEF on_response, Decrypt
  <2>2. ~(e = d /\ p.id = id)
    BY <2>1 DEF TypesInv, TypeOK
  <2> QED
    BY <1>4, <1>5, <1>7, <2>1, <2>2 DEF on_response, Underway
<1>8. CASE on_payload(d)
  <2>1. p.kind = "request" /\ <<Peer(d), p.id>> \in unanswered'
    BY <1>8 DEF on_payload, Decrypt
  <2>2. ~(Peer(e) = d /\ p.id = id)
    BY <1>3, <2>1
  <2> QED
    BY <1>4, <1>5, <1>8, <2>1, <2>2 DEF on_payload, Underway
<1>9. CASE on_request(d)
  <2>1. p.kind = "request" /\ work' = [work EXCEPT ![d] = Handling(p.id)] /\ CanRead(d)
    BY <1>9 DEF on_request, Decrypt, Handling
  <2>2. p.id \in Ids
    BY <1>2 DEF Packets
  <2>3. work'[d].req = p.id /\ \A v \in Workers \ {d} : work'[v] = work[v]
    <3>1. d \in Workers
      BY Homes
    <3>2. work'[d] = Handling(p.id) /\ \A v \in Workers \ {d} : work'[v] = work[v]
      BY <2>1, <3>1, WorkOf
    <3>3. Handling(p.id).req = p.id
      BY <2>2, HandlingWork
    <3> QED
      BY <3>2, <3>3
  <2>4. work[d].pc \notin Sends /\ work[d].req = None
    BY <2>1, ReaderIsFree
  <2>5. \A c, m : InHand(c, m) => InHand(c, m)'
    BY <2>3, <2>4 DEF InHand, Sends
  <2>6. work[Peer(e)].req = id => work'[Peer(e)].req = id
    BY <1>3, <2>3, <2>4, Homes
  <2> QED
    BY <1>4, <2>1, <2>3, <2>5, <2>6 DEF Underway
<1> QED
  BY <1>6, <1>7, <1>8, <1>9 DEF on_message

LEMMA HandlerUnderway ==
  ASSUME TypesInv, NEW d \in Ends, HandlerStep(d), up'["client"],
         NEW e \in Ends, NEW id \in Ids,
         <<e, id>> \notin unanswered', Underway(e, id)
  PROVE  Underway(e, id)'
<1>1. work[d].pc = "handle" /\ work[d].req \in Ids /\ d \in Workers /\ UNCHANGED wire
  BY Homes DEF HandlerStep, handler_returns, handler_throws, TypesInv, WorkInv
<1>2. /\ Peer(e) \in Ends /\ Peer(e) \in Workers /\ Peer(Peer(e)) = e
      /\ Home(d) = d /\ Home(Peer(e)) = Peer(e)
  BY Homes DEF Peer, Ends
<1>3. \A c, m : OnTheWire(c, m) => OnTheWire(c, m)'
  BY <1>1 DEF OnTheWire
<1>4. ASSUME \A v \in Workers \ {d} : work'[v] = work[v]
      PROVE  /\ \A c, m : InHand(c, m) => InHand(c, m)'
             /\ Peer(e) # d => work'[Peer(e)].req = work[Peer(e)].req
  BY <1>1, <1>2, <1>4 DEF InHand
<1>5. CASE handler_returns(d)
  <2>1. work' = [work EXCEPT ![d] = Responding(work[d].req)]
    BY <1>5 DEF handler_returns, Responding
  <2>2. /\ work'[d] = Responding(work[d].req)
        /\ \A v \in Workers \ {d} : work'[v] = work[v]
    BY <1>1, <2>1, WorkOf
  <2>3. work'[d].pc = "send" /\ work'[d].msg = Response(work[d].req)
    BY <1>1, <2>2, RespondingWork
  <2>4. ASSUME Peer(e) = d, work[Peer(e)].req = id
        PROVE  InHand(Peer(e), Response(id))'
    BY <1>1, <1>2, <2>3, <2>4 DEF InHand, Response
  <2> QED
    BY <1>3, <1>4, <2>2, <2>4 DEF Underway
<1>6. CASE handler_throws(d)
  <2>1. d = "server" /\ work' = [work EXCEPT !["server"] = Idle]
    BY <1>6 DEF handler_throws, HandlerThrows, Disconnect, TypesInv, TypeOK, Ends
  <2>2. \A v \in Workers \ {d} : work'[v] = work[v]
    BY <1>1, <2>1, WorkOf
  <2>3. ~(Peer(e) = d /\ work[d].req = id)
    BY <1>2, <1>6 DEF handler_throws
  <2> QED
    BY <1>3, <1>4, <2>2, <2>3 DEF Underway
<1> QED
  BY <1>5, <1>6 DEF HandlerStep

LEMMA StaysUnderway ==
  ASSUME TypesInv, ToServerInv, LinkInv, [Next]_vars, link', up'["client"], ~overlapped',
         NEW e \in Ends, NEW id \in pending'[e], id \in pending[e],
         <<e, id>> \notin unanswered', Underway(e, id)
  PROVE  Underway(e, id)'
<1> USE DEF connVars, counterVars, historyVars
<1>1. link /\ up["client"] /\ ~overlapped /\ id \in Ids
  BY OnlyWorse DEF TypesInv, TypeOK
<1>2. ASSUME UNCHANGED <<work, wire>>
      PROVE  Underway(e, id)'
  BY <1>2 DEF Underway, InHand, OnTheWire
<1>3. ASSUME NEW w \in Workers, NEW bounded \in BOOLEAN, sync_request(w, bounded)
      PROVE  Underway(e, id)'
  <2>1. /\ work'[w].req = work[w].req /\ work[w].pc \notin Sends /\ UNCHANGED wire
        /\ \A v \in Workers \ {w} : work'[v] = work[v]
    BY <1>3 DEF sync_request, TypesInv, TypeOK, Sends
  <2> QED
    BY <2>1, MovesOn
<1>4. ASSUME NEW w \in Workers, load_counter(w) \/ store_counter(w)
      PROVE  Underway(e, id)'
  <2>1. /\ work'[w].req = work[w].req /\ work'[w].pc \in Sends /\ UNCHANGED wire
        /\ work'[w].msg = work[w].msg
        /\ \A v \in Workers \ {w} : work'[v] = work[v]
    <3>1. CASE load_counter(w)
      BY <3>1 DEF load_counter, TypesInv, TypeOK, Sends
    <3>2. CASE store_counter(w)
      BY <3>2 DEF store_counter, TypesInv, TypeOK, Sends
    <3> QED
      BY <1>4, <3>1, <3>2
  <2> QED
    BY <2>1, MovesOn
<1>5. ASSUME NEW w \in Workers, send_locked(w) \/ transmit(w)
      PROVE  Underway(e, id)'
  <2>1. work[w].pc \in Sends
    BY <1>5 DEF send_locked, transmit, Sends
  <2>2. PICK counter \in Nat : Transmit(w, counter)
    <3>1. send_counter[Home(w)] \in Nat /\ work[w].local \in Nat
      BY Homes DEF TypesInv, TypeOK
    <3>2. CASE send_locked(w)
      <4>1. Transmit(w, send_counter[Home(w)] + 1)
        BY <3>2 DEF send_locked
      <4> QED
        BY <3>1, <4>1
    <3>3. CASE transmit(w)
      BY <3>1, <3>3 DEF transmit
    <3> QED
      BY <1>5, <3>2, <3>3
  <2> QED
    BY <1>1, <2>1, <2>2, TransmitsUnderway
<1>6. ASSUME NEW w \in Workers, send_throws(w)
      PROVE  FALSE
  BY <1>1, <1>6, Homes DEF send_throws, LinkInv, Ends
<1>7. ASSUME NEW w \in Workers, WaitStep(w)
      PROVE  Underway(e, id)'
  <2>1. /\ work' = [work EXCEPT ![w] = Return(w)] /\ work[w].pc \notin Sends
        /\ UNCHANGED wire
    BY <1>7 DEF WaitStep, sync_request_returns, wait_for_times_out, Sends
  <2>2. /\ work'[w].req = work[w].req
        /\ \A v \in Workers \ {w} : work'[v] = work[v]
    BY <2>1, ReturnWork, WorkOf
  <2> QED
    BY <2>1, <2>2, MovesOn
<1>8. ASSUME NEW d \in Ends, on_message(d)
      PROVE  Underway(e, id)'
  BY <1>1, <1>8, ReadsUnderway
<1>9. ASSUME NEW d \in Ends, HandlerStep(d)
      PROVE  Underway(e, id)'
  BY <1>1, <1>9, HandlerUnderway
<1>10. CASE \/ UNCHANGED vars \/ link_lost
            \/ \E d \in Ends : on_close(d) \/ \E i \in Ids : request_expires(d, i)
  BY <1>2, <1>10 DEF vars, link_lost, on_close, request_expires
<1> QED
  BY <1>3, <1>4, <1>5, <1>6, <1>7, <1>8, <1>9, <1>10 DEF Next, SendStep

LEMMA NoSilentLossStep ==
  ASSUME TypesInv, ToServerInv, LinkInv, NoSilentLoss, [Next]_vars
  PROVE  NoSilentLoss'
<1> SUFFICES ASSUME NEW e \in Ends, NEW id \in pending'[e], link', up'["client"],
                    <<e, id>> \notin unanswered', ~overlapped'
             PROVE  Underway(e, id)'
  BY DEF NoSilentLoss
<1>1. CASE id \in pending[e]
  <2>1. Underway(e, id)
    BY <1>1, OnlyWorse DEF NoSilentLoss
  <2> QED
    BY <1>1, <2>1, StaysUnderway
<1>2. CASE id \notin pending[e]
  <2>1. PICK w \in Workers, bounded \in BOOLEAN :
          sync_request(w, bounded) /\ Home(w) = e /\ id = FreshId(e)
    BY <1>2, PendingSteps
  <2>2. work'[w].pc = "send" /\ work'[w].msg = Request(id)
    BY <2>1 DEF sync_request, TypesInv, TypeOK
  <2>3. InHand(e, Request(id))'
    BY <2>1, <2>2 DEF InHand, Request
  <2> QED
    BY <2>3 DEF Underway
<1> QED
  BY <1>1, <1>2

(***************************************************************************)
(* No request is lost silently (sync_request of both wrappers): while the  *)
(* connection is up, the handlers neither throw nor are missing, and no    *)
(* two client threads send at the same time, a request that waits for its  *)
(* answer is being sent, on the wire or handled, or its response is.       *)
(***************************************************************************)
THEOREM NoSilentLossHolds == Spec => []NoSilentLoss
<1> DEFINE Inv == TypesInv /\ ToClientInv /\ ToServerInv /\ LinkInv /\ NoSilentLoss
<1>1. Init => Inv
  <2> SUFFICES ASSUME Init PROVE Inv
    OBVIOUS
  <2>1. Sending("client") = {}
    BY IdleWork DEF Init, Sending
  <2>2. ToServerInv
    BY <2>1 DEF Init, ToServerInv, OneSender, Sent, Storing, Ordered, Ends
  <2>3. ToClientInv
    BY IdleWork DEF Init, ToClientInv, Ordered, Ends
  <2>4. LinkInv /\ NoSilentLoss
    BY DEF Init, LinkInv, NoSilentLoss, Ends
  <2> QED
    BY <2>2, <2>3, <2>4, TypesInit
<1>2. Inv /\ [Next]_vars => Inv'
  BY TypesStep, ToClientStep, ToServerStep, OnlyWorse, NoSilentLossStep
<1>3. Inv => NoSilentLoss
  OBVIOUS
<1> QED
  BY <1>1, <1>2, <1>3, PTL DEF Spec
=============================================================================
