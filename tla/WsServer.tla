------------------------------ MODULE WsServer ------------------------------
(***************************************************************************)
(* WsServerWrapper (ws_server.cpp): connections, sessions, client          *)
(* identities, requests to clients, timeouts and shutdown.                 *)
(*                                                                         *)
(* One io thread runs every websocketpp handler and the timeout timer, one *)
(* event at a time.  User threads call the public methods concurrently.    *)
(* Every block the code runs under one mutex is one step; where the code   *)
(* leaves a mutex and takes another there is a step boundary, so the steps *)
(* of the other threads fall in between.                                   *)
(***************************************************************************)
EXTENDS Integers, FiniteSets

CONSTANTS Hdls,         \* connection handles, never reused
          Identities,   \* client identity keys
          Threads,      \* user threads
          None,         \* "no handle", "no identity", "no request"
          MaxRequests,  \* bound: requests issued (request ids count from 0)
          MaxTotal,     \* connection_limits.max_total, 0 = unlimited
          MaxStops      \* bound: calls of stop()

Requests == 0..(MaxRequests - 1)

ASSUME ServerNoneAssumption == None \notin Hdls \cup Identities \cup Requests

ASSUME ServerBoundsAssumption ==
  MaxRequests \in Nat /\ MaxTotal \in Nat /\ MaxStops \in Nat

VARIABLES
  conn,                \* transport state of a connection (websocketpp)
  handshake_open_time, \* connections whose handshake is being timed
  sessions,            \* handles of authenticated sessions
  anon_sessions,       \* handles of anonymous sessions
  peer,                \* peer[h]: peer_identity_ of the session made for h
  active,              \* connections registered with the rate limiter
  identity_to_hdl,
  hdl_to_identity,
  next_request_id,
  pending_requests,    \* pending_requests[h]: ids whose promise is waiting
  request_deadlines,   \* request_deadlines[h]: ids that have a deadline
  expired,             \* ids whose deadline has passed
  timer,               \* the periodic timeout timer
  io,                  \* the io thread: where it is, and for which handle/request
  user,                \* user[t]: where thread t is, and its local variables
  stopping,
  stopper,             \* the thread in stop(): where it is, and which it is
  stops,               \* calls of stop() so far
  \* History, not state of the code:
  addressee,           \* addressee[id]: the connection a request was made for
  completions,         \* completions[id]: how often its promise was completed
  answers,             \* <<id, h>>: the response of h completed request id
  erased_by,           \* erased_by[i]: the connection whose close erased the
                       \* route of identity i, since i was routed last
  routed               \* <<i, j>>: a payload for identity i went to the session of j

connVars == <<conn, handshake_open_time>>
sessionVars == <<sessions, anon_sessions, peer, active>>
identityVars == <<identity_to_hdl, hdl_to_identity, erased_by>>
requestVars == <<next_request_id, pending_requests, request_deadlines, expired,
                 addressee, completions, answers>>
stopVars == <<stopping, stopper, stops>>
vars == <<connVars, sessionVars, identityVars, requestVars, stopVars, timer, io,
          user, routed>>

Known == sessions \cup anon_sessions

IoAt(pc) == [pc |-> pc, hdl |-> None, id |-> None]
IoOn(pc, h) == [pc |-> pc, hdl |-> h, id |-> None]

Idle == [pc |-> "idle", hdl |-> None, id |-> None, identity |-> None]

(***************************************************************************)
(* server_.close(hdl): the closing handshake starts; the close handler     *)
(* runs later on the io thread.  Closing a connection again does nothing.  *)
(***************************************************************************)
Closed(H) == [h \in Hdls |-> IF h \in H /\ conn[h] = "open" THEN "closing"
                             ELSE conn[h]]

Complete(ids) == [id \in Requests |->
                    IF id \in ids THEN completions[id] + 1 ELSE completions[id]]

Init ==
  /\ conn = [h \in Hdls |-> "none"]
  /\ handshake_open_time = {}
  /\ sessions = {}
  /\ anon_sessions = {}
  /\ peer = [h \in Hdls |-> None]
  /\ active = {}
  /\ identity_to_hdl = [i \in Identities |-> None]
  /\ hdl_to_identity = [h \in Hdls |-> None]
  /\ next_request_id = 0
  /\ pending_requests = [h \in Hdls |-> {}]
  /\ request_deadlines = [h \in Hdls |-> {}]
  /\ expired = {}
  /\ timer = "armed"
  /\ io = IoAt("idle")
  /\ user = [t \in Threads |-> Idle]
  /\ stopping = FALSE
  /\ stopper = [pc |-> "idle", by |-> None]
  /\ stops = 0
  /\ addressee = [id \in Requests |-> None]
  /\ completions = [id \in Requests |-> 0]
  /\ answers = {}
  /\ erased_by = [i \in Identities |-> None]
  /\ routed = {}

-----------------------------------------------------------------------------
(***************************************************************************)
(* The transport: a connection that was accepted before stop_listening()   *)
(* may open after it, and clients go away at any time.                     *)
(***************************************************************************)
accept(h) ==
  /\ io.pc = "idle"
  /\ ~stopping
  /\ conn[h] = "none"
  /\ conn' = [conn EXCEPT ![h] = "accepted"]
  /\ UNCHANGED <<handshake_open_time, sessionVars, identityVars, requestVars,
                 stopVars, timer, io, user, routed>>

PeerCloses(h) ==
  /\ conn[h] \in {"accepted", "open"}
  /\ conn' = [conn EXCEPT ![h] = IF @ = "open" THEN "closing" ELSE "closed"]
  /\ UNCHANGED <<handshake_open_time, sessionVars, identityVars, requestVars,
                 stopVars, timer, io, user, routed>>

(***************************************************************************)
(* on_open: the connection is refused when its address opens connections   *)
(* too fast (a choice here) or when the total is reached.  The total       *)
(* counts connections that completed their handshake.                      *)
(***************************************************************************)
TotalReached == MaxTotal > 0 /\ Cardinality(active) >= MaxTotal

on_open(h) ==
  /\ io.pc = "idle"
  /\ conn[h] = "accepted"
  /\ \E rate_ok \in BOOLEAN :
       LET refused == ~rate_ok \/ TotalReached
       IN /\ conn' = [conn EXCEPT ![h] = IF refused THEN "closing" ELSE "open"]
          /\ handshake_open_time' = IF refused THEN handshake_open_time
                                    ELSE handshake_open_time \cup {h}
  /\ UNCHANGED <<sessionVars, identityVars, requestVars, stopVars, timer, io,
                 user, routed>>

(***************************************************************************)
(* on_message for a connection without session: the ClientHello.  It fails *)
(* when the handshake rate is exceeded or the hello is malformed, has no   *)
(* common version or a bad signature; the identity handler may reject it.  *)
(* Afterwards the session is stored under sessions_mutex_ and, for an      *)
(* identified client, the routes under identity_map_mutex_.                *)
(***************************************************************************)
HelloFails(h) ==
  /\ conn' = Closed({h})
  /\ UNCHANGED <<handshake_open_time, peer, active, io>>

HelloRejected(h) ==
  /\ conn' = Closed({h})
  /\ handshake_open_time' = handshake_open_time \ {h}
  /\ UNCHANGED <<peer, active, io>>

HelloAccepted(h, identity) ==
  /\ peer' = [peer EXCEPT ![h] = identity]
  /\ active' = active \cup {h}
  /\ io' = IoOn("emplace", h)
  /\ UNCHANGED connVars

on_hello(h) ==
  /\ io.pc = "idle"
  /\ conn[h] = "open"
  /\ h \notin Known
  /\ \/ HelloFails(h)
     \/ HelloRejected(h)
     \/ \E identity \in Identities \cup {None} : HelloAccepted(h, identity)
  /\ UNCHANGED <<sessions, anon_sessions, identityVars, requestVars, stopVars,
                 timer, user, routed>>

emplace ==
  LET h == io.hdl
  IN /\ io.pc = "emplace"
     /\ IF peer[h] = None
          THEN /\ anon_sessions' = anon_sessions \cup {h}
               /\ handshake_open_time' = handshake_open_time \ {h}
               /\ io' = IoAt("idle")
               /\ UNCHANGED sessions
          ELSE /\ sessions' = sessions \cup {h}
               /\ io' = IoOn("route", h)
               /\ UNCHANGED <<anon_sessions, handshake_open_time>>
     /\ UNCHANGED <<conn, peer, active, identityVars, requestVars, stopVars, timer,
                    user, routed>>

route ==
  LET h == io.hdl
  IN /\ io.pc = "route"
     /\ identity_to_hdl' = [identity_to_hdl EXCEPT ![peer[h]] = h]
     /\ hdl_to_identity' = [hdl_to_identity EXCEPT ![h] = peer[h]]
     /\ erased_by' = [erased_by EXCEPT ![peer[h]] = None]
     /\ handshake_open_time' = handshake_open_time \ {h}
     /\ io' = IoAt("idle")
     /\ UNCHANGED <<conn, sessionVars, requestVars, stopVars, timer, user, routed>>

(***************************************************************************)
(* on_message for a connection with a session.  The packet is decrypted    *)
(* under sessions_mutex_; a client that sends too fast or too much is      *)
(* closed.  A response then completes the promise of its request under     *)
(* pending_requests_mutex_ - whatever request id the client put into it.   *)
(* The deadline of the request stays in request_deadlines_.                *)
(***************************************************************************)
on_message_refused(h) ==
  /\ io.pc = "idle"
  /\ conn[h] = "open"
  /\ h \in Known
  /\ conn' = Closed({h})
  /\ UNCHANGED <<handshake_open_time, sessionVars, identityVars, requestVars,
                 stopVars, timer, io, user, routed>>

on_response(h, id) ==
  /\ io.pc = "idle"
  /\ conn[h] = "open"
  /\ h \in Known
  /\ io' = [pc |-> "response", hdl |-> h, id |-> id]
  /\ UNCHANGED <<connVars, sessionVars, identityVars, requestVars, stopVars,
                 timer, user, routed>>

\* Mistake: the id is looked up under all connections.
FindPending_AnyConnection(h) == UNION {pending_requests[g] : g \in Hdls}

FindPending(h) == pending_requests[h]

complete_response ==
  /\ io.pc = "response"
  /\ IF io.id \in FindPending(io.hdl)
       THEN /\ completions' = Complete({io.id})
            /\ answers' = answers \cup {<<io.id, io.hdl>>}
            /\ pending_requests' = [pending_requests EXCEPT ![io.hdl] = @ \ {io.id}]
       ELSE UNCHANGED <<completions, answers, pending_requests>>
  /\ io' = IoAt("idle")
  /\ UNCHANGED <<next_request_id, request_deadlines, expired, addressee, connVars,
                 sessionVars, identityVars, stopVars, timer, user, routed>>

(***************************************************************************)
(* on_message: a user callback runs on the io thread and calls stop().     *)
(***************************************************************************)
callback_stops(h) ==
  /\ io.pc = "idle"
  /\ conn[h] = "open"
  /\ h \in Known
  /\ stopper.pc = "idle"
  /\ stops < MaxStops
  /\ io' = IoOn("callback", h)
  /\ stopper' = [pc |-> "called", by |-> "io"]
  /\ UNCHANGED <<stopping, stops, connVars, sessionVars, identityVars, requestVars,
                 timer, user, routed>>

(***************************************************************************)
(* on_close: sessions_mutex_, then identity_map_mutex_, then               *)
(* pending_requests_mutex_.                                                *)
(***************************************************************************)
on_close(h) ==
  /\ io.pc = "idle"
  /\ conn[h] = "closing"
  /\ active' = active \ (Known \cap {h})
  /\ sessions' = sessions \ {h}
  /\ anon_sessions' = anon_sessions \ {h}
  /\ io' = IoOn("unroute", h)
  /\ UNCHANGED <<peer, connVars, identityVars, requestVars, stopVars, timer, user,
                 routed>>

\* Mistake: the route to the closed connection is kept.
EraseRoute_Kept(identity) == identity_to_hdl

\* Mistake: a closed connection clears the map.
EraseRoute_All(identity) == [i \in Identities |-> None]

EraseRoute(identity) ==
  [i \in Identities |-> IF i = identity THEN None ELSE identity_to_hdl[i]]

unroute ==
  LET h == io.hdl
  IN /\ io.pc = "unroute"
     /\ identity_to_hdl' = EraseRoute(hdl_to_identity[h])
     /\ hdl_to_identity' = [hdl_to_identity EXCEPT ![h] = None]
     /\ erased_by' = [i \in Identities |->
          IF identity_to_hdl[i] # None /\ identity_to_hdl'[i] = None THEN h
          ELSE erased_by[i]]
     /\ io' = IoOn("fail_pending", h)
     /\ UNCHANGED <<connVars, sessionVars, requestVars, stopVars, timer, user,
                    routed>>

fail_pending ==
  LET h == io.hdl
  IN /\ io.pc = "fail_pending"
     /\ completions' = Complete(pending_requests[h])
     /\ pending_requests' = [pending_requests EXCEPT ![h] = {}]
     /\ request_deadlines' = [request_deadlines EXCEPT ![h] = {}]
     /\ handshake_open_time' = handshake_open_time \ {h}
     /\ conn' = [conn EXCEPT ![h] = "closed"]
     /\ io' = IoAt("idle")
     /\ UNCHANGED <<next_request_id, expired, addressee, answers, sessionVars,
                    identityVars, stopVars, timer, user, routed>>

(***************************************************************************)
(* The timer.  Its callback does nothing more once stopping_ is set; else  *)
(* it sweeps idle sessions, slow handshakes and expired requests, and      *)
(* schedules itself again: stopping_ is read first, the timer stored next. *)
(***************************************************************************)
timer_fires ==
  /\ io.pc = "idle"
  /\ timer = "armed"
  /\ timer' = "off"
  /\ io' = IF stopping THEN IoAt("idle") ELSE IoAt("sweep_idle")
  /\ UNCHANGED <<connVars, sessionVars, identityVars, requestVars, stopVars, user,
                 routed>>

sweep_idle ==
  /\ io.pc = "sweep_idle"
  /\ \E idle \in SUBSET Known : conn' = Closed(idle)
  /\ io' = IoAt("sweep_handshakes")
  /\ UNCHANGED <<handshake_open_time, sessionVars, identityVars, requestVars,
                 stopVars, timer, user, routed>>

sweep_handshakes ==
  /\ io.pc = "sweep_handshakes"
  /\ \E slow \in SUBSET handshake_open_time :
       /\ conn' = Closed(slow)
       /\ handshake_open_time' = handshake_open_time \ slow
  /\ io' = IoAt("sweep_requests")
  /\ UNCHANGED <<sessionVars, identityVars, requestVars, stopVars, timer, user,
                 routed>>

\* Mistake: the pending record is not looked up.
Expired_Unchecked(h) == request_deadlines[h] \cap expired

Expired(h) == pending_requests[h] \cap request_deadlines[h] \cap expired

sweep_requests ==
  /\ io.pc = "sweep_requests"
  /\ completions' = Complete(UNION {Expired(h) : h \in Hdls})
  /\ pending_requests' = [h \in Hdls |-> pending_requests[h] \ Expired(h)]
  /\ request_deadlines' = [h \in Hdls |-> request_deadlines[h] \ expired]
  /\ io' = IoAt("schedule")
  /\ UNCHANGED <<next_request_id, expired, addressee, answers, connVars, sessionVars,
                 identityVars, stopVars, timer, user, routed>>

\* Mistake: the timer is not scheduled again.
schedule_timeout_check_Once ==
  /\ io.pc = "schedule"
  /\ io' = IoAt("idle")
  /\ UNCHANGED <<connVars, sessionVars, identityVars, requestVars, stopVars, timer,
                 user, routed>>

schedule_timeout_check ==
  /\ io.pc = "schedule"
  /\ io' = IF stopping THEN IoAt("idle") ELSE IoAt("set_timer")
  /\ UNCHANGED <<connVars, sessionVars, identityVars, requestVars, stopVars, timer,
                 user, routed>>

set_timer ==
  /\ io.pc = "set_timer"
  /\ timer' = "armed"
  /\ io' = IoAt("idle")
  /\ UNCHANGED <<connVars, sessionVars, identityVars, requestVars, stopVars, user,
                 routed>>

\* Time: the deadline of a request passes.
deadline_passes(id) ==
  /\ id \notin expired
  /\ \E h \in Hdls : id \in request_deadlines[h]
  /\ expired' = expired \cup {id}
  /\ UNCHANGED <<next_request_id, pending_requests, request_deadlines, addressee,
                 completions, answers, connVars, sessionVars, identityVars, stopVars,
                 timer, io, user, routed>>

\* server_.run() returns when the io loop has nothing left to wait for.
io_drains ==
  /\ io.pc = "idle"
  /\ stopping
  /\ timer = "off"
  /\ \A h \in Hdls : conn[h] \in {"none", "closed"}
  /\ io' = IoAt("exited")
  /\ UNCHANGED <<connVars, sessionVars, identityVars, requestVars, stopVars, timer,
                 user, routed>>

-----------------------------------------------------------------------------
\* Mistake: a neighbouring key is taken for a match.
FindRoute_LowerBound(identity) == {identity_to_hdl[i] : i \in Identities} \ {None}

FindRoute(identity) == {identity_to_hdl[identity]} \ {None}

(***************************************************************************)
(* User threads.  async_request: readiness under sessions_mutex_, the      *)
(* record under pending_requests_mutex_, then send() under sessions_mutex_ *)
(* and, when that throws, the record is removed again.                     *)
(***************************************************************************)
lookup_identity(t, i) ==
  /\ user[t].pc = "idle"
  /\ \E h \in FindRoute(i), next \in {"send", "check"} :
       user' = [user EXCEPT ![t] = [pc |-> next, hdl |-> h, id |-> None,
                                    identity |-> i]]
  /\ UNCHANGED <<connVars, sessionVars, identityVars, requestVars, stopVars, timer,
                 io, routed>>

async_request(t, h) ==
  /\ \/ user[t].pc = "idle"
     \/ user[t].pc = "check" /\ user[t].hdl = h
  /\ IF h \in Known
       THEN user' = [user EXCEPT ![t].pc = "register", ![t].hdl = h]
       ELSE user' = [user EXCEPT ![t] = Idle]
  /\ UNCHANGED <<connVars, sessionVars, identityVars, requestVars, stopVars, timer,
                 io, routed>>

\* Mistake: the id is one too small.
FreshId_OffByOne == next_request_id - 1

FreshId == next_request_id

register_request(t) ==
  LET h == user[t].hdl
      id == FreshId
  IN /\ user[t].pc = "register"
     /\ next_request_id \in Requests
     /\ next_request_id' = next_request_id + 1
     /\ pending_requests' = [pending_requests EXCEPT ![h] = @ \cup {id}]
     /\ \E effective_timeout \in BOOLEAN :
          request_deadlines' = [request_deadlines EXCEPT ![h] =
            IF effective_timeout THEN @ \cup {id} ELSE @]
     /\ addressee' = [addressee EXCEPT ![id] = h]
     /\ user' = [user EXCEPT ![t].pc = "send", ![t].id = id]
     /\ UNCHANGED <<expired, completions, answers, connVars, sessionVars,
                    identityVars, stopVars, timer, io, routed>>

\* Mistake: a missing session is swallowed like a transport error.
SendThrows_Never(h) == FALSE

SendThrows(h) == h \notin Known

(***************************************************************************)
(* send: throws without a session; a transport error is swallowed.         *)
(***************************************************************************)
send(t) ==
  LET u == user[t]
  IN /\ u.pc = "send"
     /\ user' = [user EXCEPT ![t] = IF SendThrows(u.hdl) /\ u.id # None
                                      THEN [u EXCEPT !.pc = "undo"] ELSE Idle]
     /\ routed' = IF u.hdl \in Known /\ u.identity # None
                    THEN routed \cup {<<u.identity, peer[u.hdl]>>} ELSE routed
     /\ UNCHANGED <<connVars, sessionVars, identityVars, requestVars, stopVars,
                    timer, io>>

undo_request(t) ==
  LET h == user[t].hdl
      id == user[t].id
  IN /\ user[t].pc = "undo"
     /\ completions' = Complete(pending_requests[h] \cap {id})
     /\ pending_requests' = [pending_requests EXCEPT ![h] = @ \ {id}]
     /\ request_deadlines' = [request_deadlines EXCEPT ![h] = @ \ {id}]
     /\ user' = [user EXCEPT ![t] = Idle]
     /\ UNCHANGED <<next_request_id, expired, addressee, answers, connVars,
                    sessionVars, identityVars, stopVars, timer, io, routed>>

-----------------------------------------------------------------------------
(***************************************************************************)
(* stop(), called by a user thread or by a callback on the io thread.      *)
(***************************************************************************)
StopGoes(pc) == stopper' = [stopper EXCEPT !.pc = pc]

user_stops ==
  /\ stopper.pc = "idle"
  /\ stops < MaxStops
  /\ stopper' = [pc |-> "called", by |-> "user"]
  /\ UNCHANGED <<stopping, stops, connVars, sessionVars, identityVars, requestVars,
                 timer, io, user, routed>>

stop_listening ==
  /\ stopper.pc = "called"
  /\ stopping' = TRUE
  /\ stops' = stops + 1
  /\ StopGoes("timer")
  /\ UNCHANGED <<connVars, sessionVars, identityVars, requestVars, timer, io, user,
                 routed>>

stop_timer ==
  /\ stopper.pc = "timer"
  /\ timer' = "off"
  /\ StopGoes("requests")
  /\ UNCHANGED <<stopping, stops, connVars, sessionVars, identityVars, requestVars,
                 io, user, routed>>

stop_requests ==
  /\ stopper.pc = "requests"
  /\ completions' = Complete(UNION {pending_requests[h] : h \in Hdls})
  /\ pending_requests' = [h \in Hdls |-> {}]
  /\ request_deadlines' = [h \in Hdls |-> {}]
  /\ StopGoes("sessions")
  /\ UNCHANGED <<next_request_id, expired, addressee, answers, stopping, stops,
                 connVars, sessionVars, identityVars, timer, io, user, routed>>

stop_sessions ==
  /\ stopper.pc = "sessions"
  /\ conn' = Closed(Known)
  /\ sessions' = {}
  /\ anon_sessions' = {}
  /\ StopGoes("identities")
  /\ UNCHANGED <<handshake_open_time, peer, active, stopping, stops, identityVars,
                 requestVars, timer, io, user, routed>>

stop_identities ==
  /\ stopper.pc = "identities"
  /\ identity_to_hdl' = [i \in Identities |-> None]
  /\ hdl_to_identity' = [h \in Hdls |-> None]
  /\ StopGoes("join")
  /\ UNCHANGED <<erased_by, connVars, sessionVars, requestVars, stopping, stops,
                 timer, io, user, routed>>

\* Mistake: stop() joins the io thread from the io thread.
SelfJoin_Unguarded == FALSE

SelfJoin == stopper.by = "io"

\* The self-join guard: on the io thread stop() returns to the callback.
stop_join ==
  /\ stopper.pc = "join"
  /\ \/ /\ SelfJoin
        /\ io' = IoAt("idle")
     \/ /\ ~SelfJoin
        /\ io.pc = "exited"
        /\ UNCHANGED io
  /\ stopper' = [pc |-> "idle", by |-> None]
  /\ UNCHANGED <<stopping, stops, connVars, sessionVars, identityVars, requestVars,
                 timer, user, routed>>

-----------------------------------------------------------------------------
IoStep == \/ emplace \/ route \/ complete_response
          \/ unroute \/ fail_pending
          \/ sweep_idle \/ sweep_handshakes \/ sweep_requests
          \/ schedule_timeout_check \/ set_timer

StopStep == \/ stop_listening \/ stop_timer \/ stop_requests
            \/ stop_sessions \/ stop_identities \/ stop_join

Next ==
  \/ \E h \in Hdls : \/ accept(h)
                     \/ PeerCloses(h)
                     \/ on_open(h)
                     \/ on_hello(h)
                     \/ on_message_refused(h)
                     \/ \E id \in 0..(next_request_id - 1) : on_response(h, id)
                     \/ callback_stops(h)
                     \/ on_close(h)
  \/ timer_fires
  \/ io_drains
  \/ IoStep
  \/ \E id \in Requests : deadline_passes(id)
  \/ \E t \in Threads : \/ \E i \in Identities : lookup_identity(t, i)
                        \/ \E h \in Hdls : async_request(t, h)
                        \/ register_request(t)
                        \/ send(t)
                        \/ undo_request(t)
  \/ user_stops
  \/ StopStep

Spec == Init /\ [][Next]_vars

(***************************************************************************)
(* Threads keep running, time passes, and the io loop (asio) serves ready  *)
(* events in the order they became ready, so none waits forever.  Nothing  *)
(* is assumed of clients, and nobody has to call stop().                   *)
(***************************************************************************)
Fairness ==
  /\ WF_vars(IoStep)
  /\ WF_vars(StopStep)
  /\ WF_vars(io_drains)
  /\ SF_vars(timer_fires)
  /\ \A h \in Hdls : SF_vars(on_close(h))
  /\ \A id \in Requests : WF_vars(deadline_passes(id))
  /\ \A t \in Threads : WF_vars(register_request(t) \/ send(t) \/ undo_request(t))

FairSpec == Spec /\ Fairness

-----------------------------------------------------------------------------
(***************************************************************************)
(* The types of the server's state.                                        *)
(***************************************************************************)
TypeOK ==
  /\ conn \in [Hdls -> {"none", "accepted", "open", "closing", "closed"}]
  /\ handshake_open_time \subseteq Hdls
  /\ sessions \subseteq Hdls
  /\ anon_sessions \subseteq Hdls
  /\ peer \in [Hdls -> Identities \cup {None}]
  /\ active \subseteq Hdls
  /\ identity_to_hdl \in [Identities -> Hdls \cup {None}]
  /\ hdl_to_identity \in [Hdls -> Identities \cup {None}]
  /\ next_request_id \in 0..MaxRequests
  /\ pending_requests \in [Hdls -> SUBSET Requests]
  /\ request_deadlines \in [Hdls -> SUBSET Requests]
  /\ expired \subseteq Requests
  /\ timer \in {"armed", "off"}
  /\ io \in [pc : {"idle", "emplace", "route", "response", "callback", "unroute",
                   "fail_pending", "sweep_idle", "sweep_handshakes",
                   "sweep_requests", "schedule", "set_timer", "exited"},
             hdl : Hdls \cup {None}, id : Requests \cup {None}]
  /\ user \in [Threads -> [pc : {"idle", "check", "register", "send", "undo"},
                           hdl : Hdls \cup {None}, id : Requests \cup {None},
                           identity : Identities \cup {None}]]
  /\ stopping \in BOOLEAN
  /\ stopper \in [pc : {"idle", "called", "timer", "requests", "sessions",
                        "identities", "join"}, by : {"user", "io", None}]
  /\ stops \in 0..MaxStops
  /\ addressee \in [Requests -> Hdls \cup {None}]
  /\ completions \in [Requests -> Nat]
  /\ answers \subseteq Requests \X Hdls
  /\ erased_by \in [Identities -> Hdls \cup {None}]
  /\ routed \subseteq Identities \X (Identities \cup {None})

(***************************************************************************)
(* "std::promise::set_* is never called twice" (check_timeouts): a         *)
(* response, a timeout, a closing connection, a failed send and stop() may *)
(* race for the same request, and at most one of them completes it.        *)
(***************************************************************************)
CompletedOnce ==
  \A id \in Requests :
    /\ completions[id] <= 1
    /\ \A h \in Hdls : id \in pending_requests[h] => completions[id] = 0

(***************************************************************************)
(* A request is completed with a response only by the connection it was    *)
(* sent to, even if another client answers with the same request id        *)
(* (on_message looks the id up under the connection it came from).         *)
(***************************************************************************)
AnsweredByAddressee ==
  \A a \in answers : addressee[a[1]] = a[2]

(***************************************************************************)
(* "No orphaned entry can leak" (async_request): whoever has to complete a *)
(* pending request is still to come.  Either its connection has not        *)
(* finished on_close, or its requester has still to send it and will undo  *)
(* it when that fails.                                                     *)
(***************************************************************************)
NoOrphanedRequest ==
  \A h \in Hdls : \A id \in pending_requests[h] :
    \/ conn[h] \in {"open", "closing"}
    \/ \E t \in Threads : user[t].pc \in {"send", "undo"} /\ user[t].id = id

(***************************************************************************)
(* A payload sent to an identity reaches only a session whose client       *)
(* proved that identity, although the route is looked up before, and the   *)
(* session after, the identity lock is released (send_to_identity,         *)
(* async_request_to_identity).                                             *)
(***************************************************************************)
RoutedToItsIdentity == \A r \in routed : r[1] = r[2]

(***************************************************************************)
(* No route outlives its connection, the two identity maps agree on every  *)
(* route, and the rate limiter counts no connection whose close was        *)
(* processed, unless stop() dropped its session (on_message, on_close).    *)
(***************************************************************************)
NothingOutlivesClose ==
  /\ \A i \in Identities : identity_to_hdl[i] # None =>
       /\ hdl_to_identity[identity_to_hdl[i]] = i
       /\ conn[identity_to_hdl[i]] \in {"open", "closing"}
  /\ \A h \in Hdls : conn[h] = "closed" =>
       /\ h \notin Known \cup handshake_open_time
       /\ ~stopping => h \notin active

(***************************************************************************)
(* send_to_identity finds an identity that is connected (ws_server.hpp:    *)
(* it throws "if the identity is not connected").  The exception is a      *)
(* client with two connections at once: on_close of either one erases the  *)
(* identity's route, so the other stays open without a route - the newer   *)
(* one when the older closes, although the route leads to the newer, and   *)
(* the older one when the newer closes, which had replaced its route.  A   *)
(* connection that closed before h was routed takes nothing from h, and    *)
(* no connection of another identity ever does.                            *)
(***************************************************************************)
RoutableUnlessErased ==
  \A h \in sessions :
    (conn[h] = "open" /\ hdl_to_identity[h] # None /\ ~stopping) =>
      \/ identity_to_hdl[peer[h]] # None
      \/ \E g \in Hdls \ {h} : /\ erased_by[peer[h]] = g
                              /\ peer[g] = peer[h]
                              /\ conn[g] \in {"closing", "closed"}

(***************************************************************************)
(* Every request with a deadline is completed - answered, timed out or     *)
(* failed - while the server is not being stopped (async_request,          *)
(* check_timeouts).                                                        *)
(***************************************************************************)
DeadlineKept ==
  \A id \in Requests :
    (\E h \in Hdls : id \in request_deadlines[h])
      ~> (completions[id] = 1 \/ stopping)

(***************************************************************************)
(* Every request on a connection that goes away is completed (on_close,    *)
(* stop).                                                                  *)
(***************************************************************************)
FailedOnClose ==
  \A id \in Requests, h \in Hdls :
    (id \in pending_requests[h] /\ conn[h] # "open") ~> completions[id] = 1

(***************************************************************************)
(* Once stop() runs and no connection is left open or about to open, the   *)
(* io loop drains and the thread that called stop() joins it: neither the  *)
(* timer nor the pending close handlers keep it alive (stop,               *)
(* schedule_timeout_check).                                                *)
(***************************************************************************)
StopJoins ==
  (stopper.pc = "join" /\ \A h \in Hdls : conn[h] \notin {"accepted", "open"})
    ~> stopper.pc = "idle"
=============================================================================
