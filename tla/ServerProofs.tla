---------------------------- MODULE ServerProofs ----------------------------
(***************************************************************************)
(* Theorems about WsServer, for every set of connections, identities and   *)
(* threads and every bound.                                                *)
(***************************************************************************)
EXTENDS WsServer, TLAPS

(***************************************************************************)
(* What the threads hold in their local variables.  TypeOK is not          *)
(* inductive without it: a step takes the handle or the id it uses from    *)
(* where an earlier step of its thread left it.                            *)
(***************************************************************************)
IoLocals ==
  /\ io.pc \in {"emplace", "route", "response", "callback", "unroute",
                "fail_pending"} => io.hdl \in Hdls
  /\ io.pc = "response" => io.id \in Requests

UserLocals ==
  \A t \in Threads :
    /\ user[t].pc = "idle" => user[t] = Idle
    /\ user[t].pc \in {"check", "register", "send", "undo"} => user[t].hdl \in Hdls
    /\ user[t].pc \in {"check", "register"} => user[t].id = None
    /\ user[t].pc = "undo" => user[t].id # None

StopLocals ==
  /\ stopper.pc = "called" => stops < MaxStops
  /\ stopper.pc \in {"timer", "requests", "sessions", "identities", "join"} => stopping
  /\ stopper.pc # "idle" /\ stopper.by = "io" => io.pc = "callback"

LocalsInv == IoLocals /\ UserLocals /\ StopLocals

(***************************************************************************)
(* A request id is handed out once, for one connection, and whoever sends  *)
(* or undoes a request does it on that connection.                         *)
(***************************************************************************)
IdsInv ==
  /\ \A h \in Hdls : \A id \in pending_requests[h] :
       id < next_request_id /\ addressee[id] = h
  /\ \A id \in Requests : completions[id] # 0 => id < next_request_id
  /\ \A a \in answers : a[1] < next_request_id
  /\ \A t \in Threads : user[t].pc \in {"send", "undo"} /\ user[t].id # None =>
       user[t].id < next_request_id /\ addressee[user[t].id] = user[t].hdl

(***************************************************************************)
(* Where a connection is while the io thread is inside a handler for it,   *)
(* and what is stored of a connection in each of its states.               *)
(***************************************************************************)
HandlerInv ==
  /\ io.pc \in {"emplace", "route"} => /\ conn[io.hdl] \in {"open", "closing"}
                                       /\ hdl_to_identity[io.hdl] = None
  /\ io.pc = "route" => peer[io.hdl] # None
  /\ io.pc \in {"unroute", "fail_pending"} => conn[io.hdl] = "closing" /\ io.hdl \notin Known
  /\ io.pc = "fail_pending" => hdl_to_identity[io.hdl] = None

BeingStored(h) == io.pc = "emplace" /\ io.hdl = h

StoredInv ==
  \A h \in Hdls :
    /\ h \in Known => conn[h] \in {"open", "closing"}
    /\ h \in handshake_open_time => conn[h] \in {"open", "closing"}
    /\ h \in active => conn[h] \notin {"none", "accepted"}
    /\ h \in active /\ ~stopping => h \in Known \/ BeingStored(h)
    /\ conn[h] \in {"none", "accepted"} => peer[h] = None
    /\ conn[h] = "open" /\ h \notin Known => peer[h] = None \/ BeingStored(h)

(***************************************************************************)
(* A route, a lookup that is under way and the reverse map all name the    *)
(* identity the connection's session verified.                             *)
(***************************************************************************)
RoutesInv ==
  /\ \A h \in Hdls : hdl_to_identity[h] # None => hdl_to_identity[h] = peer[h]
  /\ \A i \in Identities : identity_to_hdl[i] # None =>
       /\ hdl_to_identity[identity_to_hdl[i]] = i
       /\ conn[identity_to_hdl[i]] \in {"open", "closing"}
  /\ \A t \in Threads : user[t].identity # None =>
       user[t].hdl \in Hdls /\ peer[user[t].hdl] = user[t].identity

-----------------------------------------------------------------------------
(***************************************************************************)
(* Types.  The steps of a user thread return or move on with a record of   *)
(* local variables.                                                        *)
(***************************************************************************)
UserType ==
  user \in [Threads -> [pc : {"idle", "check", "register", "send", "undo"},
                        hdl : Hdls \cup {None}, id : Requests \cup {None},
                        identity : Identities \cup {None}]]

Busy == [pc : {"check", "register", "send", "undo"}, hdl : Hdls,
         id : Requests \cup {None}, identity : Identities \cup {None}]

LEMMA UserReturns ==
  ASSUME UserType, UserLocals, NEW t \in Threads, user' = [user EXCEPT ![t] = Idle]
  PROVE  UserType' /\ UserLocals'
<1>1. Idle \in [pc : {"idle"}, hdl : {None}, id : {None}, identity : {None}]
  BY DEF Idle
<1> QED
  BY <1>1 DEF UserType, UserLocals

LEMMA UserMoves ==
  ASSUME UserType, UserLocals, NEW t \in Threads, NEW u \in Busy,
         user' = [user EXCEPT ![t] = u],
         u.pc \in {"check", "register"} => u.id = None,
         u.pc = "undo" => u.id # None
  PROVE  UserType' /\ UserLocals'
BY DEF UserType, UserLocals, Busy

LEMMA UserStep ==
  ASSUME TypeOK, LocalsInv, NEW t \in Threads,
         \/ \E i \in Identities : lookup_identity(t, i)
         \/ \E h \in Hdls : async_request(t, h)
         \/ register_request(t) \/ send(t) \/ undo_request(t)
  PROVE  UserType' /\ UserLocals'
<1> DEFINE At(pc, h, id) == [pc |-> pc, hdl |-> h, id |-> id,
                             identity |-> user[t].identity]
<1>1. UserType /\ UserLocals
  BY DEF TypeOK, LocalsInv, UserType
<1>2. ASSUME NEW i \in Identities, lookup_identity(t, i)
      PROVE  UserType' /\ UserLocals'
  <2>1. PICK h \in FindRoute(i), next \in {"send", "check"} :
          user' = [user EXCEPT ![t] = [pc |-> next, hdl |-> h, id |-> None,
                                       identity |-> i]]
    BY <1>2 DEF lookup_identity
  <2>2. h \in Hdls
    BY DEF FindRoute, TypeOK
  <2> QED
    BY <1>1, <2>1, <2>2, UserMoves DEF Busy
<1>3. ASSUME NEW h \in Hdls, async_request(t, h)
      PROVE  UserType' /\ UserLocals'
  <2>1. user[t].id = None
    BY <1>1, <1>3 DEF async_request, UserLocals, Idle
  <2>2. CASE h \in Known
    <3>1. user' = [user EXCEPT ![t] = At("register", h, None)]
      BY <1>1, <1>3, <2>1, <2>2 DEF async_request, UserType
    <3>2. At("register", h, None) \in Busy
      BY <1>1 DEF Busy, UserType
    <3> QED
      BY <1>1, <3>1, <3>2, UserMoves
  <2>3. CASE h \notin Known
    BY <1>1, <1>3, <2>3, UserReturns DEF async_request
  <2> QED
    BY <2>2, <2>3
<1>4. CASE register_request(t)
  <2>1. next_request_id \in Requests /\ user[t].hdl \in Hdls
    BY <1>1, <1>4 DEF register_request, UserLocals
  <2> DEFINE u == [user[t] EXCEPT !.pc = "send", !.id = next_request_id]
  <2>2. user' = [user EXCEPT ![t] = u]
    <3>1. user' = [user EXCEPT ![t].pc = "send", ![t].id = next_request_id]
      BY <1>4 DEF register_request, FreshId
    <3> QED
      BY <1>1, <3>1 DEF UserType
  <2>3. u \in Busy /\ u.pc = "send"
    BY <1>1, <2>1 DEF Busy, UserType
  <2> HIDE DEF u
  <2> QED
    BY <1>1, <2>2, <2>3, UserMoves
<1>5. CASE send(t)
  <2>1. CASE user' = [user EXCEPT ![t] = Idle]
    BY <1>1, <2>1, UserReturns
  <2>2. CASE user' # [user EXCEPT ![t] = Idle]
    <3>1. user[t].hdl \in Hdls
      BY <1>1, <1>5 DEF send, UserLocals
    <3>2. user[t].id # None /\ user' = [user EXCEPT ![t] = [user[t] EXCEPT !.pc = "undo"]]
      BY <1>5, <2>2 DEF send
    <3>3. [user[t] EXCEPT !.pc = "undo"] = At("undo", user[t].hdl, user[t].id)
      BY <1>1 DEF UserType
    <3>4. At("undo", user[t].hdl, user[t].id) \in Busy
      BY <1>1, <3>1 DEF Busy, UserType
    <3> QED
      BY <1>1, <3>2, <3>3, <3>4, UserMoves
  <2> QED
    BY <2>1, <2>2
<1>6. CASE undo_request(t)
  BY <1>1, <1>6, UserReturns DEF undo_request
<1> QED
  BY <1>2, <1>3, <1>4, <1>5, <1>6

LEMMA CompleteType ==
  ASSUME TypeOK, NEW ids
  PROVE  Complete(ids) \in [Requests -> Nat]
BY DEF TypeOK, Complete

LEMMA TypeStep ==
  ASSUME TypeOK, LocalsInv, [Next]_vars
  PROVE  TypeOK' /\ LocalsInv'
<1> USE ServerBoundsAssumption DEF TypeOK, LocalsInv, IoLocals, UserLocals, StopLocals,
        connVars, sessionVars, identityVars, requestVars, stopVars
<1>1. ASSUME NEW h \in Hdls, accept(h)
      PROVE  TypeOK' /\ LocalsInv'
  BY <1>1 DEF accept
<1>2. ASSUME NEW h \in Hdls, PeerCloses(h)
      PROVE  TypeOK' /\ LocalsInv'
  BY <1>2 DEF PeerCloses
<1>3. ASSUME NEW h \in Hdls, on_open(h)
      PROVE  TypeOK' /\ LocalsInv'
  BY <1>3 DEF on_open
<1>4. ASSUME NEW h \in Hdls, on_hello(h)
      PROVE  TypeOK' /\ LocalsInv'
  BY <1>4 DEF on_hello, HelloFails, HelloRejected, HelloAccepted, Closed, IoOn
<1>5. ASSUME NEW h \in Hdls, on_message_refused(h)
      PROVE  TypeOK' /\ LocalsInv'
  BY <1>5 DEF on_message_refused, Closed
<1>6. ASSUME NEW h \in Hdls, NEW id \in 0..(next_request_id - 1), on_response(h, id)
      PROVE  TypeOK' /\ LocalsInv'
  BY <1>6 DEF on_response, Requests
<1>7. ASSUME NEW h \in Hdls, callback_stops(h)
      PROVE  TypeOK' /\ LocalsInv'
  BY <1>7 DEF callback_stops, IoOn
<1>8. ASSUME NEW h \in Hdls, on_close(h)
      PROVE  TypeOK' /\ LocalsInv'
  BY <1>8 DEF on_close, IoOn
<1>9. CASE timer_fires
  BY <1>9 DEF timer_fires, IoAt
<1>10. CASE io_drains
  BY <1>10 DEF io_drains, IoAt
<1>11. CASE IoStep
  <2>1. CASE emplace
    BY <2>1 DEF emplace, IoAt, IoOn
  <2>2. CASE route
    BY <2>2 DEF route, IoAt
  <2>3. CASE complete_response
    <3>1. completions' \in [Requests -> Nat]
      BY <2>3, CompleteType DEF complete_response
    <3>2. /\ pending_requests' \in [Hdls -> SUBSET Requests]
          /\ answers' \subseteq Requests \X Hdls
      BY <2>3 DEF complete_response
    <3> QED
      BY <2>3, <3>1, <3>2 DEF complete_response, IoAt
  <2>4. CASE unroute
    BY <2>4 DEF unroute, IoOn, EraseRoute
  <2>5. CASE fail_pending
    BY <2>5 DEF fail_pending, IoAt, Complete
  <2>6. CASE sweep_idle
    BY <2>6 DEF sweep_idle, IoAt, Closed
  <2>7. CASE sweep_handshakes
    BY <2>7 DEF sweep_handshakes, IoAt, Closed
  <2>8. CASE sweep_requests
    BY <2>8 DEF sweep_requests, IoAt, Complete, Expired
  <2>9. CASE schedule_timeout_check
    BY <2>9 DEF schedule_timeout_check, IoAt
  <2>10. CASE set_timer
    BY <2>10 DEF set_timer, IoAt
  <2> HIDE DEF TypeOK, LocalsInv
  <2> QED
    BY <1>11, <2>1, <2>2, <2>3, <2>4, <2>5, <2>6, <2>7, <2>8, <2>9, <2>10 DEF IoStep
<1>12. ASSUME NEW id \in Requests, deadline_passes(id)
      PROVE  TypeOK' /\ LocalsInv'
  BY <1>12 DEF deadline_passes
<1>13. ASSUME NEW t \in Threads,
             \/ \E i \in Identities : lookup_identity(t, i)
             \/ \E h \in Hdls : async_request(t, h)
             \/ register_request(t) \/ send(t) \/ undo_request(t)
       PROVE  TypeOK' /\ LocalsInv'
  <2>1. UserType' /\ UserLocals'
    BY <1>13, UserStep
  <2> HIDE DEF UserLocals
  <2>2. ASSUME NEW i \in Identities, lookup_identity(t, i)
        PROVE  TypeOK' /\ LocalsInv'
    BY <2>1, <2>2 DEF lookup_identity, UserType
  <2>3. ASSUME NEW h \in Hdls, async_request(t, h)
        PROVE  TypeOK' /\ LocalsInv'
    BY <2>1, <2>3 DEF async_request, UserType
  <2>4. CASE register_request(t)
    <3>1. next_request_id \in Requests /\ user[t].hdl \in Hdls
      BY <2>4 DEF register_request, UserLocals
    <3>2. next_request_id + 1 \in 0..MaxRequests
      BY <3>1 DEF Requests
    <3> QED
      BY <2>1, <2>4, <3>1, <3>2 DEF register_request, FreshId, UserType
  <2>5. CASE send(t)
    <3>1. user[t].hdl \in Hdls
      BY <2>5 DEF send, UserLocals
    <3>2. routed' \subseteq Identities \X (Identities \cup {None})
      BY <2>5, <3>1 DEF send
    <3> QED
      BY <2>1, <2>5, <3>2 DEF send, UserType
  <2>6. CASE undo_request(t)
    <3>1. completions' \in [Requests -> Nat]
      BY <2>6, CompleteType DEF undo_request
    <3>2. /\ pending_requests' \in [Hdls -> SUBSET Requests]
          /\ request_deadlines' \in [Hdls -> SUBSET Requests]
      BY <2>6 DEF undo_request
    <3>3. UNCHANGED <<next_request_id, expired, addressee, answers, connVars,
                      sessionVars, identityVars, stopVars, timer, io, routed>>
      BY <2>6 DEF undo_request
    <3> QED
      BY <2>1, <3>1, <3>2, <3>3 DEF UserType
  <2> HIDE DEF TypeOK, LocalsInv
  <2> QED
    BY <1>13, <2>2, <2>3, <2>4, <2>5, <2>6
<1>14. CASE user_stops
  BY <1>14 DEF user_stops
<1>15. CASE StopStep
  <2>1. CASE stop_listening
    BY <2>1 DEF stop_listening, StopGoes
  <2>2. CASE stop_timer
    BY <2>2 DEF stop_timer, StopGoes
  <2>3. CASE stop_requests
    BY <2>3 DEF stop_requests, StopGoes, Complete
  <2>4. CASE stop_sessions
    BY <2>4 DEF stop_sessions, StopGoes, Closed
  <2>5. CASE stop_identities
    BY <2>5 DEF stop_identities, StopGoes
  <2>6. CASE stop_join
    BY <2>6 DEF stop_join, SelfJoin, IoAt
  <2> HIDE DEF TypeOK, LocalsInv
  <2> QED
    BY <1>15, <2>1, <2>2, <2>3, <2>4, <2>5, <2>6 DEF StopStep
<1>16. CASE UNCHANGED vars
  BY <1>16 DEF vars
<1> HIDE DEF TypeOK, LocalsInv
<1> QED
  BY <1>1, <1>2, <1>3, <1>4, <1>5, <1>6, <1>7, <1>8, <1>9, <1>10,
     <1>11, <1>12, <1>13, <1>14, <1>15, <1>16
  DEF Next

LEMMA TypeInit == Init => TypeOK /\ LocalsInv
<1> SUFFICES ASSUME Init PROVE TypeOK /\ LocalsInv
  OBVIOUS
<1>1. TypeOK
  <2>1. UserType /\ next_request_id \in 0..MaxRequests /\ stops \in 0..MaxStops
    BY ServerBoundsAssumption DEF Init, Idle, UserType
  <2> QED
    BY <2>1 DEF Init, TypeOK, IoAt, UserType
<1>2. LocalsInv
  BY DEF Init, LocalsInv, IoLocals, UserLocals, StopLocals, IoAt, Idle
<1> QED
  BY <1>1, <1>2

(***************************************************************************)
(* The server's state keeps its types, and every thread finds in its local *)
(* variables what its next step needs (ws_server.cpp, every handler).      *)
(***************************************************************************)
THEOREM TypeCorrect == Spec => [](TypeOK /\ LocalsInv)
<1>1. TypeOK /\ LocalsInv /\ [Next]_vars => (TypeOK /\ LocalsInv)'
  BY TypeStep
<1> QED
  BY <1>1, TypeInit, PTL DEF Spec

-----------------------------------------------------------------------------
(***************************************************************************)
(* Requests.  These are the steps that touch the table of requests, the    *)
(* promises or the local variables of a user thread.                       *)
(***************************************************************************)
LEMMA RequestSteps ==
  ASSUME [Next]_vars
  PROVE  \/ UNCHANGED <<next_request_id, pending_requests, addressee, completions,
                        answers, user>>
         \/ complete_response \/ fail_pending \/ sweep_requests \/ stop_requests
         \/ \E t \in Threads : \/ \E i \in Identities : lookup_identity(t, i)
                               \/ \E h \in Hdls : async_request(t, h)
                               \/ register_request(t) \/ send(t) \/ undo_request(t)
<1> USE DEF requestVars
<1>1. CASE IoStep
  BY <1>1 DEF IoStep, emplace, route, unroute, sweep_idle, sweep_handshakes,
              schedule_timeout_check, set_timer
<1>2. CASE StopStep
  BY <1>2 DEF StopStep, stop_listening, stop_timer, stop_sessions, stop_identities,
              stop_join
<1>3. CASE UNCHANGED vars
  BY <1>3 DEF vars
<1> QED
  BY <1>1, <1>2, <1>3 DEF Next, accept, PeerCloses, on_open, on_hello,
     on_message_refused, on_response, callback_stops, on_close, timer_fires, io_drains,
     deadline_passes, user_stops

LEMMA IdsStep ==
  ASSUME TypeOK, LocalsInv, IdsInv, [Next]_vars
  PROVE  IdsInv'
<1> USE ServerNoneAssumption DEF TypeOK, LocalsInv, UserLocals, IdsInv
<1>1. CASE UNCHANGED <<next_request_id, pending_requests, addressee, completions,
                       answers, user>>
  BY <1>1
<1>2. CASE complete_response
  BY <1>2 DEF complete_response, IoLocals, FindPending, Complete
<1>3. CASE fail_pending
  BY <1>3 DEF fail_pending, IoLocals, Complete
<1>4. CASE sweep_requests
  BY <1>4 DEF sweep_requests, Expired, Complete
<1>5. CASE stop_requests
  BY <1>5 DEF stop_requests, Complete
<1>6. ASSUME NEW t \in Threads, NEW i \in Identities, lookup_identity(t, i)
      PROVE  IdsInv'
  BY <1>6 DEF lookup_identity, requestVars
<1>7. ASSUME NEW t \in Threads, NEW h \in Hdls, async_request(t, h)
      PROVE  IdsInv'
  <2>1. /\ \A s \in Threads \ {t} : user'[s] = user[s]
        /\ user'[t].pc \in {"register", "idle"}
    BY <1>7 DEF async_request, Idle
  <2> QED
    BY <1>7, <2>1 DEF async_request, requestVars
<1>8. ASSUME NEW t \in Threads, register_request(t)
      PROVE  IdsInv'
  BY <1>8 DEF register_request, FreshId, Requests
<1>9. ASSUME NEW t \in Threads, send(t)
      PROVE  IdsInv'
  <2>1. /\ \A s \in Threads \ {t} : user'[s] = user[s]
        /\ user'[t].id # None => user'[t].id = user[t].id /\ user'[t].hdl = user[t].hdl
    BY <1>9 DEF send, Idle
  <2> QED
    BY <1>9, <2>1 DEF send, requestVars
<1>10. ASSUME NEW t \in Threads, undo_request(t)
       PROVE  IdsInv'
  BY <1>10 DEF undo_request, Complete, Idle
<1> HIDE DEF TypeOK, LocalsInv, UserLocals, IdsInv
<1> QED
  BY <1>1, <1>2, <1>3, <1>4, <1>5, <1>6, <1>7, <1>8, <1>9, <1>10, RequestSteps

LEMMA RequestInvariant == Spec => [](TypeOK /\ LocalsInv /\ IdsInv)
<1>1. Init => IdsInv
  BY DEF Init, IdsInv, Idle
<1>2. TypeOK /\ LocalsInv /\ IdsInv /\ [Next]_vars => IdsInv'
  BY IdsStep
<1> QED
  BY <1>1, <1>2, TypeCorrect, PTL DEF Spec

(***************************************************************************)
(* Completing promises that are waiting, and taking them out of the table  *)
(* in the same critical section, completes none twice.                     *)
(***************************************************************************)
LEMMA CompletingOnce ==
  ASSUME TypeOK, IdsInv, CompletedOnce, NEW ids,
         \A id \in ids : \E h \in Hdls : id \in pending_requests[h],
         completions' = Complete(ids),
         \A h \in Hdls : pending_requests'[h] \subseteq pending_requests[h] \ ids
  PROVE  CompletedOnce'
BY DEF TypeOK, IdsInv, CompletedOnce, Complete

LEMMA CompletedOnceStep ==
  ASSUME TypeOK, LocalsInv, IdsInv, CompletedOnce, [Next]_vars
  PROVE  CompletedOnce'
<1>1. CASE UNCHANGED <<pending_requests, completions>>
  BY <1>1 DEF CompletedOnce
<1>2. CASE complete_response
  <2>1. CASE io.id \in pending_requests[io.hdl]
    <3>1. io.hdl \in Hdls
      BY <1>2 DEF complete_response, LocalsInv, IoLocals
    <3>2. /\ completions' = Complete({io.id})
          /\ pending_requests' = [pending_requests EXCEPT ![io.hdl] = @ \ {io.id}]
      BY <1>2, <2>1 DEF complete_response, FindPending
    <3>3. \A h \in Hdls : pending_requests'[h] \subseteq pending_requests[h] \ {io.id}
      BY <2>1, <3>1, <3>2 DEF TypeOK, IdsInv
    <3> QED
      BY <2>1, <3>1, <3>2, <3>3, CompletingOnce
  <2>2. CASE io.id \notin pending_requests[io.hdl]
    BY <1>1, <1>2, <2>2 DEF complete_response, FindPending
  <2> QED
    BY <2>1, <2>2
<1>3. CASE fail_pending
  <2>1. io.hdl \in Hdls
    BY <1>3 DEF fail_pending, LocalsInv, IoLocals
  <2>2. \A h \in Hdls :
          pending_requests'[h] \subseteq pending_requests[h] \ pending_requests[io.hdl]
    BY <1>3, <2>1 DEF fail_pending, TypeOK, IdsInv
  <2> QED
    BY <1>3, <2>1, <2>2, CompletingOnce DEF fail_pending
<1>4. CASE sweep_requests
  <2> DEFINE ids == UNION {Expired(h) : h \in Hdls}
  <2>1. \A id \in ids : \E h \in Hdls : id \in pending_requests[h]
    BY DEF Expired
  <2>2. \A h \in Hdls : pending_requests'[h] \subseteq pending_requests[h] \ ids
    BY <1>4 DEF sweep_requests, Expired, TypeOK, IdsInv
  <2>3. completions' = Complete(ids)
    BY <1>4 DEF sweep_requests
  <2> HIDE DEF ids
  <2> QED
    BY <2>1, <2>2, <2>3, CompletingOnce
<1>5. CASE stop_requests
  <2> DEFINE ids == UNION {pending_requests[h] : h \in Hdls}
  <2>1. \A id \in ids : \E h \in Hdls : id \in pending_requests[h]
    OBVIOUS
  <2>2. /\ \A h \in Hdls : pending_requests'[h] = {}
        /\ completions' = Complete(ids)
    BY <1>5 DEF stop_requests
  <2> HIDE DEF ids
  <2> QED
    BY <2>1, <2>2, CompletingOnce
<1>6. ASSUME NEW t \in Threads, register_request(t)
      PROVE  CompletedOnce'
  BY <1>6 DEF register_request, FreshId, LocalsInv, UserLocals, TypeOK, IdsInv,
              CompletedOnce, Requests
<1>7. ASSUME NEW t \in Threads, undo_request(t)
      PROVE  CompletedOnce'
  <2> DEFINE h == user[t].hdl
             id == user[t].id
             ids == pending_requests[h] \cap {id}
  <2>1. h \in Hdls /\ id # None
    BY <1>7 DEF undo_request, LocalsInv, UserLocals
  <2>2. /\ completions' = Complete(ids)
        /\ pending_requests' = [pending_requests EXCEPT ![h] = @ \ {id}]
    BY <1>7 DEF undo_request
  <2>3. \A g \in Hdls : pending_requests'[g] \subseteq pending_requests[g] \ ids
    BY <2>1, <2>2 DEF TypeOK, IdsInv
  <2>4. \A i \in ids : i \in pending_requests[h]
    OBVIOUS
  <2> HIDE DEF ids, h, id
  <2> QED
    BY <2>1, <2>2, <2>3, <2>4, CompletingOnce
<1> QED
  BY <1>1, <1>2, <1>3, <1>4, <1>5, <1>6, <1>7, RequestSteps
     DEF lookup_identity, async_request, send, requestVars

(***************************************************************************)
(* "std::promise::set_* is never called twice" (check_timeouts): response, *)
(* timeout, close, failed send and stop() complete a promise at most once, *)
(* however their critical sections interleave.                             *)
(***************************************************************************)
THEOREM CompletedOnceHolds == Spec => []CompletedOnce
<1>1. Init => CompletedOnce
  BY DEF Init, CompletedOnce
<1>2. TypeOK /\ LocalsInv /\ IdsInv /\ CompletedOnce /\ [Next]_vars => CompletedOnce'
  BY CompletedOnceStep
<1> QED
  BY <1>1, <1>2, RequestInvariant, PTL DEF Spec

LEMMA AnsweredStep ==
  ASSUME TypeOK, LocalsInv, IdsInv, AnsweredByAddressee, [Next]_vars
  PROVE  AnsweredByAddressee'
<1>1. CASE UNCHANGED <<addressee, answers>>
  BY <1>1 DEF AnsweredByAddressee
<1>2. CASE complete_response
  BY <1>2 DEF complete_response, FindPending, LocalsInv, IoLocals, TypeOK, IdsInv,
              AnsweredByAddressee
<1>3. ASSUME NEW t \in Threads, register_request(t)
      PROVE  AnsweredByAddressee'
  BY <1>3 DEF register_request, FreshId, TypeOK, IdsInv, AnsweredByAddressee
<1> QED
  BY <1>1, <1>2, <1>3, RequestSteps DEF fail_pending, sweep_requests, stop_requests,
     lookup_identity, async_request, send, undo_request, requestVars

(***************************************************************************)
(* A response completes only a request that was made for the connection it *)
(* arrived on, whatever id the client writes into it (on_message).         *)
(***************************************************************************)
THEOREM AnsweredByAddresseeHolds == Spec => []AnsweredByAddressee
<1>1. Init => AnsweredByAddressee
  BY DEF Init, AnsweredByAddressee
<1>2. TypeOK /\ LocalsInv /\ IdsInv /\ AnsweredByAddressee /\ [Next]_vars
        => AnsweredByAddressee'
  BY AnsweredStep
<1> QED
  BY <1>1, <1>2, RequestInvariant, PTL DEF Spec

-----------------------------------------------------------------------------
(***************************************************************************)
(* Connections and routes.  A step that leaves connections, sessions and   *)
(* routes alone, and moves neither into nor out of a handler that stores   *)
(* or erases them, keeps what relates them.                                *)
(***************************************************************************)
connectionVars == <<conn, handshake_open_time, sessions, anon_sessions, peer, active,
                    identity_to_hdl, hdl_to_identity, erased_by, stopping>>

Storing == {"emplace", "route", "unroute", "fail_pending"}

Outside == /\ UNCHANGED connectionVars
           /\ io' = io \/ (io.pc \notin Storing /\ io'.pc \notin Storing)

LEMMA ConnectionFrame ==
  ASSUME HandlerInv, StoredInv, Outside
  PROVE  HandlerInv' /\ StoredInv'
<1> USE DEF Outside
<1>1. CASE io' = io
  BY <1>1 DEF HandlerInv, StoredInv, BeingStored, Known, connectionVars
<1>2. CASE io.pc \notin Storing /\ io'.pc \notin Storing
  BY <1>2 DEF Storing, HandlerInv, StoredInv, BeingStored, Known, connectionVars
<1> QED
  BY <1>1, <1>2

\* The steps that leave connections, sessions and routes alone.
LEMMA ConnectionSteps ==
  ASSUME LocalsInv, [Next]_vars
  PROVE  \/ Outside
         \/ \E h \in Hdls : \/ accept(h) \/ PeerCloses(h) \/ on_open(h) \/ on_hello(h)
                            \/ on_message_refused(h) \/ on_close(h)
         \/ emplace \/ route \/ unroute \/ fail_pending
         \/ sweep_idle \/ sweep_handshakes
         \/ stop_listening \/ stop_sessions \/ stop_identities
<1> USE DEF connectionVars, connVars, sessionVars, identityVars, stopVars
<1>1. ASSUME complete_response \/ sweep_requests \/ schedule_timeout_check \/ set_timer
      PROVE  Outside
  <2> USE DEF Outside, Storing, IoAt
  <2>1. CASE complete_response
    BY <2>1 DEF complete_response
  <2>2. CASE sweep_requests
    BY <2>2 DEF sweep_requests
  <2>3. CASE schedule_timeout_check
    BY <2>3 DEF schedule_timeout_check
  <2>4. CASE set_timer
    BY <2>4 DEF set_timer
  <2> QED
    BY <1>1, <2>1, <2>2, <2>3, <2>4
<1>2. ASSUME stop_timer \/ stop_requests \/ stop_join
      PROVE  Outside
  <2>1. stop_timer => UNCHANGED <<connectionVars, io>>
    BY DEF stop_timer
  <2>2. stop_requests => UNCHANGED <<connectionVars, io>>
    BY DEF stop_requests
  <2>3. CASE stop_join
    <3>1. UNCHANGED connectionVars
      BY <2>3 DEF stop_join
    <3>2. io' = io \/ (io.pc = "callback" /\ io' = IoAt("idle"))
      BY <2>3 DEF stop_join, SelfJoin, LocalsInv, StopLocals
    <3> QED
      BY <3>1, <3>2 DEF Outside, Storing, IoAt
  <2> QED
    BY <1>2, <2>1, <2>2, <2>3 DEF Outside
<1>3. UNCHANGED vars => Outside
  <2>1. UNCHANGED vars => UNCHANGED connectionVars
    BY DEF vars
  <2>2. UNCHANGED vars => io' = io
    BY DEF vars
  <2> QED
    BY <2>1, <2>2 DEF Outside
<1>4. ASSUME NEW t \in Threads,
             \/ \E i \in Identities : lookup_identity(t, i)
             \/ \E h \in Hdls : async_request(t, h)
             \/ register_request(t) \/ send(t) \/ undo_request(t)
      PROVE  Outside
  <2>1. ASSUME NEW i \in Identities, lookup_identity(t, i)
        PROVE  UNCHANGED <<connectionVars, io>>
    BY <2>1 DEF lookup_identity
  <2>2. ASSUME NEW h \in Hdls, async_request(t, h)
        PROVE  UNCHANGED <<connectionVars, io>>
    BY <2>2 DEF async_request
  <2>3. register_request(t) => UNCHANGED <<connectionVars, io>>
    BY DEF register_request
  <2>4. send(t) => UNCHANGED <<connectionVars, io>>
    BY DEF send
  <2>5. undo_request(t) => UNCHANGED <<connectionVars, io>>
    BY DEF undo_request
  <2> QED
    BY <1>4, <2>1, <2>2, <2>3, <2>4, <2>5 DEF Outside
<1>5. ASSUME NEW h \in Hdls,
             callback_stops(h) \/ \E id \in 0..(next_request_id - 1) : on_response(h, id)
      PROVE  Outside
  BY <1>5 DEF callback_stops, on_response, Outside, Storing, IoOn
<1>6. timer_fires => Outside
  BY DEF timer_fires, Outside, Storing, IoAt
<1>7. io_drains => Outside
  BY DEF io_drains, Outside, Storing, IoAt
<1>8. user_stops => Outside
  <2>1. user_stops => UNCHANGED <<connectionVars, io>>
    BY DEF user_stops
  <2> QED
    BY <2>1 DEF Outside
<1>9. ASSUME NEW id \in Requests, deadline_passes(id)
      PROVE  Outside
  <2>1. UNCHANGED <<connectionVars, io>>
    BY <1>9 DEF deadline_passes
  <2> QED
    BY <2>1 DEF Outside
<1> QED
  BY <1>1, <1>2, <1>3, <1>4, <1>5, <1>6, <1>7, <1>8, <1>9 DEF Next, IoStep, StopStep

LEMMA StoredStep ==
  ASSUME TypeOK, LocalsInv, HandlerInv, StoredInv, RoutesInv, [Next]_vars
  PROVE  HandlerInv' /\ StoredInv'
<1> USE ServerNoneAssumption
        DEF TypeOK, LocalsInv, IoLocals, StopLocals, HandlerInv, StoredInv, BeingStored,
            Known, connVars, sessionVars, identityVars, stopVars, IoAt, IoOn
<1>1. CASE Outside
  BY <1>1, ConnectionFrame
<1>2. ASSUME NEW h \in Hdls, accept(h)
      PROVE  HandlerInv' /\ StoredInv'
  BY <1>2 DEF accept
<1>3. ASSUME NEW h \in Hdls, PeerCloses(h)
      PROVE  HandlerInv' /\ StoredInv'
  BY <1>3 DEF PeerCloses
<1>4. ASSUME NEW h \in Hdls, on_open(h)
      PROVE  HandlerInv' /\ StoredInv'
  BY <1>4 DEF on_open
<1>5. ASSUME NEW h \in Hdls, on_hello(h)
      PROVE  HandlerInv' /\ StoredInv'
  <2>1. CASE HelloFails(h)
    BY <1>5, <2>1 DEF on_hello, HelloFails, Closed
  <2>2. CASE HelloRejected(h)
    BY <1>5, <2>2 DEF on_hello, HelloRejected, Closed
  <2>3. ASSUME NEW identity \in Identities \cup {None}, HelloAccepted(h, identity)
        PROVE  HandlerInv' /\ StoredInv'
    <3>1. hdl_to_identity[h] = None
      BY <1>5 DEF on_hello, RoutesInv
    <3> QED
      BY <1>5, <2>3, <3>1 DEF on_hello, HelloAccepted
  <2> QED
    BY <1>5, <2>1, <2>2, <2>3 DEF on_hello
<1>6. ASSUME NEW h \in Hdls, on_message_refused(h)
      PROVE  HandlerInv' /\ StoredInv'
  BY <1>6 DEF on_message_refused, Closed
<1>7. ASSUME NEW h \in Hdls, on_close(h)
      PROVE  HandlerInv' /\ StoredInv'
  BY <1>7 DEF on_close
<1>8. CASE emplace
  BY <1>8 DEF emplace
<1>9. CASE route
  BY <1>9 DEF route
<1>10. CASE unroute
  BY <1>10 DEF unroute
<1>11. CASE fail_pending
  BY <1>11 DEF fail_pending
<1>12. CASE sweep_idle
  BY <1>12 DEF sweep_idle, Closed
<1>13. CASE sweep_handshakes
  BY <1>13 DEF sweep_handshakes, Closed
<1>14. CASE stop_listening
  BY <1>14 DEF stop_listening
<1>15. CASE stop_sessions
  BY <1>15 DEF stop_sessions, Closed
<1>16. CASE stop_identities
  BY <1>16 DEF stop_identities
<1> HIDE DEF TypeOK, LocalsInv, HandlerInv, StoredInv
<1> QED
  BY <1>1, <1>2, <1>3, <1>4, <1>5, <1>6, <1>7, <1>8, <1>9, <1>10, <1>11, <1>12, <1>13,
     <1>14, <1>15, <1>16, ConnectionSteps

LEMMA RoutesStep ==
  ASSUME TypeOK, LocalsInv, HandlerInv, StoredInv, RoutesInv, [Next]_vars
  PROVE  RoutesInv'
<1> USE ServerNoneAssumption
        DEF TypeOK, LocalsInv, IoLocals, UserLocals, RoutesInv, connVars, sessionVars,
            identityVars
<1>1. CASE Outside
  <2> USE DEF Outside, connectionVars
  <2>1. CASE UNCHANGED user
    BY <1>1, <2>1
  <2>2. ASSUME NEW t \in Threads, NEW i \in Identities, lookup_identity(t, i)
        PROVE  RoutesInv'
    BY <1>1, <2>2 DEF lookup_identity, FindRoute
  <2>3. ASSUME NEW t \in Threads, NEW h \in Hdls, async_request(t, h)
        PROVE  RoutesInv'
    <3>1. /\ \A s \in Threads \ {t} : user'[s] = user[s]
          /\ user'[t].identity # None =>
               user'[t].identity = user[t].identity /\ user'[t].hdl = user[t].hdl
      BY <2>3 DEF async_request, Idle
    <3>2. UNCHANGED <<conn, peer, identity_to_hdl, hdl_to_identity>>
      BY <1>1
    <3> HIDE DEF Outside, connectionVars
    <3> QED
      BY <3>1, <3>2
  <2>4. ASSUME NEW t \in Threads, register_request(t) \/ send(t) \/ undo_request(t)
        PROVE  RoutesInv'
    <3>1. /\ \A s \in Threads \ {t} : user'[s] = user[s]
          /\ user'[t].identity # None =>
               user'[t].identity = user[t].identity /\ user'[t].hdl = user[t].hdl
      BY <2>4 DEF register_request, send, undo_request, Idle
    <3>2. UNCHANGED <<conn, peer, identity_to_hdl, hdl_to_identity>>
      BY <1>1
    <3> HIDE DEF Outside, connectionVars
    <3> QED
      BY <3>1, <3>2
  <2> HIDE DEF TypeOK, LocalsInv, RoutesInv
  <2> QED
    BY <2>1, <2>2, <2>3, <2>4, RequestSteps
       DEF complete_response, fail_pending, sweep_requests, stop_requests
<1>2. ASSUME NEW h \in Hdls, accept(h)
      PROVE  RoutesInv'
  BY <1>2 DEF accept
<1>3. ASSUME NEW h \in Hdls, PeerCloses(h)
      PROVE  RoutesInv'
  BY <1>3 DEF PeerCloses
<1>4. ASSUME NEW h \in Hdls, on_open(h)
      PROVE  RoutesInv'
  BY <1>4 DEF on_open
<1>5. ASSUME NEW h \in Hdls, on_hello(h)
      PROVE  RoutesInv'
  <2>1. peer[h] = None
    BY <1>5 DEF on_hello, StoredInv, BeingStored, Known
  <2> QED
    BY <1>5, <2>1 DEF on_hello, HelloFails, HelloRejected, HelloAccepted, Closed
<1>6. ASSUME NEW h \in Hdls, on_message_refused(h)
      PROVE  RoutesInv'
  BY <1>6 DEF on_message_refused, Closed
<1>7. ASSUME NEW h \in Hdls, on_close(h)
      PROVE  RoutesInv'
  BY <1>7 DEF on_close
<1>8. CASE emplace
  BY <1>8 DEF emplace
<1>9. CASE route
  BY <1>9 DEF route, HandlerInv
<1>10. CASE unroute
  BY <1>10 DEF unroute, EraseRoute
<1>11. CASE fail_pending
  BY <1>11 DEF fail_pending, HandlerInv
<1>12. CASE sweep_idle
  BY <1>12 DEF sweep_idle, Closed
<1>13. CASE sweep_handshakes
  BY <1>13 DEF sweep_handshakes, Closed
<1>14. CASE stop_listening
  BY <1>14 DEF stop_listening
<1>15. CASE stop_sessions
  BY <1>15 DEF stop_sessions, Closed
<1>16. CASE stop_identities
  BY <1>16 DEF stop_identities
<1> HIDE DEF TypeOK, LocalsInv, RoutesInv
<1> QED
  BY <1>1, <1>2, <1>3, <1>4, <1>5, <1>6, <1>7, <1>8, <1>9, <1>10, <1>11, <1>12, <1>13,
     <1>14, <1>15, <1>16, ConnectionSteps

(***************************************************************************)
(* The inductive invariant of the server.                                  *)
(***************************************************************************)
ServerInv == /\ TypeOK /\ LocalsInv /\ IdsInv
             /\ HandlerInv /\ StoredInv /\ RoutesInv

LEMMA ServerInvariant == Spec => []ServerInv
<1>1. Init => HandlerInv /\ StoredInv /\ RoutesInv
  BY DEF Init, HandlerInv, StoredInv, RoutesInv, BeingStored, Known, IoAt, Idle
<1>2. /\ TypeOK /\ LocalsInv /\ HandlerInv /\ StoredInv /\ RoutesInv
      /\ [Next]_vars
      => (HandlerInv /\ StoredInv /\ RoutesInv)'
  BY StoredStep, RoutesStep
<1> QED
  BY <1>1, <1>2, RequestInvariant, PTL DEF Spec, ServerInv

(***************************************************************************)
(* No route outlives its connection, the identity maps agree, and neither  *)
(* a session nor a timed handshake nor, before stop(), the limiter keeps   *)
(* what was closed (on_message, on_close).                                 *)
(***************************************************************************)
THEOREM NothingOutlivesCloseHolds == Spec => []NothingOutlivesClose
<1>1. ServerInv => NothingOutlivesClose
  BY DEF ServerInv, TypeOK, HandlerInv, StoredInv, RoutesInv, BeingStored,
         NothingOutlivesClose
<1> QED
  BY <1>1, ServerInvariant, PTL

(***************************************************************************)
(* A payload for an identity reaches only sessions that proved it: between *)
(* the lookup and the send nobody can put another client behind the handle *)
(* (send_to_identity, async_request_to_identity).                          *)
(***************************************************************************)
THEOREM RoutedToItsIdentityHolds == Spec => []RoutedToItsIdentity
<1>1. Init => RoutedToItsIdentity
  BY DEF Init, RoutedToItsIdentity
<1>2. ServerInv /\ RoutedToItsIdentity /\ [Next]_vars => RoutedToItsIdentity'
  <2> SUFFICES ASSUME ServerInv, RoutedToItsIdentity, [Next]_vars
               PROVE  RoutedToItsIdentity'
    OBVIOUS
  <2>1. CASE UNCHANGED routed
    BY <2>1 DEF RoutedToItsIdentity
  <2>2. ASSUME NEW t \in Threads, send(t)
        PROVE  RoutedToItsIdentity'
    BY <2>2 DEF send, ServerInv, RoutesInv, RoutedToItsIdentity
  <2>3. UNCHANGED routed \/ \E t \in Threads : send(t)
    <3>1. CASE IoStep
      BY <3>1 DEF IoStep, emplace, route, complete_response, unroute, fail_pending,
         sweep_idle, sweep_handshakes, sweep_requests, schedule_timeout_check, set_timer
    <3>2. CASE StopStep
      BY <3>2 DEF StopStep, stop_listening, stop_timer, stop_requests, stop_sessions,
         stop_identities, stop_join
    <3> QED
      BY <3>1, <3>2 DEF Next, vars, accept, PeerCloses, on_open, on_hello,
         on_message_refused, on_response, callback_stops, on_close, timer_fires,
         io_drains, deadline_passes, lookup_identity, async_request, register_request,
         undo_request, user_stops
  <2> QED
    BY <2>1, <2>2, <2>3
<1> QED
  BY <1>1, <1>2, ServerInvariant, PTL DEF Spec

-----------------------------------------------------------------------------
(***************************************************************************)
(* How the state of a connection may change: it only moves forward, and it *)
(* becomes closed only when it never opened or at the end of on_close.     *)
(***************************************************************************)
LEMMA ConnectionMoves ==
  ASSUME ServerInv, [Next]_vars, NEW h \in Hdls
  PROVE  \/ conn'[h] = conn[h]
         \/ conn[h] = "none" /\ conn'[h] = "accepted"
         \/ conn[h] = "accepted" /\ conn'[h] \in {"open", "closing", "closed"}
         \/ conn[h] = "open" /\ conn'[h] = "closing"
         \/ conn[h] = "closing" /\ conn'[h] = "closed" /\ fail_pending /\ io.hdl = h
<1> USE DEF ServerInv, TypeOK, LocalsInv, IoLocals, HandlerInv, connVars
<1>1. ASSUME NEW g \in Hdls, accept(g) \/ PeerCloses(g) \/ on_open(g) \/ on_message_refused(g)
      PROVE  \/ conn'[h] = conn[h]
             \/ conn[h] = "none" /\ conn'[h] = "accepted"
             \/ conn[h] = "accepted" /\ conn'[h] \in {"open", "closing", "closed"}
             \/ conn[h] = "open" /\ conn'[h] = "closing"
  BY <1>1 DEF accept, PeerCloses, on_open, on_message_refused, Closed
<1>2. ASSUME NEW g \in Hdls, on_hello(g) \/ on_close(g)
      PROVE  conn'[h] = conn[h] \/ (conn[h] = "open" /\ conn'[h] = "closing")
  <2>1. conn' = Closed({g}) \/ conn' = conn
    BY <1>2 DEF on_hello, HelloFails, HelloRejected, HelloAccepted, on_close
  <2> QED
    BY <2>1 DEF Closed
<1>3. CASE fail_pending
  BY <1>3 DEF fail_pending
<1>4. ASSUME emplace \/ route \/ unroute \/ stop_listening \/ stop_identities
      PROVE  conn'[h] = conn[h]
  <2>1. emplace => conn' = conn
    BY DEF emplace
  <2>2. route => conn' = conn
    BY DEF route
  <2>3. unroute => conn' = conn
    BY DEF unroute
  <2>4. stop_listening => conn' = conn
    BY DEF stop_listening
  <2>5. stop_identities => conn' = conn
    BY DEF stop_identities
  <2> QED
    BY <1>4, <2>1, <2>2, <2>3, <2>4, <2>5
<1>5. ASSUME sweep_idle \/ sweep_handshakes \/ stop_sessions
      PROVE  conn'[h] = conn[h] \/ (conn[h] = "open" /\ conn'[h] = "closing")
  <2>1. \E H \in SUBSET Hdls : conn' = Closed(H)
    <3>1. CASE sweep_idle
      BY <3>1 DEF sweep_idle, Known
    <3>2. CASE sweep_handshakes
      BY <3>2 DEF sweep_handshakes
    <3>3. CASE stop_sessions
      BY <3>3 DEF stop_sessions, Known
    <3> QED
      BY <1>5, <3>1, <3>2, <3>3
  <2> QED
    BY <2>1 DEF Closed
<1>6. Outside => conn'[h] = conn[h]
  BY DEF Outside, connectionVars
<1> HIDE DEF ServerInv
<1> QED
  BY <1>1, <1>2, <1>3, <1>4, <1>5, <1>6, ConnectionSteps DEF ServerInv

LEMMA NoOrphanStep ==
  ASSUME ServerInv, NoOrphanedRequest, [Next]_vars
  PROVE  NoOrphanedRequest'
<1> DEFINE Live(h) == conn[h] \in {"open", "closing"}
           Held(id) == \E t \in Threads : user[t].pc \in {"send", "undo"} /\ user[t].id = id
<1>1. ASSUME NEW h \in Hdls, Live(h), ~(fail_pending /\ io.hdl = h)
      PROVE  Live(h)'
  BY <1>1, ConnectionMoves
<1>2. CASE UNCHANGED <<pending_requests, user>>
  <2>1. ~fail_pending \/ pending_requests'[io.hdl] = {}
    BY DEF fail_pending, ServerInv, TypeOK, LocalsInv, IoLocals
  <2> QED
    BY <1>1, <1>2, <2>1 DEF NoOrphanedRequest
<1>3. CASE complete_response \/ sweep_requests \/ stop_requests
  <2>1. /\ \A h \in Hdls : pending_requests'[h] \subseteq pending_requests[h]
        /\ UNCHANGED <<conn, user>>
    BY <1>3 DEF complete_response, sweep_requests, stop_requests, ServerInv, TypeOK,
                LocalsInv, IoLocals, connVars
  <2> QED
    BY <2>1 DEF NoOrphanedRequest
<1>4. CASE fail_pending
  <2>1. /\ io.hdl \in Hdls
        /\ pending_requests' = [pending_requests EXCEPT ![io.hdl] = {}]
        /\ UNCHANGED user
    BY <1>4 DEF fail_pending, ServerInv, LocalsInv, IoLocals
  <2>2. \A h \in Hdls : pending_requests'[h] # {} =>
          h # io.hdl /\ pending_requests'[h] = pending_requests[h]
    BY <2>1 DEF ServerInv, TypeOK
  <2> QED
    BY <1>1, <2>1, <2>2 DEF NoOrphanedRequest
<1>5. ASSUME NEW t \in Threads, register_request(t)
      PROVE  NoOrphanedRequest'
  <2> DEFINE id == next_request_id
  <2>1. /\ user'[t].pc = "send" /\ user'[t].id = id
        /\ \A s \in Threads \ {t} : user'[s] = user[s]
        /\ \A h \in Hdls : pending_requests'[h] \subseteq pending_requests[h] \cup {id}
        /\ UNCHANGED conn
        /\ user[t].pc = "register"
    BY <1>5 DEF register_request, FreshId, ServerInv, TypeOK, LocalsInv, UserLocals,
                connVars
  <2> QED
    BY <2>1 DEF NoOrphanedRequest
<1>6. ASSUME NEW t \in Threads, send(t)
      PROVE  NoOrphanedRequest'
  <2>1. /\ \A s \in Threads \ {t} : user'[s] = user[s]
        /\ UNCHANGED <<conn, pending_requests>>
        /\ user[t].pc = "send"
    BY <1>6 DEF send, ServerInv, TypeOK, connVars, requestVars
  <2>2. user[t].id # None /\ ~(user'[t].pc = "undo" /\ user'[t].id = user[t].id)
          => user[t].hdl \in Known
    BY <1>6 DEF send, SendThrows, ServerInv, TypeOK
  <2>3. ASSUME NEW h \in Hdls, user[t].id \in pending_requests[h],
               ~(user'[t].pc = "undo" /\ user'[t].id = user[t].id)
        PROVE  conn[h] \in {"open", "closing"}
    <3>1. user[t].id # None
      BY <2>3, ServerNoneAssumption DEF ServerInv, TypeOK
    <3>2. user[t].hdl = h
      BY <2>1, <2>3, <3>1 DEF ServerInv, IdsInv
    <3> QED
      BY <2>2, <2>3, <3>1, <3>2 DEF ServerInv, StoredInv
  <2> QED
    BY <2>1, <2>3 DEF NoOrphanedRequest
<1>7. ASSUME NEW t \in Threads, undo_request(t)
      PROVE  NoOrphanedRequest'
  <2>1. /\ \A s \in Threads \ {t} : user'[s] = user[s]
        /\ UNCHANGED conn
        /\ user[t].pc = "undo" /\ user[t].id # None /\ user[t].hdl \in Hdls
        /\ pending_requests' = [pending_requests EXCEPT ![user[t].hdl] = @ \ {user[t].id}]
    BY <1>7 DEF undo_request, ServerInv, TypeOK, LocalsInv, UserLocals, connVars
  <2>2. \A h \in Hdls : /\ pending_requests'[h] \subseteq pending_requests[h]
                        /\ user[t].id \notin pending_requests'[h]
    BY <2>1 DEF ServerInv, TypeOK, IdsInv
  <2> QED
    BY <2>1, <2>2 DEF NoOrphanedRequest
<1>8. ASSUME NEW t \in Threads,
             \/ \E i \in Identities : lookup_identity(t, i)
             \/ \E h \in Hdls : async_request(t, h)
      PROVE  NoOrphanedRequest'
  <2>1. /\ \A s \in Threads \ {t} : user'[s] = user[s]
        /\ user[t].pc \in {"idle", "check"}
        /\ UNCHANGED <<conn, pending_requests>>
    BY <1>8 DEF lookup_identity, async_request, ServerInv, TypeOK, connVars, requestVars
  <2> QED
    BY <2>1 DEF NoOrphanedRequest
<1> QED
  BY <1>2, <1>3, <1>4, <1>5, <1>6, <1>7, <1>8, RequestSteps

(***************************************************************************)
(* "No orphaned entry can leak": whoever is to complete a pending request  *)
(* is still to come - the close of its connection, or the requester that   *)
(* undoes what it cannot send (async_request, on_close).                   *)
(***************************************************************************)
THEOREM NoOrphanedRequestHolds == Spec => []NoOrphanedRequest
<1>1. Init => NoOrphanedRequest
  BY DEF Init, NoOrphanedRequest
<1>2. ServerInv /\ NoOrphanedRequest /\ [Next]_vars => NoOrphanedRequest'
  BY NoOrphanStep
<1> QED
  BY <1>1, <1>2, ServerInvariant, PTL DEF Spec

-----------------------------------------------------------------------------
\* The route of an open session goes only when another connection of the same
\* identity closes, or when the server stops.
LEMMA RoutableStep ==
  ASSUME ServerInv, RoutableUnlessErased, [Next]_vars
  PROVE  RoutableUnlessErased'
<1> USE ServerNoneAssumption
        DEF ServerInv, TypeOK, LocalsInv, IoLocals, HandlerInv, StoredInv, RoutesInv,
            RoutableUnlessErased, Known, BeingStored, connVars, sessionVars, identityVars,
            stopVars
<1>1. CASE Outside
  BY <1>1 DEF Outside, connectionVars
<1>2. ASSUME NEW h \in Hdls, accept(h)
      PROVE  RoutableUnlessErased'
  BY <1>2 DEF accept
<1>3. ASSUME NEW h \in Hdls, PeerCloses(h)
      PROVE  RoutableUnlessErased'
  BY <1>3 DEF PeerCloses
<1>4. ASSUME NEW h \in Hdls, on_open(h)
      PROVE  RoutableUnlessErased'
  BY <1>4 DEF on_open
<1>5. ASSUME NEW h \in Hdls, on_hello(h)
      PROVE  RoutableUnlessErased'
  <2>1. UNCHANGED <<sessions, identityVars, stopping>>
    BY <1>5 DEF on_hello
  <2>2. CASE conn' = Closed({h}) /\ UNCHANGED peer
    BY <2>1, <2>2 DEF Closed
  <2>3. ASSUME NEW identity \in Identities \cup {None}, HelloAccepted(h, identity)
        PROVE  RoutableUnlessErased'
    <3>1. /\ h \notin sessions /\ conn[h] = "open" /\ peer[h] = None
      BY <1>5 DEF on_hello
    <3>2. conn' = conn /\ peer' = [peer EXCEPT ![h] = identity]
      BY <2>3 DEF HelloAccepted
    <3> QED
      BY <2>1, <3>1, <3>2
  <2> QED
    BY <1>5, <2>2, <2>3 DEF on_hello, HelloFails, HelloRejected
<1>6. ASSUME NEW h \in Hdls, on_message_refused(h)
      PROVE  RoutableUnlessErased'
  BY <1>6 DEF on_message_refused, Closed
<1>7. ASSUME NEW h \in Hdls, on_close(h)
      PROVE  RoutableUnlessErased'
  BY <1>7 DEF on_close
<1>8. CASE emplace
  BY <1>8 DEF emplace
<1>9. CASE route
  BY <1>9 DEF route
<1>10. CASE unroute
  BY <1>10 DEF unroute, EraseRoute
<1>11. CASE fail_pending
  BY <1>11 DEF fail_pending
<1>12. CASE sweep_idle
  BY <1>12 DEF sweep_idle, Closed
<1>13. CASE sweep_handshakes
  BY <1>13 DEF sweep_handshakes, Closed
<1>14. CASE stop_listening
  BY <1>14 DEF stop_listening
<1>15. CASE stop_sessions
  BY <1>15 DEF stop_sessions
<1>16. CASE stop_identities
  BY <1>16 DEF stop_identities, StopLocals
<1> HIDE DEF ServerInv, RoutableUnlessErased
<1>17. LocalsInv
  BY DEF ServerInv
<1> HIDE DEF LocalsInv
<1> QED
  BY <1>1, <1>2, <1>3, <1>4, <1>5, <1>6, <1>7, <1>8, <1>9, <1>10, <1>11, <1>12, <1>13,
     <1>14, <1>15, <1>16, <1>17, ConnectionSteps

(***************************************************************************)
(* An identity whose session is open has a route, unless the client had    *)
(* another connection at the same time, older or newer, and its close      *)
(* erased the route since the identity was routed last (on_close); in no   *)
(* other way does the server lose a client.                                *)
(***************************************************************************)
THEOREM RoutableUnlessErasedHolds == Spec => []RoutableUnlessErased
<1>1. Init => RoutableUnlessErased
  BY DEF Init, RoutableUnlessErased
<1>2. ServerInv /\ RoutableUnlessErased /\ [Next]_vars => RoutableUnlessErased'
  BY RoutableStep
<1> QED
  BY <1>1, <1>2, ServerInvariant, PTL DEF Spec
=============================================================================
