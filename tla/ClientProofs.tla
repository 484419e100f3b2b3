---------------------------- MODULE ClientProofs ----------------------------
(***************************************************************************)
(* Theorems about WsClient, for every set of threads and every bound.      *)
(***************************************************************************)
EXTENDS WsClient, TLAPS

LEMMA UserMoves ==
  ASSUME TypeOK, NEW t \in Threads,
         NEW pc \in {"register", "ensure", "start", "notify", "send", "undo"},
         UserAt(t, pc)
  PROVE  /\ user'[t].pc = pc
         /\ user'[t].id = user[t].id
         /\ \A s \in Threads \ {t} : user'[s] = user[s]
         /\ user' \in [Threads -> [pc : {"idle", "register", "ensure", "start", "notify",
                                         "send", "undo"},
                                   id : Requests \cup {None}]]
BY DEF TypeOK, UserAt

LEMMA TypeStep ==
  ASSUME TypeOK, [Next]_vars
  PROVE  TypeOK'
<1> USE ClientBoundsAssumption
        DEF TypeOK, linkVars, requestVars, watchdogVars, disconnectVars, DisconnectAt,
            WatchdogAt
<1>1. CASE connect
  BY <1>1 DEF connect
<1>2. CASE on_open
  BY <1>2 DEF on_open, Callers
<1>3. CASE on_fail
  BY <1>3 DEF on_fail
<1>4. CASE link_lost
  BY <1>4 DEF link_lost
<1>5. CASE on_close
  BY <1>5 DEF on_close
<1>6. CASE on_server_hello
  BY <1>6 DEF on_server_hello
<1>7. CASE on_message_fails
  BY <1>7 DEF on_message_fails, Callers
<1>8. CASE run_client_returns
  BY <1>8 DEF run_client_returns
<1>9. ASSUME NEW id \in Requests, on_response(id)
      PROVE  TypeOK'
  BY <1>9 DEF on_response, Complete
<1>10. ASSUME NEW t \in Threads, async_request(t)
       PROVE  TypeOK'
  BY <1>10, UserMoves DEF async_request
<1>11. ASSUME NEW t \in Threads, register_request(t)
       PROVE  TypeOK'
  <2>1. next_request_id \in Requests /\ next_request_id + 1 \in 0..MaxRequests
    BY <1>11 DEF register_request, Requests
  <2>2. PICK timed \in BOOLEAN :
          user' = [user EXCEPT ![t] = [pc |-> AfterRegister(timed), id |-> next_request_id]]
    BY <1>11 DEF register_request, FreshId
  <2>3. AfterRegister(timed) \in {"ensure", "send"}
    BY DEF AfterRegister
  <2>4. user' \in [Threads -> [pc : {"idle", "register", "ensure", "start", "notify",
                                    "send", "undo"},
                              id : Requests \cup {None}]]
    BY <2>1, <2>2, <2>3
  <2> QED
    BY <1>11, <2>1, <2>4 DEF register_request, FreshId
<1>12. ASSUME NEW t \in Threads, ensure_watchdog(t)
       PROVE  TypeOK'
  BY <1>12, UserMoves DEF ensure_watchdog
<1>13. ASSUME NEW t \in Threads, start_watchdog(t)
       PROVE  TypeOK'
  BY <1>13, UserMoves DEF start_watchdog
<1>14. ASSUME NEW t \in Threads, notify(t)
       PROVE  TypeOK'
  BY <1>14, UserMoves DEF notify, NotifyAll
<1>15. ASSUME NEW t \in Threads, send(t)
       PROVE  TypeOK'
  BY <1>15 DEF send, Idle
<1>16. ASSUME NEW t \in Threads, undo_request(t)
       PROVE  TypeOK'
  BY <1>16 DEF undo_request, Complete, Idle
<1>17. ASSUME NEW w \in Watchdogs, WatchdogStep(w)
       PROVE  TypeOK'
  <2>1. CASE watchdog_locks(w)
    BY <2>1 DEF watchdog_locks
  <2>2. CASE watchdog_checks(w)
    BY <2>2 DEF watchdog_checks
  <2>3. CASE watchdog_expires(w)
    BY <2>3 DEF watchdog_expires, Complete
  <2>4. CASE watchdog_waits(w)
    BY <2>4 DEF watchdog_waits, WaitKind
  <2>5. CASE watchdog_times_out(w)
    BY <2>5 DEF watchdog_times_out
  <2> HIDE DEF TypeOK
  <2> QED
    BY <1>17, <2>1, <2>2, <2>3, <2>4, <2>5 DEF WatchdogStep
<1>18. ASSUME NEW id \in Requests, deadline_passes(id)
       PROVE  TypeOK'
  BY <1>18 DEF deadline_passes
<1>19. CASE user_disconnects
  BY <1>19 DEF user_disconnects, Callers
<1>20. ASSUME NEW p \in Callers, DisconnectStep(p)
       PROVE  TypeOK'
  <2>1. CASE stop_io(p)
    BY <2>1 DEF stop_io
  <2>2. CASE fail_pending(p)
    BY <2>2 DEF fail_pending, Complete
  <2>3. CASE wake_watchdog(p)
    BY <2>3 DEF wake_watchdog, NotifyAll
  <2>4. CASE self_join_guard
    BY <2>4 DEF self_join_guard, Callers
  <2>5. CASE join_io
    BY <2>5 DEF join_io, Callers
  <2>6. CASE stop_watchdog
    <3>1. /\ watchdog_started' \in BOOLEAN
          /\ watchdog_stop' \in BOOLEAN
      BY <2>6 DEF stop_watchdog
    <3>2. disconnecting' \in [Callers -> {"idle", "called", "fail", "notify", "join",
                                         "stop_watchdog", "join_watchdog"}]
      BY <2>6 DEF stop_watchdog, Callers
    <3>3. watchdog' = watchdog \/ watchdog' = NotifyAll
      BY <2>6 DEF stop_watchdog
    <3>4. UNCHANGED <<mutex, watchdog_thread, terminated, disconnects, linkVars,
                      requestVars, user>>
      BY <2>6 DEF stop_watchdog
    <3> QED
      BY <3>1, <3>2, <3>3, <3>4 DEF NotifyAll
  <2>7. CASE join_watchdog
    BY <2>7 DEF join_watchdog, Callers
  <2> HIDE DEF TypeOK
  <2> QED
    BY <1>20, <2>1, <2>2, <2>3, <2>4, <2>5, <2>6, <2>7 DEF DisconnectStep
<1>21. CASE UNCHANGED vars
  BY <1>21 DEF vars
<1> HIDE DEF TypeOK
<1> QED
  BY <1>1, <1>2, <1>3, <1>4, <1>5, <1>6, <1>7, <1>8, <1>9, <1>10, <1>11, <1>12, <1>13,
     <1>14, <1>15, <1>16, <1>17, <1>18, <1>19, <1>20, <1>21 DEF Next, UserStep

(***************************************************************************)
(* The client's state keeps its types (ws_client.cpp).                     *)
(***************************************************************************)
THEOREM TypeCorrect == Spec => []TypeOK
<1>1. Init => TypeOK
  <2> SUFFICES ASSUME Init PROVE TypeOK
    OBVIOUS
  <2>1. /\ next_request_id \in 0..MaxRequests
        /\ disconnects \in 0..MaxDisconnects
    BY ClientBoundsAssumption DEF Init
  <2>2. user \in [Threads -> [pc : {"idle"}, id : {None}]]
    BY DEF Init, Idle
  <2> QED
    BY <2>1, <2>2 DEF Init, TypeOK
<1>2. TypeOK /\ [Next]_vars => TypeOK'
  BY TypeStep
<1> QED
  BY <1>1, <1>2, PTL DEF Spec

-----------------------------------------------------------------------------
(***************************************************************************)
(* Requests.  An id is handed out once: no id that is pending or completed *)
(* is still to come.                                                       *)
(***************************************************************************)
IdsInv ==
  /\ \A id \in pending_requests : id < next_request_id
  /\ \A id \in Requests : completions[id] # 0 => id < next_request_id

OnceInv == IdsInv /\ CompletedOnce

\* The steps that register, complete or drop a request.
LEMMA RequestSteps ==
  ASSUME [Next]_vars
  PROVE  \/ UNCHANGED <<next_request_id, pending_requests, completions>>
         \/ \E id \in Requests : on_response(id)
         \/ \E t \in Threads : register_request(t) \/ undo_request(t)
         \/ \E w \in Watchdogs : watchdog_expires(w)
         \/ \E p \in Callers : fail_pending(p)
<1> USE DEF linkVars, requestVars, watchdogVars, disconnectVars
<1>1. CASE UNCHANGED vars
  BY <1>1 DEF vars
<1>2. ASSUME NEW w \in Watchdogs, WatchdogStep(w), ~watchdog_expires(w)
      PROVE  UNCHANGED <<next_request_id, pending_requests, completions>>
  BY <1>2 DEF WatchdogStep, watchdog_locks, watchdog_checks, watchdog_waits,
              watchdog_times_out
<1>3. ASSUME NEW p \in Callers, DisconnectStep(p), ~fail_pending(p)
      PROVE  UNCHANGED <<next_request_id, pending_requests, completions>>
  BY <1>3 DEF DisconnectStep, stop_io, wake_watchdog, self_join_guard, join_io,
              stop_watchdog, join_watchdog
<1>4. ASSUME NEW t \in Threads, async_request(t) \/ UserStep(t),
             ~register_request(t), ~undo_request(t)
      PROVE  UNCHANGED <<next_request_id, pending_requests, completions>>
  BY <1>4 DEF UserStep, async_request, ensure_watchdog, start_watchdog, notify, send
<1> QED
  BY <1>1, <1>2, <1>3, <1>4 DEF Next, connect, on_open, on_fail, link_lost, on_close,
     on_server_hello, on_message_fails, run_client_returns, deadline_passes,
     user_disconnects

\* Whoever takes requests out of pending_requests_ completes only those.
LEMMA CompletingOnce ==
  ASSUME TypeOK, OnceInv, NEW ids \in SUBSET pending_requests,
         completions' = Complete(ids),
         pending_requests' \subseteq pending_requests \ ids,
         next_request_id' = next_request_id
  PROVE  OnceInv'
BY DEF TypeOK, OnceInv, IdsInv, CompletedOnce, Complete

LEMMA OnceStep ==
  ASSUME TypeOK, OnceInv, [Next]_vars
  PROVE  OnceInv'
<1>1. CASE UNCHANGED <<next_request_id, pending_requests, completions>>
  BY <1>1 DEF OnceInv, IdsInv, CompletedOnce
<1>2. ASSUME NEW id \in Requests, on_response(id)
      PROVE  OnceInv'
  BY <1>2, CompletingOnce DEF on_response
<1>3. ASSUME NEW t \in Threads, register_request(t)
      PROVE  OnceInv'
  BY <1>3 DEF register_request, FreshId, TypeOK, OnceInv, IdsInv, CompletedOnce
<1>4. ASSUME NEW t \in Threads, undo_request(t)
      PROVE  OnceInv'
  BY <1>4, CompletingOnce DEF undo_request
<1>5. ASSUME NEW w \in Watchdogs, watchdog_expires(w)
      PROVE  OnceInv'
  BY <1>5, CompletingOnce DEF watchdog_expires, Expired
<1>6. ASSUME NEW p \in Callers, fail_pending(p)
      PROVE  OnceInv'
  BY <1>6, CompletingOnce DEF fail_pending
<1> QED
  BY <1>1, <1>2, <1>3, <1>4, <1>5, <1>6, RequestSteps

(***************************************************************************)
(* "A promise is never completed twice" (README.md): whoever comes first   *)
(* of on_message, the watchdog, a failed send and disconnect takes the     *)
(* record out of pending_requests_, and the others do not find it.         *)
(***************************************************************************)
THEOREM CompletedOnceHolds == Spec => []CompletedOnce
<1>1. Init => OnceInv
  BY DEF Init, OnceInv, IdsInv, CompletedOnce
<1>2. TypeOK /\ OnceInv /\ [Next]_vars => OnceInv'
  BY OnceStep
<1>3. OnceInv => CompletedOnce
  BY DEF OnceInv
<1> QED
  BY <1>1, <1>2, <1>3, TypeCorrect, PTL DEF Spec

-----------------------------------------------------------------------------
\* The steps that add a deadline, or move a watchdog or a user thread.
LEMMA WakingSteps ==
  ASSUME [Next]_vars
  PROVE  \/ UNCHANGED <<watchdog, user>> /\ request_deadlines' \subseteq request_deadlines
         \/ \E t \in Threads : async_request(t) \/ UserStep(t)
         \/ \E w \in Watchdogs : WatchdogStep(w)
         \/ \E p \in Callers : wake_watchdog(p)
         \/ stop_watchdog
<1> USE DEF linkVars, requestVars, watchdogVars, disconnectVars
<1>1. CASE UNCHANGED vars
  BY <1>1 DEF vars
<1>2. ASSUME NEW p \in Callers, DisconnectStep(p), ~wake_watchdog(p), ~stop_watchdog
      PROVE  UNCHANGED <<watchdog, user>> /\ request_deadlines' \subseteq request_deadlines
  BY <1>2 DEF DisconnectStep, stop_io, fail_pending, self_join_guard, join_io,
              join_watchdog
<1> QED
  BY <1>1, <1>2 DEF Next, connect, on_open, on_fail, link_lost, on_close,
     on_server_hello, on_message_fails, run_client_returns, on_response,
     deadline_passes, user_disconnects

LEMMA NoLostInsertStep ==
  ASSUME TypeOK, NoLostInsert, [Next]_vars
  PROVE  NoLostInsert'
<1> USE DEF NoLostInsert, linkVars, requestVars, watchdogVars, disconnectVars
<1>1. CASE UNCHANGED <<watchdog, user>> /\ request_deadlines' \subseteq request_deadlines
  BY <1>1
<1>2. ASSUME NEW t \in Threads, async_request(t)
      PROVE  NoLostInsert'
  <2>1. user[t].pc = "idle" /\ \A s \in Threads \ {t} : user'[s] = user[s]
    BY <1>2, UserMoves DEF async_request
  <2> QED
    BY <1>2, <2>1 DEF async_request
<1>3. ASSUME NEW t \in Threads, register_request(t)
      PROVE  NoLostInsert'
  <2>1. PICK timed \in BOOLEAN :
          /\ request_deadlines' = IF timed THEN request_deadlines \cup {FreshId}
                                  ELSE request_deadlines
          /\ user' = [user EXCEPT ![t] = [pc |-> AfterRegister(timed), id |-> FreshId]]
    BY <1>3 DEF register_request
  <2>2. UNCHANGED watchdog /\ user[t].pc = "register"
    BY <1>3 DEF register_request
  <2>3. /\ user'[t].pc = AfterRegister(timed)
        /\ \A s \in Threads \ {t} : user'[s] = user[s]
    BY <2>1 DEF TypeOK
  <2> QED
    BY <2>1, <2>2, <2>3 DEF AfterRegister
<1>4. ASSUME NEW t \in Threads, ensure_watchdog(t)
      PROVE  NoLostInsert'
  <2>1. user'[t].pc \in {"start", "notify"}
    BY <1>4, UserMoves DEF ensure_watchdog
  <2> QED
    BY <2>1
<1>5. ASSUME NEW t \in Threads, start_watchdog(t)
      PROVE  NoLostInsert'
  <2>1. user'[t].pc = "notify"
    BY <1>5, UserMoves DEF start_watchdog
  <2> QED
    BY <2>1
<1>6. ASSUME watchdog' = NotifyAll
      PROVE  NoLostInsert'
  BY <1>6 DEF NotifyAll
<1>7. ASSUME NEW t \in Threads, send(t) \/ undo_request(t)
      PROVE  NoLostInsert'
  <2>1. /\ user[t].pc \in {"send", "undo"}
        /\ \A s \in Threads \ {t} : user'[s] = user[s]
        /\ UNCHANGED watchdog
        /\ request_deadlines' \subseteq request_deadlines
    BY <1>7 DEF send, undo_request, TypeOK
  <2> QED
    BY <2>1
<1>8. ASSUME NEW w \in Watchdogs, WatchdogStep(w)
      PROVE  NoLostInsert'
  BY <1>8 DEF WatchdogStep, watchdog_locks, watchdog_checks, watchdog_expires,
     watchdog_waits, watchdog_times_out, WatchdogAt, WaitKind, TypeOK
<1>9. CASE stop_watchdog
  <2>1. watchdog' = NotifyAll \/ UNCHANGED <<watchdog, user, request_deadlines>>
    BY <1>9 DEF stop_watchdog
  <2> QED
    BY <1>1, <1>6, <2>1
<1> HIDE DEF NoLostInsert
<1> QED
  BY <1>1, <1>2, <1>3, <1>4, <1>5, <1>6, <1>7, <1>8, <1>9, WakingSteps
     DEF UserStep, notify, wake_watchdog

(***************************************************************************)
(* No wake-up is lost: the watchdog waits without a time limit only while  *)
(* there is no deadline, or a thread that added one is still to notify it  *)
(* (async_request, watchdog_loop).                                         *)
(***************************************************************************)
THEOREM NoLostInsertHolds == Spec => []NoLostInsert
<1>1. Init => NoLostInsert
  BY DEF Init, NoLostInsert
<1>2. TypeOK /\ NoLostInsert /\ [Next]_vars => NoLostInsert'
  BY NoLostInsertStep
<1> QED
  BY <1>1, <1>2, TypeCorrect, PTL DEF Spec

-----------------------------------------------------------------------------
(***************************************************************************)
(* Before the first disconnect() of a user thread, watchdog_started_ picks *)
(* one thread to make the watchdog, and it stays set: while that thread is *)
(* between the flag and the handle the handle is empty, and once there is  *)
(* a watchdog nobody makes another.                                        *)
(***************************************************************************)
OneStarter ==
  /\ ~terminated
  /\ disconnecting["user"] = "idle"
  /\ watchdog_thread # None => watchdog_started
  /\ \A t \in Threads : user[t].pc = "start" => watchdog_started /\ watchdog_thread = None
  /\ \A s, t \in Threads : user[s].pc = "start" /\ user[t].pc = "start" => s = t

StarterInv == disconnects = 0 => OneStarter

\* The steps a watchdog, its handle or its makers have no part in.
LEMMA StarterSteps ==
  ASSUME TypeOK, StarterInv, [Next]_vars, disconnects' = 0
  PROVE  /\ disconnects = 0
         /\ \/ UNCHANGED <<watchdog_started, watchdog_thread, terminated, user>>
            \/ \E t \in Threads : async_request(t) \/ UserStep(t)
         /\ disconnecting'["user"] = "idle"
<1> USE DEF linkVars, requestVars, watchdogVars, disconnectVars
<1>1. disconnects = 0
  <2>1. user_disconnects => disconnects' # 0
    BY DEF user_disconnects, TypeOK
  <2>2. ~user_disconnects => disconnects' = disconnects
    <3>1. CASE UNCHANGED vars
      BY <3>1 DEF vars
    <3>2. ASSUME NEW p \in Callers, DisconnectStep(p)
          PROVE  disconnects' = disconnects
      BY <3>2 DEF DisconnectStep, stop_io, fail_pending, wake_watchdog, self_join_guard,
         join_io, stop_watchdog, join_watchdog
    <3>3. ASSUME NEW t \in Threads, async_request(t) \/ UserStep(t)
          PROVE  disconnects' = disconnects
      BY <3>3 DEF async_request, UserStep, register_request, ensure_watchdog,
         start_watchdog, notify, send, undo_request
    <3>4. ASSUME NEW w \in Watchdogs, WatchdogStep(w)
          PROVE  disconnects' = disconnects
      BY <3>4 DEF WatchdogStep, watchdog_locks, watchdog_checks, watchdog_expires,
         watchdog_waits, watchdog_times_out
    <3> QED
      BY <3>1, <3>2, <3>3, <3>4 DEF Next, connect, on_open, on_fail, link_lost, on_close,
         on_server_hello, on_message_fails, run_client_returns, on_response,
         deadline_passes
  <2> QED
    BY <2>1, <2>2
<1>2. disconnecting["user"] = "idle"
  BY <1>1 DEF StarterInv, OneStarter
<1>3. ~user_disconnects
  BY DEF user_disconnects, TypeOK
<1>4. CASE UNCHANGED vars
  BY <1>1, <1>2, <1>4 DEF vars
<1>5. ASSUME NEW p \in Callers, DisconnectStep(p)
      PROVE  /\ UNCHANGED <<watchdog_started, watchdog_thread, terminated, user>>
             /\ disconnecting'["user"] = "idle"
  BY <1>2, <1>5 DEF DisconnectStep, stop_io, fail_pending, wake_watchdog, self_join_guard,
     join_io, stop_watchdog, join_watchdog, DisconnectAt, TypeOK, Callers
<1>6. ASSUME NEW w \in Watchdogs, WatchdogStep(w)
      PROVE  /\ UNCHANGED <<watchdog_started, watchdog_thread, terminated, user>>
             /\ disconnecting'["user"] = "idle"
  BY <1>2, <1>6 DEF WatchdogStep, watchdog_locks, watchdog_checks, watchdog_expires,
     watchdog_waits, watchdog_times_out
<1>7. ASSUME NEW t \in Threads, async_request(t) \/ UserStep(t)
      PROVE  disconnecting'["user"] = "idle"
  BY <1>2, <1>7 DEF async_request, UserStep, register_request, ensure_watchdog,
     start_watchdog, notify, send, undo_request
<1>8. ASSUME on_open \/ on_message_fails
      PROVE  /\ UNCHANGED <<watchdog_started, watchdog_thread, terminated, user>>
             /\ disconnecting'["user"] = "idle"
  BY <1>2, <1>8 DEF on_open, on_message_fails, DisconnectAt, TypeOK, Callers
<1>9. ASSUME \/ connect \/ on_fail \/ link_lost \/ on_close \/ on_server_hello
             \/ run_client_returns
             \/ \E id \in Requests : on_response(id) \/ deadline_passes(id)
      PROVE  /\ UNCHANGED <<watchdog_started, watchdog_thread, terminated, user>>
             /\ disconnecting'["user"] = "idle"
  BY <1>2, <1>9 DEF connect, on_fail, link_lost, on_close, on_server_hello,
     run_client_returns, on_response, deadline_passes
<1> QED
  BY <1>1, <1>3, <1>4, <1>5, <1>6, <1>7, <1>8, <1>9 DEF Next

LEMMA StarterStep ==
  ASSUME TypeOK, StarterInv, [Next]_vars
  PROVE  StarterInv'
<1> SUFFICES ASSUME disconnects' = 0
             PROVE  OneStarter'
  BY DEF StarterInv
<1>1. OneStarter /\ disconnecting'["user"] = "idle"
  BY StarterSteps DEF StarterInv
<1>2. CASE UNCHANGED <<watchdog_started, watchdog_thread, terminated, user>>
  BY <1>1, <1>2 DEF OneStarter
<1> USE DEF watchdogVars
<1>3. ASSUME NEW t \in Threads, async_request(t)
      PROVE  OneStarter'
  <2>1. user'[t].pc = "register" /\ \A s \in Threads \ {t} : user'[s] = user[s]
    BY <1>3, UserMoves DEF async_request
  <2> QED
    BY <1>1, <1>3, <2>1 DEF async_request, OneStarter
<1>4. ASSUME NEW t \in Threads, ensure_watchdog(t)
      PROVE  OneStarter'
  <2>1. /\ user'[t].pc = IF watchdog_started THEN "notify" ELSE "start"
        /\ \A s \in Threads \ {t} : user'[s] = user[s]
    BY <1>4, UserMoves DEF ensure_watchdog
  <2>2. watchdog_started' = TRUE /\ UNCHANGED <<watchdog_thread, terminated>>
    BY <1>4 DEF ensure_watchdog
  <2> QED
    BY <1>1, <2>1, <2>2 DEF OneStarter
<1>5. ASSUME NEW t \in Threads, start_watchdog(t)
      PROVE  OneStarter'
  <2>1. user'[t].pc = "notify" /\ \A s \in Threads \ {t} : user'[s] = user[s]
    BY <1>5, UserMoves DEF start_watchdog
  <2>2. /\ user[t].pc = "start"
        /\ terminated' = (watchdog_thread # None)
        /\ UNCHANGED watchdog_started
    BY <1>5 DEF start_watchdog
  <2>3. watchdog_started /\ ~terminated' /\ \A s \in Threads : user'[s].pc # "start"
    BY <1>1, <2>1, <2>2 DEF OneStarter
  <2> QED
    BY <1>1, <2>2, <2>3 DEF OneStarter
<1>6. ASSUME NEW t \in Threads,
             register_request(t) \/ notify(t) \/ send(t) \/ undo_request(t)
      PROVE  OneStarter'
  <2>1. user'[t].pc # "start" /\ \A s \in Threads \ {t} : user'[s] = user[s]
    <3>1. CASE notify(t)
      BY <3>1, UserMoves DEF notify
    <3>2. CASE register_request(t)
      BY <3>2 DEF register_request, AfterRegister, TypeOK
    <3>3. CASE send(t) \/ undo_request(t)
      BY <3>3 DEF send, undo_request, Idle, TypeOK
    <3> QED
      BY <1>6, <3>1, <3>2, <3>3
  <2>2. UNCHANGED <<watchdog_started, watchdog_thread, terminated>>
    BY <1>6 DEF register_request, notify, send, undo_request
  <2> QED
    BY <1>1, <2>1, <2>2 DEF OneStarter
<1> QED
  BY <1>2, <1>3, <1>4, <1>5, <1>6, StarterSteps DEF UserStep

(***************************************************************************)
(* However many threads make their first request with a deadline at once,  *)
(* ensure_watchdog never replaces the handle of a running watchdog, which  *)
(* would end the program, before a user thread calls disconnect().         *)
(***************************************************************************)
THEOREM NoTerminateHolds == Spec => []NoTerminate
<1>1. Init => StarterInv
  BY DEF Init, StarterInv, OneStarter, Callers, Idle
<1>2. TypeOK /\ StarterInv /\ [Next]_vars => StarterInv'
  BY StarterStep
<1>3. TypeOK /\ StarterInv => NoTerminate
  BY DEF TypeOK, StarterInv, OneStarter, NoTerminate
<1> QED
  BY <1>1, <1>2, <1>3, TypeCorrect, PTL DEF Spec
=============================================================================
