------------------------------ MODULE WsClient ------------------------------
(***************************************************************************)
(* WsClientWrapper (ws_client.cpp): one connection to a server, requests   *)
(* with their timeout watchdog, and disconnect().                          *)
(*                                                                         *)
(* Four kinds of threads run: the io thread (websocketpp handlers), user   *)
(* threads in async_request, a user thread in disconnect, and the watchdog *)
(* thread.  A block under pending_requests_mutex_ is one step, except in   *)
(* the watchdog, which reads the stop flag and then decides to wait        *)
(* without letting go of that mutex: stop_watchdog does not take it.       *)
(***************************************************************************)
EXTENDS Integers, FiniteSets

CONSTANTS Threads,        \* user threads that make requests
          None,           \* a null pointer, a free mutex
          MaxRequests,    \* bound: requests issued (request ids count from 0)
          MaxWatchdogs,   \* bound: watchdog threads created
          MaxDisconnects  \* bound: calls of disconnect() by a user thread

Requests == 0..(MaxRequests - 1)
Watchdogs == 1..MaxWatchdogs
Callers == {"user", "io"}   \* who runs disconnect()

ASSUME ClientBoundsAssumption ==
  /\ MaxRequests \in Nat
  /\ MaxWatchdogs \in Nat
  /\ MaxDisconnects \in Nat

ASSUME ClientNoneAssumption == None \notin Watchdogs \cup Requests

VARIABLES
  link,               \* the WebSocket connection
  io,                 \* the io thread
  io_stopped,         \* client_.stop() was called
  client_thread,      \* client_thread_ is set
  is_connected,
  ready,              \* the session's handshake is complete
  next_request_id,
  pending_requests,
  request_deadlines,
  expired,            \* requests whose deadline has passed
  mutex,              \* pending_requests_mutex_: the watchdog that keeps it, or None
  watchdog_started,
  watchdog_stop,
  watchdog_thread,    \* the watchdog thread of the handle, or None
  watchdog,           \* watchdog[w]: where watchdog thread w is
  terminated,         \* std::terminate was called
  user,               \* user[t]: where thread t is and its request
  disconnecting,      \* disconnecting[p]: where caller p is in disconnect()
  disconnects,        \* calls of disconnect() by a user thread so far
  \* History, not state of the code:
  completions         \* completions[id]: how often its promise was completed

linkVars == <<link, io, io_stopped, client_thread, is_connected, ready>>
requestVars == <<next_request_id, pending_requests, request_deadlines, expired,
                 completions>>
watchdogVars == <<mutex, watchdog_started, watchdog_stop, watchdog_thread, watchdog,
                  terminated>>
disconnectVars == <<disconnecting, disconnects>>
vars == <<linkVars, requestVars, watchdogVars, user, disconnectVars>>

Idle == [pc |-> "idle", id |-> None]

UserAt(t, pc) == user' = [user EXCEPT ![t].pc = pc]
DisconnectAt(p, pc) == disconnecting' = [disconnecting EXCEPT ![p] = pc]

Complete(ids) == [id \in Requests |->
                    IF id \in ids THEN completions[id] + 1 ELSE completions[id]]

\* timeout_cv_.notify_all()
NotifyAll == [w \in Watchdogs |-> IF watchdog[w] \in {"waiting", "timed"} THEN "woken"
                                  ELSE watchdog[w]]

Init ==
  /\ link = "none"
  /\ io = "none"
  /\ io_stopped = FALSE
  /\ client_thread = FALSE
  /\ is_connected = FALSE
  /\ ready = FALSE
  /\ next_request_id = 0
  /\ pending_requests = {}
  /\ request_deadlines = {}
  /\ expired = {}
  /\ mutex = None
  /\ watchdog_started = FALSE
  /\ watchdog_stop = FALSE
  /\ watchdog_thread = None
  /\ watchdog = [w \in Watchdogs |-> "none"]
  /\ terminated = FALSE
  /\ user = [t \in Threads |-> Idle]
  /\ disconnecting = [p \in Callers |-> "idle"]
  /\ disconnects = 0
  /\ completions = [id \in Requests |-> 0]

-----------------------------------------------------------------------------
(***************************************************************************)
(* The connection and the handlers on the io thread.                       *)
(***************************************************************************)
connect ==
  /\ link = "none"
  /\ link' = "connecting"
  /\ io' = "idle"
  /\ client_thread' = TRUE
  /\ UNCHANGED <<io_stopped, is_connected, ready, requestVars, watchdogVars, user,
                 disconnectVars>>

CanRun == io = "idle" /\ ~io_stopped

\* on_open: when the hello cannot be sent, the io thread disconnects.
on_open ==
  /\ CanRun
  /\ link = "connecting"
  /\ link' = "open"
  /\ is_connected' = TRUE
  /\ \/ UNCHANGED <<io, disconnecting>>
     \/ /\ io' = "disconnecting"
        /\ DisconnectAt("io", "called")
  /\ UNCHANGED <<io_stopped, client_thread, ready, requestVars, watchdogVars, user,
                 disconnects>>

on_fail ==
  /\ CanRun
  /\ link = "connecting"
  /\ link' = "closed"
  /\ is_connected' = FALSE
  /\ UNCHANGED <<io, io_stopped, client_thread, ready, requestVars, watchdogVars,
                 user, disconnectVars>>

\* The server goes away; on_close has not run yet.
link_lost ==
  /\ link = "open"
  /\ link' = "lost"
  /\ UNCHANGED <<io, io_stopped, client_thread, is_connected, ready, requestVars,
                 watchdogVars, user, disconnectVars>>

on_close ==
  /\ CanRun
  /\ link = "lost"
  /\ link' = "closed"
  /\ is_connected' = FALSE
  /\ UNCHANGED <<io, io_stopped, client_thread, ready, requestVars, watchdogVars,
                 user, disconnectVars>>

\* on_message: the ServerHello.
on_server_hello ==
  /\ CanRun
  /\ link = "open"
  /\ ~ready
  /\ ready' = TRUE
  /\ UNCHANGED <<link, io, io_stopped, client_thread, is_connected, requestVars,
                 watchdogVars, user, disconnectVars>>

\* on_message: a response.  The request's deadline stays behind.
on_response(id) ==
  /\ CanRun
  /\ link = "open"
  /\ ready
  /\ mutex = None
  /\ completions' = Complete(pending_requests \cap {id})
  /\ pending_requests' = pending_requests \ {id}
  /\ UNCHANGED <<next_request_id, request_deadlines, expired, linkVars,
                 watchdogVars, user, disconnectVars>>

\* on_message: a hello, packet or handler fails and the io thread disconnects.
on_message_fails ==
  /\ CanRun
  /\ link = "open"
  /\ io' = "disconnecting"
  /\ DisconnectAt("io", "called")
  /\ UNCHANGED <<link, io_stopped, client_thread, is_connected, ready, disconnects,
                 requestVars, watchdogVars, user>>

\* client_.run() returns when it was stopped or has no connection left.
run_client_returns ==
  /\ io = "idle"
  /\ io_stopped \/ link = "closed"
  /\ io' = "exited"
  /\ UNCHANGED <<link, io_stopped, client_thread, is_connected, ready, requestVars,
                 watchdogVars, user, disconnectVars>>

-----------------------------------------------------------------------------
(***************************************************************************)
(* async_request on a user thread.  send() throws when the client is not   *)
(* connected or the payload is too large; what the transport refuses is    *)
(* swallowed.                                                              *)
(***************************************************************************)
async_request(t) ==
  /\ user[t].pc = "idle"
  /\ is_connected
  /\ ready
  /\ UserAt(t, "register")
  /\ UNCHANGED <<linkVars, requestVars, watchdogVars, disconnectVars>>

FreshId == next_request_id

\* Mistake: a running watchdog is not notified of a new deadline.
AfterRegister_NotNotified(timed) ==
  IF timed /\ ~watchdog_started THEN "ensure" ELSE "send"

AfterRegister(timed) == IF timed THEN "ensure" ELSE "send"

register_request(t) ==
  LET id == FreshId
  IN /\ user[t].pc = "register"
     /\ mutex = None
     /\ next_request_id \in Requests
     /\ next_request_id' = next_request_id + 1
     /\ pending_requests' = pending_requests \cup {id}
     /\ \E timed \in BOOLEAN :
          /\ request_deadlines' = IF timed THEN request_deadlines \cup {id}
                                  ELSE request_deadlines
          /\ user' = [user EXCEPT ![t] = [pc |-> AfterRegister(timed), id |-> id]]
     /\ UNCHANGED <<expired, completions, linkVars, watchdogVars, disconnectVars>>

\* Mistake: a thread is made for every deadline.
ensure_watchdog_Always(t) ==
  /\ user[t].pc = "ensure"
  /\ watchdog_started' = TRUE
  /\ UserAt(t, "start")
  /\ UNCHANGED <<mutex, watchdog_stop, watchdog_thread, watchdog, terminated,
                 linkVars, requestVars, disconnectVars>>

\* ensure_watchdog: the flag is taken atomically, the thread made under a lock.
ensure_watchdog(t) ==
  /\ user[t].pc = "ensure"
  /\ watchdog_started' = TRUE
  /\ UserAt(t, IF watchdog_started THEN "notify" ELSE "start")
  /\ UNCHANGED <<mutex, watchdog_stop, watchdog_thread, watchdog, terminated,
                 linkVars, requestVars, disconnectVars>>

\* Replacing the handle of a thread that was not joined calls std::terminate.
start_watchdog(t) ==
  /\ user[t].pc = "start"
  /\ \E w \in Watchdogs :
       /\ watchdog[w] = "none"
       /\ \A v \in Watchdogs : v < w => watchdog[v] # "none"
       /\ watchdog' = [watchdog EXCEPT ![w] = "woken"]
       /\ watchdog_thread' = w
  /\ watchdog_stop' = FALSE
  /\ terminated' = (watchdog_thread # None)
  /\ UserAt(t, "notify")
  /\ UNCHANGED <<mutex, watchdog_started, linkVars, requestVars, disconnectVars>>

notify(t) ==
  /\ user[t].pc = "notify"
  /\ watchdog' = NotifyAll
  /\ UserAt(t, "send")
  /\ UNCHANGED <<mutex, watchdog_started, watchdog_stop, watchdog_thread, terminated,
                 linkVars, requestVars, disconnectVars>>

send(t) ==
  /\ user[t].pc = "send"
  /\ \E too_large \in BOOLEAN :
       user' = [user EXCEPT ![t] = IF is_connected /\ ~too_large THEN Idle
                                   ELSE [@ EXCEPT !.pc = "undo"]]
  /\ UNCHANGED <<linkVars, requestVars, watchdogVars, disconnectVars>>

undo_request(t) ==
  LET id == user[t].id
  IN /\ user[t].pc = "undo"
     /\ mutex = None
     /\ completions' = Complete(pending_requests \cap {id})
     /\ pending_requests' = pending_requests \ {id}
     /\ request_deadlines' = request_deadlines \ {id}
     /\ user' = [user EXCEPT ![t] = Idle]
     /\ UNCHANGED <<next_request_id, expired, linkVars, watchdogVars, disconnectVars>>

-----------------------------------------------------------------------------
(***************************************************************************)
(* watchdog_loop.  The mutex is taken when the loop starts and after every *)
(* wait; it is kept from reading watchdog_stop_ to the wait.               *)
(***************************************************************************)
WatchdogAt(w, pc) == watchdog' = [watchdog EXCEPT ![w] = pc]

watchdog_locks(w) ==
  /\ watchdog[w] = "woken"
  /\ mutex = None
  /\ mutex' = w
  /\ WatchdogAt(w, "check")
  /\ UNCHANGED <<watchdog_started, watchdog_stop, watchdog_thread, terminated,
                 linkVars, requestVars, user, disconnectVars>>

watchdog_checks(w) ==
  /\ watchdog[w] = "check"
  /\ IF watchdog_stop
       THEN WatchdogAt(w, "exited") /\ mutex' = None
       ELSE WatchdogAt(w, "scan") /\ UNCHANGED mutex
  /\ UNCHANGED <<watchdog_started, watchdog_stop, watchdog_thread, terminated,
                 linkVars, requestVars, user, disconnectVars>>

\* Mistake: the pending record is not looked up.
Expired_Unchecked == request_deadlines \cap expired

Expired == pending_requests \cap request_deadlines \cap expired

watchdog_expires(w) ==
  /\ watchdog[w] = "scan"
  /\ request_deadlines \cap expired # {}
  /\ completions' = Complete(Expired)
  /\ pending_requests' = pending_requests \ Expired
  /\ request_deadlines' = request_deadlines \ expired
  /\ WatchdogAt(w, "check")
  /\ UNCHANGED <<next_request_id, expired, mutex, watchdog_started, watchdog_stop,
                 watchdog_thread, terminated, linkVars, user, disconnectVars>>

\* Mistake: the wait has no time limit.
WaitKind_Untimed == "waiting"

WaitKind == IF request_deadlines = {} THEN "waiting" ELSE "timed"

watchdog_waits(w) ==
  /\ watchdog[w] = "scan"
  /\ request_deadlines \cap expired = {}
  /\ WatchdogAt(w, WaitKind)
  /\ mutex' = None
  /\ UNCHANGED <<watchdog_started, watchdog_stop, watchdog_thread, terminated,
                 linkVars, requestVars, user, disconnectVars>>

\* wait_until returns when the earliest deadline comes.
watchdog_times_out(w) ==
  /\ watchdog[w] = "timed"
  /\ WatchdogAt(w, "woken")
  /\ UNCHANGED <<mutex, watchdog_started, watchdog_stop, watchdog_thread, terminated,
                 linkVars, requestVars, user, disconnectVars>>

\* Time: the deadline of a request passes.
deadline_passes(id) ==
  /\ id \in request_deadlines
  /\ id \notin expired
  /\ expired' = expired \cup {id}
  /\ UNCHANGED <<next_request_id, pending_requests, request_deadlines, completions,
                 linkVars, watchdogVars, user, disconnectVars>>

-----------------------------------------------------------------------------
(***************************************************************************)
(* disconnect(), by a user thread or by the io thread itself.              *)
(***************************************************************************)
user_disconnects ==
  /\ disconnecting["user"] = "idle"
  /\ disconnects < MaxDisconnects
  /\ client_thread
  /\ disconnects' = disconnects + 1
  /\ DisconnectAt("user", "called")
  /\ UNCHANGED <<linkVars, requestVars, watchdogVars, user>>

stop_io(p) ==
  /\ disconnecting[p] = "called"
  /\ io_stopped' = TRUE
  /\ DisconnectAt(p, "fail")
  /\ UNCHANGED <<link, io, client_thread, is_connected, ready, disconnects,
                 requestVars, watchdogVars, user>>

\* Mistake: the promises are dropped without an exception.
fail_pending_Dropped(p) ==
  /\ disconnecting[p] = "fail"
  /\ mutex = None
  /\ completions' = completions
  /\ pending_requests' = {}
  /\ request_deadlines' = {}
  /\ DisconnectAt(p, "notify")
  /\ UNCHANGED <<next_request_id, expired, disconnects, linkVars, watchdogVars, user>>

fail_pending(p) ==
  /\ disconnecting[p] = "fail"
  /\ mutex = None
  /\ completions' = Complete(pending_requests)
  /\ pending_requests' = {}
  /\ request_deadlines' = {}
  /\ DisconnectAt(p, "notify")
  /\ UNCHANGED <<next_request_id, expired, disconnects, linkVars, watchdogVars, user>>

wake_watchdog(p) ==
  /\ disconnecting[p] = "notify"
  /\ watchdog' = NotifyAll
  /\ DisconnectAt(p, "join")
  /\ UNCHANGED <<mutex, watchdog_started, watchdog_stop, watchdog_thread, terminated,
                 disconnects, linkVars, requestVars, user>>

\* Mistake: the io thread joins itself.
self_join_guard_Missing ==
  /\ disconnecting["io"] = "join"
  /\ io = "exited"
  /\ is_connected' = FALSE
  /\ io' = "idle"
  /\ DisconnectAt("io", "idle")
  /\ UNCHANGED <<link, io_stopped, client_thread, ready, disconnects, requestVars,
                 watchdogVars, user>>

\* The self-join guard: the io thread returns to its handler.
self_join_guard ==
  /\ disconnecting["io"] = "join"
  /\ is_connected' = FALSE
  /\ io' = "idle"
  /\ DisconnectAt("io", "idle")
  /\ UNCHANGED <<link, io_stopped, client_thread, ready, disconnects, requestVars,
                 watchdogVars, user>>

join_io ==
  /\ disconnecting["user"] = "join"
  /\ io = "exited"
  /\ client_thread' = FALSE
  /\ is_connected' = FALSE
  /\ DisconnectAt("user", "stop_watchdog")
  /\ UNCHANGED <<link, io, io_stopped, ready, disconnects, requestVars, watchdogVars,
                 user>>

\* stop_watchdog, first block under watchdog_mutex_.
stop_watchdog ==
  /\ disconnecting["user"] = "stop_watchdog"
  /\ IF watchdog_thread = None
       THEN /\ watchdog_started' = FALSE
            /\ DisconnectAt("user", "idle")
            /\ UNCHANGED <<watchdog_stop, watchdog>>
       ELSE /\ watchdog_stop' = TRUE
            /\ watchdog' = NotifyAll
            /\ DisconnectAt("user", "join_watchdog")
            /\ UNCHANGED watchdog_started
  /\ UNCHANGED <<mutex, watchdog_thread, terminated, disconnects, linkVars,
                 requestVars, user>>

\* stop_watchdog: join, and the second block under watchdog_mutex_.
join_watchdog ==
  /\ disconnecting["user"] = "join_watchdog"
  /\ watchdog[watchdog_thread] = "exited"
  /\ watchdog_thread' = None
  /\ watchdog_started' = FALSE
  /\ DisconnectAt("user", "idle")
  /\ UNCHANGED <<mutex, watchdog_stop, watchdog, terminated, disconnects, linkVars,
                 requestVars, user>>

-----------------------------------------------------------------------------
IoStep == run_client_returns \/ on_close

UserStep(t) == \/ register_request(t) \/ ensure_watchdog(t) \/ start_watchdog(t)
               \/ notify(t) \/ send(t) \/ undo_request(t)

WatchdogStep(w) == \/ watchdog_locks(w) \/ watchdog_checks(w) \/ watchdog_expires(w)
                   \/ watchdog_waits(w) \/ watchdog_times_out(w)

DisconnectStep(p) ==
  \/ stop_io(p)
  \/ fail_pending(p)
  \/ wake_watchdog(p)
  \/ /\ p = "io"
     /\ self_join_guard
  \/ /\ p = "user"
     /\ join_io \/ stop_watchdog \/ join_watchdog

Next ==
  /\ ~terminated
  /\ \/ connect
     \/ on_open \/ on_fail \/ link_lost \/ on_close
     \/ on_server_hello \/ on_message_fails \/ run_client_returns
     \/ \E id \in Requests : on_response(id)
     \/ \E t \in Threads : async_request(t) \/ UserStep(t)
     \/ \E w \in Watchdogs : WatchdogStep(w)
     \/ \E id \in Requests : deadline_passes(id)
     \/ user_disconnects
     \/ \E p \in Callers : DisconnectStep(p)

Spec == Init /\ [][Next]_vars

(***************************************************************************)
(* Every thread keeps running, the mutex is granted to every thread that   *)
(* asks again and again, and time passes.  Nothing is assumed of the       *)
(* server, and nobody has to make requests or to disconnect.               *)
(***************************************************************************)
Fairness ==
  /\ WF_vars(~terminated /\ IoStep)
  /\ \A t \in Threads : SF_vars(~terminated /\ UserStep(t))
  /\ \A w \in Watchdogs : SF_vars(~terminated /\ WatchdogStep(w))
  /\ \A p \in Callers : SF_vars(~terminated /\ DisconnectStep(p))
  /\ \A id \in Requests : WF_vars(~terminated /\ deadline_passes(id))

FairSpec == Spec /\ Fairness

-----------------------------------------------------------------------------
(***************************************************************************)
(* The types of the client's state.                                        *)
(***************************************************************************)
TypeOK ==
  /\ link \in {"none", "connecting", "open", "lost", "closed"}
  /\ io \in {"none", "idle", "disconnecting", "exited"}
  /\ {io_stopped, client_thread, is_connected, ready} \subseteq BOOLEAN
  /\ next_request_id \in 0..MaxRequests
  /\ pending_requests \subseteq Requests
  /\ request_deadlines \subseteq Requests
  /\ expired \subseteq Requests
  /\ mutex \in Watchdogs \cup {None}
  /\ {watchdog_started, watchdog_stop, terminated} \subseteq BOOLEAN
  /\ watchdog_thread \in Watchdogs \cup {None}
  /\ watchdog \in [Watchdogs -> {"none", "woken", "check", "scan", "waiting", "timed",
                                 "exited"}]
  /\ user \in [Threads -> [pc : {"idle", "register", "ensure", "start", "notify",
                                 "send", "undo"},
                           id : Requests \cup {None}]]
  /\ disconnecting \in [Callers -> {"idle", "called", "fail", "notify", "join",
                                    "stop_watchdog", "join_watchdog"}]
  /\ disconnects \in 0..MaxDisconnects
  /\ completions \in [Requests -> Nat]

(***************************************************************************)
(* README.md: "a promise is never completed twice" - by a response, the    *)
(* watchdog, a failed send or disconnect().                                *)
(***************************************************************************)
CompletedOnce ==
  \A id \in Requests :
    /\ completions[id] <= 1
    /\ id \in pending_requests => completions[id] = 0

(***************************************************************************)
(* The watchdog decides under the mutex: while it waits without a deadline *)
(* there is none, or the thread that added one is still to wake it         *)
(* (async_request, watchdog_loop).                                         *)
(***************************************************************************)
NoLostInsert ==
  \A w \in Watchdogs :
    watchdog[w] = "waiting" /\ request_deadlines # {} =>
      \E t \in Threads : user[t].pc \in {"ensure", "start", "notify"}

(***************************************************************************)
(* ensure_watchdog replaces the handle of no running thread, which would   *)
(* end the program, however many threads make their first request with a   *)
(* deadline at once - as long as no disconnect() resets                    *)
(* watchdog_started_ between the flag and the thread (ws_client.cpp 139).  *)
(***************************************************************************)
NoTerminate == terminated => disconnects > 0

(***************************************************************************)
(* As long as no user thread calls disconnect(), every request with a      *)
(* deadline is completed - also when the connection is lost or the io      *)
(* thread disconnects itself (async_request, watchdog_loop).               *)
(***************************************************************************)
DeadlineKept ==
  \A id \in Requests :
    id \in request_deadlines ~> (completions[id] = 1 \/ disconnects > 0)

(***************************************************************************)
(* disconnect() completes every request that was pending when it was       *)
(* called, with or without deadline.                                       *)
(***************************************************************************)
DisconnectCompletes ==
  \A id \in Requests :
    (id \in pending_requests /\ \E p \in Callers : disconnecting[p] = "called")
      ~> completions[id] = 1

(***************************************************************************)
(* The io thread is always joined: neither a disconnect() on the io thread *)
(* itself nor one that races with it waits for ever for it to exit.        *)
(***************************************************************************)
IoThreadJoined ==
  \A p \in Callers :
    disconnecting[p] = "called" ~>
      (disconnecting[p] \in {"idle", "stop_watchdog", "join_watchdog"} \/ terminated)

-----------------------------------------------------------------------------
(***************************************************************************)
(* ws_client.cpp, disconnect: the watchdog "must observe the stop flag set *)
(* by stop_watchdog()", which is then joined; so disconnect() returns.     *)
(***************************************************************************)
DisconnectReturns ==
  disconnecting["user"] = "called" ~> (disconnecting["user"] = "idle" \/ terminated)
=============================================================================
