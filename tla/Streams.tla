------------------------------ MODULE Streams ------------------------------
(***************************************************************************)
(* Streams (stream.cpp, and their tables in ws_client.cpp, ws_server.cpp): *)
(* several clients, one wrapper each, and one server wrapper.  Both ends   *)
(* of a connection start streams, write to them, end and cancel them.      *)
(*                                                                         *)
(* A connection carries payloads in order (WebSocket over TCP).  The       *)
(* server sends under sessions_mutex_.  A client does not, so packets of   *)
(* threads that send at the same time can reach the server with counters   *)
(* out of order, and it drops the late ones (see Exchange): payloads to    *)
(* the server may be lost here at any time.                                *)
(***************************************************************************)
EXTENDS Naturals, Sequences, FiniteSets

CONSTANTS Hdls,           \* connections, each with a client wrapper of its own
          OpCodes,        \* what streams are started with: op codes, or None
          None,           \* std::nullopt
          V1_1Hdls,       \* connections whose session selected version 1.1 or later
          Authenticated,  \* connections whose client has an identity
          StreamHandlers, \* StreamHandlers[t]: op codes registered in table t
          HasIncoming,    \* sides whose incoming_stream_handler_ is set
          opcodes,        \* config_.opcodes: reserved op codes of both ends
          MaxStreams,     \* bound: streams started by a wrapper
          MaxLosses,      \* bound: connections that are lost
          MaxCalls        \* bound: calls of start_stream, write, end and cancel

\* Default reserved op codes (packet.hpp).
OpCode == [STREAM_START |-> 65533, STREAM_DATA |-> 65532,
           STREAM_END |-> 65531, STREAM_CANCEL |-> 65530]

Sides == {"client", "server"}
Ends == Hdls \X Sides
Peer(e) == <<e[1], IF e[2] = "client" THEN "server" ELSE "client">>

\* The wrapper of an end: the server has one for all its connections.
Wrappers == Hdls \cup {"server"}
Wrapper(e) == IF e[2] = "client" THEN e[1] ELSE "server"

\* The tables of stream handlers: stream_handlers_ of the clients (all register
\* the same), stream_handlers_ and anon_stream_handlers_ of the server.
Tables == {"client", "server", "anonymous"}

Ids == 0..(2 * MaxStreams - 1)
Option(S) == S \cup {None}

ASSUME StreamsAssumption ==
  /\ V1_1Hdls \subseteq Hdls
  /\ StreamHandlers \in [Tables -> SUBSET OpCodes]
  /\ HasIncoming \subseteq Sides
  /\ {"incoming", "nobody"} \cap OpCodes = {}
  /\ DOMAIN opcodes = DOMAIN OpCode
  /\ None \notin Ids
  /\ \A t \in Tables : None \notin StreamHandlers[t]
  /\ "server" \notin Hdls
  /\ MaxStreams \in Nat /\ MaxCalls \in Nat /\ MaxLosses \in Nat

VARIABLES
  link,        \* link[h]: the transport still carries payloads
  connected,   \* is_connected_ of the client of h
  session,     \* the server's side of h: session stored, erased, streams erased
  next_outgoing_stream_id,
  streams,     \* streams[e]: active_streams_, per_connection_streams_[h]
  starting,    \* starting[e]: the stream a thread in start_stream has registered
  handles,     \* handles[e]: streams the application of e holds
  listening,   \* listening[e]: streams whose handlers are set
  inbox,       \* inbox[e]: payloads on their way to e
  \* History, not state of the code:
  op_of,       \* op_of[h][id]: the op code the stream was started with
  written,     \* written[<<e, id>>]: chunks written for e to read
  calls,       \* calls of the application so far
  given,       \* given[<<e, id>>]: the handler that was given the incoming stream:
               \* that of an op code, "incoming" or "nobody"
  dispatched,  \* dispatched[<<e, id>>]: chunks given to the handler of e
  cut,         \* <<e, id>>: the cancel handler of e was called
  dropped,     \* <<e, id>>: a STREAM_START for e was lost
  stray        \* a stream's payload was given to the application's payload handlers

connVars == <<link, connected, session>>
tableVars == <<next_outgoing_stream_id, streams, starting, handles, listening>>
historyVars == <<op_of, written, calls, given, dispatched, cut, dropped, stray>>
vars == <<connVars, tableVars, inbox, historyVars>>

Init ==
  /\ link = [h \in Hdls |-> "up"]
  /\ connected = [h \in Hdls |-> TRUE]
  /\ session = [h \in Hdls |-> "stored"]
  /\ next_outgoing_stream_id = [w \in Wrappers |-> 0]
  /\ streams = [e \in Ends |-> {}]
  /\ starting = [e \in Ends |-> None]
  /\ handles = [e \in Ends |-> {}]
  /\ listening = [e \in Ends |-> {}]
  /\ inbox = [e \in Ends |-> <<>>]
  /\ op_of = [h \in Hdls |-> [id \in Ids |-> None]]
  /\ written = [p \in Ends \X Ids |-> 0]
  /\ calls = 0
  /\ given = [p \in Ends \X Ids |-> "nobody"]
  /\ dispatched = [p \in Ends \X Ids |-> <<>>]
  /\ cut = {}
  /\ dropped = {}
  /\ stray = FALSE

-----------------------------------------------------------------------------
(***************************************************************************)
(* send() of the two wrappers: it throws when the client is not connected  *)
(* or the server has no session; a transport error is swallowed.           *)
(***************************************************************************)
Ready(e) == IF e[2] = "client" THEN connected[e[1]] ELSE session[e[1]] = "stored"

Send(e, payload) ==
  inbox' = IF Ready(e) /\ link[e[1]] = "up"
             THEN [inbox EXCEPT ![Peer(e)] = Append(@, payload)] ELSE inbox

(***************************************************************************)
(* start_stream: ids of clients are even, of the server odd.  The stream   *)
(* is registered first, so that an answer finds it; then STREAM_START is   *)
(* sent, with the op code if the version has op codes in it.  When sending *)
(* throws, the stream stays registered and the caller gets none.           *)
(***************************************************************************)
\* Mistake: both ends draw from the same ids.
StreamId_SameParity(e) == next_outgoing_stream_id[Wrapper(e)] * 2

StreamId(e) == next_outgoing_stream_id[Wrapper(e)] * 2
                 + (IF e[2] = "client" THEN 0 ELSE 1)

\* Mistake: the stream is not registered before STREAM_START is sent.
Register_Never(e, id) == streams

Register(e, id) == [streams EXCEPT ![e] = @ \cup {id}]

start_stream(e, stream_op_code) ==
  LET id == StreamId(e)
  IN /\ starting[e] = None
     /\ next_outgoing_stream_id[Wrapper(e)] < MaxStreams
     /\ next_outgoing_stream_id' = [next_outgoing_stream_id EXCEPT ![Wrapper(e)] = @ + 1]
     /\ streams' = Register(e, id)
     /\ starting' = [starting EXCEPT ![e] = id]
     /\ op_of' = [op_of EXCEPT ![e[1]][id] = stream_op_code]
     /\ calls < MaxCalls
     /\ calls' = calls + 1
     /\ UNCHANGED <<connVars, handles, listening, inbox, written, given, dispatched,
                    cut, dropped, stray>>

SentOpCode(h, id) == IF h \in V1_1Hdls THEN op_of[h][id] ELSE None

send_start(e) ==
  LET id == starting[e]
  IN /\ id # None
     /\ starting' = [starting EXCEPT ![e] = None]
     /\ Send(e, [op |-> opcodes.STREAM_START, id |-> id,
                 arg |-> SentOpCode(e[1], id)])
     /\ handles' = IF Ready(e) THEN [handles EXCEPT ![e] = @ \cup {id}] ELSE handles
     /\ UNCHANGED <<connVars, next_outgoing_stream_id, streams, listening, op_of,
                    written, calls, given, dispatched, cut, dropped, stray>>

(***************************************************************************)
(* The application: set the handlers of a stream it started, write, end,   *)
(* cancel.  Stream uses the default op codes; none of the calls throws,    *)
(* and none touches a table.  The number in STREAM_END is history: the     *)
(* code sends only the id.                                                 *)
(***************************************************************************)
set_data_handler(e, id) ==
  /\ id \in handles[e] \ listening[e]
  /\ listening' = [listening EXCEPT ![e] = @ \cup {id}]
  /\ UNCHANGED <<connVars, next_outgoing_stream_id, streams, starting, handles,
                 inbox, historyVars>>

Call(e, id, op, arg) ==
  /\ id \in handles[e]
  /\ calls < MaxCalls
  /\ calls' = calls + 1
  /\ Send(e, [op |-> op, id |-> id, arg |-> arg])
  /\ UNCHANGED <<connVars, tableVars, op_of, given, dispatched, cut, dropped, stray>>

write(e, id) ==
  /\ written' = [written EXCEPT ![<<Peer(e), id>>] = @ + 1]
  /\ Call(e, id, OpCode.STREAM_DATA, written[<<Peer(e), id>>] + 1)

end(e, id) == Call(e, id, OpCode.STREAM_END, written[<<Peer(e), id>>]) /\ UNCHANGED written

cancel(e, id) == Call(e, id, OpCode.STREAM_CANCEL, None) /\ UNCHANGED written

-----------------------------------------------------------------------------
(***************************************************************************)
(* on_message.  The io thread of the server is not inside on_close.        *)
(***************************************************************************)
IoIdle(e) == IF e[2] = "client" THEN connected[e[1]]
             ELSE /\ session[e[1]] = "stored"
                  /\ \A h \in Hdls : session[h] # "erased"

Receive(e, op) ==
  /\ IoIdle(e)
  /\ inbox[e] # <<>>
  /\ Head(inbox[e]).op = op
  /\ inbox' = [inbox EXCEPT ![e] = Tail(@)]

(***************************************************************************)
(* Who is given an incoming stream: the handler registered for its op code *)
(* in the table of this end, else incoming_stream_handler_ if it is set.   *)
(***************************************************************************)
Table(e) == IF e[2] = "client" THEN "client"
            ELSE IF e[1] \in Authenticated THEN "server" ELSE "anonymous"

Registered(e) == StreamHandlers[Table(e)]

General(e) == IF e[2] \in HasIncoming THEN "incoming" ELSE "nobody"

\* Mistake: a stream with an op code is never given to the general handler.
HandlerOf_NoFallback(e, op_code) ==
  IF op_code \in Registered(e) THEN op_code
  ELSE IF op_code = None THEN General(e) ELSE "nobody"

HandlerOf(e, op_code) == IF op_code \in Registered(e) THEN op_code ELSE General(e)

\* Mistake: the handler runs later, on a thread of its own.
HandlersSet_Deferred(handled, id) == {}

\* The handler is called on the io thread and sets the stream's handlers.
HandlersSet(handled, id) == IF handled THEN {id} ELSE {}

on_stream_start(e) ==
  LET p == Head(inbox[e])
      handler == HandlerOf(e, p.arg)
      handled == handler # "nobody"
  IN /\ Receive(e, opcodes.STREAM_START)
     /\ streams' = [streams EXCEPT ![e] = @ \cup {p.id}]
     /\ handles' = IF handled THEN [handles EXCEPT ![e] = @ \cup {p.id}] ELSE handles
     /\ listening' = [listening EXCEPT ![e] = @ \cup HandlersSet(handled, p.id)]
     /\ given' = [given EXCEPT ![<<e, p.id>>] = handler]
     /\ UNCHANGED <<connVars, next_outgoing_stream_id, starting, op_of, written,
                    calls, dispatched, cut, dropped, stray>>

Found(e) == streams[e]

\* dispatch_data does nothing as long as no handler is set.
on_stream_data(e) ==
  LET p == Head(inbox[e])
  IN /\ Receive(e, opcodes.STREAM_DATA)
     /\ dispatched' = IF p.id \in Found(e) \cap listening[e]
                        THEN [dispatched EXCEPT ![<<e, p.id>>] = Append(@, p.arg)]
                        ELSE dispatched
     /\ UNCHANGED <<connVars, tableVars, op_of, written, calls, given, cut,
                    dropped, stray>>

\* STREAM_END only calls the end handler: the stream stays in the table.  Any op
\* code that is not reserved goes to the payload handlers of the application.
on_stream_end(e) ==
  /\ inbox[e] # <<>>
  /\ Head(inbox[e]).op \notin {opcodes.STREAM_START, opcodes.STREAM_DATA,
                               opcodes.STREAM_CANCEL}
  /\ Receive(e, Head(inbox[e]).op)
  /\ stray' = (stray \/ Head(inbox[e]).op # opcodes.STREAM_END)
  /\ UNCHANGED <<connVars, tableVars, op_of, written, calls, given, dispatched,
                 cut, dropped>>

\* Mistake: a cancelled stream stays in the table.
Unregister_Kept(e, id) == streams

Unregister(e, id) == [streams EXCEPT ![e] = @ \ {id}]

on_stream_cancel(e) ==
  LET p == Head(inbox[e])
  IN /\ Receive(e, opcodes.STREAM_CANCEL)
     /\ streams' = Unregister(e, p.id)
     /\ cut' = IF p.id \in streams[e] THEN cut \cup {<<e, p.id>>} ELSE cut
     /\ UNCHANGED <<connVars, next_outgoing_stream_id, starting, handles, listening,
                    op_of, written, calls, given, dispatched, dropped, stray>>

\* The server cannot decrypt a packet whose counter is not above the last.
on_message_rejected(h) ==
  LET e == <<h, "server">>
      p == Head(inbox[e])
  IN /\ IoIdle(e)
     /\ inbox[e] # <<>>
     /\ inbox' = [inbox EXCEPT ![e] = Tail(@)]
     /\ dropped' = IF p.op = opcodes.STREAM_START THEN dropped \cup {<<e, p.id>>}
                   ELSE dropped
     /\ UNCHANGED <<connVars, tableVars, op_of, written, calls, given,
                    dispatched, cut, stray>>

-----------------------------------------------------------------------------
(***************************************************************************)
(* The connection goes away.  The server's on_close erases the session,    *)
(* then the streams of the connection; the client's on_close neither       *)
(* erases a stream nor tells its handlers.                                 *)
(***************************************************************************)
link_lost(h) ==
  /\ link[h] = "up"
  /\ Cardinality({g \in Hdls : link[g] = "down"}) < MaxLosses
  /\ link' = [link EXCEPT ![h] = "down"]
  /\ UNCHANGED <<connected, session, tableVars, inbox, historyVars>>

on_close_client(h) ==
  /\ link[h] = "down"
  /\ connected[h]
  /\ connected' = [connected EXCEPT ![h] = FALSE]
  /\ UNCHANGED <<link, session, tableVars, inbox, historyVars>>

on_close(h) ==
  /\ link[h] = "down"
  /\ IoIdle(<<h, "server">>)
  /\ session' = [session EXCEPT ![h] = "erased"]
  /\ UNCHANGED <<link, connected, tableVars, inbox, historyVars>>

\* Mistake: on_close keeps the streams.
Remaining_All(h) == streams[<<h, "server">>]

Remaining(h) == {}

erase_streams(h) ==
  /\ session[h] = "erased"
  /\ session' = [session EXCEPT ![h] = "closed"]
  /\ streams' = [streams EXCEPT ![<<h, "server">>] = Remaining(h)]
  /\ UNCHANGED <<link, connected, next_outgoing_stream_id, starting, handles,
                 listening, inbox, historyVars>>

-----------------------------------------------------------------------------
Application(e) ==
  \/ \E op \in OpCodes : start_stream(e, op)
  \/ send_start(e)
  \/ \E id \in Ids : set_data_handler(e, id) \/ write(e, id) \/ end(e, id) \/ cancel(e, id)

on_message(e) ==
  \/ on_stream_start(e) \/ on_stream_data(e) \/ on_stream_end(e)
  \/ on_stream_cancel(e)

Next ==
  \/ \E e \in Ends : Application(e) \/ on_message(e)
  \/ \E h \in Hdls : \/ on_message_rejected(h)
                     \/ link_lost(h) \/ on_close_client(h)
                     \/ on_close(h) \/ erase_streams(h)

Spec == Init /\ [][Next]_vars

-----------------------------------------------------------------------------
Payloads == [op : {opcodes[o] : o \in DOMAIN opcodes} \cup {OpCode[o] : o \in DOMAIN OpCode},
             id : Ids, arg : Option(OpCodes) \cup 0..MaxCalls]

(***************************************************************************)
(* The types of the stream tables and of what is under way.                *)
(***************************************************************************)
TypeOK ==
  /\ link \in [Hdls -> {"up", "down"}]
  /\ connected \in [Hdls -> BOOLEAN]
  /\ session \in [Hdls -> {"stored", "erased", "closed"}]
  /\ next_outgoing_stream_id \in [Wrappers -> 0..MaxStreams]
  /\ streams \in [Ends -> SUBSET Ids]
  /\ starting \in [Ends -> Option(Ids)]
  /\ handles \in [Ends -> SUBSET Ids]
  /\ listening \in [Ends -> SUBSET Ids]
  /\ given \in [Ends \X Ids -> OpCodes \cup {"incoming", "nobody"}]
  /\ \A e \in Ends : \A i \in DOMAIN inbox[e] : inbox[e][i] \in Payloads

(***************************************************************************)
(* Ids of the two ends never meet: a STREAM_START never replaces a stream  *)
(* in the receiver's table (start_stream, on_message).                     *)
(***************************************************************************)
NeverReplaced ==
  \A e \in Ends : \A i \in DOMAIN inbox[e] :
    inbox[e][i].op = opcodes.STREAM_START => inbox[e][i].id \notin streams[e]

(***************************************************************************)
(* A stream is registered before the peer can hear of it, so the first     *)
(* answer finds it: a chunk that is read finds its stream unless the       *)
(* stream was cancelled or its STREAM_START was lost.                      *)
(***************************************************************************)
ChunkFindsStream ==
  \A e \in Ends :
    LET p == Head(inbox[e])
    IN (IoIdle(e) /\ inbox[e] # <<>> /\ p.op = opcodes.STREAM_DATA)
         => p.id \in streams[e] \/ <<e, p.id>> \in cut \cup dropped

(***************************************************************************)
(* Nothing the application ever held stays in the server's table of a      *)
(* connection that is gone (on_close racing with start_stream); what stays *)
(* there is only a start_stream that threw.                                *)
(***************************************************************************)
ClosedHoldsNoHandle ==
  \A h \in Hdls : session[h] = "closed" =>
    streams[<<h, "server">>] \cap handles[<<h, "server">>] = {}

(***************************************************************************)
(* An incoming stream is given to the handler of the op code its starter   *)
(* named, when the version of their connection carries op codes and this   *)
(* end has that op code in its table; every other stream, one of version   *)
(* 1.1 with an op code nobody registered included, is given to             *)
(* incoming_stream_handler_, and to nobody only where that is not set      *)
(* (start_stream of one end, on_message of the other; stream_routing_test: *)
(* FallbackToGenericStreamHandler).                                        *)
(***************************************************************************)
StartedBy(e, id) == id % 2 = IF e[2] = "client" THEN 0 ELSE 1

HasHandler(e, id) == e[1] \in V1_1Hdls /\ op_of[e[1]][id] \in Registered(e)

RoutedByItsOpCode ==
  \A e \in Ends : \A id \in streams[e] :
    StartedBy(Peer(e), id) =>
      /\ HasHandler(e, id) => given[<<e, id>>] = op_of[e[1]][id]
      /\ ~HasHandler(e, id) => given[<<e, id>>] = General(e)
      /\ id \in handles[e] <=> given[<<e, id>>] # "nobody"

(***************************************************************************)
(* The server's sends are serialised, its io thread and the client's run   *)
(* handlers in place: when STREAM_END reaches the client's handler of a    *)
(* stream the server started, every chunk written before end() was given   *)
(* to it.                                                                  *)
(***************************************************************************)
EndAfterItsData ==
  \A h \in Hdls :
    LET e == <<h, "client">>
        p == Head(inbox[e])
    IN (/\ IoIdle(e)
        /\ inbox[e] # <<>>
        /\ p.op = opcodes.STREAM_END
        /\ StartedBy(Peer(e), p.id)
        /\ p.id \in handles[e]
        /\ <<e, p.id>> \notin cut)
         => Len(dispatched[<<e, p.id>>]) >= p.arg

(***************************************************************************)
(* What the handlers of a stream are given, on every connection and in     *)
(* both directions, is what StreamPipes allows.                            *)
(***************************************************************************)
Pipes == INSTANCE StreamPipes WITH
           Pipes <- Ends \X Ids, received <- dispatched

PipesSpec == Pipes!Spec

(***************************************************************************)
(* packet.hpp: the default reserved op codes "Can be overridden via        *)
(* Config", so no payload of a stream ever reaches the payload handlers of *)
(* the application.                                                        *)
(***************************************************************************)
StreamsUseConfiguredOpCodes == ~stray
=============================================================================
