--------------------------- MODULE StreamsProofs ---------------------------
(***************************************************************************)
(* Theorems about Streams, for every number of connections, every set of   *)
(* op codes and every bound.                                               *)
(***************************************************************************)
EXTENDS Streams, TLAPS

(***************************************************************************)
(* No configured op code is another one or the default of another one: so  *)
(* with the defaults, and with any override that keeps clear of them.      *)
(* Streams start with the configured op code and go on with the defaults.  *)
(***************************************************************************)
Separate ==
  \A a, b \in DOMAIN OpCode : a # b => opcodes[a] # opcodes[b] /\ opcodes[a] # OpCode[b]

Args == Option(OpCodes) \cup Nat

Messages == [op : {opcodes.STREAM_START, OpCode.STREAM_DATA, OpCode.STREAM_END,
                   OpCode.STREAM_CANCEL},
             id : Ids, arg : Args]

TypesInv ==
  /\ link \in [Hdls -> {"up", "down"}]
  /\ connected \in [Hdls -> BOOLEAN]
  /\ session \in [Hdls -> {"stored", "erased", "closed"}]
  /\ next_outgoing_stream_id \in [Wrappers -> 0..MaxStreams]
  /\ streams \in [Ends -> SUBSET Ids]
  /\ starting \in [Ends -> Option(Ids)]
  /\ handles \in [Ends -> SUBSET Ids]
  /\ listening \in [Ends -> SUBSET Ids]
  /\ inbox \in [Ends -> Seq(Messages)]
  /\ op_of \in [Hdls -> [Ids -> Option(OpCodes)]]
  /\ written \in [Ends \X Ids -> Nat]
  /\ given \in [Ends \X Ids -> OpCodes \cup {"incoming", "nobody"}]
  /\ dispatched \in [Ends \X Ids -> Seq(Args)]
  /\ cut \subseteq Ends \X Ids

(***************************************************************************)
(* Stream ids.  Known(e): the streams e has heard of.  The ids an end has  *)
(* given out are below its next one; the peer knows of those whose         *)
(* STREAM_START it has read, and each STREAM_START is on its way once.     *)
(***************************************************************************)
Known(e) == streams[e] \cup handles[e] \cup {id \in Ids : <<e, id>> \in cut}

Taken(e, id) == id < StreamId(e) /\ id # starting[e]

StartMsg(e, p) ==
  /\ StartedBy(Peer(e), p.id) /\ Taken(Peer(e), p.id) /\ p.id \notin Known(e)
  /\ p.arg = SentOpCode(e[1], p.id)

IsStart(e, i) == inbox[e][i].op = opcodes.STREAM_START

StartingInv ==
  \A e \in Ends : starting[e] # None =>
    StartedBy(e, starting[e]) /\ starting[e] < StreamId(e)

KnownInv ==
  \A e \in Ends : \A id \in Known(e) :
    /\ StartedBy(e, id) => id < StreamId(e)
    /\ StartedBy(Peer(e), id) => Taken(Peer(e), id)

StartsInv ==
  \A e \in Ends : \A i \in DOMAIN inbox[e] : IsStart(e, i) => StartMsg(e, inbox[e][i])

OnceInv ==
  \A e \in Ends : \A i, j \in DOMAIN inbox[e] :
    IsStart(e, i) /\ IsStart(e, j) /\ inbox[e][i].id = inbox[e][j].id => i = j

IdsInv == StartingInv /\ KnownInv /\ StartsInv /\ OnceInv

-----------------------------------------------------------------------------
(***************************************************************************)
(* Ends, their ids and what is on its way to them.                         *)
(***************************************************************************)
LEMMA EndFacts ==
  \A e \in Ends :
    /\ Peer(e) \in Ends /\ Peer(Peer(e)) = e /\ Peer(e) # e
    /\ Peer(e)[1] = e[1] /\ e[1] \in Hdls /\ Wrapper(e) \in Wrappers
    /\ \A d \in Ends : d[1] = e[1] => d \in {e, Peer(e)}
BY DEF Ends, Sides, Peer, Wrapper, Wrappers

LEMMA IdFacts == Ids \subseteq Nat /\ None \notin Ids
BY StreamsAssumption DEF Ids

\* Who HandlerOf names: a registered handler, the general one, or nobody.
LEMMA HandlerFacts ==
  \A e \in Ends :
    /\ Registered(e) \subseteq OpCodes /\ None \notin Registered(e)
    /\ General(e) \in {"incoming", "nobody"} /\ "nobody" \notin Registered(e)
    /\ \A arg : HandlerOf(e, arg) \in OpCodes \cup {"incoming", "nobody"}
<1>1. \A e \in Ends : Table(e) \in Tables
  BY DEF Table, Tables
<1>2. \A e \in Ends : Registered(e) \subseteq OpCodes /\ None \notin Registered(e)
  BY <1>1, StreamsAssumption DEF Registered
<1>3. "nobody" \notin OpCodes
  BY StreamsAssumption
<1> QED
  BY <1>2, <1>3 DEF General, HandlerOf

LEMMA Parity ==
  \A e \in Ends, id \in Nat : StartedBy(e, id) <=> ~StartedBy(Peer(e), id)
<1>1. \A id \in Nat : id % 2 \in {0, 1}
  OBVIOUS
<1>2. \A e \in Ends : e[2] \in Sides /\ (Peer(e)[2] = "client" <=> e[2] # "client")
  BY DEF Ends, Sides, Peer
<1> QED
  BY <1>1, <1>2 DEF StartedBy

LEMMA StreamIds ==
  ASSUME TypesInv, NEW e \in Ends
  PROVE  /\ StreamId(e) \in Nat /\ StartedBy(e, StreamId(e))
         /\ next_outgoing_stream_id[Wrapper(e)] < MaxStreams => StreamId(e) \in Ids
<1> DEFINE n == next_outgoing_stream_id[Wrapper(e)]
<1>1. n \in Nat
  BY EndFacts, StreamsAssumption DEF TypesInv
<1> HIDE DEF n
<1>2. \A k \in Nat : (k * 2) % 2 = 0 /\ (k * 2 + 1) % 2 = 1
  OBVIOUS
<1>3. StreamId(e) = n * 2 + (IF e[2] = "client" THEN 0 ELSE 1)
  BY DEF StreamId, n
<1>4. n < MaxStreams => StreamId(e) \in Ids
  BY <1>1, <1>3, StreamsAssumption DEF Ids
<1>5. StartedBy(e, StreamId(e))
  BY <1>1, <1>2, <1>3 DEF StartedBy
<1> QED
  BY <1>1, <1>3, <1>4, <1>5 DEF n

LEMMA StreamIdsGrow ==
  ASSUME TypesInv, NEW d \in Ends, NEW op, start_stream(d, op)
  PROVE  /\ \A e \in Ends : StreamId(e)' \in Nat /\ StreamId(e) <= StreamId(e)'
         /\ StreamId(d) < StreamId(d)'
<1> DEFINE n(w) == next_outgoing_stream_id[w]
           m(w) == next_outgoing_stream_id'[w]
<1>1. \A w \in Wrappers : n(w) \in Nat /\ m(w) \in Nat /\ n(w) <= m(w)
  BY EndFacts, StreamsAssumption DEF TypesInv, start_stream
<1>2. m(Wrapper(d)) = n(Wrapper(d)) + 1
  BY EndFacts DEF TypesInv, start_stream
<1>3. \A e \in Ends : Wrapper(e) \in Wrappers
  BY EndFacts
<1>4. \A e \in Ends :
        /\ StreamId(e) = n(Wrapper(e)) * 2 + (IF e[2] = "client" THEN 0 ELSE 1)
        /\ StreamId(e)' = m(Wrapper(e)) * 2 + (IF e[2] = "client" THEN 0 ELSE 1)
  BY DEF StreamId
<1> HIDE DEF n, m
<1> QED
  BY <1>1, <1>2, <1>3, <1>4

LEMMA MessageFacts ==
  \A p \in Messages : p.id \in Ids /\ p.id \in Nat /\ p.arg \in Args
BY IdFacts DEF Messages

LEMMA HeadMessage ==
  ASSUME NEW s \in Seq(Messages), s # <<>>
  PROVE  Head(s) \in Messages /\ Tail(s) \in Seq(Messages)
OBVIOUS

\* The payload p is on its way to d, behind what was there.
Appended(d, p) == inbox' = [inbox EXCEPT ![d] = Append(@, p)]

LEMMA Sends ==
  ASSUME NEW e \in Ends, NEW p, Send(e, p)
  PROVE  \/ UNCHANGED inbox
         \/ Appended(Peer(e), p) /\ Ready(e) /\ link[e[1]] = "up"
BY DEF Send, Appended

\* Reading takes the first payload.
Reads(e) == inbox[e] # <<>> /\ inbox' = [inbox EXCEPT ![e] = Tail(@)]

LEMMA AppendedTo ==
  ASSUME TypesInv, NEW d \in Ends, NEW p \in Messages, Appended(d, p)
  PROVE  /\ inbox' \in [Ends -> Seq(Messages)]
         /\ \A e \in Ends \ {d} : inbox'[e] = inbox[e]
         /\ Len(inbox[d]) \in Nat
         /\ DOMAIN inbox[d] = 1..Len(inbox[d])
         /\ DOMAIN inbox'[d] = 1..(Len(inbox[d]) + 1)
         /\ \A i \in 1..Len(inbox[d]) : inbox'[d][i] = inbox[d][i]
         /\ inbox'[d][Len(inbox[d]) + 1] = p
<1>1. inbox[d] \in Seq(Messages) /\ inbox'[d] = Append(inbox[d], p)
  BY DEF TypesInv, Appended
<1>2. inbox' \in [Ends -> Seq(Messages)] /\ \A e \in Ends \ {d} : inbox'[e] = inbox[e]
  BY DEF TypesInv, Appended
<1> QED
  BY <1>1, <1>2

LEMMA ReadFrom ==
  ASSUME TypesInv, NEW e \in Ends, Reads(e)
  PROVE  /\ inbox' \in [Ends -> Seq(Messages)]
         /\ \A d \in Ends \ {e} : inbox'[d] = inbox[d]
         /\ Head(inbox[e]) = inbox[e][1] /\ Head(inbox[e]) \in Messages
         /\ 1 \in DOMAIN inbox[e]
         /\ DOMAIN inbox[e] \subseteq Nat /\ DOMAIN inbox'[e] \subseteq Nat
         /\ \A i \in DOMAIN inbox'[e] : /\ i + 1 \in DOMAIN inbox[e] /\ i >= 1
                                       /\ inbox'[e][i] = inbox[e][i + 1]
         /\ \A i \in DOMAIN inbox[e] : i # 1 => i - 1 \in DOMAIN inbox'[e] /\ i > 1
<1>1. inbox[e] \in Seq(Messages) /\ inbox[e] # <<>> /\ inbox'[e] = Tail(inbox[e])
  BY DEF TypesInv, Reads
<1>2. inbox' \in [Ends -> Seq(Messages)] /\ \A d \in Ends \ {e} : inbox'[d] = inbox[d]
  BY <1>1, HeadMessage DEF TypesInv, Reads
<1> QED
  BY <1>1, <1>2

LEMMA StartingFacts ==
  ASSUME TypesInv, NEW e \in Ends, starting[e] # None
  PROVE  /\ starting[e] \in Ids /\ SentOpCode(e[1], starting[e]) \in Args
         /\ [op |-> opcodes.STREAM_START, id |-> starting[e],
             arg |-> SentOpCode(e[1], starting[e])] \in Messages
<1>1. starting[e] \in Ids
  BY DEF TypesInv, Option
<1>2. SentOpCode(e[1], starting[e]) \in Args
  BY <1>1, EndFacts DEF TypesInv, SentOpCode, Args, Option
<1> QED
  BY <1>1, <1>2 DEF Messages

LEMMA CallFacts ==
  ASSUME TypesInv, NEW e \in Ends, NEW id \in Ids
  PROVE  /\ [op |-> OpCode.STREAM_DATA, id |-> id, arg |-> written[<<Peer(e), id>>] + 1]
               \in Messages
         /\ [op |-> OpCode.STREAM_END, id |-> id, arg |-> written[<<Peer(e), id>>]]
               \in Messages
         /\ [op |-> OpCode.STREAM_CANCEL, id |-> id, arg |-> None] \in Messages
         /\ written[<<Peer(e), id>>] \in Nat
<1>1. <<Peer(e), id>> \in Ends \X Ids
  BY EndFacts
<1>2. written[<<Peer(e), id>>] \in Nat
  BY <1>1 DEF TypesInv
<1> QED
  BY <1>2 DEF Messages, Args, Option

\* What write, end and cancel send.
Called(e, id, p) ==
  /\ id \in handles[e] /\ p.id = id
  /\ \/ /\ p.op = OpCode.STREAM_DATA /\ p.arg = written[<<Peer(e), id>>] + 1
        /\ written' = [written EXCEPT ![<<Peer(e), id>>] = @ + 1]
     \/ /\ p.op = OpCode.STREAM_END /\ p.arg = written[<<Peer(e), id>>]
        /\ UNCHANGED written
     \/ p.op = OpCode.STREAM_CANCEL /\ UNCHANGED written
  /\ \/ UNCHANGED inbox /\ ~(Ready(e) /\ link[e[1]] = "up")
     \/ Appended(Peer(e), p) /\ Ready(e) /\ link[e[1]] = "up"
  /\ UNCHANGED <<connVars, tableVars, op_of, given, dispatched, cut, dropped, stray>>

LEMMA Calls ==
  ASSUME TypesInv, NEW e \in Ends, NEW id \in Ids,
         write(e, id) \/ end(e, id) \/ cancel(e, id)
  PROVE  \E p \in Messages : Called(e, id, p)
<1> DEFINE data == [op |-> OpCode.STREAM_DATA, id |-> id,
                    arg |-> written[<<Peer(e), id>>] + 1]
           last == [op |-> OpCode.STREAM_END, id |-> id, arg |-> written[<<Peer(e), id>>]]
           stop == [op |-> OpCode.STREAM_CANCEL, id |-> id, arg |-> None]
<1>1. data \in Messages /\ last \in Messages /\ stop \in Messages
  BY CallFacts
<1>2. ASSUME NEW p, Send(e, p)
      PROVE  \/ UNCHANGED inbox /\ ~(Ready(e) /\ link[e[1]] = "up")
             \/ Appended(Peer(e), p) /\ Ready(e) /\ link[e[1]] = "up"
  BY <1>2 DEF Send, Appended
<1>3. CASE write(e, id)
  <2>1. Called(e, id, data)
    BY <1>2, <1>3 DEF write, Call, Called
  <2> QED
    BY <1>1, <2>1
<1>4. CASE end(e, id)
  <2>1. Called(e, id, last)
    BY <1>2, <1>4 DEF end, Call, Called
  <2> QED
    BY <1>1, <2>1
<1>5. CASE cancel(e, id)
  <2>1. Called(e, id, stop)
    BY <1>2, <1>5 DEF cancel, Call, Called
  <2> QED
    BY <1>1, <2>1
<1> QED
  BY <1>3, <1>4, <1>5

-----------------------------------------------------------------------------
(***************************************************************************)
(* Types.                                                                  *)
(***************************************************************************)
LEMMA TypesStep ==
  ASSUME TypesInv, [Next]_vars
  PROVE  TypesInv'
<1> USE DEF connVars, tableVars, historyVars
<1>1. CASE UNCHANGED vars
  BY <1>1 DEF vars, TypesInv
<1>2. ASSUME NEW e \in Ends, NEW op \in OpCodes, start_stream(e, op)
      PROVE  TypesInv'
  <2>1. StreamId(e) \in Ids /\ e[1] \in Hdls /\ Wrapper(e) \in Wrappers
    BY <1>2, StreamIds, EndFacts DEF start_stream
  <2>2. next_outgoing_stream_id' \in [Wrappers -> 0..MaxStreams]
    BY <1>2, <2>1, StreamsAssumption DEF start_stream, TypesInv
  <2>3. op_of' \in [Hdls -> [Ids -> Option(OpCodes)]]
    BY <1>2, <2>1 DEF start_stream, TypesInv, Option
  <2>4. streams' \in [Ends -> SUBSET Ids] /\ starting' \in [Ends -> Option(Ids)]
    BY <1>2, <2>1 DEF start_stream, Register, TypesInv, Option
  <2> QED
    BY <1>2, <2>2, <2>3, <2>4 DEF start_stream, TypesInv
<1>3. ASSUME NEW e \in Ends, send_start(e)
      PROVE  TypesInv'
  <2>1. starting[e] # None
    BY <1>3 DEF send_start
  <2>2. inbox' \in [Ends -> Seq(Messages)]
    BY <1>3, <2>1, Sends, StartingFacts, AppendedTo, EndFacts DEF send_start, TypesInv
  <2>3. starting[e] \in Ids
    BY <2>1, StartingFacts
  <2> QED
    BY <1>3, <2>2, <2>3 DEF send_start, TypesInv, Option
<1>4. ASSUME NEW e \in Ends, NEW id \in Ids, set_data_handler(e, id)
      PROVE  TypesInv'
  BY <1>4 DEF set_data_handler, TypesInv
<1>5. ASSUME NEW e \in Ends, NEW id \in Ids,
             write(e, id) \/ end(e, id) \/ cancel(e, id)
      PROVE  TypesInv'
  <2>1. PICK p \in Messages : Called(e, id, p)
    BY <1>5, Calls
  <2>2. inbox' \in [Ends -> Seq(Messages)]
    <3>1. Peer(e) \in Ends
      BY EndFacts
    <3>2. UNCHANGED inbox \/ Appended(Peer(e), p)
      BY <2>1 DEF Called
    <3> QED
      BY <3>1, <3>2, AppendedTo DEF TypesInv
  <2>3. written' \in [Ends \X Ids -> Nat]
    <3> DEFINE q == <<Peer(e), id>>
    <3>1. written[q] \in Nat /\ q \in Ends \X Ids
      BY CallFacts, EndFacts
    <3>2. UNCHANGED written \/ written' = [written EXCEPT ![q] = @ + 1]
      BY <2>1 DEF Called
    <3>3. written \in [Ends \X Ids -> Nat]
      BY DEF TypesInv
    <3> HIDE DEF q
    <3> QED
      BY <3>1, <3>2, <3>3
  <2> QED
    BY <2>1, <2>2, <2>3 DEF Called, TypesInv
<1>7. ASSUME NEW e \in Ends, Reads(e)
      PROVE  inbox' \in [Ends -> Seq(Messages)] /\ Head(inbox[e]).id \in Ids
             /\ Head(inbox[e]).arg \in Args
  BY <1>7, ReadFrom, MessageFacts
<1>8. ASSUME NEW e \in Ends, on_stream_start(e)
      PROVE  TypesInv'
  <2>1. Reads(e) /\ Head(inbox[e]).id \in Ids
    BY <1>7, <1>8 DEF on_stream_start, Receive, Reads
  <2>2. given' \in [Ends \X Ids -> OpCodes \cup {"incoming", "nobody"}]
    <3>1. PICK g : g = HandlerOf(e, Head(inbox[e]).arg)
      OBVIOUS
    <3>2. g \in OpCodes \cup {"incoming", "nobody"}
      BY <3>1, HandlerFacts
    <3>3. given' = [given EXCEPT ![<<e, Head(inbox[e]).id>>] = g]
      BY <1>8, <3>1 DEF on_stream_start
    <3> QED
      BY <3>2, <3>3 DEF TypesInv
  <2>3. inbox' \in [Ends -> Seq(Messages)]
    BY <1>7, <2>1
  <2>4. /\ streams' \in [Ends -> SUBSET Ids] /\ handles' \in [Ends -> SUBSET Ids]
        /\ listening' \in [Ends -> SUBSET Ids]
    BY <1>8, <2>1 DEF on_stream_start, HandlersSet, TypesInv
  <2> QED
    BY <1>8, <2>1, <2>2, <2>3, <2>4 DEF on_stream_start, TypesInv
<1>9. ASSUME NEW e \in Ends, on_stream_data(e)
      PROVE  TypesInv'
  <2>1. Reads(e)
    BY <1>9 DEF on_stream_data, Receive, Reads
  <2>2. dispatched' \in [Ends \X Ids -> Seq(Args)]
    BY <1>7, <1>9, <2>1 DEF on_stream_data, TypesInv
  <2> QED
    BY <1>7, <1>9, <2>1, <2>2 DEF on_stream_data, TypesInv
<1>10. ASSUME NEW e \in Ends, on_stream_end(e) \/ on_stream_cancel(e)
       PROVE  TypesInv'
  <2>1. Reads(e)
    BY <1>10 DEF on_stream_end, on_stream_cancel, Receive, Reads
  <2>2. CASE on_stream_end(e)
    BY <1>7, <2>1, <2>2 DEF on_stream_end, TypesInv
  <2>3. CASE on_stream_cancel(e)
    <3>1. Head(inbox[e]).id \in Ids /\ inbox' \in [Ends -> Seq(Messages)]
      BY <1>7, <2>1
    <3>2. cut' \subseteq Ends \X Ids
      BY <2>3, <3>1 DEF on_stream_cancel, TypesInv
    <3>3. streams' \in [Ends -> SUBSET Ids]
      BY <2>3 DEF on_stream_cancel, Unregister, TypesInv
    <3> QED
      BY <2>3, <3>1, <3>2, <3>3 DEF on_stream_cancel, TypesInv
  <2> QED
    BY <1>10, <2>2, <2>3
<1>11. ASSUME NEW h \in Hdls, on_message_rejected(h)
       PROVE  TypesInv'
  <2>1. <<h, "server">> \in Ends /\ Reads(<<h, "server">>)
    BY <1>11 DEF on_message_rejected, Reads, Ends, Sides
  <2> QED
    BY <1>7, <1>11, <2>1 DEF on_message_rejected, TypesInv
<1>12. ASSUME NEW h \in Hdls,
              link_lost(h) \/ on_close_client(h) \/ on_close(h) \/ erase_streams(h)
       PROVE  TypesInv'
  BY <1>12 DEF link_lost, on_close_client, on_close, erase_streams, Remaining, TypesInv
<1> QED
  BY <1>1, <1>2, <1>3, <1>4, <1>5, <1>8, <1>9, <1>10, <1>11, <1>12
     DEF Next, Application, on_message

LEMMA TypesInit == Init => TypesInv
BY StreamsAssumption DEF Init, TypesInv, Option

-----------------------------------------------------------------------------
(***************************************************************************)
(* Stream ids.                                                             *)
(***************************************************************************)
LEMMA KnownIds ==
  ASSUME TypesInv, NEW e \in Ends
  PROVE  Known(e) \subseteq Ids /\ Known(e) \subseteq Nat
BY IdFacts DEF TypesInv, Known

\* A step that starts no stream, sends no STREAM_START and reads none.
Ordinary ==
  /\ UNCHANGED <<next_outgoing_stream_id, starting, op_of>>
  /\ \A e \in Ends : Known(e)' \subseteq Known(e)
  /\ \/ UNCHANGED inbox
     \/ \E d \in Ends : Reads(d)
     \/ \E d \in Ends, p \in Messages : Appended(d, p) /\ p.op # opcodes.STREAM_START

LEMMA IdsKept ==
  ASSUME TypesInv, IdsInv, Ordinary
  PROVE  IdsInv'
<1>1. /\ \A e \in Ends : StreamId(e)' = StreamId(e)
      /\ \A e \in Ends, id \in Ids : Taken(e, id)' = Taken(e, id)
      /\ \A h \in Hdls, id \in Ids : SentOpCode(h, id)' = SentOpCode(h, id)
      /\ UNCHANGED starting
      /\ \A e \in Ends : Known(e)' \subseteq Known(e)
  BY DEF Ordinary, StreamId, Taken, SentOpCode
<1>2. \A e \in Ends, p \in Messages : StartMsg(e, p) => StartMsg(e, p)'
  BY <1>1, EndFacts, MessageFacts DEF StartMsg
<1>3. StartingInv'
  BY <1>1 DEF IdsInv, StartingInv
<1>4. KnownInv'
  BY <1>1, KnownIds, EndFacts DEF IdsInv, KnownInv
<1>5. \A e \in Ends : \A i \in DOMAIN inbox[e] : inbox[e][i] \in Messages
  BY DEF TypesInv
<1>6. CASE UNCHANGED inbox
  <2>1. StartsInv'
    BY <1>2, <1>5, <1>6 DEF IdsInv, StartsInv, IsStart
  <2>2. OnceInv'
    BY <1>6 DEF IdsInv, OnceInv, IsStart
  <2> QED
    BY <1>3, <1>4, <2>1, <2>2 DEF IdsInv
<1>7. ASSUME NEW d \in Ends, Reads(d)
      PROVE  IdsInv'
  <2>1. StartsInv'
    <3> SUFFICES ASSUME NEW e \in Ends, NEW i \in DOMAIN inbox'[e],
                        inbox'[e][i].op = opcodes.STREAM_START
                 PROVE  StartMsg(e, inbox[e][i])'
      BY DEF StartsInv, IsStart
    <3>1. \E j \in DOMAIN inbox[e] : inbox'[e][i] = inbox[e][j]
      BY <1>7, ReadFrom
    <3> QED
      BY <1>2, <1>5, <3>1 DEF IdsInv, StartsInv, IsStart, StartMsg
  <2>2. OnceInv'
    <3> SUFFICES ASSUME NEW e \in Ends, NEW i \in DOMAIN inbox'[e],
                        NEW j \in DOMAIN inbox'[e],
                        inbox'[e][i].op = opcodes.STREAM_START,
                        inbox'[e][j].op = opcodes.STREAM_START,
                        inbox'[e][i].id = inbox'[e][j].id
                 PROVE  i = j
      BY DEF OnceInv, IsStart
    <3>1. CASE e # d
      <4>1. inbox'[e] = inbox[e]
        BY <1>7, <3>1, ReadFrom
      <4> QED
        BY <4>1 DEF IdsInv, OnceInv, IsStart
    <3>2. CASE e = d
      <4>1. /\ i + 1 \in DOMAIN inbox[e] /\ inbox'[e][i] = inbox[e][i + 1] /\ i \in Nat
            /\ j + 1 \in DOMAIN inbox[e] /\ inbox'[e][j] = inbox[e][j + 1] /\ j \in Nat
        BY <1>7, <3>2, ReadFrom
      <4>2. i + 1 = j + 1
        BY <4>1 DEF IdsInv, OnceInv, IsStart
      <4> QED
        BY <4>1, <4>2
    <3> QED
      BY <3>1, <3>2
  <2> QED
    BY <1>3, <1>4, <2>1, <2>2 DEF IdsInv
<1>8. ASSUME NEW d \in Ends, NEW p \in Messages, Appended(d, p),
             p.op # opcodes.STREAM_START
      PROVE  IdsInv'
  <2>1. \A e \in Ends : \A i \in DOMAIN inbox'[e] :
          inbox'[e][i].op = opcodes.STREAM_START =>
            i \in DOMAIN inbox[e] /\ inbox'[e][i] = inbox[e][i]
    <3>1. PICK n \in Nat : n = Len(inbox[d])
      BY <1>8, AppendedTo
    <3>2. /\ DOMAIN inbox[d] = 1..n /\ DOMAIN inbox'[d] = 1..(n + 1)
          /\ \A i \in 1..n : inbox'[d][i] = inbox[d][i]
          /\ inbox'[d][n + 1] = p
          /\ \A e \in Ends \ {d} : inbox'[e] = inbox[e]
      BY <1>8, <3>1, AppendedTo
    <3>3. \A i \in 1..(n + 1) : i \in 1..n \/ i = n + 1
      OBVIOUS
    <3> QED
      BY <1>8, <3>2, <3>3
  <2>2. StartsInv'
    <3> SUFFICES ASSUME NEW e \in Ends, NEW i \in DOMAIN inbox'[e],
                        inbox'[e][i].op = opcodes.STREAM_START
                 PROVE  StartMsg(e, inbox[e][i])'
      BY DEF StartsInv, IsStart
    <3> QED
      BY <1>2, <1>5, <2>1 DEF IdsInv, StartsInv, IsStart, StartMsg
  <2>3. OnceInv'
    BY <2>1 DEF IdsInv, OnceInv, IsStart
  <2> QED
    BY <1>3, <1>4, <2>2, <2>3 DEF IdsInv
<1> QED
  BY <1>6, <1>7, <1>8 DEF Ordinary

LEMMA IdsStarted ==
  ASSUME TypesInv, IdsInv, NEW d \in Ends, NEW op \in OpCodes, start_stream(d, op)
  PROVE  IdsInv'
<1> DEFINE k == StreamId(d)
<1>1. k \in Nat /\ k \in Ids /\ StartedBy(d, k) /\ ~StartedBy(Peer(d), k) /\ d[1] \in Hdls
  BY StreamIds, Parity, EndFacts DEF start_stream
<1>2. /\ starting' = [starting EXCEPT ![d] = k]
      /\ streams' = [streams EXCEPT ![d] = @ \cup {k}]
      /\ op_of' = [op_of EXCEPT ![d[1]][k] = op]
      /\ UNCHANGED <<handles, cut, inbox>>
      /\ \A e \in Ends : /\ StreamId(e) \in Nat /\ StreamId(e)' \in Nat
                         /\ StreamId(e) <= StreamId(e)'
      /\ k < StreamId(d)'
  BY StreamIds, StreamIdsGrow DEF start_stream, Register
<1> HIDE DEF k
<1>3. /\ starting'[d] = k /\ \A e \in Ends \ {d} : starting'[e] = starting[e]
      /\ Known(d)' = Known(d) \cup {k} /\ \A e \in Ends \ {d} : Known(e)' = Known(e)
  BY <1>2 DEF TypesInv, Known
<1>4. \A e \in Ends, id \in Nat : Taken(e, id) => Taken(e, id)'
  <2> SUFFICES ASSUME NEW e \in Ends, NEW id \in Nat, Taken(e, id)
               PROVE  Taken(e, id)'
    OBVIOUS
  <2>1. id < StreamId(e)'
    BY <1>2 DEF Taken
  <2>2. id # starting'[e]
    <3>1. CASE e = d
      BY <1>1, <1>3, <3>1 DEF Taken, k
    <3>2. CASE e # d
      BY <1>3, <3>2 DEF Taken
    <3> QED
      BY <3>1, <3>2
  <2> QED
    BY <2>1, <2>2 DEF Taken
<1>5. \A e \in Ends, p \in Messages : StartMsg(e, p) => StartMsg(e, p)'
  <2> SUFFICES ASSUME NEW e \in Ends, NEW p \in Messages, StartMsg(e, p)
               PROVE  StartMsg(e, p)'
    OBVIOUS
  <2>1. p.id \in Nat /\ p.id \in Ids /\ e[1] \in Hdls
    BY MessageFacts, EndFacts
  <2>2. Taken(Peer(e), p.id)'
    BY <1>4, <2>1, EndFacts DEF StartMsg
  <2>3. e = d => p.id # k
    BY <1>1 DEF StartMsg
  <2>4. e = Peer(d) => p.id # k
    BY <1>1, <2>1, EndFacts DEF StartMsg, Taken, k
  <2>5. p.id \notin Known(e)'
    BY <1>3, <2>3 DEF StartMsg
  <2>6. e[1] = d[1] => p.id # k
    BY <2>3, <2>4, EndFacts
  <2>7. op_of'[e[1]][p.id] = op_of[e[1]][p.id]
    BY <1>1, <1>2, <2>1, <2>6 DEF TypesInv
  <2> QED
    BY <2>2, <2>5, <2>7 DEF StartMsg, SentOpCode
<1>6. \A e \in Ends : \A i \in DOMAIN inbox[e] : inbox[e][i] \in Messages
  BY DEF TypesInv
<1>7. StartingInv'
  <2> SUFFICES ASSUME NEW e \in Ends, starting'[e] # None
               PROVE  StartedBy(e, starting'[e]) /\ starting'[e] < StreamId(e)'
    BY DEF StartingInv
  <2>1. CASE e = d
    BY <1>1, <1>2, <1>3, <2>1
  <2>2. CASE e # d
    <3>1. starting[e] \in Ids /\ starting'[e] = starting[e]
      BY <1>3, <2>2 DEF TypesInv, Option
    <3> QED
      BY <1>2, <3>1, IdFacts DEF IdsInv, StartingInv
  <2> QED
    BY <2>1, <2>2
<1>8. KnownInv'
  <2> SUFFICES ASSUME NEW e \in Ends, NEW id \in Known(e)'
               PROVE  /\ StartedBy(e, id) => id < StreamId(e)'
                      /\ StartedBy(Peer(e), id) => Taken(Peer(e), id)'
    BY DEF KnownInv
  <2>1. CASE id \in Known(e)
    BY <1>2, <1>4, <2>1, KnownIds, EndFacts DEF IdsInv, KnownInv
  <2>2. CASE id \notin Known(e)
    BY <1>1, <1>2, <1>3, <2>2
  <2> QED
    BY <2>1, <2>2
<1>9. StartsInv'
  <2> SUFFICES ASSUME NEW e \in Ends, NEW i \in DOMAIN inbox[e],
                      inbox[e][i].op = opcodes.STREAM_START
               PROVE  StartMsg(e, inbox[e][i])'
    BY <1>2 DEF StartsInv, IsStart
  <2> QED
    BY <1>2, <1>5, <1>6 DEF IdsInv, StartsInv, IsStart, StartMsg
<1>10. OnceInv'
  BY <1>2 DEF IdsInv, OnceInv, IsStart
<1> QED
  BY <1>7, <1>8, <1>9, <1>10 DEF IdsInv

LEMMA IdsSent ==
  ASSUME TypesInv, IdsInv, NEW d \in Ends, send_start(d)
  PROVE  IdsInv'
<1>k. PICK k : k = starting[d]
  OBVIOUS
<1>q. PICK q : q = [op |-> opcodes.STREAM_START, id |-> k, arg |-> SentOpCode(d[1], k)]
  OBVIOUS
<1>1. /\ k \in Ids /\ k \in Nat /\ StartedBy(d, k) /\ k < StreamId(d)
      /\ ~StartedBy(Peer(d), k)
  BY <1>k, StartingFacts, IdFacts, Parity DEF send_start, IdsInv, StartingInv
<1>2. /\ q \in Messages /\ q.op = opcodes.STREAM_START /\ q.id = k
      /\ q.arg = SentOpCode(d[1], k)
  BY <1>k, <1>q, StartingFacts DEF send_start
<1>3. /\ starting' = [starting EXCEPT ![d] = None]
      /\ UNCHANGED <<next_outgoing_stream_id, streams, op_of, cut>>
      /\ UNCHANGED inbox \/ Appended(Peer(d), q)
      /\ \A e \in Ends : handles'[e] \subseteq handles[e] \cup (IF e = d THEN {k} ELSE {})
  BY <1>k, <1>q, Sends DEF send_start, TypesInv
<1>4. /\ starting'[d] = None /\ \A e \in Ends \ {d} : starting'[e] = starting[e]
      /\ \A e \in Ends : Known(e)' \subseteq Known(e) \cup (IF e = d THEN {k} ELSE {})
      /\ \A e \in Ends : StreamId(e)' = StreamId(e)
      /\ \A h \in Hdls, id \in Ids : SentOpCode(h, id)' = SentOpCode(h, id)
  BY <1>3 DEF TypesInv, Known, StreamId, SentOpCode
<1>5. \A e \in Ends, id \in Ids : Taken(e, id) => Taken(e, id)'
  BY <1>4, IdFacts DEF Taken
<1>6. \A e \in Ends, p \in Messages : StartMsg(e, p) => StartMsg(e, p)'
  BY <1>1, <1>4, <1>5, MessageFacts, EndFacts DEF StartMsg
<1>7. StartMsg(Peer(d), q)'
  <2>1. Taken(d, k)'
    BY <1>1, <1>4, IdFacts DEF Taken
  <2>2. k \notin Known(Peer(d))
    BY <1>k, <1>1, EndFacts DEF IdsInv, KnownInv, Taken
  <2>3. k \notin Known(Peer(d))'
    BY <1>4, <2>2, EndFacts
  <2> QED
    BY <1>1, <1>2, <1>4, <2>1, <2>3, EndFacts DEF StartMsg
<1>8. StartingInv' /\ KnownInv'
  <2>1. StartingInv'
    BY <1>4 DEF IdsInv, StartingInv
  <2>2. KnownInv'
    BY <1>1, <1>4, <1>5, KnownIds, EndFacts DEF IdsInv, KnownInv
  <2> QED
    BY <2>1, <2>2
<1>9. \A e \in Ends : \A i \in DOMAIN inbox[e] : inbox[e][i] \in Messages
  BY DEF TypesInv
<1>10. CASE UNCHANGED inbox
  <2>1. StartsInv'
    <3> SUFFICES ASSUME NEW e \in Ends, NEW i \in DOMAIN inbox[e],
                        inbox[e][i].op = opcodes.STREAM_START
                 PROVE  StartMsg(e, inbox[e][i])'
      BY <1>10 DEF StartsInv, IsStart
    <3> QED
      BY <1>6, <1>9, <1>10 DEF IdsInv, StartsInv, IsStart, StartMsg
  <2>2. OnceInv'
    BY <1>10 DEF IdsInv, OnceInv, IsStart
  <2> QED
    BY <1>8, <2>1, <2>2 DEF IdsInv
<1>11. CASE Appended(Peer(d), q)
  <2> DEFINE n == Len(inbox[Peer(d)])
  <2>1. /\ \A e \in Ends \ {Peer(d)} : inbox'[e] = inbox[e]
        /\ n \in Nat /\ DOMAIN inbox[Peer(d)] = 1..n /\ DOMAIN inbox'[Peer(d)] = 1..(n + 1)
        /\ \A i \in 1..n : inbox'[Peer(d)][i] = inbox[Peer(d)][i]
        /\ inbox'[Peer(d)][n + 1] = q
    BY <1>2, <1>11, AppendedTo, EndFacts
  <2> HIDE DEF n
  <2>2. \A e \in Ends : \A i \in DOMAIN inbox'[e] :
          \/ i \in DOMAIN inbox[e] /\ inbox'[e][i] = inbox[e][i]
          \/ e = Peer(d) /\ i = n + 1 /\ inbox'[e][i] = q
    BY <2>1
  <2>3. StartsInv'
    <3> SUFFICES ASSUME NEW e \in Ends, NEW i \in DOMAIN inbox'[e],
                        inbox'[e][i].op = opcodes.STREAM_START
                 PROVE  StartMsg(e, inbox[e][i])'
      BY DEF StartsInv, IsStart
    <3>1. CASE i \in DOMAIN inbox[e] /\ inbox'[e][i] = inbox[e][i]
      BY <1>6, <1>9, <3>1 DEF IdsInv, StartsInv, IsStart, StartMsg
    <3>2. CASE e = Peer(d) /\ inbox'[e][i] = q
      BY <1>7, <3>2 DEF StartMsg
    <3> QED
      BY <2>2, <3>1, <3>2
  <2>4. OnceInv'
    <3> SUFFICES ASSUME NEW e \in Ends, NEW i \in DOMAIN inbox'[e],
                        NEW j \in DOMAIN inbox'[e],
                        inbox'[e][i].op = opcodes.STREAM_START,
                        inbox'[e][j].op = opcodes.STREAM_START,
                        inbox'[e][i].id = inbox'[e][j].id, i # j
                 PROVE  FALSE
      BY DEF OnceInv, IsStart
    <3>1. \A l \in DOMAIN inbox[Peer(d)] :
            inbox[Peer(d)][l].op = opcodes.STREAM_START => inbox[Peer(d)][l].id # k
      BY <1>k, EndFacts DEF IdsInv, StartsInv, IsStart, StartMsg, Taken
    <3> QED
      BY <1>2, <2>2, <3>1 DEF IdsInv, OnceInv, IsStart
  <2> QED
    BY <1>8, <2>3, <2>4 DEF IdsInv
<1> QED
  BY <1>3, <1>10, <1>11

\* What on_message does with a STREAM_START.
LEMMA StartRead ==
  ASSUME TypesInv, NEW d \in Ends, on_stream_start(d)
  PROVE  LET p == Head(inbox[d])
             handled == HandlerOf(d, p.arg) # "nobody"
         IN /\ Reads(d) /\ IoIdle(d) /\ 1 \in DOMAIN inbox[d] /\ p = inbox[d][1]
            /\ p \in Messages /\ p.id \in Ids /\ IsStart(d, 1)
            /\ streams'[d] = streams[d] \cup {p.id}
            /\ handles'[d] = IF handled THEN handles[d] \cup {p.id} ELSE handles[d]
            /\ listening'[d] = IF handled THEN listening[d] \cup {p.id} ELSE listening[d]
            /\ \A e \in Ends \ {d} : /\ streams'[e] = streams[e] /\ handles'[e] = handles[e]
                                      /\ listening'[e] = listening[e]
            /\ given' = [given EXCEPT ![<<d, p.id>>] = HandlerOf(d, p.arg)]
            /\ UNCHANGED <<connVars, next_outgoing_stream_id, starting, op_of, written,
                           calls, dispatched, cut, dropped, stray>>
<1>1. Reads(d) /\ IoIdle(d) /\ Head(inbox[d]).op = opcodes.STREAM_START
  BY DEF on_stream_start, Receive, Reads
<1>2. 1 \in DOMAIN inbox[d] /\ Head(inbox[d]) = inbox[d][1] /\ Head(inbox[d]) \in Messages
  BY <1>1, ReadFrom
<1> QED
  BY <1>1, <1>2, MessageFacts DEF on_stream_start, HandlersSet, TypesInv, IsStart

LEMMA IdsRead ==
  ASSUME TypesInv, IdsInv, NEW d \in Ends, on_stream_start(d)
  PROVE  IdsInv'
<1>p. PICK p \in Messages : p = inbox[d][1]
  BY StartRead
<1>1. /\ Reads(d) /\ 1 \in DOMAIN inbox[d] /\ IsStart(d, 1) /\ p.id \in Ids /\ p.id \in Nat
      /\ UNCHANGED <<next_outgoing_stream_id, starting, op_of>>
      /\ \A e \in Ends : Known(e)' \subseteq Known(e) \cup (IF e = d THEN {p.id} ELSE {})
  <2>1. /\ Reads(d) /\ 1 \in DOMAIN inbox[d] /\ IsStart(d, 1)
        /\ UNCHANGED <<next_outgoing_stream_id, starting, op_of, cut>>
        /\ streams'[d] = streams[d] \cup {p.id}
        /\ handles'[d] \subseteq handles[d] \cup {p.id}
        /\ \A e \in Ends \ {d} : streams'[e] = streams[e] /\ handles'[e] = handles[e]
    BY <1>p, StartRead DEF historyVars
  <2> QED
    BY <2>1, MessageFacts DEF Known
<1>2. StartMsg(d, p)
  BY <1>p, <1>1 DEF IdsInv, StartsInv
<1>3. /\ \A e \in Ends : StreamId(e)' = StreamId(e)
      /\ \A e \in Ends, id \in Ids : Taken(e, id)' = Taken(e, id)
      /\ \A h \in Hdls, id \in Ids : SentOpCode(h, id)' = SentOpCode(h, id)
  BY <1>1 DEF StreamId, Taken, SentOpCode
<1>4. ASSUME NEW e \in Ends, NEW m \in Messages, StartMsg(e, m), e = d => m.id # p.id
      PROVE  StartMsg(e, m)'
  BY <1>1, <1>3, <1>4, EndFacts, MessageFacts DEF StartMsg
<1>5. StartingInv'
  BY <1>1, <1>3 DEF IdsInv, StartingInv
<1>6. KnownInv'
  <2> SUFFICES ASSUME NEW e \in Ends, NEW id \in Known(e)'
               PROVE  /\ StartedBy(e, id) => id < StreamId(e)'
                      /\ StartedBy(Peer(e), id) => Taken(Peer(e), id)'
    BY DEF KnownInv
  <2>1. CASE id \in Known(e)
    BY <1>3, <2>1, KnownIds, EndFacts DEF IdsInv, KnownInv
  <2>2. CASE e = d /\ id = p.id
    BY <1>1, <1>2, <1>3, <2>2, Parity, EndFacts DEF StartMsg
  <2> QED
    BY <1>1, <2>1, <2>2
<1>7. \A e \in Ends : \A i \in DOMAIN inbox[e] : inbox[e][i] \in Messages
  BY DEF TypesInv
<1>8. \A e \in Ends : \A i \in DOMAIN inbox'[e] :
        IF e = d THEN /\ i \in Nat /\ i + 1 \in DOMAIN inbox[e] /\ i + 1 # 1
                      /\ inbox'[e][i] = inbox[e][i + 1]
        ELSE i \in DOMAIN inbox[e] /\ inbox'[e][i] = inbox[e][i]
  BY <1>1, ReadFrom
<1>9. StartsInv'
  <2> SUFFICES ASSUME NEW e \in Ends, NEW i \in DOMAIN inbox'[e],
                      inbox'[e][i].op = opcodes.STREAM_START
               PROVE  StartMsg(e, inbox[e][i])'
    BY DEF StartsInv, IsStart
  <2>m. PICK m \in Messages : m = inbox'[e][i]
    BY <1>7, <1>8
  <2>1. StartMsg(e, m)
    BY <1>8, <2>m DEF IdsInv, StartsInv, IsStart
  <2>2. e = d => m.id # p.id
    BY <1>p, <1>1, <1>8, <2>m DEF IdsInv, OnceInv, IsStart
  <2>3. StartMsg(e, m)'
    BY <1>4, <2>1, <2>2
  <2> QED
    BY <2>m, <2>3 DEF StartMsg
<1>10. OnceInv'
  <2> SUFFICES ASSUME NEW e \in Ends, NEW i \in DOMAIN inbox'[e],
                      NEW j \in DOMAIN inbox'[e],
                      inbox'[e][i].op = opcodes.STREAM_START,
                      inbox'[e][j].op = opcodes.STREAM_START,
                      inbox'[e][i].id = inbox'[e][j].id
               PROVE  i = j
    BY DEF OnceInv, IsStart
  <2>1. CASE e # d
    BY <1>8, <2>1 DEF IdsInv, OnceInv, IsStart
  <2>2. CASE e = d
    <3>1. i + 1 = j + 1 /\ i \in Nat /\ j \in Nat
      BY <1>8, <2>2 DEF IdsInv, OnceInv, IsStart
    <3> QED
      BY <3>1
  <2> QED
    BY <2>1, <2>2
<1> QED
  BY <1>5, <1>6, <1>9, <1>10 DEF IdsInv

\* The other steps neither start a stream nor read of one.
Others ==
  \/ \E e \in Ends : \E id \in Ids : \/ set_data_handler(e, id)
                                     \/ write(e, id) \/ end(e, id) \/ cancel(e, id)
  \/ \E e \in Ends : on_stream_data(e) \/ on_stream_end(e) \/ on_stream_cancel(e)
  \/ \E h \in Hdls : \/ on_message_rejected(h)
                     \/ link_lost(h) \/ on_close_client(h)
                     \/ on_close(h) \/ erase_streams(h)

LEMMA OpCodesApart ==
  ASSUME Separate
  PROVE  /\ opcodes.STREAM_START \notin {OpCode.STREAM_DATA, OpCode.STREAM_END,
                                        OpCode.STREAM_CANCEL}
         /\ opcodes.STREAM_DATA \notin {OpCode.STREAM_END, OpCode.STREAM_CANCEL,
                                       opcodes.STREAM_START}
         /\ opcodes.STREAM_END \notin {OpCode.STREAM_DATA, OpCode.STREAM_CANCEL,
                                      opcodes.STREAM_START}
         /\ opcodes.STREAM_CANCEL \notin {opcodes.STREAM_START, opcodes.STREAM_DATA}
<1>1. {"STREAM_START", "STREAM_DATA", "STREAM_END", "STREAM_CANCEL"} \subseteq DOMAIN OpCode
  BY DEF OpCode
<1> QED
  BY <1>1 DEF Separate

LEMMA OrdinarySteps ==
  ASSUME TypesInv, Separate, Others
  PROVE  Ordinary
<1> USE DEF connVars, tableVars, historyVars
<1>1. ASSUME NEW e \in Ends, NEW id \in Ids, set_data_handler(e, id)
      PROVE  Ordinary
  BY <1>1 DEF set_data_handler, Ordinary, Known
<1>2. ASSUME NEW e \in Ends, NEW id \in Ids,
             write(e, id) \/ end(e, id) \/ cancel(e, id)
      PROVE  Ordinary
  <2>1. PICK p \in Messages : Called(e, id, p)
    BY <1>2, Calls
  <2>2. p.op # opcodes.STREAM_START
    BY <2>1, OpCodesApart DEF Called
  <2>3. UNCHANGED inbox \/ Appended(Peer(e), p)
    BY <2>1 DEF Called
  <2> QED
    BY <2>1, <2>2, <2>3, EndFacts DEF Called, Ordinary, Known
<1>3. ASSUME NEW e \in Ends, on_stream_data(e) \/ on_stream_end(e)
      PROVE  Ordinary
  <2>1. Reads(e)
    BY <1>3 DEF on_stream_data, on_stream_end, Receive, Reads
  <2> QED
    BY <1>3, <2>1 DEF on_stream_data, on_stream_end, Ordinary, Known
<1>4. ASSUME NEW e \in Ends, on_stream_cancel(e)
      PROVE  Ordinary
  <2>1. Reads(e)
    BY <1>4 DEF on_stream_cancel, Receive, Reads
  <2>2. \A d \in Ends : streams'[d] \subseteq streams[d]
    BY <1>4 DEF on_stream_cancel, Unregister, TypesInv
  <2>3. \A d \in Ends, id \in Ids : <<d, id>> \in cut' => <<d, id>> \in cut \/ id \in streams[d]
    BY <1>4 DEF on_stream_cancel
  <2>4. \A d \in Ends : Known(d)' \subseteq Known(d)
    BY <1>4, <2>2, <2>3 DEF on_stream_cancel, Known
  <2> QED
    BY <1>4, <2>1, <2>4 DEF on_stream_cancel, Ordinary
<1>5. ASSUME NEW h \in Hdls, on_message_rejected(h)
      PROVE  Ordinary
  <2>1. <<h, "server">> \in Ends /\ Reads(<<h, "server">>)
    BY <1>5 DEF on_message_rejected, Reads, Ends, Sides
  <2> QED
    BY <1>5, <2>1 DEF on_message_rejected, Ordinary, Known
<1>6. ASSUME NEW h \in Hdls, link_lost(h) \/ on_close_client(h) \/ on_close(h)
      PROVE  Ordinary
  BY <1>6 DEF link_lost, on_close_client, on_close, Ordinary, Known
<1>7. ASSUME NEW h \in Hdls, erase_streams(h)
      PROVE  Ordinary
  <2>1. \A d \in Ends : streams'[d] \subseteq streams[d]
    BY <1>7 DEF erase_streams, Remaining, TypesInv
  <2> QED
    BY <1>7, <2>1 DEF erase_streams, Ordinary, Known
<1> QED
  BY <1>1, <1>2, <1>3, <1>4, <1>5, <1>6, <1>7 DEF Others

LEMMA StreamSteps ==
  ASSUME Next
  PROVE  \/ \E e \in Ends, op \in OpCodes : start_stream(e, op)
         \/ \E e \in Ends : send_start(e) \/ on_stream_start(e)
         \/ Others
BY DEF Next, Application, on_message, Others

LEMMA IdsStep ==
  ASSUME TypesInv, Separate, IdsInv, [Next]_vars
  PROVE  IdsInv'
<1>1. CASE UNCHANGED vars
  <2>1. Ordinary
    BY <1>1 DEF vars, tableVars, historyVars, Ordinary, Known
  <2> QED
    BY <2>1, IdsKept
<1>2. CASE Next
  BY <1>2, StreamSteps, OrdinarySteps, IdsKept, IdsStarted, IdsSent, IdsRead
<1> QED
  BY <1>1, <1>2

LEMMA IdsInit == Init => IdsInv
BY DEF Init, IdsInv, StartingInv, KnownInv, StartsInv, OnceInv, Known

(***************************************************************************)
(* A STREAM_START never replaces a stream in the receiver's table, however *)
(* both ends start streams and whatever is lost: start_stream of a client  *)
(* gives out even ids, of the server odd ones.                             *)
(***************************************************************************)
THEOREM NeverReplacedHolds == Separate => (Spec => []NeverReplaced)
<1> SUFFICES ASSUME Separate PROVE Spec => []NeverReplaced
  OBVIOUS
<1>1. TypesInv /\ IdsInv /\ [Next]_vars => TypesInv' /\ IdsInv'
  BY TypesStep, IdsStep
<1>2. IdsInv => NeverReplaced
  BY DEF IdsInv, StartsInv, IsStart, StartMsg, Known, NeverReplaced
<1> QED
  BY <1>1, <1>2, TypesInit, IdsInit, PTL DEF Spec

-----------------------------------------------------------------------------
(***************************************************************************)
(* The tables.  A stream whose cancel handler was called is not found any  *)
(* more.                                                                   *)
(***************************************************************************)
CutInv == \A e \in Ends : \A id \in streams[e] : <<e, id>> \notin cut

\* RoutedByItsOpCode, one stream at a time.
RoutedTo(e, id) ==
  /\ HasHandler(e, id) => given[<<e, id>>] = op_of[e[1]][id]
  /\ ~HasHandler(e, id) => given[<<e, id>>] = General(e)
  /\ id \in handles[e] <=> given[<<e, id>>] # "nobody"

RoutedInv ==
  \A e \in Ends : \A id \in streams[e] : StartedBy(Peer(e), id) => RoutedTo(e, id)

TablesInv == CutInv /\ ClosedHoldsNoHandle /\ RoutedInv

LEMMA OthersTables ==
  ASSUME TypesInv, Others
  PROVE  /\ UNCHANGED <<handles, op_of, given>>
         /\ \A e \in Ends : streams'[e] \subseteq streams[e]
         /\ \A e \in Ends : \A id \in streams'[e] : <<e, id>> \in cut' => <<e, id>> \in cut
         /\ \A h \in Hdls : session'[h] = "closed" =>
              session[h] = "closed" \/ streams'[<<h, "server">>] = {}
<1> USE DEF connVars, tableVars, historyVars
<1> DEFINE Kept == /\ UNCHANGED <<handles, op_of, given>>
                   /\ \A e \in Ends : streams'[e] \subseteq streams[e]
                   /\ \A e \in Ends : \A id \in streams'[e] :
                        <<e, id>> \in cut' => <<e, id>> \in cut
                   /\ \A h \in Hdls : session'[h] = "closed" =>
                        session[h] = "closed" \/ streams'[<<h, "server">>] = {}
<1>1. ASSUME UNCHANGED <<handles, op_of, given, streams, cut, session>>
      PROVE  Kept
  BY <1>1
<1>2. ASSUME NEW e \in Ends, NEW id \in Ids,
             set_data_handler(e, id) \/ write(e, id) \/ end(e, id) \/ cancel(e, id)
      PROVE  Kept
  BY <1>1, <1>2 DEF set_data_handler, write, end, cancel, Call
<1>3. ASSUME NEW e \in Ends, on_stream_data(e) \/ on_stream_end(e)
      PROVE  Kept
  BY <1>1, <1>3 DEF on_stream_data, on_stream_end
<1>4. ASSUME NEW e \in Ends, on_stream_cancel(e)
      PROVE  Kept
  <2>1. UNCHANGED <<handles, op_of, given, session>>
    BY <1>4 DEF on_stream_cancel
  <2>2. \A d \in Ends : streams'[d] = IF d = e THEN streams[d] \ {Head(inbox[e]).id}
                                      ELSE streams[d]
    BY <1>4 DEF on_stream_cancel, Unregister, TypesInv
  <2>3. cut' \subseteq cut \cup {<<e, Head(inbox[e]).id>>}
    BY <1>4 DEF on_stream_cancel
  <2> QED
    BY <2>1, <2>2, <2>3
<1>5. ASSUME NEW h \in Hdls, on_message_rejected(h) \/ link_lost(h) \/ on_close_client(h)
      PROVE  Kept
  BY <1>1, <1>5 DEF on_message_rejected, link_lost, on_close_client
<1>6. ASSUME NEW h \in Hdls, on_close(h)
      PROVE  Kept
  BY <1>6 DEF on_close, TypesInv
<1>7. ASSUME NEW h \in Hdls, erase_streams(h)
      PROVE  Kept
  <2>1. <<h, "server">> \in Ends
    BY DEF Ends, Sides
  <2>2. /\ streams'[<<h, "server">>] = {}
        /\ \A d \in Ends : streams'[d] \subseteq streams[d]
        /\ \A g \in Hdls \ {h} : session'[g] = session[g]
        /\ UNCHANGED <<handles, op_of, given, cut>>
    BY <1>7, <2>1 DEF erase_streams, Remaining, TypesInv
  <2> QED
    BY <2>2
<1> HIDE DEF Kept
<1>8. Kept
  BY <1>2, <1>3, <1>4, <1>5, <1>6, <1>7 DEF Others
<1> QED
  BY <1>8 DEF Kept

LEMMA ServerEnd ==
  \A h \in Hdls : <<h, "server">> \in Ends /\ (Ready(<<h, "server">>) <=> session[h] = "stored")
BY DEF Ends, Sides, Ready

LEMMA RoutedKept ==
  ASSUME NEW e \in Ends, NEW id, RoutedTo(e, id),
         op_of'[e[1]][id] = op_of[e[1]][id], given'[<<e, id>>] = given[<<e, id>>],
         id \in handles'[e] <=> id \in handles[e]
  PROVE  RoutedTo(e, id)'
<1>1. HasHandler(e, id)' <=> HasHandler(e, id)
  BY DEF HasHandler, Registered
<1>2. General(e)' = General(e)
  BY DEF General
<1> QED
  BY <1>1, <1>2 DEF RoutedTo

LEMMA TablesStep ==
  ASSUME TypesInv, Separate, IdsInv, TablesInv, [Next]_vars
  PROVE  TablesInv'
<1> USE DEF connVars, tableVars, historyVars
<1>1. CASE UNCHANGED vars
  <2>1. UNCHANGED <<streams, handles, cut, session, op_of, given>>
    BY <1>1 DEF vars
  <2>2. RoutedInv'
    BY <2>1, RoutedKept DEF TablesInv, RoutedInv
  <2> QED
    BY <2>1, <2>2 DEF TablesInv, CutInv, ClosedHoldsNoHandle
<1>2. CASE Others
  <2>1. /\ UNCHANGED <<handles, op_of, given>>
        /\ \A e \in Ends : streams'[e] \subseteq streams[e]
    BY <1>2, OthersTables
  <2>2. RoutedInv'
    BY <2>1, RoutedKept DEF TablesInv, RoutedInv
  <2>3. CutInv' /\ ClosedHoldsNoHandle'
    BY <1>2, OthersTables, ServerEnd DEF TablesInv, CutInv, ClosedHoldsNoHandle
  <2> QED
    BY <2>2, <2>3 DEF TablesInv
<1>3. ASSUME NEW d \in Ends, NEW op \in OpCodes, start_stream(d, op)
      PROVE  TablesInv'
  <2>k. PICK k : k = StreamId(d)
    OBVIOUS
  <2>1. k \in Nat /\ k \in Ids /\ StartedBy(d, k) /\ ~StartedBy(Peer(d), k) /\ d[1] \in Hdls
    BY <1>3, <2>k, StreamIds, Parity, EndFacts DEF start_stream
  <2>2. /\ streams'[d] = streams[d] \cup {k}
        /\ \A e \in Ends \ {d} : streams'[e] = streams[e]
        /\ op_of' = [op_of EXCEPT ![d[1]][k] = op]
        /\ UNCHANGED <<handles, given, cut, session>>
    BY <1>3, <2>k DEF start_stream, Register, TypesInv
  <2>3. k \notin Known(d)
    BY <2>k, <2>1 DEF IdsInv, KnownInv
  <2>4. CutInv'
    BY <2>1, <2>2, <2>3 DEF TablesInv, CutInv, Known
  <2>5. ClosedHoldsNoHandle'
    BY <2>2, <2>3, ServerEnd DEF TablesInv, ClosedHoldsNoHandle, Known
  <2>6. RoutedInv'
    <3> SUFFICES ASSUME NEW e \in Ends, NEW id \in streams'[e], StartedBy(Peer(e), id)
                 PROVE  RoutedTo(e, id)'
      BY DEF RoutedInv
    <3>1. id \in streams[e] /\ id \in Known(e) /\ id \in Ids /\ e[1] \in Hdls
      <4>1. id \in streams[e]
        BY <2>1, <2>2
      <4>2. streams[e] \subseteq Ids
        BY DEF TypesInv
      <4> QED
        BY <4>1, <4>2, EndFacts DEF Known
    <3>2. e = d => id # k
      BY <2>1
    <3>3. e = Peer(d) => id # k
      BY <2>k, <2>1, <3>1, EndFacts DEF IdsInv, KnownInv, Taken
    <3>4. e[1] = d[1] => id # k
      BY <3>2, <3>3, EndFacts
    <3>5. op_of'[e[1]][id] = op_of[e[1]][id]
      BY <2>1, <2>2, <3>1, <3>4 DEF TypesInv
    <3> QED
      BY <2>2, <3>1, <3>5, RoutedKept DEF TablesInv, RoutedInv
  <2> QED
    BY <2>4, <2>5, <2>6 DEF TablesInv
<1>4. ASSUME NEW d \in Ends, send_start(d)
      PROVE  TablesInv'
  <2>k. PICK k : k = starting[d]
    OBVIOUS
  <2>1. StartedBy(d, k) /\ ~StartedBy(Peer(d), k)
    BY <1>4, <2>k, StartingFacts, IdFacts, Parity DEF send_start, IdsInv, StartingInv
  <2>2. /\ UNCHANGED <<streams, op_of, given, cut, session>>
        /\ \A e \in Ends \ {d} : handles'[e] = handles[e]
        /\ handles'[d] = IF Ready(d) THEN handles[d] \cup {k} ELSE handles[d]
    BY <1>4, <2>k DEF send_start, TypesInv
  <2>3. CutInv'
    BY <2>2 DEF TablesInv, CutInv
  <2>4. ClosedHoldsNoHandle'
    BY <2>2, ServerEnd DEF TablesInv, ClosedHoldsNoHandle
  <2>5. RoutedInv'
    <3>1. ASSUME NEW e \in Ends, NEW id \in streams[e], StartedBy(Peer(e), id)
          PROVE  id \in handles'[e] <=> id \in handles[e]
      BY <2>1, <2>2, <3>1
    <3> QED
      BY <2>2, <3>1, RoutedKept DEF TablesInv, RoutedInv
  <2> QED
    BY <2>3, <2>4, <2>5 DEF TablesInv
<1>5. ASSUME NEW d \in Ends, on_stream_start(d)
      PROVE  TablesInv'
  <2>p. PICK p \in Messages : p = Head(inbox[d])
    BY <1>5, StartRead
  <2>1. /\ IoIdle(d)
        /\ streams'[d] = streams[d] \cup {p.id}
        /\ handles'[d] = IF HandlerOf(d, p.arg) # "nobody"
                           THEN handles[d] \cup {p.id} ELSE handles[d]
        /\ given' = [given EXCEPT ![<<d, p.id>>] = HandlerOf(d, p.arg)]
        /\ \A e \in Ends \ {d} : streams'[e] = streams[e] /\ handles'[e] = handles[e]
        /\ UNCHANGED <<session, cut, op_of>>
    BY <1>5, <2>p, StartRead
  <2>2. StartMsg(d, p) /\ p.id \in Ids
    <3>1. 1 \in DOMAIN inbox[d] /\ p = inbox[d][1] /\ p.id \in Ids /\ IsStart(d, 1)
      BY <1>5, <2>p, StartRead
    <3> QED
      BY <3>1 DEF IdsInv, StartsInv
  <2>3. CutInv'
    BY <2>1, <2>2 DEF TablesInv, CutInv, StartMsg, Known
  <2>4. ClosedHoldsNoHandle'
    <3>1. \A h \in Hdls : session[h] = "closed" => <<h, "server">> # d
      BY <2>1 DEF IoIdle
    <3> QED
      BY <2>1, <3>1, ServerEnd DEF TablesInv, ClosedHoldsNoHandle
  <2>5. RoutedInv'
    <3>1. p.arg = SentOpCode(d[1], p.id) /\ p.id \notin handles[d]
      BY <2>2 DEF StartMsg, Known
    <3>2. given'[<<d, p.id>>] = HandlerOf(d, p.arg)
      BY <2>1, <2>2 DEF TypesInv
    <3>3. HasHandler(d, p.id)' <=> HasHandler(d, p.id)
      BY <2>1 DEF HasHandler, Registered
    <3>4. /\ HasHandler(d, p.id) => HandlerOf(d, p.arg) = op_of[d[1]][p.id]
          /\ ~HasHandler(d, p.id) => HandlerOf(d, p.arg) = General(d)
      BY <3>1, HandlerFacts DEF HasHandler, HandlerOf, SentOpCode
    <3>5. p.id \in handles'[d] <=> HandlerOf(d, p.arg) # "nobody"
      BY <2>1, <3>1
    <3>6. RoutedTo(d, p.id)'
      BY <2>1, <3>2, <3>3, <3>4, <3>5 DEF RoutedTo, General
    <3>7. ASSUME NEW e \in Ends, NEW id \in streams'[e], StartedBy(Peer(e), id),
                 <<e, id>> # <<d, p.id>>
          PROVE  RoutedTo(e, id)'
      <4>1. id \in streams[e] /\ (id \in handles'[e] <=> id \in handles[e])
        BY <2>1, <3>7
      <4>2. given'[<<e, id>>] = given[<<e, id>>]
        BY <2>1, <3>7, <4>1 DEF TypesInv
      <4> QED
        BY <2>1, <3>7, <4>1, <4>2, RoutedKept DEF TablesInv, RoutedInv
    <3> QED
      BY <3>6, <3>7 DEF RoutedInv
  <2> QED
    BY <2>3, <2>4, <2>5 DEF TablesInv
<1> QED
  BY <1>1, <1>2, <1>3, <1>4, <1>5, StreamSteps

LEMMA TablesInit == Init => TablesInv
BY ServerEnd DEF Init, TablesInv, CutInv, ClosedHoldsNoHandle, RoutedInv

\* The inductive invariant of the tables.
StreamsInv == TypesInv /\ IdsInv /\ TablesInv

LEMMA StreamsInvariant == Separate => (Spec => []StreamsInv)
<1> SUFFICES ASSUME Separate PROVE Spec => []StreamsInv
  OBVIOUS
<1>1. Init => StreamsInv
  BY TypesInit, IdsInit, TablesInit DEF StreamsInv
<1>2. StreamsInv /\ [Next]_vars => StreamsInv'
  BY TypesStep, IdsStep, TablesStep DEF StreamsInv
<1> QED
  BY <1>1, <1>2, PTL DEF Spec

(***************************************************************************)
(* Nothing the application holds stays in the server's table of a          *)
(* connection that is gone, whenever on_close comes between the steps of   *)
(* start_stream.                                                           *)
(***************************************************************************)
THEOREM ClosedHoldsNoHandleHolds == Separate => (Spec => []ClosedHoldsNoHandle)
<1>1. StreamsInv => ClosedHoldsNoHandle
  BY DEF StreamsInv, TablesInv
<1> QED
  BY <1>1, StreamsInvariant, PTL

(***************************************************************************)
(* An incoming stream is given to the handler registered for the op code   *)
(* the peer started it with, if the version carries op codes; else, and    *)
(* when none is registered, to the general handler if that is set, and to  *)
(* nobody otherwise (start_stream of one end, on_message of the other).    *)
(***************************************************************************)
THEOREM RoutedByItsOpCodeHolds == Separate => (Spec => []RoutedByItsOpCode)
<1>1. StreamsInv => RoutedByItsOpCode
  BY DEF StreamsInv, TablesInv, RoutedInv, RoutedTo, RoutedByItsOpCode
<1> QED
  BY <1>1, StreamsInvariant, PTL

-----------------------------------------------------------------------------
(***************************************************************************)
(* The chunks of a stream.  Those on their way are in the order they were  *)
(* written, after the last one the handler was given and not beyond what   *)
(* was written.                                                            *)
(***************************************************************************)
Last(q) == Pipes!LastReceived(q)

IsData(e, i) == inbox[e][i].op = opcodes.STREAM_DATA

DataMsg(e, p) ==
  /\ p.arg \in Nat
  /\ Last(<<e, p.id>>) < p.arg /\ p.arg <= written[<<e, p.id>>]

LastInv == \A q \in Ends \X Ids : Last(q) \in Nat /\ Last(q) <= written[q]

ChunksInv ==
  \A e \in Ends : \A i \in DOMAIN inbox[e] : IsData(e, i) => DataMsg(e, inbox[e][i])

RisingInv ==
  \A e \in Ends : \A i, j \in DOMAIN inbox[e] :
    i < j /\ IsData(e, i) /\ IsData(e, j) /\ inbox[e][i].id = inbox[e][j].id
      => inbox[e][i].arg < inbox[e][j].arg

DataInv == LastInv /\ ChunksInv /\ RisingInv

LEMMA LastFacts ==
  ASSUME TypesInv, NEW q \in Ends \X Ids
  PROVE  /\ UNCHANGED dispatched => Last(q)' = Last(q)
         /\ dispatched[q] \in Seq(Args)
         /\ \A n \in Args : dispatched' = [dispatched EXCEPT ![q] = Append(@, n)] =>
              /\ Last(q)' = n
              /\ \A r \in (Ends \X Ids) \ {q} : Last(r)' = Last(r)
<1>1. dispatched[q] \in Seq(Args)
  BY DEF TypesInv
<1>2. UNCHANGED dispatched => Last(q)' = Last(q)
  BY DEF Last, Pipes!LastReceived
<1>3. ASSUME NEW n \in Args, dispatched' = [dispatched EXCEPT ![q] = Append(@, n)]
      PROVE  Last(q)' = n /\ \A r \in (Ends \X Ids) \ {q} : Last(r)' = Last(r)
  <2>1. /\ dispatched'[q] = Append(dispatched[q], n)
        /\ \A r \in (Ends \X Ids) \ {q} : dispatched'[r] = dispatched[r]
    BY <1>3 DEF TypesInv
  <2>2. Append(dispatched[q], n) # <<>>
        /\ Append(dispatched[q], n)[Len(Append(dispatched[q], n))] = n
    BY <1>1
  <2> QED
    BY <2>1, <2>2 DEF Last, Pipes!LastReceived
<1> QED
  BY <1>1, <1>2, <1>3

\* A step that neither writes a chunk nor hands one to a handler.
NoChunk ==
  /\ UNCHANGED <<written, dispatched>>
  /\ \/ UNCHANGED inbox
     \/ \E d \in Ends : Reads(d)
     \/ \E d \in Ends, p \in Messages : Appended(d, p) /\ p.op # opcodes.STREAM_DATA

LEMMA DataKept ==
  ASSUME TypesInv, DataInv, NoChunk
  PROVE  DataInv'
<1>1. \A q \in Ends \X Ids : Last(q)' = Last(q) /\ written'[q] = written[q]
  BY LastFacts DEF NoChunk
<1>2. LastInv'
  BY <1>1 DEF DataInv, LastInv
<1>3. \A e \in Ends, p \in Messages : DataMsg(e, p) => DataMsg(e, p)'
  BY <1>1, MessageFacts DEF DataMsg
<1>4. \A e \in Ends : \A i \in DOMAIN inbox[e] : inbox[e][i] \in Messages
  BY DEF TypesInv
<1>5. CASE UNCHANGED inbox
  <2>1. ChunksInv'
    <3> SUFFICES ASSUME NEW e \in Ends, NEW i \in DOMAIN inbox[e], IsData(e, i)
                 PROVE  DataMsg(e, inbox[e][i])'
      BY <1>5 DEF ChunksInv, IsData
    <3> QED
      BY <1>3, <1>4, <1>5 DEF DataInv, ChunksInv, DataMsg
  <2>2. RisingInv'
    BY <1>5 DEF DataInv, RisingInv, IsData
  <2> QED
    BY <1>2, <2>1, <2>2 DEF DataInv
<1>6. ASSUME NEW d \in Ends, Reads(d)
      PROVE  DataInv'
  <2>1. \A e \in Ends : \A i \in DOMAIN inbox'[e] :
          IF e = d THEN /\ i \in Nat /\ i + 1 \in DOMAIN inbox[e]
                        /\ inbox'[e][i] = inbox[e][i + 1]
          ELSE i \in DOMAIN inbox[e] /\ inbox'[e][i] = inbox[e][i]
    BY <1>6, ReadFrom
  <2>2. ChunksInv'
    <3> SUFFICES ASSUME NEW e \in Ends, NEW i \in DOMAIN inbox'[e],
                        inbox'[e][i].op = opcodes.STREAM_DATA
                 PROVE  DataMsg(e, inbox[e][i])'
      BY DEF ChunksInv, IsData
    <3>m. PICK m \in Messages : m = inbox'[e][i]
      BY <1>4, <2>1
    <3>1. DataMsg(e, m)
      BY <2>1, <3>m DEF DataInv, ChunksInv, IsData
    <3>2. DataMsg(e, m)'
      BY <1>3, <3>1
    <3> QED
      BY <3>m, <3>2 DEF DataMsg
  <2>3. RisingInv'
    <3> SUFFICES ASSUME NEW e \in Ends, NEW i \in DOMAIN inbox'[e],
                        NEW j \in DOMAIN inbox'[e], i < j,
                        inbox'[e][i].op = opcodes.STREAM_DATA,
                        inbox'[e][j].op = opcodes.STREAM_DATA,
                        inbox'[e][i].id = inbox'[e][j].id
                 PROVE  inbox'[e][i].arg < inbox'[e][j].arg
      BY DEF RisingInv, IsData
    <3>1. CASE e # d
      BY <2>1, <3>1 DEF DataInv, RisingInv, IsData
    <3>2. CASE e = d
      <4>1. i + 1 < j + 1
        BY <2>1, <3>2
      <4> QED
        BY <2>1, <3>2, <4>1 DEF DataInv, RisingInv, IsData
    <3> QED
      BY <3>1, <3>2
  <2> QED
    BY <1>2, <2>2, <2>3 DEF DataInv
<1>7. ASSUME NEW d \in Ends, NEW p \in Messages, Appended(d, p),
             p.op # opcodes.STREAM_DATA
      PROVE  DataInv'
  <2>1. \A e \in Ends : \A i \in DOMAIN inbox'[e] :
          inbox'[e][i].op = opcodes.STREAM_DATA =>
            i \in DOMAIN inbox[e] /\ inbox'[e][i] = inbox[e][i]
    <3>1. PICK n \in Nat : n = Len(inbox[d])
      BY <1>7, AppendedTo
    <3>2. /\ DOMAIN inbox[d] = 1..n /\ DOMAIN inbox'[d] = 1..(n + 1)
          /\ \A i \in 1..n : inbox'[d][i] = inbox[d][i]
          /\ inbox'[d][n + 1] = p
          /\ \A e \in Ends \ {d} : inbox'[e] = inbox[e]
      BY <1>7, <3>1, AppendedTo
    <3>3. \A i \in 1..(n + 1) : i \in 1..n \/ i = n + 1
      OBVIOUS
    <3> QED
      BY <1>7, <3>2, <3>3
  <2>2. ChunksInv'
    <3> SUFFICES ASSUME NEW e \in Ends, NEW i \in DOMAIN inbox'[e],
                        inbox'[e][i].op = opcodes.STREAM_DATA
                 PROVE  DataMsg(e, inbox[e][i])'
      BY DEF ChunksInv, IsData
    <3>m. PICK m \in Messages : m = inbox'[e][i]
      BY <1>4, <2>1
    <3>1. DataMsg(e, m)'
      BY <1>3, <2>1, <3>m DEF DataInv, ChunksInv, IsData
    <3> QED
      BY <3>m, <3>1 DEF DataMsg
  <2>3. RisingInv'
    BY <2>1 DEF DataInv, RisingInv, IsData
  <2> QED
    BY <1>2, <2>2, <2>3 DEF DataInv
<1> QED
  BY <1>5, <1>6, <1>7 DEF NoChunk

\* A chunk is written.
LEMMA DataWritten ==
  ASSUME TypesInv, Separate, DataInv, NEW e \in Ends, NEW id \in Ids,
         NEW p \in Messages, Called(e, id, p)
  PROVE  DataInv'
<1>1. CASE p.op # OpCode.STREAM_DATA
  <2>1. UNCHANGED <<written, dispatched>>
    BY <1>1 DEF Called
  <2>2. p.op # opcodes.STREAM_DATA
    BY <1>1, OpCodesApart DEF Called
  <2>3. UNCHANGED inbox \/ Appended(Peer(e), p)
    BY DEF Called
  <2> QED
    BY <2>1, <2>2, <2>3, DataKept, EndFacts DEF NoChunk
<1>2. CASE p.op = OpCode.STREAM_DATA
  <2>d. PICK d \in Ends : d = Peer(e)
    BY EndFacts
  <2>q. PICK q \in Ends \X Ids : q = <<d, id>>
    BY <2>d
  <2>1. /\ p.arg = written[q] + 1 /\ p.id = id
        /\ written' = [written EXCEPT ![q] = @ + 1]
        /\ UNCHANGED dispatched
        /\ UNCHANGED inbox \/ Appended(d, p)
    BY <1>2, <2>d, <2>q DEF Called, OpCode
  <2>2. /\ \A r \in Ends \X Ids : Last(r)' = Last(r) /\ written[r] \in Nat
        /\ written'[q] = written[q] + 1
        /\ \A r \in (Ends \X Ids) \ {q} : written'[r] = written[r]
    BY <2>1, LastFacts DEF TypesInv
  <2>3. LastInv'
    BY <2>2 DEF DataInv, LastInv
  <2>4. \A c \in Ends, m \in Messages : DataMsg(c, m) => DataMsg(c, m)'
    <3> SUFFICES ASSUME NEW c \in Ends, NEW m \in Messages, DataMsg(c, m)
                 PROVE  DataMsg(c, m)'
      OBVIOUS
    <3>r. PICK r \in Ends \X Ids : r = <<c, m.id>>
      BY MessageFacts
    <3>1. written[r] <= written'[r]
      BY <2>2
    <3> QED
      BY <2>2, <3>r, <3>1 DEF DataMsg
  <2>5. DataMsg(d, p)'
    <3>1. Last(q) < p.arg /\ p.arg <= written'[q] /\ p.arg \in Nat
      BY <2>1, <2>2 DEF DataInv, LastInv
    <3> QED
      BY <2>q, <2>1, <2>2, <3>1 DEF DataMsg
  <2>6. \A c \in Ends : \A i \in DOMAIN inbox[c] : inbox[c][i] \in Messages
    BY DEF TypesInv
  <2>7. CASE UNCHANGED inbox
    <3>1. ChunksInv'
      <4> SUFFICES ASSUME NEW c \in Ends, NEW i \in DOMAIN inbox[c], IsData(c, i)
                   PROVE  DataMsg(c, inbox[c][i])'
        BY <2>7 DEF ChunksInv, IsData
      <4> QED
        BY <2>4, <2>6, <2>7 DEF DataInv, ChunksInv, DataMsg
    <3>2. RisingInv'
      BY <2>7 DEF DataInv, RisingInv, IsData
    <3> QED
      BY <2>3, <3>1, <3>2 DEF DataInv
  <2>8. CASE Appended(d, p)
    <3> DEFINE n == Len(inbox[d])
    <3>1. /\ n \in Nat /\ DOMAIN inbox[d] = 1..n /\ DOMAIN inbox'[d] = 1..(n + 1)
          /\ \A c \in Ends \ {d} : inbox'[c] = inbox[c]
          /\ \A i \in 1..n : inbox'[d][i] = inbox[d][i]
          /\ inbox'[d][n + 1] = p
      BY <2>8, AppendedTo
    <3> HIDE DEF n
    <3>2. \A c \in Ends : \A i \in DOMAIN inbox'[c] :
            \/ i \in DOMAIN inbox[c] /\ inbox'[c][i] = inbox[c][i]
            \/ c = d /\ i = n + 1 /\ inbox'[c][i] = p
      BY <3>1
    <3>3. ChunksInv'
      <4> SUFFICES ASSUME NEW c \in Ends, NEW i \in DOMAIN inbox'[c],
                          inbox'[c][i].op = opcodes.STREAM_DATA
                   PROVE  DataMsg(c, inbox[c][i])'
        BY DEF ChunksInv, IsData
      <4>m. PICK m \in Messages : m = inbox'[c][i]
        BY <2>6, <3>2
      <4>1. DataMsg(c, m)'
        BY <2>4, <2>5, <3>2, <4>m DEF DataInv, ChunksInv, IsData
      <4> QED
        BY <4>m, <4>1 DEF DataMsg
    <3>4. RisingInv'
      <4> SUFFICES ASSUME NEW c \in Ends, NEW i \in DOMAIN inbox'[c],
                          NEW j \in DOMAIN inbox'[c], i < j,
                          inbox'[c][i].op = opcodes.STREAM_DATA,
                          inbox'[c][j].op = opcodes.STREAM_DATA,
                          inbox'[c][i].id = inbox'[c][j].id
                   PROVE  inbox'[c][i].arg < inbox'[c][j].arg
        BY DEF RisingInv, IsData
      <4>1. CASE /\ i \in DOMAIN inbox[c] /\ inbox'[c][i] = inbox[c][i]
                 /\ j \in DOMAIN inbox[c] /\ inbox'[c][j] = inbox[c][j]
        BY <4>1 DEF DataInv, RisingInv, IsData
      <4>2. CASE c = d /\ j = n + 1 /\ inbox'[c][j] = p
        <5>1. i \in DOMAIN inbox[d] /\ inbox'[c][i] = inbox[d][i]
          BY <3>1, <4>2
        <5>2. DataMsg(d, inbox[d][i]) /\ inbox[d][i].id = id
          BY <2>1, <4>2, <5>1 DEF DataInv, ChunksInv, IsData
        <5>3. inbox[d][i].arg <= written[q] /\ inbox[d][i].arg \in Nat
          BY <2>q, <5>2 DEF DataMsg
        <5> QED
          BY <2>1, <2>2, <4>2, <5>1, <5>3
      <4>3. CASE c = d /\ i = n + 1
        BY <3>1, <4>3
      <4> QED
        BY <3>2, <4>1, <4>2, <4>3
    <3> QED
      BY <2>3, <3>3, <3>4 DEF DataInv
  <2> QED
    BY <2>1, <2>7, <2>8
<1> QED
  BY <1>1, <1>2

\* What on_message does with a chunk.
LEMMA ChunkRead ==
  ASSUME TypesInv, NEW d \in Ends, on_stream_data(d)
  PROVE  LET p == Head(inbox[d])
         IN /\ Reads(d) /\ IoIdle(d) /\ 1 \in DOMAIN inbox[d] /\ p = inbox[d][1]
            /\ p \in Messages /\ p.id \in Ids /\ p.arg \in Args /\ IsData(d, 1)
            /\ <<d, p.id>> \in Ends \X Ids
            /\ dispatched' = IF p.id \in streams[d] \cap listening[d]
                               THEN [dispatched EXCEPT ![<<d, p.id>>] = Append(@, p.arg)]
                               ELSE dispatched
            /\ UNCHANGED <<connVars, tableVars, op_of, written, cut, dropped>>
<1>1. Reads(d) /\ IoIdle(d) /\ Head(inbox[d]).op = opcodes.STREAM_DATA
  BY DEF on_stream_data, Receive, Reads
<1>2. 1 \in DOMAIN inbox[d] /\ Head(inbox[d]) = inbox[d][1] /\ Head(inbox[d]) \in Messages
  BY <1>1, ReadFrom
<1> QED
  BY <1>1, <1>2, MessageFacts DEF on_stream_data, Found, IsData

LEMMA DataRead ==
  ASSUME TypesInv, DataInv, NEW d \in Ends, on_stream_data(d)
  PROVE  DataInv'
<1>p. PICK p \in Messages : p = Head(inbox[d])
  BY ChunkRead
<1>1. CASE p.id \notin streams[d] \cap listening[d]
  BY <1>p, <1>1, ChunkRead, DataKept DEF NoChunk
<1>2. CASE p.id \in streams[d] \cap listening[d]
  <2>q. PICK q \in Ends \X Ids : q = <<d, p.id>>
    BY <1>p, ChunkRead
  <2>1. /\ Reads(d) /\ 1 \in DOMAIN inbox[d] /\ p = inbox[d][1] /\ IsData(d, 1)
        /\ dispatched' = [dispatched EXCEPT ![q] = Append(@, p.arg)]
        /\ UNCHANGED written /\ p.arg \in Args
    BY <1>p, <1>2, <2>q, ChunkRead
  <2>2. Last(q)' = p.arg /\ \A r \in (Ends \X Ids) \ {q} : Last(r)' = Last(r)
    BY <2>1, LastFacts
  <2>3. DataMsg(d, p)
    BY <2>1 DEF DataInv, ChunksInv
  <2>4. LastInv'
    BY <2>q, <2>1, <2>2, <2>3 DEF DataInv, LastInv, DataMsg
  <2>5. \A e \in Ends : \A i \in DOMAIN inbox'[e] :
          IF e = d THEN /\ i \in Nat /\ i >= 1 /\ i + 1 \in DOMAIN inbox[e]
                        /\ inbox'[e][i] = inbox[e][i + 1]
          ELSE i \in DOMAIN inbox[e] /\ inbox'[e][i] = inbox[e][i]
    BY <2>1, ReadFrom
  <2>6. \A e \in Ends : \A i \in DOMAIN inbox[e] : inbox[e][i] \in Messages
    BY DEF TypesInv
  <2>7. ChunksInv'
    <3> SUFFICES ASSUME NEW e \in Ends, NEW i \in DOMAIN inbox'[e],
                        inbox'[e][i].op = opcodes.STREAM_DATA
                 PROVE  DataMsg(e, inbox[e][i])'
      BY DEF ChunksInv, IsData
    <3>m. PICK m \in Messages : m = inbox'[e][i]
      BY <2>5, <2>6
    <3>r. PICK r \in Ends \X Ids : r = <<e, m.id>>
      BY MessageFacts
    <3>1. DataMsg(e, m)
      BY <2>5, <3>m DEF DataInv, ChunksInv, IsData
    <3>2. CASE r = q
      <4>1. e = d /\ m.id = p.id
        BY <2>q, <3>r, <3>2
      <4>2. /\ i + 1 \in DOMAIN inbox[d] /\ 1 < i + 1
            /\ inbox[d][i + 1] = m
        BY <2>5, <3>m, <4>1
      <4>3. p.arg < m.arg
        BY <2>1, <3>m, <4>1, <4>2 DEF DataInv, RisingInv, IsData
      <4>4. DataMsg(e, m)'
        BY <2>1, <2>2, <2>q, <3>1, <4>1, <4>3 DEF DataMsg
      <4> QED
        BY <3>m, <4>4 DEF DataMsg
    <3>3. CASE r # q
      <4>1. DataMsg(e, m)'
        BY <2>1, <2>2, <3>r, <3>1, <3>3 DEF DataMsg
      <4> QED
        BY <3>m, <4>1 DEF DataMsg
    <3> QED
      BY <3>2, <3>3
  <2>8. RisingInv'
    <3> SUFFICES ASSUME NEW e \in Ends, NEW i \in DOMAIN inbox'[e],
                        NEW j \in DOMAIN inbox'[e], i < j,
                        inbox'[e][i].op = opcodes.STREAM_DATA,
                        inbox'[e][j].op = opcodes.STREAM_DATA,
                        inbox'[e][i].id = inbox'[e][j].id
                 PROVE  inbox'[e][i].arg < inbox'[e][j].arg
      BY DEF RisingInv, IsData
    <3>1. CASE e # d
      BY <2>5, <3>1 DEF DataInv, RisingInv, IsData
    <3>2. CASE e = d
      <4>1. i + 1 < j + 1
        BY <2>5, <3>2
      <4> QED
        BY <2>5, <3>2, <4>1 DEF DataInv, RisingInv, IsData
    <3> QED
      BY <3>1, <3>2
  <2> QED
    BY <2>4, <2>7, <2>8 DEF DataInv
<1> QED
  BY <1>1, <1>2

\* The steps that do not touch what StreamPipes sees.
LEMMA ChunkSteps ==
  ASSUME TypesInv, Separate, [Next]_vars
  PROVE  \/ \E e \in Ends, id \in Ids, p \in Messages : Called(e, id, p)
         \/ \E e \in Ends : on_stream_data(e)
         \/ NoChunk /\ UNCHANGED cut
         \/ NoChunk /\ \E e \in Ends : on_stream_cancel(e)
<1> USE DEF connVars, tableVars, historyVars
<1>1. CASE UNCHANGED vars
  BY <1>1 DEF vars, NoChunk
<1>2. ASSUME NEW e \in Ends, NEW op \in OpCodes, start_stream(e, op)
      PROVE  NoChunk /\ UNCHANGED cut
  BY <1>2 DEF start_stream, NoChunk
<1>3. ASSUME NEW e \in Ends, send_start(e)
      PROVE  NoChunk /\ UNCHANGED cut
  <2>q. PICK q : q = [op |-> opcodes.STREAM_START, id |-> starting[e],
                      arg |-> SentOpCode(e[1], starting[e])]
    OBVIOUS
  <2>1. q \in Messages /\ q.op # opcodes.STREAM_DATA
    BY <1>3, <2>q, StartingFacts, OpCodesApart DEF send_start
  <2>2. UNCHANGED inbox \/ Appended(Peer(e), q)
    BY <1>3, <2>q, Sends DEF send_start
  <2> QED
    BY <1>3, <2>1, <2>2, EndFacts DEF send_start, NoChunk
<1>4. ASSUME NEW e \in Ends, on_stream_start(e)
      PROVE  NoChunk /\ UNCHANGED cut
  BY <1>4, StartRead DEF NoChunk
<1>5. ASSUME NEW e \in Ends, NEW id \in Ids, set_data_handler(e, id)
      PROVE  NoChunk /\ UNCHANGED cut
  BY <1>5 DEF set_data_handler, NoChunk
<1>6. ASSUME NEW e \in Ends, on_stream_end(e)
      PROVE  NoChunk /\ UNCHANGED cut
  <2>1. Reads(e)
    BY <1>6 DEF on_stream_end, Receive, Reads
  <2> QED
    BY <1>6, <2>1 DEF on_stream_end, NoChunk
<1>7. ASSUME NEW e \in Ends, on_stream_cancel(e)
      PROVE  NoChunk
  <2>1. Reads(e)
    BY <1>7 DEF on_stream_cancel, Receive, Reads
  <2> QED
    BY <1>7, <2>1 DEF on_stream_cancel, NoChunk
<1>8. ASSUME NEW h \in Hdls, on_message_rejected(h)
      PROVE  NoChunk /\ UNCHANGED cut
  <2>1. <<h, "server">> \in Ends /\ Reads(<<h, "server">>)
    BY <1>8 DEF on_message_rejected, Reads, Ends, Sides
  <2> QED
    BY <1>8, <2>1 DEF on_message_rejected, NoChunk
<1>9. ASSUME NEW h \in Hdls,
             link_lost(h) \/ on_close_client(h) \/ on_close(h) \/ erase_streams(h)
      PROVE  NoChunk /\ UNCHANGED cut
  BY <1>9 DEF link_lost, on_close_client, on_close, erase_streams, NoChunk
<1> QED
  BY <1>1, <1>2, <1>3, <1>4, <1>5, <1>6, <1>7, <1>8, <1>9, StreamSteps, Calls DEF Others

LEMMA DataStep ==
  ASSUME TypesInv, Separate, DataInv, [Next]_vars
  PROVE  DataInv'
BY ChunkSteps, DataWritten, DataRead, DataKept

LEMMA DataInit == Init => DataInv
<1> SUFFICES ASSUME Init PROVE DataInv
  OBVIOUS
<1>1. LastInv
  BY DEF Init, LastInv, Last, Pipes!LastReceived
<1>2. ChunksInv /\ RisingInv
  BY DEF Init, ChunksInv, RisingInv
<1> QED
  BY <1>1, <1>2 DEF DataInv

LEMMA PipesStep ==
  ASSUME StreamsInv, Separate, DataInv, [Next]_vars
  PROVE  [Pipes!Next]_(Pipes!vars)
<1>0. TypesInv /\ CutInv
  BY DEF StreamsInv, TablesInv
<1>1. ASSUME NEW e \in Ends, NEW id \in Ids, NEW p \in Messages, Called(e, id, p)
      PROVE  [Pipes!Next]_(Pipes!vars)
  <2>1. <<Peer(e), id>> \in Ends \X Ids
    BY EndFacts
  <2>2. UNCHANGED <<dispatched, cut>>
    BY <1>1 DEF Called
  <2>3. UNCHANGED written \/ Pipes!Write(<<Peer(e), id>>)
    BY <1>1, <2>2 DEF Called, Pipes!Write
  <2> QED
    BY <2>1, <2>2, <2>3 DEF Pipes!Next, Pipes!vars
<1>2. ASSUME NEW d \in Ends, on_stream_data(d)
      PROVE  [Pipes!Next]_(Pipes!vars)
  <2>p. PICK p \in Messages : p = Head(inbox[d])
    BY <1>0, <1>2, ChunkRead
  <2>q. PICK q \in Ends \X Ids : q = <<d, p.id>>
    BY <1>0, <1>2, <2>p, ChunkRead
  <2>1. /\ 1 \in DOMAIN inbox[d] /\ p = inbox[d][1] /\ IsData(d, 1)
        /\ UNCHANGED <<written, cut>>
        /\ \/ UNCHANGED dispatched
           \/ /\ p.id \in streams[d]
              /\ dispatched' = [dispatched EXCEPT ![q] = Append(@, p.arg)]
    BY <1>0, <1>2, <2>p, <2>q, ChunkRead
  <2>2. CASE UNCHANGED dispatched
    BY <2>1, <2>2 DEF Pipes!vars
  <2>3. CASE /\ p.id \in streams[d]
             /\ dispatched' = [dispatched EXCEPT ![q] = Append(@, p.arg)]
    <3>1. q \notin cut
      BY <1>0, <2>q, <2>3 DEF CutInv
    <3>2. /\ p.arg \in Nat /\ Last(q) < p.arg /\ p.arg <= written[q]
          /\ Last(q) \in Nat /\ written[q] \in Nat
      BY <1>0, <2>q, <2>1 DEF DataInv, ChunksInv, LastInv, DataMsg, TypesInv
    <3>3. p.arg \in (Last(q) + 1)..written[q]
      BY <3>2
    <3>4. Pipes!Receive(q)
      BY <2>1, <2>3, <3>1, <3>3 DEF Pipes!Receive, Last
    <3> QED
      BY <3>4 DEF Pipes!Next
  <2> QED
    BY <2>1, <2>2, <2>3
<1>3. CASE NoChunk /\ UNCHANGED cut
  BY <1>3 DEF NoChunk, Pipes!vars
<1>4. ASSUME NoChunk, NEW e \in Ends, on_stream_cancel(e)
      PROVE  [Pipes!Next]_(Pipes!vars)
  <2>1. Reads(e)
    BY <1>4 DEF on_stream_cancel, Receive, Reads
  <2>2. Head(inbox[e]).id \in Ids
    BY <1>0, <2>1, ReadFrom, MessageFacts
  <2>3. UNCHANGED cut \/ cut' = cut \cup {<<e, Head(inbox[e]).id>>}
    BY <1>4 DEF on_stream_cancel
  <2>4. <<e, Head(inbox[e]).id>> \in Ends \X Ids
    BY <2>2
  <2> QED
    BY <1>4, <2>3, <2>4 DEF NoChunk, Pipes!Next, Pipes!Cut, Pipes!vars
<1> QED
  BY <1>0, <1>1, <1>2, <1>3, <1>4, ChunkSteps

(***************************************************************************)
(* Streams implement StreamPipes: whatever both ends start, write, end and *)
(* cancel, and whatever is dropped or cut off, a stream's handler is given *)
(* chunks that were written to this stream, in order, none twice and none  *)
(* after its cancel handler was called.                                    *)
(***************************************************************************)
THEOREM StreamsImplementPipes == Separate => (Spec => PipesSpec)
<1> SUFFICES ASSUME Separate PROVE Spec => PipesSpec
  OBVIOUS
<1>1. Init => StreamsInv /\ DataInv
  BY TypesInit, IdsInit, TablesInit, DataInit DEF StreamsInv
<1>2. StreamsInv /\ DataInv /\ [Next]_vars => StreamsInv' /\ DataInv'
  BY TypesStep, IdsStep, TablesStep, DataStep DEF StreamsInv
<1>3. Init => Pipes!Init
  BY DEF Init, Pipes!Init
<1>4. StreamsInv /\ DataInv /\ [Next]_vars => [Pipes!Next]_(Pipes!vars)
  BY PipesStep
<1> QED
  BY <1>1, <1>2, <1>3, <1>4, PTL DEF Spec, PipesSpec, Pipes!Spec

-----------------------------------------------------------------------------
(***************************************************************************)
(* Where a chunk finds its stream.  Settled(e, id): e has the stream, or   *)
(* will never need it again.  Whoever may write to a stream follows the    *)
(* STREAM_START it sent, or answers one that was registered before.        *)
(***************************************************************************)
Settled(e, id) == \/ id \in streams[e] \/ <<e, id>> \in cut \cup dropped
                  \/ ~Ready(e)

StartAt(e, i, id) == i \in DOMAIN inbox[e] /\ IsStart(e, i) /\ inbox[e][i].id = id
DataAt(e, i, id) == i \in DOMAIN inbox[e] /\ IsData(e, i) /\ inbox[e][i].id = id

Follows(e, id) ==
  /\ starting[e] = id => Settled(e, id)
  /\ \A i \in Nat : StartAt(e, i, id) => Settled(Peer(e), id)
  /\ link[e[1]] = "up" /\ id \in handles[Peer(e)] =>
       Settled(e, id) \/ \E j \in Nat : StartAt(e, j, id)
  /\ \A i \in Nat : DataAt(e, i, id) =>
       Settled(e, id) \/ \E j \in Nat : j < i /\ StartAt(e, j, id)

FindInv == \A e \in Ends, id \in Ids : Follows(e, id)

LEMMA SettledStays ==
  ASSUME TypesInv, [Next]_vars, NEW e \in Ends, NEW id \in Ids, Settled(e, id)
  PROVE  Settled(e, id)'
<1> USE DEF connVars, tableVars, historyVars
<1>0. e = <<e[1], e[2]>> /\ e[1] \in Hdls /\ e[2] \in Sides
  BY DEF Ends
<1>1. ASSUME UNCHANGED connVars,
             id \in streams[e] => id \in streams'[e] \/ <<e, id>> \in cut',
             cut \subseteq cut', dropped \subseteq dropped'
      PROVE  Settled(e, id)'
  BY <1>1 DEF Settled, Ready
<1>2. ASSUME UNCHANGED <<streams, cut, dropped>>, Ready(e)' => Ready(e)
      PROVE  Settled(e, id)'
  BY <1>2 DEF Settled
<1>3. ASSUME NEW d \in Ends, NEW op \in OpCodes, start_stream(d, op)
      PROVE  Settled(e, id)'
  BY <1>1, <1>3 DEF start_stream, Register, TypesInv
<1>4. ASSUME NEW d \in Ends, on_stream_start(d)
      PROVE  Settled(e, id)'
  BY <1>1, <1>4, StartRead
<1>5. ASSUME NEW d \in Ends, on_stream_cancel(d)
      PROVE  Settled(e, id)'
  <2>1. /\ UNCHANGED <<connVars, dropped>>
        /\ \A c \in Ends : streams'[c] = IF c = d THEN streams[c] \ {Head(inbox[d]).id}
                                         ELSE streams[c]
        /\ cut' = IF Head(inbox[d]).id \in streams[d]
                    THEN cut \cup {<<d, Head(inbox[d]).id>>} ELSE cut
    BY <1>5 DEF on_stream_cancel, Unregister, TypesInv
  <2> QED
    BY <1>1, <2>1
<1>6. ASSUME NEW d \in Ends,
             \/ send_start(d) \/ on_stream_data(d) \/ on_stream_end(d)
             \/ \E i \in Ids : \/ set_data_handler(d, i) \/ write(d, i)
                               \/ end(d, i) \/ cancel(d, i)
      PROVE  Settled(e, id)'
  <2>1. UNCHANGED <<connVars, streams, cut, dropped>>
    BY <1>6 DEF send_start, on_stream_data, on_stream_end, set_data_handler, write, end,
                cancel, Call
  <2> QED
    BY <1>1, <2>1
<1>7. ASSUME NEW h \in Hdls, on_message_rejected(h)
      PROVE  Settled(e, id)'
  BY <1>1, <1>7 DEF on_message_rejected
<1>8. ASSUME NEW h \in Hdls, link_lost(h) \/ on_close_client(h) \/ on_close(h)
      PROVE  Settled(e, id)'
  <2>1. Ready(e)' => Ready(e)
    BY <1>0, <1>8 DEF link_lost, on_close_client, on_close, Ready, IoIdle, TypesInv
  <2> QED
    BY <1>2, <1>8, <2>1 DEF link_lost, on_close_client, on_close
<1>9. ASSUME NEW h \in Hdls, erase_streams(h)
      PROVE  Settled(e, id)'
  <2>1. UNCHANGED <<connected, cut, dropped>> /\ session' = [session EXCEPT ![h] = "closed"]
        /\ session[h] = "erased" /\ streams' = [streams EXCEPT ![<<h, "server">>] = {}]
    BY <1>9 DEF erase_streams, Remaining
  <2>2. CASE e = <<h, "server">>
    <3>1. ~Ready(e)'
      BY <2>1, <2>2 DEF Ready, TypesInv
    <3> QED
      BY <3>1 DEF Settled
  <2>3. CASE e # <<h, "server">>
    <3>1. streams'[e] = streams[e]
      BY <2>1, <2>3 DEF TypesInv
    <3>2. e[1] = h => e[2] = "client"
      BY <1>0, <2>3 DEF Sides
    <3>3. Ready(e)' = Ready(e)
      BY <1>0, <2>1, <3>2 DEF Ready, TypesInv
    <3> QED
      BY <2>1, <3>1, <3>3 DEF Settled
  <2> QED
    BY <2>2, <2>3
<1>10. CASE UNCHANGED vars
  BY <1>1, <1>10 DEF vars
<1> QED
  BY <1>3, <1>4, <1>5, <1>6, <1>7, <1>8, <1>9, <1>10, StreamSteps DEF Others

LEMMA KeptAt ==
  ASSUME NEW e, inbox'[e] = inbox[e]
  PROVE  \A i, id : /\ StartAt(e, i, id)' <=> StartAt(e, i, id)
                    /\ DataAt(e, i, id)' <=> DataAt(e, i, id)
BY DEF StartAt, DataAt, IsStart, IsData

LEMMA ReadAt ==
  ASSUME TypesInv, NEW d \in Ends, Reads(d)
  PROVE  \A i \in Nat, id \in Ids :
           /\ StartAt(d, i, id)' => StartAt(d, i + 1, id)
           /\ DataAt(d, i, id)' => DataAt(d, i + 1, id)
           /\ StartAt(d, i, id) => i = 1 \/ (i - 1 \in Nat /\ StartAt(d, i - 1, id)')
<1> SUFFICES ASSUME NEW i \in Nat, NEW id \in Ids
             PROVE  /\ StartAt(d, i, id)' => StartAt(d, i + 1, id)
                    /\ DataAt(d, i, id)' => DataAt(d, i + 1, id)
                    /\ StartAt(d, i, id) => i = 1 \/ (i - 1 \in Nat /\ StartAt(d, i - 1, id)')
  OBVIOUS
<1>1. i \in DOMAIN inbox'[d] => i + 1 \in DOMAIN inbox[d] /\ inbox'[d][i] = inbox[d][i + 1]
  BY ReadFrom
<1>2. ASSUME i \in DOMAIN inbox[d], i # 1
      PROVE  i - 1 \in Nat /\ i - 1 \in DOMAIN inbox'[d] /\ inbox'[d][i - 1] = inbox[d][i]
  <2>1. i - 1 \in DOMAIN inbox'[d] /\ i > 1
    BY <1>2, ReadFrom
  <2>2. inbox'[d][i - 1] = inbox[d][(i - 1) + 1] /\ (i - 1) + 1 = i
    BY <2>1, ReadFrom
  <2> QED
    BY <2>1, <2>2
<1> QED
  BY <1>1, <1>2 DEF StartAt, DataAt, IsStart, IsData

LEMMA AppendAt ==
  ASSUME TypesInv, NEW d \in Ends, NEW p \in Messages, Appended(d, p)
  PROVE  \E n \in Nat :
           /\ \A i \in Nat, id \in Ids :
                /\ StartAt(d, i, id) => StartAt(d, i, id)' /\ i < n
                /\ StartAt(d, i, id)' =>
                     StartAt(d, i, id) \/ (p.op = opcodes.STREAM_START /\ p.id = id)
                /\ DataAt(d, i, id)' =>
                     DataAt(d, i, id) \/ (i = n /\ p.op = opcodes.STREAM_DATA /\ p.id = id)
           /\ p.op = opcodes.STREAM_START => StartAt(d, n, p.id)'
<1>n. PICK n : n = Len(inbox[d])
  OBVIOUS
<1>1. /\ n \in Nat /\ DOMAIN inbox[d] = 1..n /\ DOMAIN inbox'[d] = 1..(n + 1)
      /\ \A i \in 1..n : inbox'[d][i] = inbox[d][i]
      /\ inbox'[d][n + 1] = p
  BY <1>n, AppendedTo
<1>2. \A i \in DOMAIN inbox'[d] : i \in DOMAIN inbox[d] \/ i = n + 1
  BY <1>1
<1>3. n + 1 \in Nat /\ n + 1 \in DOMAIN inbox'[d] /\ \A i \in DOMAIN inbox[d] : i < n + 1
  BY <1>1
<1>4. \A i \in DOMAIN inbox[d] : i \in DOMAIN inbox'[d] /\ inbox'[d][i] = inbox[d][i]
  BY <1>1
<1>5. \A i \in Nat, id \in Ids :
        /\ StartAt(d, i, id) => StartAt(d, i, id)' /\ i < n + 1
        /\ StartAt(d, i, id)' =>
             StartAt(d, i, id) \/ (p.op = opcodes.STREAM_START /\ p.id = id)
        /\ DataAt(d, i, id)' =>
             DataAt(d, i, id) \/ (i = n + 1 /\ p.op = opcodes.STREAM_DATA /\ p.id = id)
  BY <1>1, <1>2, <1>3, <1>4 DEF StartAt, DataAt, IsStart, IsData
<1>6. p.op = opcodes.STREAM_START => StartAt(d, n + 1, p.id)'
  BY <1>1, <1>3 DEF StartAt, IsStart
<1> QED
  BY <1>3, <1>5, <1>6

\* Nothing is sent or read and no handle is given out.
LEMMA FindKept ==
  ASSUME TypesInv, FindInv, [Next]_vars, NEW e \in Ends, NEW id \in Ids,
         inbox'[e] = inbox[e],
         starting'[e] = id => starting[e] = id \/ id \in streams'[e],
         id \in handles'[Peer(e)] => id \in handles[Peer(e)] \/ Settled(e, id),
         link'[e[1]] = "up" => link[e[1]] = "up"
  PROVE  Follows(e, id)'
<1>1. /\ Settled(e, id) => Settled(e, id)'
      /\ Settled(Peer(e), id) => Settled(Peer(e), id)'
      /\ id \in streams'[e] => Settled(e, id)'
  BY SettledStays, EndFacts DEF Settled
<1>2. Follows(e, id)
  BY DEF FindInv
<1> QED
  BY <1>1, <1>2, KeptAt DEF Follows

\* The end d reads; the stream of a STREAM_START it reads is settled.
LEMMA FindRead ==
  ASSUME TypesInv, FindInv, [Next]_vars, NEW d \in Ends, Reads(d),
         \A i \in Ids : StartAt(d, 1, i) => Settled(d, i)',
         UNCHANGED starting,
         \A e \in Ends : handles'[e] = handles[e]
                        \/ \E i \in Ids : /\ e = d /\ StartAt(d, 1, i)
                                          /\ handles'[e] = handles[e] \cup {i},
         UNCHANGED link
  PROVE  FindInv'
<1> SUFFICES ASSUME NEW e \in Ends, NEW id \in Ids
             PROVE  Follows(e, id)'
  BY DEF FindInv
<1>1. /\ Settled(e, id) => Settled(e, id)'
      /\ Settled(Peer(e), id) => Settled(Peer(e), id)'
      /\ Peer(e) \in Ends /\ Peer(Peer(e)) = e
  BY SettledStays, EndFacts
<1>2. Follows(e, id) /\ Follows(Peer(e), id)
  BY <1>1 DEF FindInv
<1>3. id \in handles'[Peer(e)] => id \in handles[Peer(e)] \/ Settled(e, id)
  <2> SUFFICES ASSUME id \in handles'[Peer(e)], id \notin handles[Peer(e)]
               PROVE  Settled(e, id)
    OBVIOUS
  <2>1. Peer(e) = d /\ StartAt(d, 1, id)
    BY <1>1
  <2> QED
    BY <1>1, <1>2, <2>1 DEF Follows
<1>4. CASE e # d
  <2>1. inbox'[e] = inbox[e]
    BY <1>4, ReadFrom
  <2> QED
    BY <1>3, <2>1, FindKept
<1>5. CASE e = d
  <2>1. starting'[e] = id => Settled(e, id)'
    BY <1>1, <1>2 DEF Follows
  <2>2. ASSUME NEW i \in Nat, StartAt(e, i, id)'
        PROVE  Settled(Peer(e), id)'
    <3>1. StartAt(e, i + 1, id) /\ i + 1 \in Nat
      BY <1>5, <2>2, ReadAt
    <3> QED
      BY <1>1, <1>2, <3>1 DEF Follows
  <2>3. ASSUME NEW j \in Nat, StartAt(e, j, id)
        PROVE  Settled(e, id)' \/ (j - 1 \in Nat /\ StartAt(e, j - 1, id)')
    BY <1>5, <2>3, ReadAt
  <2>4. ASSUME link'[e[1]] = "up", id \in handles'[Peer(e)]
        PROVE  Settled(e, id)' \/ \E j \in Nat : StartAt(e, j, id)'
    BY <1>1, <1>2, <1>3, <2>3, <2>4 DEF Follows
  <2>5. ASSUME NEW i \in Nat, DataAt(e, i, id)'
        PROVE  Settled(e, id)' \/ \E j \in Nat : j < i /\ StartAt(e, j, id)'
    <3>1. DataAt(e, i + 1, id) /\ i + 1 \in Nat
      BY <1>5, <2>5, ReadAt
    <3>2. CASE Settled(e, id)
      BY <1>1, <3>2
    <3>3. ASSUME NEW j \in Nat, j < i + 1, StartAt(e, j, id)
          PROVE  Settled(e, id)' \/ \E l \in Nat : l < i /\ StartAt(e, l, id)'
      <4>1. Settled(e, id)' \/ (j - 1 \in Nat /\ StartAt(e, j - 1, id)')
        BY <2>3, <3>3
      <4>2. j - 1 < i
        BY <3>3
      <4> QED
        BY <4>1, <4>2
    <3> QED
      BY <1>2, <3>1, <3>2, <3>3 DEF Follows
  <2> QED
    BY <2>1, <2>2, <2>4, <2>5 DEF Follows
<1> QED
  BY <1>4, <1>5

\* Payload p is sent to d, by one who may.
LEMMA FindAppended ==
  ASSUME TypesInv, FindInv, [Next]_vars, NEW d \in Ends, NEW p \in Messages,
         Appended(d, p), link[d[1]] = "up", UNCHANGED link,
         p.op = opcodes.STREAM_START => Settled(Peer(d), p.id),
         p.op = opcodes.STREAM_DATA => p.id \in handles[Peer(d)],
         \A e \in Ends : starting'[e] \in {starting[e], None},
         \A e \in Ends : handles'[e] \subseteq
           handles[e] \cup (IF e = Peer(d) /\ p.op = opcodes.STREAM_START
                            THEN {p.id} ELSE {})
  PROVE  FindInv'
<1> SUFFICES ASSUME NEW e \in Ends, NEW id \in Ids
             PROVE  Follows(e, id)'
  BY DEF FindInv
<1>1. /\ Settled(e, id) => Settled(e, id)'
      /\ Settled(Peer(e), id) => Settled(Peer(e), id)'
      /\ Peer(e) \in Ends /\ Peer(Peer(e)) = e /\ Peer(Peer(d)) = d
      /\ id # None /\ p.id \in Ids
  BY SettledStays, EndFacts, IdFacts, MessageFacts
<1>2. Follows(e, id)
  BY DEF FindInv
<1>3. CASE e # d
  <2>1. inbox'[e] = inbox[e]
    BY <1>3, AppendedTo
  <2>2. id \in handles'[Peer(e)] => id \in handles[Peer(e)]
    BY <1>1, <1>3
  <2> QED
    BY <1>1, <2>1, <2>2, FindKept
<1>4. CASE e = d
  <2>n. PICK n \in Nat :
          /\ \A i \in Nat :
               /\ StartAt(d, i, id) => StartAt(d, i, id)' /\ i < n
               /\ StartAt(d, i, id)' =>
                    StartAt(d, i, id) \/ (p.op = opcodes.STREAM_START /\ p.id = id)
               /\ DataAt(d, i, id)' =>
                    DataAt(d, i, id) \/ (i = n /\ p.op = opcodes.STREAM_DATA /\ p.id = id)
          /\ p.op = opcodes.STREAM_START => StartAt(d, n, p.id)'
    BY AppendAt
  <2>1. starting'[e] = id => Settled(e, id)'
    BY <1>1, <1>2 DEF Follows
  <2>2. ASSUME NEW i \in Nat, StartAt(e, i, id)'
        PROVE  Settled(Peer(e), id)'
    BY <1>1, <1>2, <1>4, <2>n, <2>2 DEF Follows
  <2>3. ASSUME id \in handles'[Peer(e)]
        PROVE  Settled(e, id)' \/ \E j \in Nat : StartAt(e, j, id)'
    <3>1. CASE id \in handles[Peer(e)]
      BY <1>1, <1>2, <1>4, <2>n, <3>1 DEF Follows
    <3>2. CASE p.op = opcodes.STREAM_START /\ id = p.id
      BY <1>4, <2>n, <3>2
    <3> QED
      BY <1>1, <2>3, <3>1, <3>2
  <2>4. ASSUME NEW i \in Nat, DataAt(e, i, id)'
        PROVE  Settled(e, id)' \/ \E j \in Nat : j < i /\ StartAt(e, j, id)'
    <3>1. CASE DataAt(e, i, id)
      BY <1>1, <1>2, <1>4, <2>n, <3>1 DEF Follows
    <3>2. CASE i = n /\ p.op = opcodes.STREAM_DATA /\ p.id = id
      <4>1. Settled(e, id) \/ \E j \in Nat : StartAt(e, j, id)
        BY <1>2, <1>4, <3>2 DEF Follows
      <4> QED
        BY <1>1, <1>4, <2>n, <3>2, <4>1
    <3> QED
      BY <1>4, <2>n, <2>4, <3>1, <3>2
  <2> QED
    BY <2>1, <2>2, <2>3, <2>4 DEF Follows
<1> QED
  BY <1>3, <1>4

LEMMA FindStep ==
  ASSUME TypesInv, Separate, FindInv, [Next]_vars
  PROVE  FindInv'
<1> USE DEF connVars, tableVars, historyVars
<1>1. ASSUME UNCHANGED <<inbox, starting, handles>>,
             \A h \in Hdls : link'[h] = "up" => link[h] = "up"
      PROVE  FindInv'
  BY <1>1, FindKept, EndFacts DEF FindInv
<1>2. ASSUME NEW d \in Ends, NEW op \in OpCodes, start_stream(d, op)
      PROVE  FindInv'
  <2>1. /\ starting' = [starting EXCEPT ![d] = StreamId(d)]
        /\ streams' = [streams EXCEPT ![d] = @ \cup {StreamId(d)}]
        /\ UNCHANGED <<inbox, handles, link>>
    BY <1>2 DEF start_stream, Register
  <2>2. \A e \in Ends, id \in Ids :
          starting'[e] = id => starting[e] = id \/ id \in streams'[e]
    BY <2>1 DEF TypesInv
  <2> QED
    BY <2>1, <2>2, FindKept DEF FindInv
<1>3. ASSUME NEW d \in Ends, send_start(d)
      PROVE  FindInv'
  <2>q. PICK q : q = [op |-> opcodes.STREAM_START, id |-> starting[d],
                      arg |-> SentOpCode(d[1], starting[d])]
    OBVIOUS
  <2>1. /\ q \in Messages /\ q.op = opcodes.STREAM_START /\ q.id = starting[d]
        /\ q.id \in Ids /\ q.op # opcodes.STREAM_DATA
    BY <1>3, <2>q, StartingFacts, OpCodesApart DEF send_start
  <2>2. Settled(d, q.id)
    BY <2>1 DEF FindInv, Follows
  <2>3. /\ \A e \in Ends : starting'[e] \in {starting[e], None}
        /\ \A e \in Ends \ {d} : handles'[e] = handles[e]
        /\ handles'[d] = IF Ready(d) THEN handles[d] \cup {q.id} ELSE handles[d]
        /\ UNCHANGED link
    BY <1>3, <2>1 DEF send_start, TypesInv
  <2>4. CASE Ready(d) /\ link[d[1]] = "up"
    <3>1. Appended(Peer(d), q)
      BY <1>3, <2>q, <2>4 DEF send_start, Send, Appended
    <3>2. Peer(d) \in Ends /\ Peer(Peer(d)) = d /\ Peer(d)[1] = d[1]
      BY EndFacts
    <3> QED
      BY <2>1, <2>2, <2>3, <2>4, <3>1, <3>2, FindAppended
  <2>5. CASE ~(Ready(d) /\ link[d[1]] = "up")
    <3>1. UNCHANGED inbox
      BY <1>3, <2>5 DEF send_start, Send
    <3> SUFFICES ASSUME NEW e \in Ends, NEW id \in Ids
                 PROVE  Follows(e, id)'
      BY DEF FindInv
    <3>2. CASE link[e[1]] = "up"
      <4>1. e = Peer(d) => ~Ready(d)
        BY <2>5, <3>2, EndFacts
      <4>2. id \in handles'[Peer(e)] => id \in handles[Peer(e)]
        BY <2>3, <4>1, EndFacts
      <4> QED
        BY <2>3, <3>1, <4>2, FindKept, IdFacts
    <3>3. CASE link[e[1]] # "up"
      <4>1. /\ Settled(e, id) => Settled(e, id)'
            /\ Settled(Peer(e), id) => Settled(Peer(e), id)'
        BY SettledStays, EndFacts
      <4>2. starting'[e] = id => starting[e] = id
        BY <2>3, IdFacts
      <4>3. Follows(e, id)
        BY DEF FindInv
      <4> QED
        BY <2>3, <3>1, <3>3, <4>1, <4>2, <4>3, KeptAt DEF Follows
    <3> QED
      BY <3>2, <3>3
  <2> QED
    BY <2>4, <2>5
<1>4. ASSUME NEW e \in Ends, NEW id \in Ids,
             write(e, id) \/ end(e, id) \/ cancel(e, id)
      PROVE  FindInv'
  <2>1. PICK p \in Messages : Called(e, id, p)
    BY <1>4, Calls
  <2>2. p.op # opcodes.STREAM_START /\ p.id \in handles[e]
    BY <2>1, OpCodesApart DEF Called
  <2>3. UNCHANGED <<link, starting, handles>>
    BY <2>1 DEF Called
  <2>4. UNCHANGED inbox \/ (Appended(Peer(e), p) /\ link[e[1]] = "up")
    BY <2>1 DEF Called
  <2>5. Peer(e) \in Ends /\ Peer(Peer(e)) = e /\ Peer(e)[1] = e[1]
    BY EndFacts
  <2> QED
    BY <1>1, <2>2, <2>3, <2>4, <2>5, FindAppended
<1>5. ASSUME NEW d \in Ends, on_stream_start(d)
      PROVE  FindInv'
  <2>p. PICK p \in Messages : p = inbox[d][1]
    BY <1>5, StartRead
  <2>1. /\ Reads(d) /\ StartAt(d, 1, p.id) /\ p.id \in Ids
        /\ p.id \in streams'[d]
        /\ handles'[d] = handles[d] \/ handles'[d] = handles[d] \cup {p.id}
        /\ \A e \in Ends \ {d} : handles'[e] = handles[e]
        /\ UNCHANGED <<starting, link>>
    BY <1>5, <2>p, StartRead DEF StartAt
  <2>2. \A i \in Ids : StartAt(d, 1, i) => Settled(d, i)'
    BY <2>p, <2>1 DEF StartAt, Settled
  <2> QED
    BY <2>1, <2>2, FindRead
<1>6. ASSUME NEW d \in Ends,
             on_stream_data(d) \/ on_stream_end(d) \/ on_stream_cancel(d)
      PROVE  FindInv'
  <2>1. Reads(d) /\ Head(inbox[d]).op # opcodes.STREAM_START
    BY <1>6, OpCodesApart DEF on_stream_data, on_stream_end, on_stream_cancel, Receive, Reads
  <2>2. \A i \in Ids : ~StartAt(d, 1, i)
    BY <2>1, ReadFrom DEF StartAt, IsStart
  <2>3. UNCHANGED <<starting, handles, link>>
    BY <1>6 DEF on_stream_data, on_stream_end, on_stream_cancel
  <2> QED
    BY <2>1, <2>2, <2>3, FindRead
<1>7. ASSUME NEW h \in Hdls, on_message_rejected(h)
      PROVE  FindInv'
  <2>d. PICK d \in Ends : d = <<h, "server">>
    BY DEF Ends, Sides
  <2>1. /\ Reads(d) /\ UNCHANGED <<starting, handles, link>>
        /\ Head(inbox[d]).op = opcodes.STREAM_START =>
             <<d, Head(inbox[d]).id>> \in dropped'
    BY <1>7, <2>d DEF on_message_rejected, Reads
  <2>2. \A i \in Ids : StartAt(d, 1, i) => Settled(d, i)'
    BY <2>1, ReadFrom DEF StartAt, IsStart, Settled
  <2> QED
    BY <2>1, <2>2, FindRead
<1>8. ASSUME NEW h \in Hdls,
             link_lost(h) \/ on_close_client(h) \/ on_close(h) \/ erase_streams(h)
      PROVE  FindInv'
  <2>1. UNCHANGED <<inbox, starting, handles>>
    BY <1>8 DEF link_lost, on_close_client, on_close, erase_streams
  <2>2. \A g \in Hdls : link'[g] = "up" => link[g] = "up"
    BY <1>8 DEF link_lost, on_close_client, on_close, erase_streams, TypesInv
  <2> QED
    BY <1>1, <2>1, <2>2
<1>9. ASSUME NEW e \in Ends, NEW id \in Ids, set_data_handler(e, id)
      PROVE  FindInv'
  BY <1>1, <1>9 DEF set_data_handler
<1>10. CASE UNCHANGED vars
  BY <1>1, <1>10 DEF vars
<1> QED
  BY <1>2, <1>3, <1>4, <1>5, <1>6, <1>7, <1>8, <1>9, <1>10, StreamSteps DEF Others

LEMMA FindInit == Init => FindInv
<1> SUFFICES ASSUME Init, NEW e \in Ends, NEW id \in Ids
             PROVE  Follows(e, id)
  BY DEF FindInv
<1>1. Peer(e) \in Ends /\ id # None
  BY EndFacts, IdFacts
<1>2. starting[e] # id /\ handles[Peer(e)] = {} /\ inbox[e] = <<>>
  BY <1>1 DEF Init
<1>3. \A i \in Nat : ~StartAt(e, i, id) /\ ~DataAt(e, i, id)
  BY <1>2 DEF StartAt, DataAt
<1> QED
  BY <1>2, <1>3 DEF Follows

(***************************************************************************)
(* A chunk that is read finds its stream unless the stream was cancelled   *)
(* or its STREAM_START was lost: start_stream registers the stream before  *)
(* it sends STREAM_START, on_message before it calls the handler.          *)
(***************************************************************************)
THEOREM ChunkFindsStreamHolds == Separate => (Spec => []ChunkFindsStream)
<1> SUFFICES ASSUME Separate PROVE Spec => []ChunkFindsStream
  OBVIOUS
<1>1. TypesInv /\ FindInv /\ [Next]_vars => TypesInv' /\ FindInv'
  BY TypesStep, FindStep
<1>2. TypesInv /\ FindInv => ChunkFindsStream
  <2> SUFFICES ASSUME TypesInv, FindInv, NEW e \in Ends, IoIdle(e), inbox[e] # <<>>,
                      Head(inbox[e]).op = opcodes.STREAM_DATA
               PROVE  LET id == Head(inbox[e]).id
                      IN id \in streams[e] \/ <<e, id>> \in cut \cup dropped
    BY DEF ChunkFindsStream
  <2>1. inbox[e] \in Seq(Messages)
    BY DEF TypesInv
  <2>2. Head(inbox[e]) \in Messages
    BY <2>1, HeadMessage
  <2>3. 1 \in DOMAIN inbox[e] /\ Head(inbox[e]) = inbox[e][1]
        /\ DOMAIN inbox[e] = 1..Len(inbox[e]) /\ Len(inbox[e]) \in Nat
    BY <2>1
  <2>4. DataAt(e, 1, Head(inbox[e]).id) /\ Head(inbox[e]).id \in Ids
    BY <2>2, <2>3, MessageFacts DEF DataAt, IsData
  <2>5. \A j \in Nat : j < 1 => ~StartAt(e, j, Head(inbox[e]).id)
    BY <2>3 DEF StartAt
  <2>6. Settled(e, Head(inbox[e]).id)
    BY <2>4, <2>5 DEF FindInv, Follows
  <2>7. Ready(e)
    BY DEF IoIdle, Ready
  <2> QED
    BY <2>6, <2>7 DEF Settled
<1> QED
  BY <1>1, <1>2, TypesInit, FindInit, PTL DEF Spec

-----------------------------------------------------------------------------
(***************************************************************************)
(* The end of a stream.  Nothing is lost on the way to a client, so the    *)
(* chunks that the handler was not given yet are on their way, in front of *)
(* the STREAM_END that was sent after them.                                *)
(***************************************************************************)
LinksInv ==
  /\ \A h \in Hdls : link[h] = "up" => session[h] = "stored" /\ connected[h]
  /\ \A e \in Ends, id \in Ids : e[2] = "client" => <<e, id>> \notin dropped

ChunkAt(e, i, id, n) == DataAt(e, i, id) /\ inbox[e][i].arg = n

EndAt(e, i, id, n) ==
  /\ i \in DOMAIN inbox[e] /\ inbox[e][i].op = opcodes.STREAM_END
  /\ inbox[e][i].id = id /\ inbox[e][i].arg = n

\* A stream the server started, with a handler at the client or not yet known to it.
Tracked(e, id) ==
  /\ e[2] = "client" /\ StartedBy(Peer(e), id) /\ <<e, id>> \notin cut
  /\ id \in handles[e] \/ id \notin streams[e]

Given(e, id) == Len(dispatched[<<e, id>>])

Complete(e, id) ==
  /\ Last(<<e, id>>) = Given(e, id)
  /\ id \notin streams[e] => dispatched[<<e, id>>] = <<>>
  /\ id \in handles[e] => id \in streams[e] \cap listening[e]
  /\ link[e[1]] = "up" =>
       \A n \in Nat : Given(e, id) < n /\ n <= written[<<e, id>>] =>
         \E j \in Nat : ChunkAt(e, j, id, n)
  /\ \A i, m \in Nat : ChunkAt(e, i, id, m) =>
       \A n \in Nat : Given(e, id) < n /\ n < m =>
         \E j \in Nat : j < i /\ ChunkAt(e, j, id, n)
  /\ \A i, m \in Nat : EndAt(e, i, id, m) =>
       \A n \in Nat : Given(e, id) < n /\ n <= m =>
         \E j \in Nat : j < i /\ ChunkAt(e, j, id, n)

CompleteInv == \A e \in Ends, id \in Ids : Tracked(e, id) => Complete(e, id)

LEMMA ReadChunks ==
  ASSUME TypesInv, NEW d \in Ends, Reads(d), NEW id \in Ids, NEW n \in Nat, NEW i \in Nat
  PROVE  /\ ChunkAt(d, i, id, n)' => ChunkAt(d, i + 1, id, n)
         /\ EndAt(d, i, id, n)' => EndAt(d, i + 1, id, n)
         /\ ChunkAt(d, i, id, n) => i = 1 \/ (i - 1 \in Nat /\ ChunkAt(d, i - 1, id, n)')
<1>1. i \in DOMAIN inbox'[d] => i + 1 \in DOMAIN inbox[d] /\ inbox'[d][i] = inbox[d][i + 1]
  BY ReadFrom
<1>2. ASSUME i \in DOMAIN inbox[d], i # 1
      PROVE  i - 1 \in Nat /\ i - 1 \in DOMAIN inbox'[d] /\ inbox'[d][i - 1] = inbox[d][i]
  <2>1. i - 1 \in DOMAIN inbox'[d] /\ i > 1
    BY <1>2, ReadFrom
  <2>2. inbox'[d][i - 1] = inbox[d][(i - 1) + 1] /\ (i - 1) + 1 = i
    BY <2>1, ReadFrom
  <2> QED
    BY <2>1, <2>2
<1> QED
  BY <1>1, <1>2 DEF ChunkAt, EndAt, DataAt, IsData

LEMMA AppendChunks ==
  ASSUME TypesInv, NEW d \in Ends, NEW p \in Messages, Appended(d, p)
  PROVE  \E l \in Nat :
           /\ \A i \in Nat, id \in Ids, n \in Nat :
                /\ ChunkAt(d, i, id, n) => ChunkAt(d, i, id, n)' /\ i < l
                /\ ChunkAt(d, i, id, n)' =>
                     \/ ChunkAt(d, i, id, n)
                     \/ i = l /\ p.op = opcodes.STREAM_DATA /\ p.id = id /\ p.arg = n
                /\ EndAt(d, i, id, n)' =>
                     \/ EndAt(d, i, id, n)
                     \/ i = l /\ p.op = opcodes.STREAM_END /\ p.id = id /\ p.arg = n
           /\ p.op = opcodes.STREAM_DATA => ChunkAt(d, l, p.id, p.arg)'
<1>l. PICK l : l = Len(inbox[d])
  OBVIOUS
<1>1. /\ l \in Nat /\ DOMAIN inbox[d] = 1..l /\ DOMAIN inbox'[d] = 1..(l + 1)
      /\ \A i \in 1..l : inbox'[d][i] = inbox[d][i]
      /\ inbox'[d][l + 1] = p
  BY <1>l, AppendedTo
<1>2. \A i \in DOMAIN inbox'[d] : i \in DOMAIN inbox[d] \/ i = l + 1
  BY <1>1
<1>3. l + 1 \in Nat /\ l + 1 \in DOMAIN inbox'[d] /\ \A i \in DOMAIN inbox[d] : i < l + 1
  BY <1>1
<1>4. \A i \in DOMAIN inbox[d] : i \in DOMAIN inbox'[d] /\ inbox'[d][i] = inbox[d][i]
  BY <1>1
<1>5. ASSUME NEW i \in Nat, NEW id \in Ids, NEW n \in Nat
      PROVE  /\ ChunkAt(d, i, id, n) => ChunkAt(d, i, id, n)' /\ i < l + 1
             /\ ChunkAt(d, i, id, n)' =>
                  \/ ChunkAt(d, i, id, n)
                  \/ i = l + 1 /\ p.op = opcodes.STREAM_DATA /\ p.id = id /\ p.arg = n
             /\ EndAt(d, i, id, n)' =>
                  \/ EndAt(d, i, id, n)
                  \/ i = l + 1 /\ p.op = opcodes.STREAM_END /\ p.id = id /\ p.arg = n
  BY <1>1, <1>2, <1>3, <1>4 DEF ChunkAt, EndAt, DataAt, IsData
<1>6. p.op = opcodes.STREAM_DATA => ChunkAt(d, l + 1, p.id, p.arg)'
  BY <1>1, <1>3 DEF ChunkAt, DataAt, IsData
<1> QED
  BY <1>3, <1>5, <1>6

\* What is to be shown of a step that does not hand out a chunk of the stream.
Steady(e, id) ==
  /\ dispatched'[<<e, id>>] = dispatched[<<e, id>>]
  /\ id \notin streams'[e] => id \notin streams[e]
  /\ id \in handles'[e] => id \in streams'[e] \cap listening'[e]
  /\ link'[e[1]] = "up" => link[e[1]] = "up"

LEMMA GivenNat ==
  ASSUME TypesInv, NEW e \in Ends, NEW id \in Ids
  PROVE  Given(e, id) \in Nat /\ written[<<e, id>>] \in Nat
<1>1. <<e, id>> \in Ends \X Ids
  OBVIOUS
<1>2. dispatched[<<e, id>>] \in Seq(Args) /\ written[<<e, id>>] \in Nat
  BY <1>1 DEF TypesInv
<1> QED
  BY <1>2 DEF Given

LEMMA SteadyFacts ==
  ASSUME TypesInv, NEW e \in Ends, NEW id \in Ids, Steady(e, id), Complete(e, id)
  PROVE  /\ Given(e, id)' = Given(e, id)
         /\ Last(<<e, id>>)' = Given(e, id)'
         /\ id \notin streams'[e] => dispatched'[<<e, id>>] = <<>>
         /\ id \in handles'[e] => id \in streams'[e] \cap listening'[e]
BY DEF Steady, Complete, Given, Last, Pipes!LastReceived

LEMMA CompleteKept ==
  ASSUME TypesInv, NEW e \in Ends, NEW id \in Ids, Steady(e, id), Complete(e, id),
         link'[e[1]] = "up" => written'[<<e, id>>] = written[<<e, id>>],
         inbox'[e] = inbox[e]
  PROVE  Complete(e, id)'
<1>1. \A i, n : /\ ChunkAt(e, i, id, n)' <=> ChunkAt(e, i, id, n)
                /\ EndAt(e, i, id, n)' <=> EndAt(e, i, id, n)
  BY DEF ChunkAt, EndAt, DataAt, IsData
<1> QED
  BY <1>1, SteadyFacts DEF Complete, Steady

\* e reads: what it takes was given to the handler, or is no chunk of the stream.
LEMMA CompleteRead ==
  ASSUME TypesInv, NEW e \in Ends, NEW id \in Ids, Complete(e, id), Reads(e),
         link'[e[1]] = "up" => link[e[1]] = "up",
         written'[<<e, id>>] = written[<<e, id>>],
         NEW g \in Nat, Given(e, id) <= g, Given(e, id)' = g, Last(<<e, id>>)' = g,
         id \notin streams'[e] => dispatched'[<<e, id>>] = <<>>,
         id \in handles'[e] => id \in streams'[e] \cap listening'[e],
         \A n \in Nat : ChunkAt(e, 1, id, n) => n <= g
  PROVE  Complete(e, id)'
<1>0. PICK k \in Nat : k = Given(e, id) /\ k <= g
  BY GivenNat
<1>1. \A i, n \in Nat : ChunkAt(e, i, id, n) /\ g < n =>
        i - 1 \in Nat /\ ChunkAt(e, i - 1, id, n)'
  BY ReadChunks
<1>2. ASSUME link'[e[1]] = "up", NEW n \in Nat, g < n, n <= written[<<e, id>>]
      PROVE  \E j \in Nat : ChunkAt(e, j, id, n)'
  BY <1>0, <1>1, <1>2 DEF Complete
<1>3. ASSUME NEW i \in Nat, NEW n \in Nat, NEW j \in Nat, j < i + 1, g < n,
             ChunkAt(e, j, id, n)
      PROVE  \E l \in Nat : l < i /\ ChunkAt(e, l, id, n)'
  <2>1. j - 1 \in Nat /\ ChunkAt(e, j - 1, id, n)' /\ j - 1 < i
    BY <1>1, <1>3
  <2> QED
    BY <2>1
<1>4. ASSUME NEW i \in Nat, NEW m \in Nat, ChunkAt(e, i, id, m)', NEW n \in Nat,
             g < n, n < m
      PROVE  \E j \in Nat : j < i /\ ChunkAt(e, j, id, n)'
  <2>1. ChunkAt(e, i + 1, id, m)
    BY <1>4, ReadChunks
  <2>2. i + 1 \in Nat /\ k < n
    BY <1>0, <1>4
  <2>3. PICK j \in Nat : j < i + 1 /\ ChunkAt(e, j, id, n)
    BY <1>0, <1>4, <2>1, <2>2 DEF Complete
  <2> QED
    BY <1>3, <1>4, <2>3
<1>5. ASSUME NEW i \in Nat, NEW m \in Nat, EndAt(e, i, id, m)', NEW n \in Nat,
             g < n, n <= m
      PROVE  \E j \in Nat : j < i /\ ChunkAt(e, j, id, n)'
  <2>1. EndAt(e, i + 1, id, m)
    BY <1>5, ReadChunks
  <2>2. i + 1 \in Nat /\ k < n
    BY <1>0, <1>5
  <2>3. PICK j \in Nat : j < i + 1 /\ ChunkAt(e, j, id, n)
    BY <1>0, <1>5, <2>1, <2>2 DEF Complete
  <2> QED
    BY <1>3, <1>5, <2>3
<1> QED
  BY <1>2, <1>4, <1>5 DEF Complete

LEMMA CompleteReadOther ==
  ASSUME TypesInv, NEW e \in Ends, NEW id \in Ids, Steady(e, id), Complete(e, id),
         written'[<<e, id>>] = written[<<e, id>>], Reads(e), ~DataAt(e, 1, id)
  PROVE  Complete(e, id)'
<1>1. PICK g \in Nat : g = Given(e, id)
  BY GivenNat
<1>2. Given(e, id) <= g /\ Given(e, id)' = g /\ Last(<<e, id>>)' = g
  BY <1>1, SteadyFacts
<1>3. \A n \in Nat : ~ChunkAt(e, 1, id, n)
  BY DEF ChunkAt
<1>4. /\ id \notin streams'[e] => dispatched'[<<e, id>>] = <<>>
      /\ id \in handles'[e] => id \in streams'[e] \cap listening'[e]
      /\ link'[e[1]] = "up" => link[e[1]] = "up"
  BY SteadyFacts DEF Steady
<1> QED
  BY <1>2, <1>3, <1>4, CompleteRead

\* The chunk that the client reads is the next one for the handler, and it gets it.
LEMMA NextChunk ==
  ASSUME TypesInv, DataInv, FindInv, LinksInv, NEW e \in Ends, NEW id \in Ids,
         Tracked(e, id), Complete(e, id), Ready(e), DataAt(e, 1, id)
  PROVE  /\ inbox[e][1].arg = Given(e, id) + 1
         /\ id \in streams[e] \cap handles[e] \cap listening[e]
<1>1. PICK m \in Nat : m = inbox[e][1].arg /\ Last(<<e, id>>) < m
  BY DEF DataAt, DataInv, ChunksInv, DataMsg
<1>2. PICK g \in Nat : g = Given(e, id) /\ g < m
  BY <1>1, GivenNat DEF Complete
<1>3. DOMAIN inbox[e] = 1..Len(inbox[e]) /\ Len(inbox[e]) \in Nat
  BY DEF TypesInv
<1>4. \A j \in Nat : j < 1 => j \notin DOMAIN inbox[e]
  BY <1>3
<1>5. ChunkAt(e, 1, id, m)
  BY <1>1 DEF ChunkAt
<1>6. ~(g + 1 < m)
  <2> SUFFICES ASSUME g + 1 < m PROVE FALSE
    OBVIOUS
  <2>1. PICK j \in Nat : j < 1 /\ ChunkAt(e, j, id, g + 1)
    BY <1>2, <1>5 DEF Complete
  <2> QED
    BY <1>4, <2>1 DEF ChunkAt, DataAt
<1>7. Settled(e, id)
  BY <1>4 DEF FindInv, Follows, StartAt
<1>8. id \in streams[e]
  BY <1>7 DEF Settled, Tracked, LinksInv
<1>9. id \in handles[e] /\ id \in listening[e]
  BY <1>8 DEF Tracked, Complete
<1> QED
  BY <1>1, <1>2, <1>6, <1>8, <1>9

LEMMA CompleteGiven ==
  ASSUME TypesInv, DataInv, FindInv, LinksInv, NEW e \in Ends, NEW id \in Ids,
         Tracked(e, id), Complete(e, id), on_stream_data(e), DataAt(e, 1, id)
  PROVE  Complete(e, id)'
<1>0. PICK g \in Nat : g = Given(e, id)
  BY GivenNat
<1>1. Reads(e) /\ Ready(e)
  BY DEF on_stream_data, Receive, Reads, IoIdle, Ready
<1>2. Head(inbox[e]) = inbox[e][1]
  BY <1>1, ReadFrom
<1>3. inbox[e][1].arg = g + 1 /\ id \in streams[e] \cap handles[e] \cap listening[e]
  BY <1>0, <1>1, NextChunk
<1>4. UNCHANGED <<connVars, tableVars, written>>
      /\ dispatched' = [dispatched EXCEPT ![<<e, id>>] = Append(@, g + 1)]
  BY <1>2, <1>3 DEF on_stream_data, Found, DataAt
<1>5. <<e, id>> \in Ends \X Ids /\ g + 1 \in Nat /\ g + 1 \in Args
  BY DEF Args
<1>6. dispatched'[<<e, id>>] = Append(dispatched[<<e, id>>], g + 1)
      /\ dispatched[<<e, id>>] \in Seq(Args)
  BY <1>4, <1>5 DEF TypesInv
<1>7. Given(e, id)' = g + 1
  BY <1>0, <1>5, <1>6 DEF Given
<1>8. Last(<<e, id>>)' = g + 1
  BY <1>4, <1>5, LastFacts
<1>9. \A n \in Nat : ChunkAt(e, 1, id, n) => n <= g + 1
  BY <1>3, <1>5 DEF ChunkAt
<1>10. /\ link'[e[1]] = "up" => link[e[1]] = "up"
       /\ written'[<<e, id>>] = written[<<e, id>>]
       /\ id \in streams'[e] /\ id \in listening'[e]
  BY <1>3, <1>4 DEF connVars, tableVars
<1>11. Given(e, id) <= g + 1
  BY <1>0
<1> QED
  BY <1>1, <1>5, <1>7, <1>8, <1>9, <1>10, <1>11, CompleteRead

\* A payload is sent to e: the next chunk of the stream, its end with the number
\* of chunks written, or something else.
LEMMA CompleteAppended ==
  ASSUME TypesInv, NEW e \in Ends, NEW id \in Ids, Steady(e, id), Complete(e, id),
         NEW p \in Messages, Appended(e, p), link[e[1]] = "up",
         \/ /\ written'[<<e, id>>] = written[<<e, id>>]
            /\ p.id = id => p.op # opcodes.STREAM_DATA
         \/ /\ written'[<<e, id>>] = written[<<e, id>>] + 1
            /\ p.id = id /\ p.op = opcodes.STREAM_DATA
            /\ p.arg = written[<<e, id>>] + 1,
         p.id = id /\ p.op = opcodes.STREAM_END => p.arg = written[<<e, id>>],
         opcodes.STREAM_END # opcodes.STREAM_DATA
  PROVE  Complete(e, id)'
<1>w. PICK w \in Nat : w = written[<<e, id>>]
  BY GivenNat
<1>g. PICK g \in Nat : g = Given(e, id)
  BY GivenNat
<1>l. PICK l \in Nat :
        /\ \A i \in Nat, n \in Nat :
             /\ ChunkAt(e, i, id, n) => ChunkAt(e, i, id, n)' /\ i < l
             /\ ChunkAt(e, i, id, n)' =>
                  \/ ChunkAt(e, i, id, n)
                  \/ i = l /\ p.op = opcodes.STREAM_DATA /\ p.id = id /\ p.arg = n
             /\ EndAt(e, i, id, n)' =>
                  \/ EndAt(e, i, id, n)
                  \/ i = l /\ p.op = opcodes.STREAM_END /\ p.id = id /\ p.arg = n
        /\ p.op = opcodes.STREAM_DATA => ChunkAt(e, l, p.id, p.arg)'
  BY AppendChunks
<1>1. \A n \in Nat : g < n /\ n <= w => \E j \in Nat : j < l /\ ChunkAt(e, j, id, n)'
  BY <1>w, <1>g, <1>l DEF Complete
<1>2. ASSUME NEW n \in Nat, g < n, n <= written'[<<e, id>>]
      PROVE  \E j \in Nat : ChunkAt(e, j, id, n)'
  <2>1. CASE n <= w
    BY <1>1, <1>2, <2>1
  <2>2. CASE ~(n <= w)
    <3>1. p.op = opcodes.STREAM_DATA /\ p.id = id /\ p.arg = n
      BY <1>w, <1>2, <2>2
    <3> QED
      BY <1>l, <3>1
  <2> QED
    BY <2>1, <2>2
<1>3. ASSUME NEW i \in Nat, NEW m \in Nat, ChunkAt(e, i, id, m)', NEW n \in Nat, g < n, n < m
      PROVE  \E j \in Nat : j < i /\ ChunkAt(e, j, id, n)'
  <2>1. CASE ChunkAt(e, i, id, m)
    BY <1>g, <1>l, <1>3, <2>1 DEF Complete
  <2>2. CASE ~ChunkAt(e, i, id, m)
    <3>1. i = l /\ m = w + 1
      BY <1>w, <1>l, <1>3, <2>2
    <3>2. n <= w
      BY <1>3, <3>1
    <3> QED
      BY <1>1, <1>3, <3>1, <3>2
  <2> QED
    BY <2>1, <2>2
<1>4. ASSUME NEW i \in Nat, NEW m \in Nat, EndAt(e, i, id, m)', NEW n \in Nat, g < n, n <= m
      PROVE  \E j \in Nat : j < i /\ ChunkAt(e, j, id, n)'
  <2>1. CASE EndAt(e, i, id, m)
    BY <1>g, <1>l, <1>4, <2>1 DEF Complete
  <2>2. CASE ~EndAt(e, i, id, m)
    <3>1. i = l /\ m = w
      BY <1>w, <1>l, <1>4, <2>2
    <3> QED
      BY <1>1, <1>4, <3>1
  <2> QED
    BY <2>1, <2>2
<1>5. Given(e, id)' = g
  BY <1>g, SteadyFacts
<1> QED
  BY <1>2, <1>3, <1>4, <1>5, SteadyFacts DEF Complete

\* With the default op codes the hypothesis of the theorems holds.
LEMMA DefaultsSeparate == opcodes = OpCode => Separate
BY DEF OpCode, Separate

LEMMA LinksStep ==
  ASSUME TypesInv, LinksInv, [Next]_vars
  PROVE  LinksInv'
<1> USE DEF connVars, tableVars, historyVars
<1>1. CASE UNCHANGED <<connVars, dropped>>
  BY <1>1 DEF LinksInv
<1>2. ASSUME NEW h \in Hdls, on_message_rejected(h)
      PROVE  LinksInv'
  <2>1. /\ UNCHANGED connVars
        /\ dropped' \subseteq dropped \cup {<<<<h, "server">>, Head(inbox[<<h, "server">>]).id>>}
    BY <1>2 DEF on_message_rejected
  <2> QED
    BY <2>1 DEF LinksInv
<1>3. ASSUME NEW h \in Hdls,
             link_lost(h) \/ on_close_client(h) \/ on_close(h) \/ erase_streams(h)
      PROVE  LinksInv'
  <2>1. UNCHANGED dropped /\ \A g \in Hdls : link'[g] = "up" =>
          /\ link[g] = "up"
          /\ session[g] = "stored" => session'[g] = "stored"
          /\ connected[g] => connected'[g]
    BY <1>3 DEF link_lost, on_close_client, on_close, erase_streams, TypesInv
  <2> QED
    BY <2>1 DEF LinksInv
<1>4. ASSUME NEW d \in Ends,
             \/ \E op \in OpCodes : start_stream(d, op)
             \/ send_start(d) \/ on_stream_start(d) \/ on_stream_data(d)
             \/ on_stream_end(d) \/ on_stream_cancel(d)
             \/ \E i \in Ids : \/ set_data_handler(d, i) \/ write(d, i)
                               \/ end(d, i) \/ cancel(d, i)
      PROVE  LinksInv'
  <2>1. UNCHANGED <<connVars, dropped>>
    BY <1>4 DEF start_stream, send_start, on_stream_start, on_stream_data, on_stream_end,
                on_stream_cancel, set_data_handler, write, end, cancel, Call
  <2> QED
    BY <1>1, <2>1
<1>5. CASE UNCHANGED vars
  BY <1>1, <1>5 DEF vars
<1> QED
  BY <1>2, <1>3, <1>4, <1>5, StreamSteps DEF Others

\* A stream is not taken up again: it is followed from the beginning.
LEMMA TrackedBack ==
  ASSUME TypesInv, IdsInv, [Next]_vars, NEW e \in Ends, NEW id \in Ids, Tracked(e, id)'
  PROVE  Tracked(e, id)
<1> USE DEF connVars, tableVars, historyVars
<1>0. /\ e[2] = "client" /\ StartedBy(Peer(e), id) /\ ~StartedBy(e, id)
      /\ <<e, id>> \notin cut'
      /\ id \in handles'[e] \/ id \notin streams'[e]
  BY Parity, IdFacts DEF Tracked, StartedBy
<1>1. ASSUME cut \subseteq cut',
             id \in handles'[e] => id \in handles[e] \/ id \notin streams[e],
             id \in streams[e] => id \in streams'[e]
      PROVE  Tracked(e, id)
  BY <1>0, <1>1 DEF Tracked
<1>2. ASSUME NEW d \in Ends, NEW op \in OpCodes, start_stream(d, op)
      PROVE  Tracked(e, id)
  BY <1>1, <1>2 DEF start_stream, Register, TypesInv
<1>3. ASSUME NEW d \in Ends, send_start(d)
      PROVE  Tracked(e, id)
  <2>1. UNCHANGED <<cut, streams>>
        /\ handles'[e] \subseteq IF d = e THEN handles[e] \cup {starting[e]} ELSE handles[e]
    BY <1>3 DEF send_start, TypesInv
  <2>2. d = e => starting[e] # None /\ starting[e] # id
    BY <1>0, <1>3 DEF send_start, IdsInv, StartingInv
  <2> QED
    BY <1>1, <2>1, <2>2
<1>4. ASSUME NEW d \in Ends, on_stream_start(d)
      PROVE  Tracked(e, id)
  <2>p. PICK p \in Messages : p = inbox[d][1] /\ p = Head(inbox[d])
    BY <1>4, StartRead
  <2>1. p.id \notin streams[d]
    BY <1>4, <2>p, StartRead DEF IdsInv, StartsInv, StartMsg, Known
  <2>2. /\ UNCHANGED cut
        /\ handles'[d] \subseteq handles[d] \cup {p.id} /\ streams'[d] = streams[d] \cup {p.id}
        /\ e # d => handles'[e] = handles[e] /\ streams'[e] = streams[e]
    BY <1>4, <2>p, StartRead
  <2> QED
    BY <1>1, <2>1, <2>2
<1>5. ASSUME NEW d \in Ends, on_stream_cancel(d)
      PROVE  Tracked(e, id)
  <2>1. /\ UNCHANGED handles
        /\ streams'[e] = IF e = d THEN streams[e] \ {Head(inbox[d]).id} ELSE streams[e]
        /\ cut' = IF Head(inbox[d]).id \in streams[d]
                    THEN cut \cup {<<d, Head(inbox[d]).id>>} ELSE cut
    BY <1>5 DEF on_stream_cancel, Unregister, TypesInv
  <2> QED
    BY <1>0, <1>1, <2>1
<1>6. ASSUME NEW h \in Hdls, erase_streams(h)
      PROVE  Tracked(e, id)
  <2>1. e # <<h, "server">>
    BY <1>0
  <2> QED
    BY <1>1, <1>6, <2>1 DEF erase_streams, TypesInv
<1>7. ASSUME UNCHANGED <<cut, streams, handles>>
      PROVE  Tracked(e, id)
  BY <1>1, <1>7
<1>8. ASSUME NEW d \in Ends,
             \/ on_stream_data(d) \/ on_stream_end(d)
             \/ \E i \in Ids : \/ set_data_handler(d, i) \/ write(d, i)
                               \/ end(d, i) \/ cancel(d, i)
      PROVE  Tracked(e, id)
  BY <1>7, <1>8 DEF on_stream_data, on_stream_end, set_data_handler, write, end, cancel, Call
<1>9. ASSUME NEW h \in Hdls,
             on_message_rejected(h) \/ link_lost(h) \/ on_close_client(h) \/ on_close(h)
      PROVE  Tracked(e, id)
  BY <1>7, <1>9 DEF on_message_rejected, link_lost, on_close_client, on_close
<1>10. CASE UNCHANGED vars
  BY <1>7, <1>10 DEF vars
<1> QED
  BY <1>2, <1>3, <1>4, <1>5, <1>6, <1>8, <1>9, <1>10, StreamSteps DEF Others

LEMMA CompleteStep ==
  ASSUME TypesInv, Separate, opcodes.STREAM_DATA = OpCode.STREAM_DATA, IdsInv, DataInv,
         FindInv, LinksInv, CompleteInv, [Next]_vars
  PROVE  CompleteInv'
<1> SUFFICES ASSUME NEW e \in Ends, NEW id \in Ids, Tracked(e, id)'
             PROVE  Complete(e, id)'
  BY DEF CompleteInv
<1> USE DEF connVars, tableVars, historyVars
<1>0. Tracked(e, id) /\ Complete(e, id)
  BY TrackedBack DEF CompleteInv
<1>a. /\ e[2] = "client" /\ ~StartedBy(e, id) /\ <<e, id>> \notin cut'
      /\ e[1] \in Hdls /\ Peer(e) \in Ends /\ Peer(Peer(e)) = e /\ Peer(e)[1] = e[1]
      /\ <<e, id>> \in Ends \X Ids
      /\ \A h \in Hdls : e # <<h, "server">>
  BY Parity, IdFacts, EndFacts DEF Tracked, StartedBy
<1>b. /\ id \notin streams[e] => dispatched[<<e, id>>] = <<>>
      /\ id \in handles[e] => id \in streams[e] \cap listening[e]
  BY <1>0 DEF Complete
<1>1. ASSUME inbox'[e] = inbox[e], UNCHANGED <<written, dispatched>>,
             streams[e] \subseteq streams'[e], listening[e] \subseteq listening'[e],
             handles'[e] = handles[e], link'[e[1]] = "up" => link[e[1]] = "up"
      PROVE  Complete(e, id)'
  <2>1. Steady(e, id)
    BY <1>b, <1>1 DEF Steady
  <2> QED
    BY <1>0, <1>1, <2>1, CompleteKept
<1>2. ASSUME NEW d \in Ends, NEW op \in OpCodes, start_stream(d, op)
      PROVE  Complete(e, id)'
  BY <1>1, <1>2 DEF start_stream, Register, TypesInv
<1>3. ASSUME NEW d \in Ends, send_start(d)
      PROVE  Complete(e, id)'
  <2>q. PICK q : q = [op |-> opcodes.STREAM_START, id |-> starting[d],
                      arg |-> SentOpCode(d[1], starting[d])]
    OBVIOUS
  <2>1. /\ q \in Messages /\ q.op \notin {opcodes.STREAM_DATA, opcodes.STREAM_END}
        /\ opcodes.STREAM_END # opcodes.STREAM_DATA
    BY <1>3, <2>q, StartingFacts, OpCodesApart DEF send_start
  <2>2. UNCHANGED <<link, written, dispatched, streams, listening>>
        /\ handles'[e] \subseteq IF d = e THEN handles[e] \cup {starting[e]} ELSE handles[e]
    BY <1>3 DEF send_start, TypesInv
  <2>3. d = e => starting[e] # id
    BY <1>a, <1>3 DEF send_start, IdsInv, StartingInv
  <2>4. Steady(e, id)
    BY <1>b, <2>2, <2>3 DEF Steady
  <2>5. CASE Appended(Peer(d), q) /\ link[d[1]] = "up" /\ d = Peer(e)
    BY <1>0, <1>a, <2>1, <2>2, <2>4, <2>5, CompleteAppended
  <2>6. CASE inbox'[e] = inbox[e]
    BY <1>0, <2>2, <2>4, <2>6, CompleteKept
  <2>7. \/ UNCHANGED inbox
        \/ Appended(Peer(d), q) /\ link[d[1]] = "up"
    BY <1>3, <2>q, Sends DEF send_start
  <2>8. d # Peer(e) /\ Appended(Peer(d), q) => inbox'[e] = inbox[e]
    BY <1>a, EndFacts DEF Appended, TypesInv
  <2> QED
    BY <2>5, <2>6, <2>7, <2>8
<1>4. ASSUME NEW d \in Ends, NEW i \in Ids, write(d, i) \/ end(d, i) \/ cancel(d, i)
      PROVE  Complete(e, id)'
  <2>1. PICK p \in Messages : Called(d, i, p)
    BY <1>4, Calls
  <2>2. /\ UNCHANGED <<link, session, connected, streams, listening, handles, dispatched>>
        /\ p.id = i
    BY <2>1 DEF Called
  <2>3. Steady(e, id)
    BY <1>b, <2>2 DEF Steady
  <2>4. CASE d # Peer(e) \/ i # id
    <3>1. written'[<<e, id>>] = written[<<e, id>>]
      BY <1>a, <2>1, <2>4, EndFacts DEF Called, TypesInv
    <3>2. CASE inbox'[e] = inbox[e]
      BY <1>0, <2>3, <3>1, <3>2, CompleteKept
    <3>3. CASE Appended(Peer(d), p) /\ link[d[1]] = "up" /\ d = Peer(e)
      <4>1. p.id # id /\ opcodes.STREAM_END # opcodes.STREAM_DATA
        BY <2>2, <2>4, <3>3, OpCodesApart
      <4> QED
        BY <1>0, <1>a, <2>3, <3>1, <3>3, <4>1, CompleteAppended
    <3>4. d # Peer(e) /\ Appended(Peer(d), p) => inbox'[e] = inbox[e]
      BY <1>a, EndFacts DEF Appended, TypesInv
    <3> QED
      BY <2>1, <3>2, <3>3, <3>4 DEF Called
  <2>5. CASE d = Peer(e) /\ i = id
    <3>1. CASE UNCHANGED inbox /\ ~(Ready(d) /\ link[d[1]] = "up")
      <4>1. link[e[1]] # "up"
        BY <1>a, <2>5, <3>1 DEF Ready, LinksInv
      <4> QED
        BY <1>0, <2>2, <2>3, <3>1, <4>1, CompleteKept
    <3>2. CASE Appended(Peer(d), p) /\ link[d[1]] = "up"
      <4>1. /\ opcodes.STREAM_END \notin {opcodes.STREAM_DATA, OpCode.STREAM_DATA,
                                         OpCode.STREAM_CANCEL}
            /\ opcodes.STREAM_DATA \notin {OpCode.STREAM_END, OpCode.STREAM_CANCEL}
        BY OpCodesApart
      <4>2. \/ /\ written'[<<e, id>>] = written[<<e, id>>]
               /\ p.id = id => p.op # opcodes.STREAM_DATA
            \/ /\ written'[<<e, id>>] = written[<<e, id>>] + 1
               /\ p.id = id /\ p.op = opcodes.STREAM_DATA
               /\ p.arg = written[<<e, id>>] + 1
        BY <1>a, <2>1, <2>5, <4>1 DEF Called, TypesInv
      <4>3. p.id = id /\ p.op = opcodes.STREAM_END => p.arg = written[<<e, id>>]
        BY <1>a, <2>1, <2>5, <4>1 DEF Called
      <4> QED
        BY <1>0, <1>a, <2>3, <2>5, <3>2, <4>1, <4>2, <4>3, CompleteAppended
    <3> QED
      BY <2>1, <3>1, <3>2 DEF Called
  <2> QED
    BY <2>4, <2>5
<1>5. ASSUME NEW d \in Ends, NEW i \in Ids, set_data_handler(d, i)
      PROVE  Complete(e, id)'
  BY <1>1, <1>5 DEF set_data_handler, TypesInv
<1>6. ASSUME NEW d \in Ends, on_stream_start(d)
      PROVE  Complete(e, id)'
  <2>1. CASE d # e
    <3>1. inbox'[e] = inbox[e]
      BY <1>6, <2>1, StartRead, ReadFrom
    <3> QED
      BY <1>1, <1>6, <2>1, <3>1, StartRead
  <2>2. CASE d = e
    <3>1. Reads(e) /\ IsStart(e, 1)
      BY <1>6, <2>2, StartRead
    <3>2. ~DataAt(e, 1, id)
      BY <3>1, OpCodesApart DEF DataAt, IsData, IsStart
    <3>3. Steady(e, id) /\ written' = written
      BY <1>b, <1>6, <2>2, StartRead DEF Steady
    <3> QED
      BY <1>0, <3>1, <3>2, <3>3, CompleteReadOther
  <2> QED
    BY <2>1, <2>2
<1>7. ASSUME NEW d \in Ends, on_stream_data(d)
      PROVE  Complete(e, id)'
  <2>1. Reads(d) /\ UNCHANGED <<connVars, tableVars, written>>
    BY <1>7 DEF on_stream_data, Receive, Reads
  <2>2. Head(inbox[d]) = inbox[d][1] /\ 1 \in DOMAIN inbox[d] /\ IsData(d, 1)
    BY <1>7, <2>1, ReadFrom DEF on_stream_data, Receive, IsData
  <2>3. CASE d = e /\ DataAt(e, 1, id)
    BY <1>0, <1>7, <2>3, CompleteGiven
  <2>4. CASE d # e \/ ~DataAt(e, 1, id)
    <3>1. <<d, Head(inbox[d]).id>> # <<e, id>>
      BY <2>2, <2>4 DEF DataAt
    <3>2. dispatched'[<<e, id>>] = dispatched[<<e, id>>]
      BY <1>a, <1>7, <3>1 DEF on_stream_data, TypesInv
    <3>3. Steady(e, id)
      BY <1>b, <2>1, <3>2 DEF Steady
    <3>4. CASE d = e
      BY <1>0, <2>1, <2>4, <3>3, <3>4, CompleteReadOther
    <3>5. CASE d # e
      BY <1>0, <2>1, <3>3, <3>5, ReadFrom, CompleteKept
    <3> QED
      BY <3>4, <3>5
  <2> QED
    BY <2>3, <2>4
<1>8. ASSUME NEW d \in Ends, on_stream_end(d) \/ on_stream_cancel(d)
      PROVE  Complete(e, id)'
  <2>1. /\ Reads(d) /\ UNCHANGED <<connVars, written, dispatched, handles, listening>>
        /\ Head(inbox[d]).op # opcodes.STREAM_DATA
    BY <1>8, OpCodesApart DEF on_stream_end, on_stream_cancel, Receive, Reads
  <2>2. Head(inbox[d]) = inbox[d][1]
    BY <2>1, ReadFrom
  <2>3. id \in streams[e] => id \in streams'[e]
    <3>1. CASE on_stream_end(d)
      BY <3>1 DEF on_stream_end
    <3>2. CASE on_stream_cancel(d)
      <4>1. /\ streams'[e] = IF e = d THEN streams[e] \ {Head(inbox[d]).id} ELSE streams[e]
            /\ cut' = IF Head(inbox[d]).id \in streams[d]
                        THEN cut \cup {<<d, Head(inbox[d]).id>>} ELSE cut
        BY <3>2 DEF on_stream_cancel, Unregister, TypesInv
      <4> QED
        BY <1>a, <4>1
    <3> QED
      BY <1>8, <3>1, <3>2
  <2>4. Steady(e, id)
    BY <1>b, <2>1, <2>3 DEF Steady
  <2>5. CASE d = e
    <3>1. ~DataAt(e, 1, id)
      BY <2>1, <2>2, <2>5 DEF DataAt, IsData
    <3> QED
      BY <1>0, <2>1, <2>4, <2>5, <3>1, CompleteReadOther
  <2>6. CASE d # e
    BY <1>0, <2>1, <2>4, <2>6, ReadFrom, CompleteKept
  <2> QED
    BY <2>5, <2>6
<1>9. ASSUME NEW h \in Hdls, on_message_rejected(h)
      PROVE  Complete(e, id)'
  <2>d. PICK d \in Ends : d = <<h, "server">>
    BY DEF Ends, Sides
  <2>1. Reads(d) /\ UNCHANGED <<connVars, tableVars, written, dispatched>>
    BY <1>9, <2>d DEF on_message_rejected, Reads
  <2>2. inbox'[e] = inbox[e]
    BY <1>a, <2>d, <2>1, ReadFrom
  <2> QED
    BY <1>1, <2>1, <2>2
<1>10. ASSUME NEW h \in Hdls, link_lost(h) \/ on_close_client(h) \/ on_close(h)
       PROVE  Complete(e, id)'
  <2>1. UNCHANGED <<tableVars, inbox, historyVars>>
    BY <1>10 DEF link_lost, on_close_client, on_close
  <2>2. link'[e[1]] = "up" => link[e[1]] = "up"
    BY <1>a, <1>10 DEF link_lost, on_close_client, on_close, TypesInv
  <2> QED
    BY <1>1, <2>1, <2>2
<1>11. ASSUME NEW h \in Hdls, erase_streams(h)
       PROVE  Complete(e, id)'
  <2>1. streams'[e] = streams[e]
    BY <1>a, <1>11 DEF erase_streams, TypesInv
  <2> QED
    BY <1>1, <1>11, <2>1 DEF erase_streams
<1>12. CASE UNCHANGED vars
  BY <1>1, <1>12 DEF vars
<1> QED
  BY <1>2, <1>3, <1>4, <1>5, <1>6, <1>7, <1>8, <1>9, <1>10, <1>11, <1>12, StreamSteps
  DEF Others

\* The number that goes with STREAM_END.
EndsInv ==
  \A e \in Ends : \A i \in DOMAIN inbox[e] :
    inbox[e][i].op = opcodes.STREAM_END => inbox[e][i].arg \in Nat

LEMMA EndsStep ==
  ASSUME TypesInv, Separate, EndsInv, [Next]_vars
  PROVE  EndsInv'
<1> USE DEF connVars, tableVars, historyVars
<1>1. CASE UNCHANGED inbox
  BY <1>1 DEF EndsInv
<1>2. ASSUME NEW d \in Ends, Reads(d)
      PROVE  EndsInv'
  BY <1>2, ReadFrom DEF EndsInv
<1>3. ASSUME NEW d \in Ends, NEW p \in Messages, Appended(d, p),
             p.op = opcodes.STREAM_END => p.arg \in Nat
      PROVE  EndsInv'
  <2>1. ASSUME NEW e \in Ends, NEW i \in DOMAIN inbox'[e]
        PROVE  inbox'[e][i] = p \/ (i \in DOMAIN inbox[e] /\ inbox'[e][i] = inbox[e][i])
    BY <1>3, <2>1, AppendedTo
  <2> QED
    BY <1>3, <2>1 DEF EndsInv
<1>4. ASSUME NEW e \in Ends, send_start(e)
      PROVE  EndsInv'
  <2>q. PICK q : q = [op |-> opcodes.STREAM_START, id |-> starting[e],
                      arg |-> SentOpCode(e[1], starting[e])]
    OBVIOUS
  <2>1. q \in Messages /\ q.op # opcodes.STREAM_END
    BY <1>4, <2>q, StartingFacts, OpCodesApart DEF send_start
  <2>2. UNCHANGED inbox \/ Appended(Peer(e), q)
    BY <1>4, <2>q, Sends DEF send_start
  <2> QED
    BY <1>1, <1>3, <2>1, <2>2, EndFacts
<1>5. ASSUME NEW e \in Ends, NEW id \in Ids, write(e, id) \/ end(e, id) \/ cancel(e, id)
      PROVE  EndsInv'
  <2>1. PICK p \in Messages : Called(e, id, p)
    BY <1>5, Calls
  <2>2. p.op = opcodes.STREAM_END => p.arg \in Nat
    BY <2>1, OpCodesApart, CallFacts DEF Called
  <2>3. UNCHANGED inbox \/ Appended(Peer(e), p)
    BY <2>1 DEF Called
  <2> QED
    BY <1>1, <1>3, <2>2, <2>3, EndFacts
<1>6. ASSUME NEW d \in Ends,
             \/ on_stream_start(d) \/ on_stream_data(d) \/ on_stream_end(d)
             \/ on_stream_cancel(d)
      PROVE  EndsInv'
  <2>1. Reads(d)
    BY <1>6 DEF on_stream_start, on_stream_data, on_stream_end, on_stream_cancel, Receive,
                Reads
  <2> QED
    BY <1>2, <2>1
<1>7. ASSUME NEW h \in Hdls, on_message_rejected(h)
      PROVE  EndsInv'
  <2>1. <<h, "server">> \in Ends /\ Reads(<<h, "server">>)
    BY <1>7 DEF on_message_rejected, Reads, Ends, Sides
  <2> QED
    BY <1>2, <2>1
<1>8. ASSUME NEW h \in Hdls,
             link_lost(h) \/ on_close_client(h) \/ on_close(h) \/ erase_streams(h)
      PROVE  EndsInv'
  BY <1>1, <1>8 DEF link_lost, on_close_client, on_close, erase_streams
<1>9. ASSUME NEW e \in Ends, NEW id \in Ids, set_data_handler(e, id)
      PROVE  EndsInv'
  BY <1>1, <1>9 DEF set_data_handler
<1>10. ASSUME NEW e \in Ends, NEW op \in OpCodes, start_stream(e, op)
       PROVE  EndsInv'
  BY <1>1, <1>10 DEF start_stream
<1>11. CASE UNCHANGED vars
  BY <1>1, <1>11 DEF vars
<1> QED
  BY <1>4, <1>5, <1>6, <1>7, <1>8, <1>9, <1>10, <1>11, StreamSteps DEF Others

LEMMA CompleteInit == Init => LinksInv /\ EndsInv /\ CompleteInv
<1> SUFFICES ASSUME Init PROVE LinksInv /\ EndsInv /\ CompleteInv
  OBVIOUS
<1>1. LinksInv /\ EndsInv
  BY DEF Init, LinksInv, EndsInv
<1>2. ASSUME NEW e \in Ends, NEW id \in Ids
      PROVE  Complete(e, id)
  <2>1. /\ handles[e] = {} /\ inbox[e] = <<>> /\ <<e, id>> \in Ends \X Ids
        /\ dispatched[<<e, id>>] = <<>> /\ written[<<e, id>>] = 0
    BY DEF Init
  <2>2. Given(e, id) = 0 /\ Last(<<e, id>>) = 0
    BY <2>1 DEF Given, Last, Pipes!LastReceived
  <2>3. \A i \in Nat, n \in Nat : ~ChunkAt(e, i, id, n) /\ ~EndAt(e, i, id, n)
    BY <2>1 DEF ChunkAt, EndAt, DataAt
  <2> QED
    BY <2>1, <2>2, <2>3 DEF Complete
<1> QED
  BY <1>1, <1>2 DEF CompleteInv

(***************************************************************************)
(* When STREAM_END reaches the client's handler of a stream the server     *)
(* started, the handler was given every chunk written before end().  The   *)
(* code uses the default op code for chunks (Stream::write): where the     *)
(* configured one differs, no chunk reaches a handler, hence the second    *)
(* hypothesis.                                                             *)
(***************************************************************************)
THEOREM EndAfterItsDataHolds ==
  Separate /\ opcodes.STREAM_DATA = OpCode.STREAM_DATA => (Spec => []EndAfterItsData)
<1> SUFFICES ASSUME Separate, opcodes.STREAM_DATA = OpCode.STREAM_DATA
             PROVE  Spec => []EndAfterItsData
  OBVIOUS
<1> DEFINE Inv == TypesInv /\ IdsInv /\ DataInv /\ FindInv /\ LinksInv
                  /\ EndsInv /\ CompleteInv
<1>1. Inv /\ [Next]_vars => Inv'
  BY TypesStep, IdsStep, DataStep, FindStep, LinksStep, EndsStep, CompleteStep
<1>2. Inv => EndAfterItsData
  <2> SUFFICES ASSUME Inv, NEW h \in Hdls, NEW e \in Ends, e = <<h, "client">>,
                      inbox[e] # <<>>, Head(inbox[e]).op = opcodes.STREAM_END,
                      StartedBy(Peer(e), Head(inbox[e]).id),
                      Head(inbox[e]).id \in handles[e],
                      <<e, Head(inbox[e]).id>> \notin cut
               PROVE  Len(dispatched[<<e, Head(inbox[e]).id>>]) >= Head(inbox[e]).arg
    BY DEF EndAfterItsData, Ends, Sides
  <2>p. PICK p \in Messages : p = Head(inbox[e])
    BY HeadMessage DEF TypesInv
  <2>1. /\ 1 \in DOMAIN inbox[e] /\ p = inbox[e][1] /\ p.id \in Ids
        /\ \A j \in Nat : j < 1 => j \notin DOMAIN inbox[e]
    <3>1. inbox[e] \in Seq(Messages)
      BY DEF TypesInv
    <3>2. DOMAIN inbox[e] = 1..Len(inbox[e]) /\ Len(inbox[e]) \in Nat /\ Len(inbox[e]) # 0
      BY <3>1
    <3>3. 1 \in DOMAIN inbox[e] /\ \A j \in Nat : j < 1 => j \notin DOMAIN inbox[e]
      BY <3>2
    <3>4. Head(inbox[e]) = inbox[e][1]
      BY <3>1
    <3> QED
      BY <2>p, <3>3, <3>4, MessageFacts
  <2>2. p.arg \in Nat
    BY <2>p, <2>1 DEF EndsInv
  <2>3. Complete(e, p.id) /\ EndAt(e, 1, p.id, p.arg)
    BY <2>p, <2>1 DEF CompleteInv, Tracked, EndAt
  <2>g. PICK g \in Nat : g = Given(e, p.id)
    BY <2>1, GivenNat
  <2>4. ~(g < p.arg)
    <3> SUFFICES ASSUME g < p.arg PROVE FALSE
      OBVIOUS
    <3>1. PICK j \in Nat : j < 1 /\ ChunkAt(e, j, p.id, p.arg)
      BY <2>2, <2>3, <2>g DEF Complete
    <3> QED
      BY <2>1, <3>1 DEF ChunkAt, DataAt
  <2> QED
    BY <2>p, <2>2, <2>g, <2>4 DEF Given
<1>3. Init => Inv
  BY TypesInit, IdsInit, DataInit, FindInit, CompleteInit
<1> QED
  BY <1>1, <1>2, <1>3, PTL DEF Spec
=============================================================================
