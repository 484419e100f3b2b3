---------------------------- MODULE RateLimiter ----------------------------
(***************************************************************************)
(* RateLimiter (rate_limiter.cpp), driven the way the server's handlers    *)
(* drive it (ws_server.cpp).  All its callers run on the server's io       *)
(* thread, one handler at a time, so a handler's check and the record that *)
(* follows are one step.                                                   *)
(*                                                                         *)
(* Time is counted in ticks: Second of them make the second of the token   *)
(* bucket, Window of them the minute of the sliding windows.  Tokens are   *)
(* counted in 1/Second of a token.  The code counts them in doubles, whose *)
(* rounding is left to check_message_rate.                                 *)
(***************************************************************************)
EXTENDS Integers, Sequences, FiniteSets, FiniteSetsExt

CONSTANTS Ips,                   \* what get_remote_ip returns
          Enabled,               \* rate_limit.enabled
          MessagesPerSecond,     \* 0 = unlimited, as for the next two
          HandshakesPerMinute,
          ConnectionsPerMinute,
          BurstSize,             \* 0 = MessagesPerSecond
          MaxTotal,              \* connection_limits.max_total, 0 = unlimited
          Second,                \* ticks in a second
          Window,                \* ticks in a minute
          MaxTime,               \* bound: ticks
          MaxOpens,              \* bound: connections per address
          MaxMessages            \* bound: messages per connection

ASSUME LimiterAssumption ==
  /\ Enabled \in BOOLEAN
  /\ {MessagesPerSecond, HandshakesPerMinute, ConnectionsPerMinute, BurstSize,
      MaxTotal, MaxTime, MaxOpens, MaxMessages} \subseteq Nat
  /\ Second \in Nat \ {0}
  /\ Window \in Nat \ {0}

VARIABLES
  now,               \* clock::now()
  per_ip,            \* per_ip[ip] for the addresses in the map
  message_buckets,   \* message_buckets[id] for the connections in the map
  conn_to_ip,        \* conn_to_ip[id] for the connections in the map
  total_connections,
  next_conn_id,
  waiting,           \* waiting[ip]: connections that have not sent their hello
  closing,           \* connections the server is closing
  \* History, not state of the code:
  opens,             \* opens[ip]: how many connections were attempted
  opened,            \* opened[ip]: when a connection was recorded
  shaken,            \* shaken[ip]: when a handshake was recorded
  passed,            \* passed[id]: when a message was recorded
  messages           \* messages[id]: how many messages came

limiterVars == <<per_ip, message_buckets, conn_to_ip, total_connections, next_conn_id>>
serverVars == <<waiting, closing>>
historyVars == <<opens, opened, shaken, passed, messages>>
vars == <<now, limiterVars, serverVars, historyVars>>

-----------------------------------------------------------------------------
(***************************************************************************)
(* SlidingWindow: the scan goes backwards and ends at the first timestamp  *)
(* before the cutoff; cleaning goes forwards and ends at the first one not *)
(* before it.                                                              *)
(***************************************************************************)
cutoff == now - Window

\* Mistake: a timestamp at the cutoff is not counted.
count_last_Strict(w) ==
  Cardinality({i \in DOMAIN w : \A j \in i..Len(w) : w[j] > cutoff})

count_last(w) ==
  Cardinality({i \in DOMAIN w : \A j \in i..Len(w) : w[j] >= cutoff})

\* Mistake: a timestamp at the cutoff is dropped.
clean_Inclusive(w) ==
  LET kept == {i \in DOMAIN w : \E j \in 1..i : w[j] > cutoff}
  IN SubSeq(w, Len(w) - Cardinality(kept) + 1, Len(w))

clean(w) ==
  LET kept == {i \in DOMAIN w : \E j \in 1..i : w[j] >= cutoff}
  IN SubSeq(w, Len(w) - Cardinality(kept) + 1, Len(w))

(***************************************************************************)
(* per_ip_[ip] makes an empty entry for an address that has none.          *)
(***************************************************************************)
Entry(ip) ==
  IF ip \in DOMAIN per_ip THEN per_ip[ip]
  ELSE [connections |-> <<>>, handshakes |-> <<>>, active |-> 0]

WithEntry(ip, e) ==
  [j \in DOMAIN per_ip \cup {ip} |-> IF j = ip THEN e ELSE per_ip[j]]

Limited(limit) == Enabled /\ limit # 0

check_connection_rate(ip) ==
  Limited(ConnectionsPerMinute)
    => count_last(Entry(ip).connections) < ConnectionsPerMinute

check_handshake_rate(ip) ==
  Limited(HandshakesPerMinute)
    => count_last(Entry(ip).handshakes) < HandshakesPerMinute

(***************************************************************************)
(* TokenBucket.  Both the check and the record refill it first.            *)
(***************************************************************************)
Capacity == Second * (IF BurstSize > 0 THEN BurstSize ELSE MessagesPerSecond)

\* Mistake: the time of the refill is not stored.
refill_Kept(b) ==
  [b EXCEPT !.tokens =
     Min({b.tokens + (now - b.last_refill) * MessagesPerSecond, Capacity})]

\* Mistake: the refill is cut to whole tokens.
refill_WholeTokens(b) ==
  LET gained == ((now - b.last_refill) * MessagesPerSecond) \div Second
  IN [tokens |-> Min({b.tokens + gained * Second, Capacity}), last_refill |-> now]

refill(b) ==
  [tokens |-> Min({b.tokens + (now - b.last_refill) * MessagesPerSecond, Capacity}),
   last_refill |-> now]

Checked(id) ==
  IF Limited(MessagesPerSecond) /\ id \in DOMAIN message_buckets
    THEN [message_buckets EXCEPT ![id] = refill(@)]
    ELSE message_buckets

(***************************************************************************)
(* The verdicts it may return.  What the doubles are off by since the      *)
(* bucket was full is taken to be less than what the rate adds in a tick,  *)
(* so it decides only where the exact amount is one token: there the code  *)
(* may find 1.0, which passes, or 0.9999999999999999, which does not.      *)
(***************************************************************************)
check_message_rate(id) ==
  IF Limited(MessagesPerSecond) /\ id \in DOMAIN message_buckets
    THEN {ok \in BOOLEAN : IF ok THEN Checked(id)[id].tokens >= Second
                          ELSE Checked(id)[id].tokens <= Second}
    ELSE {TRUE}

TakeToken(b) == IF b.tokens >= Second THEN [b EXCEPT !.tokens = @ - Second] ELSE b

record_message(id, buckets) ==
  LET full == [tokens |-> Capacity, last_refill |-> now]
      bucket == TakeToken(IF id \in DOMAIN buckets THEN refill(buckets[id]) ELSE full)
  IN IF Enabled
       THEN [j \in DOMAIN buckets \cup {id} |-> IF j = id THEN bucket ELSE buckets[j]]
       ELSE buckets

-----------------------------------------------------------------------------
Ids == 0..(next_conn_id - 1)

Init ==
  /\ now = 0
  /\ per_ip = <<>>
  /\ message_buckets = <<>>
  /\ conn_to_ip = <<>>
  /\ total_connections = 0
  /\ next_conn_id = 0
  /\ waiting = [ip \in Ips |-> 0]
  /\ closing = {}
  /\ opens = [ip \in Ips |-> 0]
  /\ opened = [ip \in Ips |-> <<>>]
  /\ shaken = [ip \in Ips |-> <<>>]
  /\ passed = <<>>
  /\ messages = <<>>

Logged(log, key) == [log EXCEPT ![key] = Append(@, now)]

(***************************************************************************)
(* WsServerWrapper::on_open: a connection over the rate is not recorded, a *)
(* connection over the total is.                                           *)
(***************************************************************************)
record_connection(ip) ==
  /\ per_ip' = IF Enabled
                 THEN WithEntry(ip, [Entry(ip) EXCEPT !.connections = Append(@, now)])
                 ELSE per_ip
  /\ opened' = Logged(opened, ip)

TotalReached == MaxTotal > 0 /\ total_connections >= MaxTotal

on_open(ip) ==
  /\ opens[ip] < MaxOpens
  /\ opens' = [opens EXCEPT ![ip] = @ + 1]
  /\ IF check_connection_rate(ip)
       THEN /\ record_connection(ip)
            /\ waiting' = [waiting EXCEPT ![ip] = IF TotalReached THEN @ ELSE @ + 1]
       ELSE UNCHANGED <<per_ip, opened, waiting>>
  /\ UNCHANGED <<now, message_buckets, conn_to_ip, total_connections, next_conn_id,
                 closing, shaken, passed, messages>>

(***************************************************************************)
(* WsServerWrapper::on_message, the ClientHello.  Whatever becomes of it,  *)
(* the connection does not wait for a hello any more: it has a session or  *)
(* is closed.  Only a hello that was answered is recorded, and only one    *)
(* whose identity is accepted registers the connection.                    *)
(***************************************************************************)
HelloRefused(ip) ==
  /\ ~check_handshake_rate(ip)
  /\ UNCHANGED <<per_ip, conn_to_ip, total_connections, next_conn_id, shaken,
                 passed, messages>>

\* The hello is malformed, has no common version or a bad signature.
HelloFails(ip) ==
  /\ check_handshake_rate(ip)
  /\ per_ip' = IF Limited(HandshakesPerMinute) THEN WithEntry(ip, Entry(ip)) ELSE per_ip
  /\ UNCHANGED <<conn_to_ip, total_connections, next_conn_id, shaken, passed, messages>>

Shaken(ip) ==
  IF Enabled THEN [Entry(ip) EXCEPT !.handshakes = Append(@, now)] ELSE Entry(ip)

HelloRejected(ip) ==
  /\ check_handshake_rate(ip)
  /\ per_ip' = IF Enabled THEN WithEntry(ip, Shaken(ip)) ELSE per_ip
  /\ shaken' = Logged(shaken, ip)
  /\ UNCHANGED <<conn_to_ip, total_connections, next_conn_id, passed, messages>>

register_connection(ip) ==
  /\ check_handshake_rate(ip)
  /\ per_ip' = WithEntry(ip, [Shaken(ip) EXCEPT !.active = @ + 1])
  /\ total_connections' = total_connections + 1
  /\ next_conn_id' = next_conn_id + 1
  /\ conn_to_ip' = [id \in DOMAIN conn_to_ip \cup {next_conn_id} |->
                      IF id = next_conn_id THEN ip ELSE conn_to_ip[id]]
  /\ shaken' = Logged(shaken, ip)
  /\ passed' = [id \in 0..next_conn_id |-> IF id = next_conn_id THEN <<>> ELSE passed[id]]
  /\ messages' = [id \in 0..next_conn_id |-> IF id = next_conn_id THEN 0 ELSE messages[id]]

on_hello(ip) ==
  /\ waiting[ip] > 0
  /\ waiting' = [waiting EXCEPT ![ip] = @ - 1]
  /\ \/ HelloRefused(ip)
     \/ HelloFails(ip)
     \/ HelloRejected(ip)
     \/ register_connection(ip)
  /\ UNCHANGED <<now, message_buckets, closing, opens, opened>>

\* The connection goes away without a hello: the limiter is not told.
on_close_waiting(ip) ==
  /\ waiting[ip] > 0
  /\ waiting' = [waiting EXCEPT ![ip] = @ - 1]
  /\ UNCHANGED <<now, limiterVars, closing, historyVars>>

(***************************************************************************)
(* WsServerWrapper::on_message for a connection with a session.  A packet  *)
(* that does not decrypt is checked but not recorded, and so is one whose  *)
(* payload is too large.                                                   *)
(***************************************************************************)
MessageRefused(id) ==
  /\ FALSE \in check_message_rate(id)
  /\ message_buckets' = Checked(id)
  /\ closing' = closing \cup {id}
  /\ UNCHANGED passed

MessageIgnored(id) ==
  /\ TRUE \in check_message_rate(id)
  /\ message_buckets' = Checked(id)
  /\ \E too_large \in BOOLEAN : closing' = IF too_large THEN closing \cup {id} ELSE closing
  /\ UNCHANGED passed

MessageRecorded(id) ==
  /\ TRUE \in check_message_rate(id)
  /\ message_buckets' = record_message(id, Checked(id))
  /\ passed' = Logged(passed, id)
  /\ UNCHANGED closing

on_message(id) ==
  /\ id \in DOMAIN conn_to_ip \ closing
  /\ messages[id] < MaxMessages
  /\ messages' = [messages EXCEPT ![id] = @ + 1]
  /\ MessageRefused(id) \/ MessageIgnored(id) \/ MessageRecorded(id)
  /\ UNCHANGED <<now, per_ip, conn_to_ip, total_connections, next_conn_id, waiting,
                 opens, opened, shaken>>

\* WsServerWrapper::on_close for a connection with a session.
unregister_connection(id) ==
  LET ip == conn_to_ip[id]
  IN /\ id \in DOMAIN conn_to_ip
     /\ total_connections' = total_connections - 1
     /\ per_ip' = IF ip \in DOMAIN per_ip /\ per_ip[ip].active > 0
                    THEN [per_ip EXCEPT ![ip].active = @ - 1] ELSE per_ip
     /\ conn_to_ip' = [j \in DOMAIN conn_to_ip \ {id} |-> conn_to_ip[j]]
     /\ message_buckets' = [j \in DOMAIN message_buckets \ {id} |-> message_buckets[j]]
     /\ closing' = closing \ {id}
     /\ UNCHANGED <<now, next_conn_id, waiting, historyVars>>

\* Mistake: an address with open connections is erased.
Unused_NoRecent(e) == e.connections = <<>> /\ e.handshakes = <<>>

Unused(e) == e.active = 0 /\ e.connections = <<>> /\ e.handshakes = <<>>

cleanup ==
  LET Cleaned(e) == [e EXCEPT !.connections = clean(@), !.handshakes = clean(@)]
      kept == {ip \in DOMAIN per_ip : ~Unused(Cleaned(per_ip[ip]))}
  IN /\ per_ip' = [ip \in kept |-> Cleaned(per_ip[ip])]
     /\ UNCHANGED <<now, message_buckets, conn_to_ip, total_connections, next_conn_id,
                    serverVars, historyVars>>

tick ==
  /\ now < MaxTime
  /\ now' = now + 1
  /\ UNCHANGED <<limiterVars, serverVars, historyVars>>

Next ==
  \/ \E ip \in Ips : on_open(ip) \/ on_hello(ip) \/ on_close_waiting(ip)
  \/ \E id \in Ids : on_message(id) \/ unregister_connection(id)
  \/ cleanup
  \/ tick

Spec == Init /\ [][Next]_vars

-----------------------------------------------------------------------------
(***************************************************************************)
(* The types of the limiter's state.                                       *)
(***************************************************************************)
TypeOK ==
  /\ now \in 0..MaxTime
  /\ DOMAIN per_ip \subseteq Ips
  /\ \A ip \in DOMAIN per_ip :
       per_ip[ip] \in [connections : Seq(Nat), handshakes : Seq(Nat), active : Nat]
  /\ DOMAIN message_buckets \subseteq Ids
  /\ \A id \in DOMAIN message_buckets :
       message_buckets[id] \in [tokens : 0..Capacity, last_refill : 0..now]
  /\ DOMAIN conn_to_ip \subseteq Ids
  /\ \A id \in DOMAIN conn_to_ip : conn_to_ip[id] \in Ips
  /\ total_connections \in Nat
  /\ next_conn_id \in Nat
  /\ waiting \in [Ips -> Nat]
  /\ closing \subseteq DOMAIN conn_to_ip

(***************************************************************************)
(* In no closed interval of a minute does an address get more than the     *)
(* configured number of connections or of handshakes, whenever cleanup()   *)
(* runs and whatever was refused in between (check_connection_rate,        *)
(* check_handshake_rate, count_last).                                      *)
(***************************************************************************)
AtMost(limit, log) ==
  Limited(limit) =>
    \A i \in DOMAIN log : i + limit \in DOMAIN log => log[i + limit] - log[i] > Window

WindowRespected ==
  \A ip \in Ips : /\ AtMost(ConnectionsPerMinute, opened[ip])
                  /\ AtMost(HandshakesPerMinute, shaken[ip])

(***************************************************************************)
(* The verdict on the next connection or handshake of an address is the    *)
(* one its whole history gives: what cleanup() throws away, entries of     *)
(* addresses included, never matters, and nobody is refused too long.      *)
(***************************************************************************)
Recent(log) == Cardinality({i \in DOMAIN log : log[i] + Window >= now})

VerdictsExact ==
  \A ip \in Ips :
    /\ check_connection_rate(ip) <=>
         (Limited(ConnectionsPerMinute) => Recent(opened[ip]) < ConnectionsPerMinute)
    /\ check_handshake_rate(ip) <=>
         (Limited(HandshakesPerMinute) => Recent(shaken[ip]) < HandshakesPerMinute)

(***************************************************************************)
(* In any interval a connection gets at most the burst and what the rate   *)
(* adds during the interval (check_message_rate, record_message).          *)
(***************************************************************************)
RateRespected ==
  Limited(MessagesPerSecond) =>
    \A id \in Ids : \A i, j \in DOMAIN passed[id] : i <= j =>
      (j - i + 1) * Second
         <= Capacity + (passed[id][j] - passed[id][i]) * MessagesPerSecond

(***************************************************************************)
(* A message of a registered connection passes only when a bucket that is  *)
(* filled all the time holds a token, and is refused only when that bucket *)
(* holds no more than one: refilling in steps, at checks of packets that   *)
(* are never recorded too, adds no error to the rounding of the doubles,   *)
(* which shows at exactly one token (check_message_rate, record_message).  *)
(***************************************************************************)
Content(log) ==
  Min({Capacity} \cup {Capacity - (Len(log) - i + 1) * Second
                         + (now - log[i]) * MessagesPerSecond : i \in DOMAIN log})

VerdictFitsBucket ==
  Limited(MessagesPerSecond) =>
    \A id \in DOMAIN conn_to_ip :
      /\ check_message_rate(id) # {}
      /\ TRUE \in check_message_rate(id) => Content(passed[id]) >= Second
      /\ FALSE \in check_message_rate(id) => Content(passed[id]) <= Second

(***************************************************************************)
(* The counters agree with the registered connections: the total that      *)
(* on_open compares with max_total, the count of every address, also after *)
(* cleanup(), and no bucket is left of a connection that is gone.          *)
(***************************************************************************)
CountersAgree ==
  /\ total_connections = Cardinality(DOMAIN conn_to_ip)
  /\ \A ip \in Ips :
       Entry(ip).active = Cardinality({id \in DOMAIN conn_to_ip : conn_to_ip[id] = ip})
  /\ DOMAIN message_buckets \subseteq DOMAIN conn_to_ip
=============================================================================
