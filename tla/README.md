# ObscuraProto: TLA+ models and proofs

ObscuraProto is a C++ library for encrypted messaging over WebSockets. This
directory holds TLA+ modules that model its sessions, its server and client
wrappers, streams, requests in both directions, the rate limiter, the byte
formats and the configuration file, TLC configurations that check them on small
instances, and TLAPS proofs of the safety properties for every instance. Paths
below are relative to the repository root.

## The system

| Part | State | Operations | Interacts with |
|---|---|---|---|
| `Session` (`src/session.cpp`) | role, versions, ephemeral key pair, session keys, own and peer identity, send and receive counter | initiate, respond, finalize, encrypt, decrypt | calls `Crypto` and `VersionNegotiator`; owned by a wrapper |
| `Crypto` (`src/crypto.cpp`) | none | key pairs, sign, verify, key agreement, AEAD | libsodium |
| `VersionNegotiator` (`src/version.cpp`) | none | `negotiate` | called by `Session` |
| `WsServerWrapper` (`src/ws_server.cpp`) | sessions, anonymous sessions, identity maps, pending requests and deadlines, handshake times, timer, stop flag; seven mutexes | `on_open`, `on_message`, `on_close`, the timeout sweep, `send`, `async_request`, the identity calls, `stop` | one io thread (websocketpp/asio), any number of user threads, user callbacks, `RateLimiter`, one `Session` per connection |
| `WsClientWrapper` (`src/ws_client.cpp`) | connection, pending requests and deadlines, watchdog thread and its flags | `connect`, the handlers, `async_request`, `disconnect`, the watchdog | io thread, watchdog thread, user threads, one `Session` |
| `RateLimiter` (`src/rate_limiter.cpp`) | sliding windows and active count per address, token bucket per connection, total | checks, records, register, unregister, cleanup | called by the server's handlers |
| `Stream` (`src/stream.cpp`) | callbacks and id; the wrappers keep tables of streams | start, write, end, cancel, dispatch | wrappers of both ends, user threads, io threads |
| `Payload`, hello messages (`src/packet.cpp`, `src/handshake_messages.cpp`) | the offset of a `PayloadReader` | serialise, parse | everybody |
| `Config` (`src/config.cpp`) | values; while reading, the current section | read YAML | everybody |

What is hard in it, and what makes each part correct:

* Sessions run over a network that reorders and repeats, and may handshake
  again. Correct means: the client talks to the server it expects, both ends
  agree on keys and version, the reported identity is the peer's, no counter is
  reused under a key, and what is decrypted is genuine, in order and taken once.
* A request to a client is completed by one of five parties (response, timeout
  sweep, close, failed send, `stop`) on several threads, under locks that are
  released and taken again between the steps. Correct means: exactly one of
  them completes it.
* The client has in addition a watchdog with a condition variable, created on
  demand and joined by `disconnect`, and `disconnect` may run on the io thread.
* Limits are decided from windows that are cleaned and buckets that are refilled
  at other times than they are read.

* Streams of both ends share one connection and one id space per connection; a
  stream is registered, announced, written, ended and cancelled by different
  threads of two programs. Correct means: ids never meet, data finds its stream
  and no other, in order, and nothing follows a cancellation.
* Handlers on either io thread may block in `sync_request` for an answer only
  that io thread can read, and the client sends without a lock.
* Parsers see data that is cut short or damaged; lengths and counts have 16 bits.

`PROJECT.json` lists the hazards, each at its line, with the properties that
would catch it going wrong.

## Modules

| Module | Models |
|---|---|
| `LossyChannel` | what a pair of sessions promises: payloads of the other role, at most once, in order, possibly with losses |
| `Session` | `Session` with symbolic `Crypto` and `VersionNegotiator`; any number of clients and servers |
| `WsServer` | `WsServerWrapper` |
| `WsClient` | `WsClientWrapper` |
| `RateLimiter` | `RateLimiter`, driven the way the server's handlers drive it |
| `StreamPipes` | what streams promise: chunks of their own pipe, at most once, in order, none after a cancellation |
| `Streams` | `Stream` and the stream tables of both wrappers, over several connections |
| `Exchange` | requests and responses in both directions over one connection: both wrappers composed with the counters of their sessions |
| `Wire` | payloads, parameters, integers, hellos and nested requests and responses as bytes; `PayloadReader` |
| `Config` | `Config::from_yaml` |
| `Numerals` | the number that digits or bytes stand for |
| `Formats` | `Wire` and `Config` together: a buffer is filled and read, or a file is read |
| `MC*` | instances for TLC |
| `Iteration` | induction and recursion over the naturals as first-order lemmas |
| `SessionProofs` | `Session`: negotiation, types, ownership of keys; the server is authenticated, both ends agree, the identity is the peer's; counters are unique, and it implements `LossyChannel` |
| `ServerProofs` | the safety properties of `WsServer` |
| `ClientProofs` | the safety properties of `WsClient` |
| `ExchangeProofs` | the safety properties of `Exchange` |
| `StreamsProofs` | the safety properties of `Streams`; it implements `StreamPipes` |
| `RateLimiterProofs` | the properties of `RateLimiter` |
| `FormatsProofs` | network order, the reader, hellos, messages and the configuration file |

Definitions keep the names of the code (a member `x_` is the variable `x`, a
method is the action of that name). An operator named `X_Something` that is
introduced as a "Mistake" is not part of the model; it is `X` with a plausible
bug, and shows which property would notice it.

### Session

The state of a session is its members, as functions over session objects. Hellos
and packets stay in sets once produced, and any session of the other role may be
handed any of them, any number of times; hellos also arrive with an unusable
signature or with another identity. Key pairs, signatures, keys and packets are
terms: a signature verifies only for its signer and its message, a packet only
decrypts under its key. Failures of libsodium and wrong key sizes are left out.
`sent` and `delivered` are history and are the refinement mapping to
`LossyChannel`. Bounds: `MaxKeyPairs`, `MaxAttempts`, `MaxCounter`.

### WsServer

One io thread runs the handlers and the timer one at a time; user threads and
the thread in `stop` run in parallel. A block under one mutex is one step, and a
method that takes several mutexes in turn is several steps: `on_close` is
`on_close`, `unroute`, `fail_pending`; a hello is `on_hello`, `emplace`, `route`;
the timer is `timer_fires`, `sweep_idle`, `sweep_handshakes`, `sweep_requests`,
`schedule_timeout_check`, `set_timer`; `async_request` is `async_request`,
`register_request`, `send`, `undo_request`; `stop` is `stop_listening` to
`stop_join`. Time and the limiter's verdicts are choices: which sessions are
idle, which handshakes slow, which deadlines passed. The transport (`accept`,
`PeerCloses`, `Closed`, `io_drains`) is modelled from how the wrapper uses
websocketpp: a closed connection's close handler runs later on the io thread, a
connection that is closing delivers no more messages, and the io loop returns
when nothing is left to wait for. `erased_by` is history: the connection whose
close erased the route of an identity since that identity was routed last.

### WsClient

The io thread, user threads in `async_request`, a user thread in `disconnect`
and the watchdog. The watchdog holds `pending_requests_mutex_` from its check of
the stop flag to its wait, which is why the mutex is a variable here: the flag
is set without it. Replacing the handle of a thread that was not joined is
`std::terminate`; the model stops there. A wrapper connects once; spurious
wake-ups of the condition variable are left out, as nothing may rely on them.

### RateLimiter

All callers run on the io thread, so a handler with its checks and records is
one step. Time is in ticks, `Window` of them a minute, `Second` of them a second;
tokens are counted in fractions of `1/Second`. The code counts them in doubles and
compares with `1.0`. What it has rounded since the bucket was last full is taken
to be less than the rate adds in a tick, so that rounding decides only where the
bucket holds exactly one token: there `check_message_rate` may return either
verdict, also in the cases in which the doubles happen to be exact.
`check_active_connections`, which nothing calls, is left out.

### Streams

An end is a connection and a side. A client has a wrapper of its own, the server
one for all connections, with a counter of stream ids each. `start_stream` draws
an id and registers the stream in one step; `send_start` sends `STREAM_START`
and hands the stream to the application, unless `send` throws, which leaves the
entry behind. The application sets handlers (`set_data_handler`), writes, ends
and cancels. The io thread of the other end runs `on_stream_start`, `_data`,
`_end`, `_cancel`. `on_stream_start` looks for the op code of the stream in one of
three tables (`Table`): that of the client, that of the server for authenticated
sessions, or its table for anonymous ones. `HandlerOf` is the handler found there, else
the general handler of that wrapper if it has one, else nobody; `given` remembers
whom a stream was given to. Tables are filled before connections open, and all
clients register the same. The handler of an incoming stream sets its handlers
before it returns, as in the examples. Payloads travel in order. Those to the server may
be rejected (`on_message_rejected`), which is what `Exchange` shows concurrent
sends of a client to lead to. `on_close` of the server is two steps, the session
and then the streams, so that `start_stream` falls in between. Chunks are
numbered; `written`, `dispatched` and `cut` are history and the refinement
mapping to `StreamPipes`.

### Exchange

Workers are the user threads of both ends and the two io threads. A worker calls
`sync_request`, sends, waits; an io thread also reads packets and runs request
handlers, which may call `sync_request` themselves. Requests have timeouts;
`sync_request_to_identity` waits without one (`bounded`). The server encrypts and
transmits in one step under `sessions_mutex_`. On the client
`send_counter_++; encrypt(payload, send_counter_, key)` is a data race, modelled
as a load, a store and a transmission with either value. A packet whose counter
does not rise is ignored by the server; the client disconnects. The inside of
promises, watchdog, `disconnect` and `on_close` is the subject of `WsServer` and
`WsClient`.

### Wire and Config

`Wire` translates the formats as operators over sequences of bytes, with the
number of values of a byte (`Base`) and the lengths of keys, signatures and
32-bit integers as parameters, so that 16-bit limits are within reach of small
buffers. Integers go through the memory of a little-endian machine, as in the
code. `read_param` is the only action: it moves the offset of a `PayloadReader`,
also after a read has thrown. `Config` reads one line per step; a line is
classified (blank, section, `enabled`, number, versions) and a number is its
digits with or without `0x`, converted as `std::stoul` does. Text that `stoul`
would read in part, and signs, are not among the inputs. `Formats` runs the two
side by side.

## Runs

| Run | Instance | Shows |
|---|---|---|
| `session_rekey` | 1 client, 1 server, 2 key pairs and 2 hellos each, 2 packets each | `CountersUnique`; `ChannelSpec`: refinement of the lossy channel, also with packets of old keys under way |
| `session_peers` | 2 clients, 2 servers of which one has another signing key, 2 identities, different version lists | `TypeOK`, `ServerAuthenticated`, `Agreement`, `IdentityIsThePeers` |
| `server_races` | 2 connections, 2 identities, 1 thread, 1 request, total of 1, a stop | `TypeOK`, `CompletedOnce`, `NoOrphanedRequest`, `AnsweredByAddressee`, `RoutedToItsIdentity`, `NothingOutlivesClose`, `RoutableUnlessErased` |
| `server_live` | 1 connection, 2 requests, 2 stops, fair | `DeadlineKept`, `FailedOnClose`, `StopJoins` |
| `client_races` | 2 threads, 2 requests, 2 watchdogs, a disconnect | `CompletedOnce`, `NoLostInsert`, `NoTerminate` |
| `client_live` | 1 thread, 2 requests, a disconnect, fair | `DeadlineKept`, `DisconnectCompletes`, `IoThreadJoined` |
| `client_return_doc` | 1 thread, 1 request, a disconnect, fair | violated: `DisconnectReturns` |
| `limiter_limits` | 1 address, 3 connections, 3 messages each, 4 ticks; windows of 2, rate 1/2 per tick, burst 2 | `WindowRespected`, `VerdictsExact`, `RateRespected`, `VerdictFitsBucket`, `CountersAgree` |
| `streams_pipes` | an anonymous connection of version 1.1 and an older authenticated one; an op code with a handler at the clients and at the server for authenticated sessions, a general handler at the server; 1 stream per wrapper, 4 calls, 1 connection lost | `NeverReplaced`, `ChunkFindsStream`, `ClosedHoldsNoHandle`, `RoutedByItsOpCode`, `EndAfterItsData`; `PipesSpec`: refinement of `StreamPipes` |
| `streams_opcodes_doc` | another op code configured for `STREAM_DATA` | violated: `StreamsUseConfiguredOpCodes` |
| `exchange_nested` | 1 user thread per end and both io threads, 1 request of the client, 2 of the server, fair | `ClientNeverRejects`, `NoSilentLoss`, `PromisesCompleted` |
| `formats` | buffers of at most 9 bytes of 3 values, files of at most 3 lines | `ReaderExact`, `HellosRoundTrip`, `MessagesRoundTrip`, `LastValidWins` |

The bounds are the smallest at which every action happens and the parties that
compete for something all exist. Two requests are needed for a deadline to be
added while the watchdog sleeps without one; two connections for a response with
the request id of the other, for a client that reconnects before its old
connection is closed and for a stream id of another connection; a second key
pair and old packets for rekeying; a time limit beyond the window for its edge
to pass. Two requests of the server are needed for a handler on its io thread to
make one while another is pending. Four calls are a start, two chunks and an end,
or a start, a chunk and a cancellation of each end. The
two connections of the streams and their handlers are chosen so that a lookup in
the wrong table, a missing fallback and an op code sent on the older version each
change whom a stream is given to; several op codes, and an authenticated session
of version 1.1, are left to the theorem. With bytes of three values a
16-bit field holds at most 8, so that 9 bytes reach beyond the limits on versions
and on responses. Addresses share nothing but the total, so one is enough for the
limiter. Request and stream ids have 32 bits in the code and do not wrap here.
Deadlock is not checked: every system here may rightly stop (all requests made,
everything closed, bounds reached).

`TypeOK` of `WsClient`, `RateLimiter`, `Streams` and `Exchange` states the types
of their variables for the reader and the proofs; no run lists it.

Fairness. Server: threads that are in the middle of a method go on; the io loop
serves ready events in the order they became ready, so a timer that is due and a
connection that is to be closed are served although others keep coming (strong
fairness, since the io thread is busy in between); deadlines pass. Client: the
same for each thread, with strong fairness because `pending_requests_mutex_` may
be taken again and again by others, as schedulers and mutexes grant it in
practice. `Exchange` assumes only that the server's io thread keeps running, that
its handlers return or throw, and that its timer fires when the thread is free;
nothing of the client, of user threads or of the network. Nowhere is anything
assumed of the peer, and nobody has to call `stop`, `disconnect` or make a
request.

## Where the code and its documents disagree

Shown by runs:

* `client_return_doc`: `stop_watchdog` (`src/ws_client.cpp:142`) sets the flag
  without the mutex of the condition variable; the watchdog can miss it, and
  `disconnect` never returns.
* `streams_opcodes_doc`: `Stream` (`src/stream.cpp:18`, `:31`, `:43`) uses the
  default op codes whatever the configuration says (`packet.hpp:147`,
  `README.md:670`).

Exceptions that the properties name:

* `RoutableUnlessErased`: `on_close` (`src/ws_server.cpp:450`) erases the route of
  the identity whichever of its connections closes. If two were open at once, an
  older that closes leaves the newer without a route, and a newer that closes the
  older; `send_to_identity` then throws for a connected client
  (`ws_server.hpp:242`). The exception lasts until the identity is routed again,
  and names the other connection that closed after it was.
* `VerdictFitsBucket`: a bucket that holds exactly one token may be refused, since
  the doubles of `src/rate_limiter.cpp:108` and `:137` round: at rate 10 and burst
  2, after messages at 0 and 90 ms, a check at 100 ms finds 0.9999999999999999.
* `StopJoins`: `stop` (`src/ws_server.cpp:76`) closes only connections that have
  a session; one without keeps the io loop alive and `stop` waits in `join`
  (`docs/api_reference.md:263`).
* `NoTerminate`: `stop_watchdog` (`src/ws_client.cpp:139`) resets
  `watchdog_started_` between the flag and the thread of `ensure_watchdog`; a
  second watchdog is created and the handle of the first is replaced
  (`ws_client.hpp:169`).
* `DeadlineKept` of `WsClient`: a request that registers its deadline while
  `disconnect` stops the watchdog is never completed (`ws_client.hpp:70`).
* `NoSilentLoss`: packets of client threads that send at the same time reach the
  server with counters out of order or equal and are dropped
  (`src/ws_client.cpp:206`); `README.md:531` promises simultaneous streaming and
  messaging.
* `PromisesCompleted`: `sync_request_to_identity` (`src/ws_server.cpp:660`) waits
  without a bound even when timeouts are configured; on the io thread for ever.
* `ClosedHoldsNoHandle`: a `start_stream` that throws leaves its entry in the
  table (`src/ws_server.cpp:277`), after `on_close` for ever.
* `MessagesRoundTrip`: a response whose payload has more than 65533 bytes of
  parameters cannot be nested (`src/packet.cpp:44`): the server logs it, the
  client disconnects.
* `HellosRoundTrip`: a list of more than 65535 versions is cut
  (`src/handshake_messages.cpp:14`).
* `EndAfterItsData` is about streams the server starts: the starter of a stream
  sets its handlers after `STREAM_START` is sent, and what the peer writes before
  that is dropped; what a client sends may be lost as above.

Met while modelling, and not the subject of a run:

* `cancel()` does not erase the caller's own entry, and an ended stream stays in
  both tables while the connection lives; the client never erases streams of a
  lost connection. `on_close` of the server erases streams without calling their
  cancel handlers (`README.md:352`).
* `from_yaml` of a missing file, or of one without versions, yields a
  configuration with no versions, with which every handshake fails
  (`src/config.cpp:87`; `README.md:645` says defaults are used).
* Floating point parameters are sent in the byte order of the machine
  (`src/packet.cpp:135`).
* Both roles store the version before they verify a signature
  (`src/session.cpp:77`, `:128`), so `get_selected_version` returns one after a
  refused handshake (`session.hpp:91` promises `nullopt`).
* `negotiate` takes the client's first common version, not the highest
  (`config_example.yml:30`).
* `max_total` is compared with completed handshakes only and only in `on_open`
  (`src/ws_server.cpp:396`), so it can be exceeded (`README.md:660`);
  `max_per_ip` is not compared with anything (`README.md:659`).
* Only successful handshakes count as attempts (`src/ws_server.cpp:1021`,
  `README.md:656`).
* The client's `send` swallows what the transport throws
  (`src/ws_client.cpp:208`), so the clean-up of `async_request` does not run
  (`README.md:299`); without a deadline such a request waits until `disconnect`.
* The idle timeout is applied although `timeouts.enabled` is false
  (`src/ws_server.cpp:496`, `README.md:664`).

## Proofs

Every theorem holds for every value of the constants under the named assumptions
of its module: the roles of sessions and the threads of the two ends are
disjoint, every session has a list of versions, every op code has a configured
value, the second and the minute of the limiter are not empty, the bounds are
naturals, and `None`, `Error` and `Invalid` are nothing else. Of the formats: a
byte has at least two values, twice the size of a 32-bit integer fits in 16 bits
(`2 * Int32Bytes < Base * Base`; 8 and 65536 in the code), and decimal numbers
are written in decimal digits. All invariants below are conjunctions of named
parts; a step lemma per part goes through the actions, and the last step of each
theorem is temporal. Parts marked * are needed although no property mentions
them: the properties are not inductive without them.

### Sessions

* `NegotiateCorrect`: `negotiate` returns the client's first version that the
  server has, and `None` exactly when there is no common one. It rests on
  `LeastNatural`, which gives the `CHOOSE` in `negotiate` a value.
* `TypeCorrect` (`Spec => []TypeOK`). `encrypt_payload` uses
  `session_keys[s].tx`, so types need `KeysInv`*: a session that completed its
  handshake has keys, and they are its own: they name it, in the direction of its
  role.
* `ServerAuthenticatedHolds`: with `HellosInv`*, every `ServerHello` carries an
  ephemeral key of a server signed by that server. `VerifiedIsGenuine` shows that
  a hello that verifies is one of those, so the keys a client derives are shared
  with a server that has the expected signing key.
* `AgreementHolds`, `IdentityIsThePeersHolds`: with `ExchangeInv`*. A
  `ClientHello` carries the versions of the client whose ephemeral key it holds,
  signed with the identity it claims; both keys of a session come from the same
  two ephemeral keys (`PairInv`); what a session holds after its first hello is
  what that hello made of it (`ServedInv`, `JoinedInv`). Versions agree after one
  hello each only: a later hello replaces the version before it is verified.
* `CountersUniqueHolds`: with `PacketsInv`*, a sender's counter equals the number
  of payloads it sent, a packet holds the payload at its counter and was
  encrypted with a key of its sender. Equal keys name the same sender, and a
  sender never repeats a counter.
* `ImplementsChannel` (`Spec => ChannelSpec`): with `ReceivedInv`*,
  `recv_counter` is the index last delivered. `encrypt_payload` is a `Send`,
  `decrypt_packet` a `Deliver` by `PacketsInv`, every other step a stutter.

### Server and client

* `ServerProofs`, with `ServerInv`. `LocalsInv`* states what a thread finds in
  its local variables after it gave up a mutex, without which not even `TypeOK`
  is inductive. `IdsInv`*: an id is handed out once, for one connection, and is
  sent or undone on that connection; with it `CompletedOnceHolds` and
  `AnsweredByAddresseeHolds`. `HandlerInv`* and `StoredInv`*: where a connection
  is while a handler for it is between two of its blocks, and what is stored of it
  then; `RoutesInv`*: routes, the reverse map and lookups under way name the
  identity the session verified; with them `NothingOutlivesCloseHolds`,
  `RoutedToItsIdentityHolds`, `NoOrphanedRequestHolds` and
  `RoutableUnlessErasedHolds`.
* `ClientProofs`: `CompletedOnceHolds` by the ids again (`IdsInv`*);
  `NoLostInsertHolds` is inductive over types, because the watchdog keeps the
  mutex from its look at the deadlines to its wait; `NoTerminateHolds` with
  `StarterInv`*: before the first `disconnect` of a user, `watchdog_started_`
  picks one thread, the handle is empty while that thread is about to set it, and
  the flag is set as long as there is a watchdog.

### Requests in both directions

* `ClientNeverRejectsHolds`, with `ToClientInv`*: the packets on the wire to the
  client rise, above what it received and up to what was sent; no thread of the
  server is ever between the counter and the transmission.
* `NoSilentLossHolds`, with `ToServerInv`*: as long as client threads did not
  overlap, one of them at most is between loading the counter and transmitting,
  and the wire to the server rises up to the counter of the last packet sent;
  `LinkInv`*: the server has its session while the transport is up. A packet the
  server drops is then one of overlapping senders, and a request that was not
  dropped is followed from hand to wire to handler and back.

### Streams

The op codes of streams can be configured, and `Stream` uses the defaults
nevertheless. The theorems assume `Separate`: no configured op code is another
one, or the default of another one. `DefaultsSeparate` proves it of the defaults;
with op codes that collide a payload is taken for one of another kind and none of
the properties can be expected.

* `NeverReplacedHolds`, with `IdsInv`*: a stream that an end knows, or that is
  about to be announced, has an id the starter has drawn, and a `STREAM_START`
  under way is the only one of its id and unknown to the receiver.
* `ClosedHoldsNoHandleHolds`, with `CutInv`*: no table holds a stream that was cut.
* `RoutedByItsOpCodeHolds`: the property itself (`RoutedInv`) over `IdsInv`, by
  which a `STREAM_START` under way carries the op code its starter named, or none
  before version 1.1, and no later stream has that id.
* `StreamsImplementPipes` (`Spec => PipesSpec`), with `DataInv`*: chunks under
  way rise, after the last one dispatched and up to what was written.
* `ChunkFindsStreamHolds`, with `FindInv`*: whoever may write to a stream follows
  the `STREAM_START` it sent, or answers one that was registered.
* `EndAfterItsDataHolds`, with `CompleteInv`*: of a stream the server started,
  every chunk written and not yet dispatched is under way, in front of all later
  ones and of the `STREAM_END`. It assumes in addition that `STREAM_DATA` has its
  default op code, the one `Stream::write` uses; otherwise no chunk reaches a
  handler (run `streams_opcodes_doc`).

### Rate limiter

* `WindowRespectedHolds`, `VerdictsExactHolds`, with `WindowsInv`*: the log of an
  address is in order and of the past, and the window the code keeps is that log
  without a prefix too old to count (`Since`). `Threshold` finds the first
  timestamp that counts (by `LeastNatural`), `Counted` evaluates `count_last`,
  `clean` and the reference from it, `CountExact` and `CleanExact` follow. An
  address whose entry was erased has an empty window, so the erasure is a
  cleaning (`EntryCleaned`).
* `CountersAgreeHolds`, with `CountersInv` over the types: cardinalities by the
  library's theorems on finite sets; `unregister_connection` finds a count above
  0 because the connection that leaves is among those counted.
* `RateRespectedHolds`, `VerdictFitsBucketHolds`, with `BucketsInv`*: a bucket holds the
  least of the capacity and of what a full bucket would hold since each message
  (`Exact`), as of its last refill. `ExactRefill` shows that refilling in steps
  changes nothing of that count, `ExactTaken` that taking a token is logging a
  message. Either verdict at exactly one token keeps the invariant, so the limit
  holds however the doubles round there.

### Formats

Numbers, buffers and lists are recursive functions here, and induction over data
is not available as a rule: the library's induction theorems have an operator as
a parameter, which no installed prover instantiates. `Iteration` states what is
needed of sets and functions instead. `LeastNatural` is the well-foundedness of
the naturals for sets; `UpTo`: a set that holds 0 and with each number below n
the next one holds all up to n; `Iterates`: for a start and a step function per
index there is a run, a function that takes all the steps. A recursive function
`f[i \in 0..n]` is a `CHOOSE`, which `Iterates` shows to have a value; from then
on it is its equation.

* `NetworkOrder`: an integer of any width that fits is written as the bytes whose
  number it is, most significant first, and read back; any bytes are read as
  their number. From `NumeralCounts` and `MemoryShifts` (the two recursions),
  `NumberInMemory` and `MemoryNumber` (a number and its memory determine each
  other), and `HtonllSwaps`: the two converted and exchanged halves of
  `htonll_local` are all the bytes reversed, for every size of a half.
* `ReaderIsExact`, with `ReaderInv`*: as long as no read threw, the offset is the
  length of what was read, written again; after one that did, the offset is so
  near to the end that no length fits, which is why no later read succeeds
  (`ReadBehind`, `ReadNext`).
* `MessagesCorrect`: `ParamRead` (a parameter is read as written, whatever
  follows), `IntRead`, `PayloadRead`.
* `HellosCorrect`: `HelloRead` decodes what was encoded, `HelloAccepted` and
  `ServerHelloAccepted` encode what was decoded. Both place each field at its
  offset (`At`) and join the fields again; the value of the flag is replaced
  (`Flagged`), as the decoder accepts any that is not 0.
* `ConfigCorrect`, with `ConfigInv`*: the section is the one the lines read so
  far leave open. `LatestNext`: a further line is the last of its kind or changes
  nothing; `ParsedFits`: a number is refused or fits its field.

### Checked by TLC only

* Liveness and everything under fairness (`DeadlineKept`, `FailedOnClose`,
  `StopJoins`, `DisconnectCompletes`, `IoThreadJoined`, `PromisesCompleted`):
  fairness and `ENABLED` are out of the prover's reach.

## Not modelled

* Registering handlers while a wrapper runs, and the wording of log output: no
  state depends on it but the handler tables.
* Callbacks that throw out of `on_close` (`src/ws_server.cpp:421`), which would
  leave through websocketpp.
* Reconnecting a client wrapper: its session is not reset, so every model of the
  client connects once (`src/ws_client.cpp:45`).
* The data race on the pointer `timeout_timer_` itself (`src/ws_server.cpp:56`);
  the order of the two steps is modelled.
* libsodium, wrong key sizes, wiping of memory, floating point parameters,
  examples, bindings and tests.

## Plan

1. Done: all modules and runs above, and a theorem for every safety invariant,
   action property and refinement the runs check.
2. Next: reconnecting a client wrapper, callbacks that throw out of `on_close`,
   and floating point parameters, each of which needs more of the code in a model
   first.
