-------------------------------- MODULE Wire --------------------------------
(***************************************************************************)
(* The byte formats (packet.cpp, packet.hpp, handshake_messages.cpp, and   *)
(* how the wrappers nest requests and responses): payloads, parameters,    *)
(* integers and hellos as sequences of bytes, on a little-endian machine.  *)
(* PayloadReader is the one object with state: its offset.                 *)
(*                                                                         *)
(* The number of values of a byte and the lengths of keys, signatures and  *)
(* 32-bit integers are parameters: 256, 32, 32, 64 and 4 in the code.      *)
(***************************************************************************)
EXTENDS Numerals, SequencesExt

CONSTANTS Base,            \* values of a byte
          KxKeyBytes,      \* crypto_kx_PUBLICKEYBYTES
          SignKeyBytes,    \* crypto_sign_PUBLICKEYBYTES
          SignatureBytes,  \* crypto_sign_BYTES
          Int32Bytes,      \* sizeof(uint32_t)
          Error,           \* an exception
          MaxLength        \* bound: bytes of a buffer

ASSUME WireAssumption ==
  /\ Base \in Nat \ {0, 1}
  /\ {KxKeyBytes, SignKeyBytes, SignatureBytes, Int32Bytes, MaxLength} \subseteq Nat
  /\ 2 * Int32Bytes < Base * Base
  /\ Error \notin Nat /\ Error \notin Seq(Nat)

VARIABLES params_data,  \* the parameters of a payload that arrived
          offset,       \* PayloadReader::offset_
          read,         \* history: the parameters read so far
          failed        \* history: a read threw

wireVars == <<params_data, offset, read, failed>>

Byte == 0..(Base - 1)
UINT16_MAX == Base * Base - 1

\* The n bytes after an offset, fewer at the end of the data.
Slice(data, from, n) ==
  SubSeq(data, from + 1, IF from + n <= Len(data) THEN from + n ELSE Len(data))

-----------------------------------------------------------------------------
(***************************************************************************)
(* Integers.  A number in memory has its lowest byte first; htons, htonl   *)
(* and htonll_local return the number whose memory is the bytes in network *)
(* order, and the bytes of that memory are what is written.                *)
(***************************************************************************)
Number(bytes) == Numeral(Base, bytes)

\* The number of values of so many bytes: 1 and as many zeros.
Values(width) == Number([i \in 1..(width + 1) |-> IF i = 1 THEN 1 ELSE 0])

Memory(n, width) ==
  LET rest[i \in 0..width] == IF i = 0 THEN n ELSE rest[i - 1] \div Base
  IN [i \in 1..width |-> rest[i - 1] % Base]

FromMemory(bytes) == Number(Reverse(bytes))

hton(n, width) == Number(Memory(n, width))

\* Mistake: the halves are converted and not exchanged.
htonll_local_NotSwapped(val) ==
  hton(val, Int32Bytes) + hton(val \div Values(Int32Bytes), Int32Bytes) * Values(Int32Bytes)

htonll_local(val) ==
  hton(val, Int32Bytes) * Values(Int32Bytes) + hton(val \div Values(Int32Bytes), Int32Bytes)

\* The bytes add_param writes for an integer, and the integer read_param makes
\* of them; ntohs, ntohl and ntohll_local are the same functions as their peers.
ToNetwork(n, width) ==
  Memory(IF width = 2 * Int32Bytes THEN htonll_local(n) ELSE hton(n, width), width)

FromNetwork(bytes) ==
  LET val == FromMemory(bytes)
      width == Len(bytes)
  IN IF width = 2 * Int32Bytes THEN htonll_local(val) ELSE hton(val, width)

-----------------------------------------------------------------------------
(***************************************************************************)
(* Payload and PayloadBuilder.                                             *)
(***************************************************************************)
serialize(payload) == ToNetwork(payload.op_code, 2) \o payload.parameters

deserialize(data) ==
  IF Len(data) < 2 THEN Error
  ELSE [op_code |-> FromNetwork(Slice(data, 0, 2)), parameters |-> Slice(data, 2, Len(data))]

add_param(parameters, param) ==
  IF parameters = Error \/ Len(param) > UINT16_MAX THEN Error
  ELSE parameters \o ToNetwork(Len(param), 2) \o param

add_int(parameters, n, width) == add_param(parameters, ToNetwork(n, width))

(***************************************************************************)
(* PayloadReader: what read_param_bytes returns at an offset, and the      *)
(* offset it leaves behind.  A parameter that is cut short ends the data.  *)
(***************************************************************************)
peek_next_param_size(data, at) ==
  IF at + 2 > Len(data) THEN Error ELSE FromNetwork(Slice(data, at, 2))

\* Mistake: a parameter that is cut short leaves the reader behind its length.
read_param_bytes_Resumes(data, at) ==
  LET len == peek_next_param_size(data, at)
  IN IF len = Error THEN [param |-> Error, offset |-> at]
     ELSE IF at + 2 + len > Len(data) THEN [param |-> Error, offset |-> at + 2]
     ELSE [param |-> Slice(data, at + 2, len), offset |-> at + 2 + len]

read_param_bytes(data, at) ==
  LET len == peek_next_param_size(data, at)
  IN IF len = Error THEN [param |-> Error, offset |-> at]
     ELSE IF at + 2 + len > Len(data) THEN [param |-> Error, offset |-> Len(data)]
     ELSE [param |-> Slice(data, at + 2, len), offset |-> at + 2 + len]

\* read_param<T> of an integer: a parameter of another size is consumed.
read_int(data, at, width) ==
  LET r == read_param_bytes(data, at)
  IN IF r.param = Error \/ Len(r.param) # width THEN [value |-> Error, offset |-> r.offset]
     ELSE [value |-> FromNetwork(r.param), offset |-> r.offset]

(***************************************************************************)
(* async_request puts the id before the parameters; the request handler    *)
(* gets the reader after the id was read.  send_response nests the         *)
(* response in a payload of its own.                                       *)
(***************************************************************************)
request_parameters(request_id, parameters) ==
  add_int(<<>>, request_id, Int32Bytes) \o parameters

send_response(request_id, payload) ==
  add_param(add_int(<<>>, request_id, Int32Bytes), serialize(payload))

on_response(data) ==
  LET id == read_int(data, 0, Int32Bytes)
      bytes == read_param_bytes(data, id.offset).param
  IN IF id.value = Error \/ bytes = Error THEN Error
     ELSE [id |-> id.value, payload |-> deserialize(bytes)]

-----------------------------------------------------------------------------
(***************************************************************************)
(* Hellos.  The number of versions is cast to 16 bits; identity fields are *)
(* there after a flag that is not 0; bytes behind the last field are not   *)
(* looked at.                                                              *)
(***************************************************************************)
WriteVersions(versions) ==
  FlattenSeq([i \in DOMAIN versions |-> ToNetwork(versions[i], 2)])

ClientHello_serialize(h) ==
  ToNetwork(Len(h.supported_versions) % (UINT16_MAX + 1), 2)
    \o WriteVersions(h.supported_versions) \o h.ephemeral_pk
    \o (IF h.has_client_identity THEN <<1>> \o h.identity_pk \o h.identity_sig ELSE <<0>>)

\* Mistake: the identity's signature is looked for where its key is.
ClientHello_deserialize_Overlap(data) ==
  LET num_versions == FromNetwork(Slice(data, 0, 2))
      pk == 2 + 2 * num_versions
      flag == pk + KxKeyBytes
      has_id == data[flag + 1] # 0
      end == flag + 1 + (IF has_id THEN SignKeyBytes + SignatureBytes ELSE 0)
  IN IF Len(data) < 2 \/ Len(data) < pk \/ Len(data) < flag \/ Len(data) <= flag \/ Len(data) < end
     THEN Error
     ELSE [supported_versions |->
             [i \in 1..num_versions |-> FromNetwork(Slice(data, 2 * i, 2))],
           ephemeral_pk |-> Slice(data, pk, KxKeyBytes),
           has_client_identity |-> has_id,
           identity_pk |-> IF has_id THEN Slice(data, flag + 1, SignKeyBytes) ELSE <<>>,
           identity_sig |-> IF has_id THEN Slice(data, flag + 1, SignatureBytes) ELSE <<>>]

ClientHello_deserialize(data) ==
  LET num_versions == FromNetwork(Slice(data, 0, 2))
      pk == 2 + 2 * num_versions
      flag == pk + KxKeyBytes
      has_id == data[flag + 1] # 0
      end == flag + 1 + (IF has_id THEN SignKeyBytes + SignatureBytes ELSE 0)
  IN IF Len(data) < 2 \/ Len(data) < pk \/ Len(data) < flag \/ Len(data) <= flag \/ Len(data) < end
     THEN Error
     ELSE [supported_versions |->
             [i \in 1..num_versions |-> FromNetwork(Slice(data, 2 * i, 2))],
           ephemeral_pk |-> Slice(data, pk, KxKeyBytes),
           has_client_identity |-> has_id,
           identity_pk |-> IF has_id THEN Slice(data, flag + 1, SignKeyBytes) ELSE <<>>,
           identity_sig |->
             IF has_id THEN Slice(data, flag + 1 + SignKeyBytes, SignatureBytes) ELSE <<>>]

ServerHello_serialize(h) == ToNetwork(h.selected_version, 2) \o h.ephemeral_pk \o h.signature

ServerHello_deserialize(data) ==
  IF Len(data) < 2 + KxKeyBytes + SignatureBytes THEN Error
  ELSE [selected_version |-> FromNetwork(Slice(data, 0, 2)),
        ephemeral_pk |-> Slice(data, 2, KxKeyBytes),
        signature |-> Slice(data, 2 + KxKeyBytes, SignatureBytes)]

-----------------------------------------------------------------------------
(***************************************************************************)
(* A payload arrives, then a handler reads its parameters.  A handler may  *)
(* go on reading after a read threw: PayloadReader has no state but its    *)
(* offset.                                                                 *)
(***************************************************************************)
WireInit ==
  /\ params_data = <<>>
  /\ offset = 0
  /\ read = <<>>
  /\ failed = FALSE

Receive(b) ==
  /\ read = <<>> /\ ~failed
  /\ Len(params_data) < MaxLength
  /\ params_data' = Append(params_data, b)
  /\ UNCHANGED <<offset, read, failed>>

read_param ==
  LET r == read_param_bytes(params_data, offset)
  IN /\ offset' = r.offset
     /\ read' = IF r.param = Error THEN read ELSE Append(read, r.param)
     /\ failed' = (failed \/ r.param = Error)
     /\ UNCHANGED params_data

-----------------------------------------------------------------------------
(***************************************************************************)
(* Properties                                                              *)
(***************************************************************************)
Written(params) ==
  LET written[i \in 0..Len(params)] ==
        IF i = 0 THEN <<>> ELSE add_param(written[i - 1], params[i])
  IN written[Len(params)]

(***************************************************************************)
(* A PayloadReader returns the parameters a PayloadBuilder wrote and       *)
(* nothing else: the parameters read, written again, are the bytes         *)
(* consumed, and a read that throws (packet.cpp 184) throws only where no  *)
(* whole parameter begins, after which no later read finds one in the      *)
(* middle of what was left.                                                *)
(***************************************************************************)
ReaderExact ==
  LET consumed == Written(read)
  IN /\ IsPrefix(consumed, params_data)
     /\ ~failed => offset = Len(consumed)
     /\ failed =>
          \A n \in 0..Len(params_data) :
             LET next == add_param(consumed, Slice(params_data, Len(consumed) + 2, n))
             IN next = Error \/ ~IsPrefix(next, params_data)

\* A hello whose versions and keys are taken from the bytes of the buffer.
HelloOf(bytes, identity) ==
  [supported_versions |-> bytes,
   ephemeral_pk |-> [i \in 1..KxKeyBytes |-> 1],
   has_client_identity |-> identity,
   identity_pk |-> IF identity THEN [i \in 1..SignKeyBytes |-> 2] ELSE <<>>,
   identity_sig |-> IF identity THEN [i \in 1..SignatureBytes |-> 0] ELSE <<>>]

(***************************************************************************)
(* Peers agree on a hello (handshake_messages.cpp): one with at most       *)
(* UINT16_MAX versions is decoded as it was built, whatever follows it,    *)
(* and whatever bytes are accepted as a hello are its encoding, but for    *)
(* the value of a flag that is set and for bytes behind it.  So what was   *)
(* signed over the fields of a hello is what the peer verifies.            *)
(***************************************************************************)
HellosRoundTrip ==
  /\ Len(params_data) <= UINT16_MAX =>
       \A identity \in BOOLEAN :
          LET h == HelloOf(params_data, identity)
          IN ClientHello_deserialize(ClientHello_serialize(h) \o params_data) = h
  /\ LET h == ClientHello_deserialize(params_data)
         bytes == ClientHello_serialize(h)
         flag == 3 + 2 * Len(h.supported_versions) + KxKeyBytes
     IN h # Error =>
          IsPrefix(bytes, [i \in DOMAIN params_data |->
                             IF i = flag /\ params_data[i] # 0 THEN 1 ELSE params_data[i]])
  /\ LET h == ServerHello_deserialize(params_data)
     IN h # Error => IsPrefix(ServerHello_serialize(h), params_data)

(***************************************************************************)
(* A response reaches the requester whole: the id and the payload that     *)
(* send_response nested (ws_server.cpp 155, ws_client.cpp 281) come out    *)
(* again unless the payload, with its op code, is longer than a parameter  *)
(* can be, and then nothing is sent (packet.cpp 44).  A handler reads its  *)
(* own parameters after the id, and integers of every width cross the wire *)
(* most significant byte first.                                            *)
(***************************************************************************)
MessagesRoundTrip ==
  LET id == Number(Slice(params_data, 0, Int32Bytes))
      payload == [op_code |-> id % (UINT16_MAX + 1), parameters |-> params_data]
      response == send_response(id, payload)
      request == request_parameters(id, params_data)
  IN /\ IF 2 + Len(params_data) > UINT16_MAX THEN response = Error
        ELSE on_response(response) = [id |-> id, payload |-> payload]
     /\ LET r == read_int(request, 0, Int32Bytes)
        IN r.value = id /\ Slice(request, r.offset, Len(request)) = params_data
     /\ Len(params_data) \in {1, 2, Int32Bytes, 2 * Int32Bytes} =>
          LET n == Number(params_data)
              width == Len(params_data)
          IN /\ ToNetwork(n, width) = params_data
             /\ read_int(add_int(<<>>, n, width), 0, width).value = n

=============================================================================
