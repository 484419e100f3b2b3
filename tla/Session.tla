------------------------------ MODULE Session ------------------------------
(***************************************************************************)
(* The Session class (session.cpp) with the cryptography it calls          *)
(* (crypto.cpp) and the version negotiation (version.cpp).                 *)
(*                                                                         *)
(* Several client and server Session objects exchange messages over a      *)
(* network that may lose, duplicate and reorder them: a message once sent  *)
(* stays in a set, and any session of the opposite role may be handed it   *)
(* any number of times or never.  Cryptography is symbolic: a key exchange *)
(* key pair is named by the session that generated it and the how-manieth  *)
(* it is, a signature by its signer and what it signs, a session key by    *)
(* the two ephemeral keys and the direction it protects.                   *)
(***************************************************************************)
EXTENDS Naturals, Sequences

CONSTANTS Clients,      \* Session objects with Role::CLIENT
          Servers,      \* Session objects with Role::SERVER
          Versions,     \* protocol version numbers
          Supported,    \* Supported[s]: supported_versions_, most preferred first
          SigningKey,   \* SigningKey[s]: the public key in server_sign_key_; for
                        \* a client, the key of the server it expects
          Identities,   \* client identity keys (Ed25519)
          Payloads,     \* application payloads
          None,         \* std::nullopt, a null pointer, an unusable signature
          MaxKeyPairs,  \* bound: ephemeral key pairs a session generates
          MaxAttempts,  \* bound: hellos handed to a session
          MaxCounter    \* bound: packets a session encrypts (< 2^64)

Sessions == Clients \cup Servers

KeyPairs == Sessions \X Nat

Signatures == [signer : Identities \cup {SigningKey[s] : s \in Sessions},
               message : KeyPairs]

ASSUME RolesAssumption == Clients \cap Servers = {}

ASSUME ConfigAssumption ==
  /\ Supported \in [Sessions -> Seq(Versions)]
  /\ None \notin Versions \cup Identities \cup Signatures

ASSUME BoundsAssumption ==
  /\ MaxKeyPairs \in Nat
  /\ MaxAttempts \in Nat
  /\ MaxCounter \in Nat

VARIABLES
  handshake_complete,
  selected_version,
  ephemeral_kx_kp,    \* the current ephemeral key pair, or None
  session_keys,       \* the [rx, tx] keys, or None
  client_identity_kp, \* a client's own identity key, or None
  peer_identity,      \* on a server, the verified identity of its client, or None
  send_counter,
  recv_counter,
  clientHellos,       \* every ClientHello produced so far
  serverHellos,       \* every ServerHello produced so far
  packets,            \* every encrypted packet produced so far
  \* History, not state of the code:
  generated,          \* how many ephemeral key pairs a session generated
  attempts,           \* how many hellos a session was handed
  sent,               \* sent[s]: the payloads s encrypted, in order
  delivered           \* delivered[r]: what decrypt_packet returned to r, in order

handshakeVars == <<handshake_complete, selected_version, ephemeral_kx_kp,
                   session_keys, client_identity_kp, peer_identity,
                   clientHellos, serverHellos, generated, attempts>>
transferVars == <<send_counter, recv_counter, packets, sent, delivered>>
vars == <<handshakeVars, transferVars>>

-----------------------------------------------------------------------------
(***************************************************************************)
(* Version negotiation: the client's list is walked from its front and the *)
(* first version that occurs anywhere in the server's list is taken.       *)
(***************************************************************************)
Common(client_versions, server_versions) ==
  {i \in DOMAIN client_versions :
     \E j \in DOMAIN server_versions : client_versions[i] = server_versions[j]}

\* Mistake: walking the list from its back.
negotiate_LastCommon(client_versions, server_versions) ==
  LET common == Common(client_versions, server_versions)
  IN IF common = {} THEN None
     ELSE client_versions[CHOOSE i \in common : \A k \in common : i >= k]

negotiate(client_versions, server_versions) ==
  LET common == Common(client_versions, server_versions)
  IN IF common = {} THEN None
     ELSE client_versions[CHOOSE i \in common : \A k \in common : i <= k]

(***************************************************************************)
(* Symbolic cryptography.                                                  *)
(***************************************************************************)
generate_kx_keypair(s) == <<s, generated[s] + 1>>

sign(message, private_key) == [signer |-> private_key, message |-> message]

\* Mistake: only the sizes are checked.
verify_SizesOnly(signature, message, public_key) == signature # None

verify(signature, message, public_key) == signature = sign(message, public_key)

SessionKey(client_pk, server_pk, direction) ==
  [client |-> client_pk, server |-> server_pk, direction |-> direction]

client_compute_session_keys(client_kx_kp, server_eph_pk) ==
  [rx |-> SessionKey(client_kx_kp, server_eph_pk, "s2c"),
   tx |-> SessionKey(client_kx_kp, server_eph_pk, "c2s")]

\* Mistake: the roles of rx and tx are not mirrored.
server_compute_session_keys_NotMirrored(server_kx_kp, client_eph_pk) ==
  client_compute_session_keys(client_eph_pk, server_kx_kp)

server_compute_session_keys(server_kx_kp, client_eph_pk) ==
  [rx |-> SessionKey(client_eph_pk, server_kx_kp, "c2s"),
   tx |-> SessionKey(client_eph_pk, server_kx_kp, "s2c")]

(***************************************************************************)
(* An encrypted packet: the counter is authenticated with the payload.     *)
(* "from" is history: the code does not see it.                            *)
(***************************************************************************)
encrypt(s, payload, counter, key) ==
  [from |-> s, counter |-> counter, payload |-> payload, key |-> key]

-----------------------------------------------------------------------------
(***************************************************************************)
(* What may be handed to a session: the hellos other sessions produced,    *)
(* and such hellos with a signature that is unusable or does not belong to *)
(* the identity they claim.                                                *)
(***************************************************************************)
ClientHelloInputs ==
  clientHellos
    \cup {[h EXCEPT !.identity_sig = None] : h \in clientHellos}
    \cup {[h EXCEPT !.identity_pk = i] :
              h \in {g \in clientHellos : g.identity_pk # None}, i \in Identities}

ServerHelloInputs ==
  serverHellos \cup {[h EXCEPT !.signature = None] : h \in serverHellos}

Init ==
  /\ handshake_complete = [s \in Sessions |-> FALSE]
  /\ selected_version = [s \in Sessions |-> None]
  /\ ephemeral_kx_kp = [s \in Sessions |-> None]
  /\ session_keys = [s \in Sessions |-> None]
  /\ client_identity_kp = [s \in Sessions |-> None]
  /\ peer_identity = [s \in Sessions |-> None]
  /\ send_counter = [s \in Sessions |-> 0]
  /\ recv_counter = [s \in Sessions |-> 0]
  /\ clientHellos = {}
  /\ serverHellos = {}
  /\ packets = {}
  /\ generated = [s \in Sessions |-> 0]
  /\ attempts = [s \in Sessions |-> 0]
  /\ sent = [s \in Sessions |-> <<>>]
  /\ delivered = [s \in Sessions |-> <<>>]

set_client_identity_key(c, identity) ==
  /\ client_identity_kp' = [client_identity_kp EXCEPT ![c] = identity]
  /\ UNCHANGED <<handshake_complete, selected_version, ephemeral_kx_kp,
                 session_keys, peer_identity, clientHellos, serverHellos,
                 generated, attempts, transferVars>>

client_initiate_handshake(c) ==
  LET kp == generate_kx_keypair(c)
      identity == client_identity_kp[c]
  IN /\ generated[c] < MaxKeyPairs
     /\ generated' = [generated EXCEPT ![c] = @ + 1]
     /\ ephemeral_kx_kp' = [ephemeral_kx_kp EXCEPT ![c] = kp]
     /\ clientHellos' = clientHellos \cup
          {[supported_versions |-> Supported[c],
            ephemeral_pk |-> kp,
            identity_pk |-> identity,
            identity_sig |-> IF identity = None THEN None ELSE sign(kp, identity)]}
     /\ UNCHANGED <<handshake_complete, selected_version, session_keys,
                    client_identity_kp, peer_identity, serverHellos, attempts,
                    transferVars>>

(***************************************************************************)
(* server_respond_to_handshake: the negotiated version is stored before    *)
(* the identity is verified, so a hello that is refused for its signature  *)
(* leaves it behind.                                                       *)
(***************************************************************************)
\* Mistake: a signature is required but not verified.
IdentityAccepted_Unverified(h) ==
  h.identity_pk = None \/ h.identity_sig # None

IdentityAccepted(h) ==
  \/ h.identity_pk = None
  \/ verify(h.identity_sig, h.ephemeral_pk, h.identity_pk)

RespondRefused(s, h) ==
  LET version == negotiate(h.supported_versions, Supported[s])
  IN /\ version = None \/ ~IdentityAccepted(h)
     /\ selected_version' = [selected_version EXCEPT ![s] =
                               IF version = None THEN @ ELSE version]
     /\ UNCHANGED <<handshake_complete, ephemeral_kx_kp, session_keys,
                    peer_identity, serverHellos, generated>>

RespondAccepted(s, h) ==
  LET version == negotiate(h.supported_versions, Supported[s])
      kp == generate_kx_keypair(s)
  IN /\ version # None
     /\ IdentityAccepted(h)
     /\ generated[s] < MaxKeyPairs
     /\ generated' = [generated EXCEPT ![s] = @ + 1]
     /\ selected_version' = [selected_version EXCEPT ![s] = version]
     /\ peer_identity' = [peer_identity EXCEPT ![s] =
                            IF h.identity_pk = None THEN @ ELSE h.identity_pk]
     /\ ephemeral_kx_kp' = [ephemeral_kx_kp EXCEPT ![s] = kp]
     /\ session_keys' = [session_keys EXCEPT ![s] =
                           server_compute_session_keys(kp, h.ephemeral_pk)]
     /\ serverHellos' = serverHellos \cup
          {[selected_version |-> version,
            ephemeral_pk |-> kp,
            signature |-> sign(kp, SigningKey[s])]}
     /\ handshake_complete' = [handshake_complete EXCEPT ![s] = TRUE]

server_respond_to_handshake(s, h) ==
  /\ attempts[s] < MaxAttempts
  /\ attempts' = [attempts EXCEPT ![s] = @ + 1]
  /\ RespondRefused(s, h) \/ RespondAccepted(s, h)
  /\ UNCHANGED <<client_identity_kp, clientHellos, transferVars>>

(***************************************************************************)
(* client_finalize_handshake: the version is stored before the signature   *)
(* of the server's ephemeral key is verified.                              *)
(***************************************************************************)
SupportsVersion(c, version) ==
  \E i \in DOMAIN Supported[c] : Supported[c][i] = version

FinalizeRefused(c, h) ==
  /\ \/ ~SupportsVersion(c, h.selected_version)
     \/ ~verify(h.signature, h.ephemeral_pk, SigningKey[c])
  /\ selected_version' = [selected_version EXCEPT ![c] =
       IF SupportsVersion(c, h.selected_version) THEN h.selected_version ELSE @]
  /\ UNCHANGED <<handshake_complete, session_keys>>

FinalizeAccepted(c, h) ==
  /\ SupportsVersion(c, h.selected_version)
  /\ verify(h.signature, h.ephemeral_pk, SigningKey[c])
  /\ selected_version' = [selected_version EXCEPT ![c] = h.selected_version]
  /\ session_keys' = [session_keys EXCEPT ![c] =
       client_compute_session_keys(ephemeral_kx_kp[c], h.ephemeral_pk)]
  /\ handshake_complete' = [handshake_complete EXCEPT ![c] = TRUE]

\* Mistake: no ephemeral key pair is required.
Initiated_Unchecked(c) == TRUE

Initiated(c) == ephemeral_kx_kp[c] # None

client_finalize_handshake(c, h) ==
  /\ attempts[c] < MaxAttempts
  /\ Initiated(c)
  /\ attempts' = [attempts EXCEPT ![c] = @ + 1]
  /\ FinalizeRefused(c, h) \/ FinalizeAccepted(c, h)
  /\ UNCHANGED <<ephemeral_kx_kp, client_identity_kp, peer_identity,
                 clientHellos, serverHellos, generated, transferVars>>

(***************************************************************************)
(* Data transfer.  A packet that fails authentication, or whose counter is *)
(* not above the last one accepted, changes nothing.                       *)
(***************************************************************************)
\* Mistake: the counter is not advanced.
NextCounter_Kept(s) == send_counter[s]

NextCounter(s) == send_counter[s] + 1

encrypt_payload(s, m) ==
  /\ handshake_complete[s]
  /\ send_counter[s] < MaxCounter
  /\ send_counter' = [send_counter EXCEPT ![s] = NextCounter(s)]
  /\ packets' = packets \cup
       {encrypt(s, m, NextCounter(s), session_keys[s].tx)}
  /\ sent' = [sent EXCEPT ![s] = Append(@, m)]
  /\ UNCHANGED <<recv_counter, delivered, handshakeVars>>

\* Mistake: an equal counter is let through.
Accepts_EqualCounter(r, p) ==
  /\ p.key = session_keys[r].rx
  /\ p.counter >= recv_counter[r]

Accepts(r, p) ==
  /\ p.key = session_keys[r].rx
  /\ p.counter > recv_counter[r]

decrypt_packet(r, p) ==
  /\ handshake_complete[r]
  /\ Accepts(r, p)
  /\ recv_counter' = [recv_counter EXCEPT ![r] = p.counter]
  /\ delivered' = [delivered EXCEPT ![r] =
       Append(@, [from |-> p.from, index |-> p.counter, payload |-> p.payload])]
  /\ UNCHANGED <<send_counter, packets, sent, handshakeVars>>

Next ==
  \/ \E c \in Clients, i \in Identities : set_client_identity_key(c, i)
  \/ \E c \in Clients : client_initiate_handshake(c)
  \/ \E s \in Servers : \E h \in ClientHelloInputs : server_respond_to_handshake(s, h)
  \/ \E c \in Clients : \E h \in ServerHelloInputs : client_finalize_handshake(c, h)
  \/ \E s \in Sessions, m \in Payloads : encrypt_payload(s, m)
  \/ \E r \in Sessions : \E p \in packets : decrypt_packet(r, p)

Spec == Init /\ [][Next]_vars

-----------------------------------------------------------------------------
Option(S) == S \cup {None}

Keys == [client : KeyPairs, server : KeyPairs, direction : {"c2s", "s2c"}]

SessionKeys == [rx : Keys, tx : Keys]

ClientHello == [supported_versions : Seq(Versions), ephemeral_pk : KeyPairs,
                identity_pk : Option(Identities),
                identity_sig : Option(Signatures)]

ServerHello == [selected_version : Versions, ephemeral_pk : KeyPairs,
                signature : Signatures]

EncryptedPacket == [from : Sessions, counter : Nat, payload : Payloads, key : Keys]

(***************************************************************************)
(* The types of the fields of Session and of the messages it produces.     *)
(***************************************************************************)
TypeOK ==
  /\ handshake_complete \in [Sessions -> BOOLEAN]
  /\ selected_version \in [Sessions -> Option(Versions)]
  /\ ephemeral_kx_kp \in [Sessions -> Option(KeyPairs)]
  /\ session_keys \in [Sessions -> Option(SessionKeys)]
  /\ client_identity_kp \in [Sessions -> Option(Identities)]
  /\ peer_identity \in [Sessions -> Option(Identities)]
  /\ send_counter \in [Sessions -> Nat]
  /\ recv_counter \in [Sessions -> Nat]
  /\ clientHellos \subseteq ClientHello
  /\ serverHellos \subseteq ServerHello
  /\ packets \subseteq EncryptedPacket
  /\ generated \in [Sessions -> Nat]
  /\ attempts \in [Sessions -> Nat]
  /\ sent \in [Sessions -> Seq(Payloads)]
  /\ delivered \in [Sessions -> Seq([from : Sessions, index : Nat,
                                     payload : Payloads])]

(***************************************************************************)
(* A client that completed its handshake exchanged keys with a session     *)
(* that holds the signing key the client was configured with, whatever     *)
(* other servers answered and whatever it initiated again in between       *)
(* (client_finalize_handshake).                                            *)
(***************************************************************************)
ServerAuthenticated ==
  \A c \in Clients : handshake_complete[c] =>
    \E s \in Servers : /\ SigningKey[s] = SigningKey[c]
                       /\ session_keys[c].rx.server[1] = s

(***************************************************************************)
(* When a client and a server derived their keys from the same two         *)
(* ephemeral keys, each decrypts with the key the other encrypts with, and *)
(* if neither was handed a second hello, they run the same version: the    *)
(* most preferred one of the client's that the server supports             *)
(* (server_respond_to_handshake, client_finalize_handshake).               *)
(***************************************************************************)
SameExchange(c, s) ==
  /\ handshake_complete[c] /\ handshake_complete[s]
  /\ session_keys[c].tx.client = session_keys[s].rx.client
  /\ session_keys[c].tx.server = session_keys[s].rx.server

IsPreferredCommon(v, cv, sv) ==
  \E i \in DOMAIN cv :
    /\ cv[i] = v
    /\ \E j \in DOMAIN sv : sv[j] = v
    /\ \A k \in 1..(i - 1) : \A j \in DOMAIN sv : cv[k] # sv[j]

Agreement ==
  \A c \in Clients, s \in Servers : SameExchange(c, s) =>
    /\ session_keys[c].tx = session_keys[s].rx
    /\ session_keys[c].rx = session_keys[s].tx
    /\ attempts[c] = 1 /\ attempts[s] = 1 =>
         /\ selected_version[c] = selected_version[s]
         /\ IsPreferredCommon(selected_version[c], Supported[c], Supported[s])

(***************************************************************************)
(* The identity a server session reports is that of the client it shares   *)
(* keys with: the holder of the client's ephemeral key signed it with that *)
(* identity.  A session serves one hello only (WsServerWrapper makes a new *)
(* Session for every ClientHello); handed a second one without identity,   *)
(* it would keep the first one's (server_respond_to_handshake).            *)
(***************************************************************************)
IdentityIsThePeers ==
  \A s \in Servers : handshake_complete[s] /\ attempts[s] = 1 =>
    \E h \in clientHellos :
      /\ h.ephemeral_pk = session_keys[s].rx.client
      /\ h.identity_pk = peer_identity[s]

(***************************************************************************)
(* No two packets are encrypted under the same key with the same counter,  *)
(* also when a session handshakes again (encrypt_payload, the rekeying in  *)
(* server_respond_to_handshake and client_finalize_handshake).             *)
(***************************************************************************)
CountersUnique ==
  \A p, q \in packets : p.key = q.key /\ p.counter = q.counter => p = q

(***************************************************************************)
(* The sessions implement the lossy channel: decrypt_packet returns only   *)
(* payloads the other role encrypted, each at most once and in the order   *)
(* they were encrypted.                                                    *)
(***************************************************************************)
Channel == INSTANCE LossyChannel WITH sent <- sent, delivered <- delivered

ChannelSpec == Channel!Spec
=============================================================================
