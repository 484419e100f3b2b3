--------------------------- MODULE SessionProofs ---------------------------
(***************************************************************************)
(* Theorems about Session, for every set of sessions, versions, identities *)
(* and payloads and every bound.                                           *)
(***************************************************************************)
EXTENDS Session, Iteration, SequenceTheorems

(***************************************************************************)
(* What VersionNegotiator::negotiate returns for any two lists: nothing    *)
(* exactly when they have no version in common, else the first version of  *)
(* the client's list that the server's list contains.                      *)
(***************************************************************************)
THEOREM NegotiateCorrect ==
  ASSUME NEW cv \in Seq(Versions), NEW sv \in Seq(Versions)
  PROVE  /\ negotiate(cv, sv) \in Option(Versions)
         /\ negotiate(cv, sv) = None <=> Common(cv, sv) = {}
         /\ negotiate(cv, sv) # None => IsPreferredCommon(negotiate(cv, sv), cv, sv)
<1> DEFINE common == Common(cv, sv)
<1>1. common \subseteq 1..Len(cv)
  BY DEF Common
<1>2. CASE common = {}
  BY <1>2 DEF negotiate, Option
<1>3. CASE common # {}
  <2> DEFINE i == CHOOSE j \in common : \A k \in common : j <= k
  <2>1. i \in common /\ \A k \in common : i <= k
    <3>1. \E x \in common : \A y \in common : x <= y
      BY <1>1, <1>3, LeastNatural
    <3> QED
      BY <3>1
  <2>2. negotiate(cv, sv) = cv[i]
    BY <1>3 DEF negotiate
  <2>3. i \in 1..Len(cv) /\ cv[i] \in Versions
    BY <1>1, <2>1
  <2>4. cv[i] # None
    BY <2>3, ConfigAssumption
  <2>5. \E j \in DOMAIN sv : cv[i] = sv[j]
    BY <2>1 DEF Common
  <2>6. ASSUME NEW k \in 1..(i - 1), NEW j \in DOMAIN sv
        PROVE  cv[k] # sv[j]
    <3>1. k \in DOMAIN cv /\ ~ (i <= k)
      BY <2>3
    <3>2. k \notin common
      BY <2>1, <3>1
    <3> QED
      BY <3>1, <3>2 DEF Common
  <2> HIDE DEF i
  <2>7. IsPreferredCommon(cv[i], cv, sv)
    <3>1. i \in DOMAIN cv
      BY <2>3
    <3>2. \E j \in DOMAIN sv : sv[j] = cv[i]
      BY <2>5
    <3> QED
      BY <3>1, <3>2, <2>6, Zenon DEF IsPreferredCommon
  <2> QED
    BY <1>3, <2>2, <2>3, <2>4, <2>7 DEF Option
<1> QED
  BY <1>2, <1>3

-----------------------------------------------------------------------------
(***************************************************************************)
(* What is handed to a session has the fields of a hello.                  *)
(***************************************************************************)
LEMMA HelloInputs ==
  ASSUME TypeOK
  PROVE  /\ \A h \in ClientHelloInputs : /\ h.supported_versions \in Seq(Versions)
                                         /\ h.ephemeral_pk \in KeyPairs
                                         /\ h.identity_pk \in Option(Identities)
         /\ \A h \in ServerHelloInputs : /\ h.selected_version \in Versions
                                         /\ h.ephemeral_pk \in KeyPairs
<1>1. clientHellos \subseteq ClientHello /\ serverHellos \subseteq ServerHello
  BY DEF TypeOK
<1>2. ASSUME NEW h \in ClientHelloInputs
      PROVE  /\ h.supported_versions \in Seq(Versions)
             /\ h.ephemeral_pk \in KeyPairs
             /\ h.identity_pk \in Option(Identities)
  BY <1>1, <1>2 DEF ClientHelloInputs, ClientHello, Option
<1>3. ASSUME NEW h \in ServerHelloInputs
      PROVE  h.selected_version \in Versions /\ h.ephemeral_pk \in KeyPairs
  BY <1>1, <1>3 DEF ServerHelloInputs, ServerHello
<1> QED
  BY <1>2, <1>3

(***************************************************************************)
(* Session keys are pairs of keys, whoever computes them.                  *)
(***************************************************************************)
LEMMA ComputedKeys ==
  ASSUME NEW a \in KeyPairs, NEW b \in KeyPairs
  PROVE  /\ client_compute_session_keys(a, b) \in SessionKeys
         /\ server_compute_session_keys(a, b) \in SessionKeys
BY DEF client_compute_session_keys, server_compute_session_keys, SessionKey,
       SessionKeys, Keys

(***************************************************************************)
(* The keys of a session that completed its handshake are derived from its *)
(* own ephemeral key, and their directions fit its role.  TypeOK is not    *)
(* inductive without it: encrypt_payload and decrypt_packet use the keys   *)
(* when only handshake_complete_ was tested.                               *)
(***************************************************************************)
OwnKeys(s) ==
  /\ session_keys[s] \in SessionKeys
  /\ s \in Clients => /\ session_keys[s].tx.client[1] = s
                      /\ session_keys[s].tx.direction = "c2s"
                      /\ session_keys[s].rx.direction = "s2c"
  /\ s \in Servers => /\ session_keys[s].tx.server[1] = s
                      /\ session_keys[s].tx.direction = "s2c"
                      /\ session_keys[s].rx.direction = "c2s"

KeysInv ==
  /\ \A s \in Sessions : handshake_complete[s] => OwnKeys(s)
  /\ \A c \in Clients : ephemeral_kx_kp[c] \in Option({c} \X Nat)

LEMMA TypeInit == Init => TypeOK /\ KeysInv
<1> SUFFICES ASSUME Init PROVE TypeOK /\ KeysInv
  OBVIOUS
<1>1. TypeOK
  BY DEF Init, TypeOK, Option
<1>2. KeysInv
  BY DEF Init, KeysInv, Option, Sessions
<1> QED
  BY <1>1, <1>2

(***************************************************************************)
(* Every step keeps the types.                                             *)
(***************************************************************************)
LEMMA TypeStep ==
  ASSUME TypeOK, KeysInv, [Next]_vars
  PROVE  TypeOK'
<1> USE DEF TypeOK
<1>1. ASSUME NEW c \in Clients, NEW i \in Identities, set_client_identity_key(c, i)
      PROVE  TypeOK'
  BY <1>1 DEF set_client_identity_key, transferVars, Option
<1>2. ASSUME NEW c \in Clients, client_initiate_handshake(c)
      PROVE  TypeOK'
  <2> DEFINE kp == generate_kx_keypair(c)
             hello == [supported_versions |-> Supported[c],
                       ephemeral_pk |-> kp,
                       identity_pk |-> client_identity_kp[c],
                       identity_sig |-> IF client_identity_kp[c] = None THEN None
                                        ELSE sign(kp, client_identity_kp[c])]
  <2>1. c \in Sessions
    BY DEF Sessions
  <2>2. kp \in KeyPairs
    BY <2>1 DEF generate_kx_keypair, KeyPairs
  <2>3. client_identity_kp[c] \in Option(Identities)
    BY <2>1
  <2>4. hello \in ClientHello
    <3>1. client_identity_kp[c] # None => sign(kp, client_identity_kp[c]) \in Signatures
      BY <2>2, <2>3 DEF sign, Signatures, Option
    <3> QED
      BY <2>1, <2>2, <2>3, <3>1, ConfigAssumption DEF ClientHello, Option
  <2>5. clientHellos' = clientHellos \cup {hello}
    BY <1>2 DEF client_initiate_handshake
  <2>6. ephemeral_kx_kp' \in [Sessions -> Option(KeyPairs)]
    BY <1>2, <2>1, <2>2 DEF client_initiate_handshake, Option
  <2>7. generated' \in [Sessions -> Nat]
    BY <1>2, <2>1 DEF client_initiate_handshake
  <2> HIDE DEF kp, hello
  <2> QED
    BY <1>2, <2>4, <2>5, <2>6, <2>7 DEF client_initiate_handshake, transferVars
<1>3. ASSUME NEW s \in Servers, NEW h \in ClientHelloInputs,
             server_respond_to_handshake(s, h)
      PROVE  TypeOK'
  <2> DEFINE version == negotiate(h.supported_versions, Supported[s])
             kp == generate_kx_keypair(s)
  <2>1. s \in Sessions
    BY DEF Sessions
  <2>2. /\ h.supported_versions \in Seq(Versions)
        /\ h.ephemeral_pk \in KeyPairs
        /\ h.identity_pk \in Option(Identities)
    BY HelloInputs
  <2>3. version \in Option(Versions)
    BY <2>1, <2>2, ConfigAssumption, NegotiateCorrect
  <2>4. kp \in KeyPairs
    BY <2>1 DEF generate_kx_keypair, KeyPairs
  <2>5. attempts' \in [Sessions -> Nat]
    BY <1>3, <2>1 DEF server_respond_to_handshake
  <2>6. UNCHANGED <<client_identity_kp, clientHellos, transferVars>>
    BY <1>3 DEF server_respond_to_handshake
  <2>7. CASE RespondRefused(s, h)
    <3>1. selected_version' = [selected_version EXCEPT ![s] =
                                 IF version = None THEN @ ELSE version]
      BY <2>7 DEF RespondRefused
    <3>2. selected_version' \in [Sessions -> Option(Versions)]
      BY <2>1, <2>3, <3>1 DEF Option
    <3> HIDE DEF version
    <3> QED
      BY <2>5, <2>6, <2>7, <3>2 DEF RespondRefused, transferVars
  <2>8. CASE RespondAccepted(s, h)
    <3> DEFINE hello == [selected_version |-> version,
                         ephemeral_pk |-> kp,
                         signature |-> sign(kp, SigningKey[s])]
    <3>1. version \in Versions
      BY <2>3, <2>8 DEF RespondAccepted, Option
    <3>2. hello \in ServerHello
      BY <2>1, <2>4, <3>1 DEF ServerHello, Signatures, sign
    <3>3. serverHellos' = serverHellos \cup {hello}
      BY <2>8 DEF RespondAccepted
    <3>4. session_keys' \in [Sessions -> Option(SessionKeys)]
      <4>1. server_compute_session_keys(kp, h.ephemeral_pk) \in SessionKeys
        BY <2>2, <2>4, ComputedKeys
      <4> QED
        BY <2>1, <2>8, <4>1 DEF RespondAccepted, Option
    <3>5. selected_version' \in [Sessions -> Option(Versions)]
      BY <2>1, <2>8, <3>1 DEF RespondAccepted, Option
    <3>6. peer_identity' \in [Sessions -> Option(Identities)]
      BY <2>1, <2>2, <2>8 DEF RespondAccepted, Option
    <3>7. ephemeral_kx_kp' \in [Sessions -> Option(KeyPairs)]
      BY <2>1, <2>4, <2>8 DEF RespondAccepted, Option
    <3>8. /\ generated' \in [Sessions -> Nat]
          /\ handshake_complete' \in [Sessions -> BOOLEAN]
      BY <2>1, <2>8 DEF RespondAccepted
    <3> HIDE DEF version, kp, hello
    <3> QED
      BY <2>5, <2>6, <3>2, <3>3, <3>4, <3>5, <3>6, <3>7, <3>8 DEF transferVars
  <2> QED
    BY <1>3, <2>7, <2>8 DEF server_respond_to_handshake
<1>4. ASSUME NEW c \in Clients, NEW h \in ServerHelloInputs,
             client_finalize_handshake(c, h)
      PROVE  TypeOK'
  <2>1. c \in Sessions
    BY DEF Sessions
  <2>2. h.selected_version \in Versions /\ h.ephemeral_pk \in KeyPairs
    BY HelloInputs
  <2>3. attempts' \in [Sessions -> Nat]
    BY <1>4, <2>1 DEF client_finalize_handshake
  <2>4. ephemeral_kx_kp[c] \in KeyPairs
    BY <1>4, <2>1 DEF client_finalize_handshake, Initiated, Option
  <2>5. selected_version' \in [Sessions -> Option(Versions)]
    BY <1>4, <2>1, <2>2 DEF client_finalize_handshake, FinalizeRefused,
                            FinalizeAccepted, Option
  <2>6. /\ session_keys' \in [Sessions -> Option(SessionKeys)]
        /\ handshake_complete' \in [Sessions -> BOOLEAN]
    <3>1. client_compute_session_keys(ephemeral_kx_kp[c], h.ephemeral_pk) \in SessionKeys
      BY <2>2, <2>4, ComputedKeys
    <3>2. CASE FinalizeRefused(c, h)
      BY <3>2 DEF FinalizeRefused
    <3>3. CASE FinalizeAccepted(c, h)
      BY <2>1, <3>1, <3>3 DEF FinalizeAccepted, Option
    <3> QED
      BY <1>4, <3>2, <3>3 DEF client_finalize_handshake
  <2> QED
    BY <1>4, <2>3, <2>5, <2>6 DEF client_finalize_handshake, transferVars
<1>5. ASSUME NEW s \in Sessions, NEW m \in Payloads, encrypt_payload(s, m)
      PROVE  TypeOK'
  <2>1. session_keys[s].tx \in Keys
    BY <1>5 DEF encrypt_payload, KeysInv, OwnKeys, SessionKeys
  <2>2. encrypt(s, m, NextCounter(s), session_keys[s].tx) \in EncryptedPacket
    BY <2>1 DEF encrypt, NextCounter, EncryptedPacket
  <2>3. packets' \subseteq EncryptedPacket
    BY <1>5, <2>2 DEF encrypt_payload
  <2>4. send_counter' \in [Sessions -> Nat]
    BY <1>5 DEF encrypt_payload, NextCounter
  <2>5. sent' \in [Sessions -> Seq(Payloads)]
    BY <1>5 DEF encrypt_payload
  <2> QED
    BY <1>5, <2>3, <2>4, <2>5 DEF encrypt_payload, handshakeVars
<1>6. ASSUME NEW r \in Sessions, NEW p \in packets, decrypt_packet(r, p)
      PROVE  TypeOK'
  <2>1. p \in EncryptedPacket
    OBVIOUS
  <2>2. recv_counter' \in [Sessions -> Nat]
    BY <1>6, <2>1 DEF decrypt_packet, EncryptedPacket
  <2>3. delivered' \in [Sessions -> Seq([from : Sessions, index : Nat,
                                         payload : Payloads])]
    <3> DEFINE D == [from : Sessions, index : Nat, payload : Payloads]
               d == [from |-> p.from, index |-> p.counter, payload |-> p.payload]
    <3>1. d \in D
      BY <2>1 DEF EncryptedPacket
    <3>2. delivered' = [delivered EXCEPT ![r] = Append(@, d)]
      BY <1>6 DEF decrypt_packet
    <3>3. delivered \in [Sessions -> Seq(D)]
      OBVIOUS
    <3> HIDE DEF d, D
    <3>4. delivered' \in [Sessions -> Seq(D)]
      BY <3>1, <3>2, <3>3
    <3> QED
      BY <3>4 DEF D
  <2> QED
    BY <1>6, <2>2, <2>3 DEF decrypt_packet, handshakeVars
<1>7. CASE UNCHANGED vars
  BY <1>7 DEF vars, handshakeVars, transferVars
<1> QED
  BY <1>1, <1>2, <1>3, <1>4, <1>5, <1>6, <1>7 DEF Next

(***************************************************************************)
(* Every step keeps the keys the session's own.                            *)
(***************************************************************************)
LEMMA KeysStep ==
  ASSUME TypeOK, KeysInv, [Next]_vars
  PROVE  KeysInv'
<1> USE DEF KeysInv
<1>1. ASSUME NEW c \in Clients, NEW i \in Identities, set_client_identity_key(c, i)
      PROVE  KeysInv'
  BY <1>1 DEF set_client_identity_key, OwnKeys
<1>2. ASSUME NEW c \in Clients, client_initiate_handshake(c)
      PROVE  KeysInv'
  <2>1. generate_kx_keypair(c) \in {c} \X Nat
    BY DEF generate_kx_keypair, TypeOK, Sessions
  <2>2. \A d \in Clients : ephemeral_kx_kp'[d] \in Option({d} \X Nat)
    BY <1>2, <2>1 DEF client_initiate_handshake, TypeOK, Sessions, Option
  <2> QED
    BY <1>2, <2>2 DEF client_initiate_handshake, OwnKeys
<1>3. ASSUME NEW s \in Servers, NEW h \in ClientHelloInputs,
             server_respond_to_handshake(s, h)
      PROVE  KeysInv'
  <2>1. s \in Sessions /\ s \notin Clients
    BY RolesAssumption DEF Sessions
  <2>2. CASE RespondRefused(s, h)
    BY <2>2 DEF RespondRefused, OwnKeys
  <2>3. CASE RespondAccepted(s, h)
    <3> DEFINE kp == generate_kx_keypair(s)
               keys == server_compute_session_keys(kp, h.ephemeral_pk)
    <3>1. kp \in KeyPairs /\ kp[1] = s
      BY <2>1 DEF generate_kx_keypair, KeyPairs, TypeOK
    <3>2. h.ephemeral_pk \in KeyPairs
      BY HelloInputs
    <3>3. keys \in SessionKeys
      BY <3>1, <3>2, ComputedKeys
    <3>4. keys.tx.server[1] = s /\ keys.tx.direction = "s2c" /\ keys.rx.direction = "c2s"
      BY <3>1 DEF server_compute_session_keys, SessionKey
    <3>5. session_keys' = [session_keys EXCEPT ![s] = keys]
      BY <2>3 DEF RespondAccepted
    <3>6. handshake_complete' = [handshake_complete EXCEPT ![s] = TRUE]
      BY <2>3 DEF RespondAccepted
    <3>7. \A d \in Clients : ephemeral_kx_kp'[d] = ephemeral_kx_kp[d]
      BY <2>1, <2>3 DEF RespondAccepted, TypeOK, Sessions
    <3> HIDE DEF kp, keys
    <3>8. ASSUME NEW r \in Sessions, handshake_complete'[r]
          PROVE  OwnKeys(r)'
      <4>1. CASE r = s
        BY <2>1, <3>3, <3>4, <3>5, <4>1 DEF OwnKeys, TypeOK
      <4>2. CASE r # s
        BY <3>5, <3>6, <3>8, <4>2 DEF OwnKeys, TypeOK
      <4> QED
        BY <4>1, <4>2
    <3> QED
      BY <3>7, <3>8
  <2> QED
    BY <1>3, <2>2, <2>3 DEF server_respond_to_handshake
<1>4. ASSUME NEW c \in Clients, NEW h \in ServerHelloInputs,
             client_finalize_handshake(c, h)
      PROVE  KeysInv'
  <2>1. c \in Sessions /\ c \notin Servers
    BY RolesAssumption DEF Sessions
  <2>2. ephemeral_kx_kp' = ephemeral_kx_kp
    BY <1>4 DEF client_finalize_handshake
  <2>3. CASE FinalizeRefused(c, h)
    BY <2>2, <2>3 DEF FinalizeRefused, OwnKeys
  <2>4. CASE FinalizeAccepted(c, h)
    <3> DEFINE kp == ephemeral_kx_kp[c]
               keys == client_compute_session_keys(kp, h.ephemeral_pk)
    <3>1. kp \in KeyPairs /\ kp[1] = c
      BY <1>4, <2>1 DEF client_finalize_handshake, Initiated, Option, KeyPairs
    <3>2. h.ephemeral_pk \in KeyPairs
      BY HelloInputs
    <3>3. keys \in SessionKeys
      BY <3>1, <3>2, ComputedKeys
    <3>4. keys.tx.client[1] = c /\ keys.tx.direction = "c2s" /\ keys.rx.direction = "s2c"
      BY <3>1 DEF client_compute_session_keys, SessionKey
    <3>5. session_keys' = [session_keys EXCEPT ![c] = keys]
      BY <2>4 DEF FinalizeAccepted
    <3>6. handshake_complete' = [handshake_complete EXCEPT ![c] = TRUE]
      BY <2>4 DEF FinalizeAccepted
    <3> HIDE DEF kp, keys
    <3>7. ASSUME NEW r \in Sessions, handshake_complete'[r]
          PROVE  OwnKeys(r)'
      <4>1. CASE r = c
        BY <2>1, <3>3, <3>4, <3>5, <4>1 DEF OwnKeys, TypeOK
      <4>2. CASE r # c
        BY <3>5, <3>6, <3>7, <4>2 DEF OwnKeys, TypeOK
      <4> QED
        BY <4>1, <4>2
    <3> QED
      BY <2>2, <3>7
  <2> QED
    BY <1>4, <2>3, <2>4 DEF client_finalize_handshake
<1>5. ASSUME NEW s \in Sessions, NEW m \in Payloads, encrypt_payload(s, m)
      PROVE  KeysInv'
  BY <1>5 DEF encrypt_payload, handshakeVars, OwnKeys
<1>6. ASSUME NEW r \in Sessions, NEW p \in packets, decrypt_packet(r, p)
      PROVE  KeysInv'
  BY <1>6 DEF decrypt_packet, handshakeVars, OwnKeys
<1>7. CASE UNCHANGED vars
  BY <1>7 DEF vars, handshakeVars, transferVars, OwnKeys
<1> QED
  BY <1>1, <1>2, <1>3, <1>4, <1>5, <1>6, <1>7 DEF Next

LEMMA KeysInvariant == Spec => [](TypeOK /\ KeysInv)
<1>1. TypeOK /\ KeysInv /\ [Next]_vars => (TypeOK /\ KeysInv)'
  BY TypeStep, KeysStep
<1> QED
  BY TypeInit, <1>1, PTL DEF Spec

(***************************************************************************)
(* The fields of every Session and of every message keep their types.      *)
(***************************************************************************)
THEOREM TypeCorrect == Spec => []TypeOK
  BY KeysInvariant, PTL

-----------------------------------------------------------------------------
(***************************************************************************)
(* A completed handshake authenticates the server, gives both ends the     *)
(* same keys and version and reports the identity of the client that is    *)
(* there, for every set of sessions, signing keys, identities and versions *)
(* and every bound.                                                        *)
(***************************************************************************)

(***************************************************************************)
(* Every ServerHello a session produced carries an ephemeral key of that   *)
(* session, signed with the signing key of that session.                   *)
(***************************************************************************)
Signed(h) ==
  /\ h.ephemeral_pk[1] \in Servers
  /\ h.signature = sign(h.ephemeral_pk, SigningKey[h.ephemeral_pk[1]])

HellosInv == \A h \in serverHellos : Signed(h)

AuthInv == HellosInv /\ ServerAuthenticated

(***************************************************************************)
(* A hello whose signature verifies comes from a server with that key: the *)
(* damaged ones of ServerHelloInputs never verify.                         *)
(***************************************************************************)
LEMMA VerifiedIsGenuine ==
  ASSUME TypeOK, HellosInv, NEW c \in Sessions, NEW h \in ServerHelloInputs,
         verify(h.signature, h.ephemeral_pk, SigningKey[c])
  PROVE  /\ h.ephemeral_pk[1] \in Servers
         /\ SigningKey[h.ephemeral_pk[1]] = SigningKey[c]
<1>1. h.ephemeral_pk \in KeyPairs
  BY HelloInputs
<1>2. h.signature = sign(h.ephemeral_pk, SigningKey[c])
  BY DEF verify
<1>3. h.signature \in Signatures
  BY <1>1, <1>2 DEF sign, Signatures
<1>4. h.signature # None
  BY <1>3, ConfigAssumption
<1>5. h \in serverHellos
  <2>1. ASSUME NEW g \in serverHellos, h = [g EXCEPT !.signature = None]
        PROVE  FALSE
    <3>1. g \in ServerHello
      BY DEF TypeOK
    <3>2. h.signature = None
      BY <2>1, <3>1 DEF ServerHello
    <3> QED
      BY <1>4, <3>2
  <2> QED
    BY <2>1 DEF ServerHelloInputs
<1>6. Signed(h)
  BY <1>5 DEF HellosInv
<1>7. sign(h.ephemeral_pk, SigningKey[c]).signer = SigningKey[c]
  BY DEF sign
<1>8. sign(h.ephemeral_pk, SigningKey[h.ephemeral_pk[1]]).signer
        = SigningKey[h.ephemeral_pk[1]]
  BY DEF sign
<1> QED
  BY <1>2, <1>6, <1>7, <1>8 DEF Signed

LEMMA HellosStep ==
  ASSUME TypeOK, HellosInv, [Next]_vars
  PROVE  HellosInv'
<1>1. CASE serverHellos' = serverHellos
  BY <1>1 DEF HellosInv, Signed
<1>2. ASSUME NEW s \in Servers, NEW h \in ClientHelloInputs,
             server_respond_to_handshake(s, h)
      PROVE  HellosInv'
  <2>1. CASE RespondRefused(s, h)
    BY <1>1, <2>1 DEF RespondRefused
  <2>2. CASE RespondAccepted(s, h)
    <3> DEFINE kp == generate_kx_keypair(s)
               new == [selected_version |-> negotiate(h.supported_versions, Supported[s]),
                       ephemeral_pk |-> kp,
                       signature |-> sign(kp, SigningKey[s])]
    <3>1. kp[1] = s
      BY DEF generate_kx_keypair
    <3>2. new.ephemeral_pk = kp /\ new.signature = sign(kp, SigningKey[s])
      OBVIOUS
    <3>3. serverHellos' = serverHellos \cup {new}
      BY <2>2 DEF RespondAccepted
    <3> HIDE DEF kp, new
    <3>4. Signed(new)
      BY <3>1, <3>2 DEF Signed
    <3> QED
      BY <3>3, <3>4 DEF HellosInv, Signed
  <2> QED
    BY <1>2, <2>1, <2>2 DEF server_respond_to_handshake
<1> QED
  BY <1>1, <1>2 DEF Next, set_client_identity_key, client_initiate_handshake,
                    client_finalize_handshake, encrypt_payload, decrypt_packet,
                    vars, handshakeVars

LEMMA AuthStep ==
  ASSUME TypeOK, HellosInv, ServerAuthenticated, [Next]_vars
  PROVE  ServerAuthenticated'
<1>1. CASE UNCHANGED <<handshake_complete, session_keys>>
  BY <1>1 DEF ServerAuthenticated
<1>2. ASSUME NEW s \in Servers, NEW h \in ClientHelloInputs,
             server_respond_to_handshake(s, h)
      PROVE  ServerAuthenticated'
  <2>1. CASE RespondRefused(s, h)
    BY <1>1, <2>1 DEF RespondRefused
  <2>2. CASE RespondAccepted(s, h)
    <3>1. \A c \in Clients : /\ handshake_complete'[c] = handshake_complete[c]
                             /\ session_keys'[c] = session_keys[c]
      BY <2>2, RolesAssumption DEF RespondAccepted, TypeOK, Sessions
    <3> QED
      BY <3>1 DEF ServerAuthenticated
  <2> QED
    BY <1>2, <2>1, <2>2 DEF server_respond_to_handshake
<1>3. ASSUME NEW c \in Clients, NEW h \in ServerHelloInputs,
             client_finalize_handshake(c, h)
      PROVE  ServerAuthenticated'
  <2>1. CASE FinalizeRefused(c, h)
    BY <1>1, <2>1 DEF FinalizeRefused
  <2>2. CASE FinalizeAccepted(c, h)
    <3> DEFINE keys == client_compute_session_keys(ephemeral_kx_kp[c], h.ephemeral_pk)
    <3>1. /\ h.ephemeral_pk[1] \in Servers
          /\ SigningKey[h.ephemeral_pk[1]] = SigningKey[c]
      BY <2>2, VerifiedIsGenuine DEF FinalizeAccepted, Sessions
    <3>2. keys.rx.server = h.ephemeral_pk
      BY DEF client_compute_session_keys, SessionKey
    <3>3. /\ session_keys' = [session_keys EXCEPT ![c] = keys]
          /\ handshake_complete' = [handshake_complete EXCEPT ![c] = TRUE]
      BY <2>2 DEF FinalizeAccepted
    <3> HIDE DEF keys
    <3>4. session_keys'[c].rx.server[1] = h.ephemeral_pk[1]
      BY <3>2, <3>3 DEF TypeOK, Sessions
    <3>5. \A d \in Clients \ {c} : /\ handshake_complete'[d] = handshake_complete[d]
                                   /\ session_keys'[d] = session_keys[d]
      BY <3>3 DEF TypeOK, Sessions
    <3> QED
      BY <3>1, <3>4, <3>5 DEF ServerAuthenticated
  <2> QED
    BY <1>3, <2>1, <2>2 DEF client_finalize_handshake
<1> QED
  BY <1>1, <1>2, <1>3 DEF Next, set_client_identity_key, client_initiate_handshake,
                          encrypt_payload, decrypt_packet, vars, handshakeVars

-----------------------------------------------------------------------------
(***************************************************************************)
(* A client that completed its handshake shares its keys with a server     *)
(* session that holds the signing key the client expects: the check of     *)
(* client_finalize_handshake against get_public_key of the server.         *)
(***************************************************************************)
THEOREM ServerAuthenticatedHolds == Spec => []ServerAuthenticated
<1>1. Init => AuthInv
  BY DEF Init, AuthInv, HellosInv, ServerAuthenticated, Sessions
<1>2. TypeOK /\ AuthInv /\ [Next]_vars => AuthInv'
  BY HellosStep, AuthStep DEF AuthInv
<1>3. AuthInv => ServerAuthenticated
  BY DEF AuthInv
<1> QED
  BY <1>1, <1>2, <1>3, TypeCorrect, PTL DEF Spec

-----------------------------------------------------------------------------
(***************************************************************************)
(* The two ends of one exchange.  A ClientHello carries the versions of    *)
(* the client whose ephemeral key it holds and is signed with the identity *)
(* it claims; both keys of a session come from the same two ephemeral      *)
(* keys.  What a session holds after a single hello is what that hello     *)
(* made of it: a server's answers, identity and version (Served), a        *)
(* client's server key and version (Joined).                               *)
(***************************************************************************)
ClientHellosInv ==
  \A h \in clientHellos :
    /\ h.supported_versions = Supported[h.ephemeral_pk[1]]
    /\ h.identity_pk # None => h.identity_sig = sign(h.ephemeral_pk, h.identity_pk)

PairInv ==
  \A s \in Sessions : handshake_complete[s] =>
    /\ session_keys[s].rx.client = session_keys[s].tx.client
    /\ session_keys[s].rx.server = session_keys[s].tx.server

AnswerOf(s, h) == h \in serverHellos /\ h.ephemeral_pk[1] = s

Serves(s, h) ==
  /\ h.ephemeral_pk = session_keys[s].rx.client
  /\ h.identity_pk = peer_identity[s]
  /\ selected_version[s] # None
  /\ selected_version[s] = negotiate(h.supported_versions, Supported[s])

Served(s) ==
  /\ attempts[s] = 0 => /\ ~handshake_complete[s] /\ peer_identity[s] = None
                        /\ \A h \in serverHellos : ~AnswerOf(s, h)
  /\ attempts[s] = 1 =>
       \A h \in serverHellos : AnswerOf(s, h) => h.selected_version = selected_version[s]
  /\ attempts[s] = 1 /\ handshake_complete[s] => \E h \in clientHellos : Serves(s, h)

ServedInv == \A s \in Servers : Served(s)

Joined(c) ==
  /\ attempts[c] = 0 => ~handshake_complete[c]
  /\ attempts[c] = 1 /\ handshake_complete[c] =>
       \E h \in serverHellos : /\ h.ephemeral_pk = session_keys[c].tx.server
                               /\ h.selected_version = selected_version[c]

JoinedInv == \A c \in Clients : Joined(c)

LEMMA ClientHellosStep ==
  ASSUME TypeOK, ClientHellosInv, [Next]_vars
  PROVE  ClientHellosInv' /\ clientHellos \subseteq clientHellos'
<1>1. CASE clientHellos' = clientHellos
  BY <1>1 DEF ClientHellosInv
<1>2. ASSUME NEW c \in Clients, client_initiate_handshake(c)
      PROVE  ClientHellosInv' /\ clientHellos \subseteq clientHellos'
  <2> DEFINE kp == generate_kx_keypair(c)
             identity == client_identity_kp[c]
  <2>1. PICK new : new = [supported_versions |-> Supported[c],
                          ephemeral_pk |-> kp,
                          identity_pk |-> identity,
                          identity_sig |-> IF identity = None THEN None
                                           ELSE sign(kp, identity)]
    OBVIOUS
  <2>2. clientHellos' = clientHellos \cup {new}
    BY <1>2, <2>1 DEF client_initiate_handshake
  <2>3. kp[1] = c
    BY DEF generate_kx_keypair
  <2> HIDE DEF kp, identity
  <2>4. /\ new.supported_versions = Supported[new.ephemeral_pk[1]]
        /\ new.identity_pk # None => new.identity_sig = sign(new.ephemeral_pk, new.identity_pk)
    BY <2>1, <2>3
  <2> QED
    BY <2>2, <2>4 DEF ClientHellosInv
<1> QED
  BY <1>1, <1>2 DEF Next, set_client_identity_key, server_respond_to_handshake,
                    client_finalize_handshake, encrypt_payload, decrypt_packet,
                    vars, handshakeVars

LEMMA PairStep ==
  ASSUME TypeOK, PairInv, [Next]_vars
  PROVE  PairInv'
<1>1. CASE UNCHANGED <<handshake_complete, session_keys>>
  BY <1>1 DEF PairInv
<1>2. ASSUME NEW s \in Sessions, NEW a, NEW b, NEW keys,
             \/ keys = client_compute_session_keys(a, b)
             \/ keys = server_compute_session_keys(a, b),
             session_keys' = [session_keys EXCEPT ![s] = keys],
             handshake_complete' = [handshake_complete EXCEPT ![s] = TRUE]
      PROVE  PairInv'
  <2>1. keys.rx.client = keys.tx.client /\ keys.rx.server = keys.tx.server
    BY <1>2 DEF client_compute_session_keys, server_compute_session_keys, SessionKey
  <2>2. session_keys'[s] = keys
    BY <1>2 DEF TypeOK
  <2>3. \A r \in Sessions \ {s} : /\ handshake_complete'[r] = handshake_complete[r]
                                  /\ session_keys'[r] = session_keys[r]
    BY <1>2 DEF TypeOK
  <2> QED
    BY <2>1, <2>2, <2>3 DEF PairInv
<1>3. ASSUME NEW s \in Servers, NEW h \in ClientHelloInputs,
             server_respond_to_handshake(s, h)
      PROVE  PairInv'
  <2>1. CASE RespondRefused(s, h)
    BY <1>1, <2>1 DEF RespondRefused
  <2>2. CASE RespondAccepted(s, h)
    BY <1>2, <2>2 DEF RespondAccepted, Sessions
  <2> QED
    BY <1>3, <2>1, <2>2 DEF server_respond_to_handshake
<1>4. ASSUME NEW c \in Clients, NEW h \in ServerHelloInputs,
             client_finalize_handshake(c, h)
      PROVE  PairInv'
  <2>1. CASE FinalizeRefused(c, h)
    BY <1>1, <2>1 DEF FinalizeRefused
  <2>2. CASE FinalizeAccepted(c, h)
    BY <1>2, <2>2 DEF FinalizeAccepted, Sessions
  <2> QED
    BY <1>4, <2>1, <2>2 DEF client_finalize_handshake
<1> QED
  BY <1>1, <1>3, <1>4 DEF Next, set_client_identity_key, client_initiate_handshake,
                          encrypt_payload, decrypt_packet, vars, handshakeVars

\* A hello whose identity is accepted is, up to a signature nobody looks at, one
\* that a client produced: a false claim of an identity does not verify.
LEMMA AcceptedIsGenuine ==
  ASSUME TypeOK, ClientHellosInv, NEW h \in ClientHelloInputs, IdentityAccepted(h)
  PROVE  \E g \in clientHellos : /\ g.ephemeral_pk = h.ephemeral_pk
                                 /\ g.identity_pk = h.identity_pk
                                 /\ g.supported_versions = h.supported_versions
<1>0. clientHellos \subseteq ClientHello
  BY DEF TypeOK
<1>1. CASE h \in clientHellos
  BY <1>1
<1>2. ASSUME NEW g \in clientHellos, h = [g EXCEPT !.identity_sig = None]
      PROVE  /\ g.ephemeral_pk = h.ephemeral_pk /\ g.identity_pk = h.identity_pk
             /\ g.supported_versions = h.supported_versions
  BY <1>0, <1>2 DEF ClientHello
<1>3. ASSUME NEW g \in clientHellos, g.identity_pk # None, NEW i \in Identities,
             h = [g EXCEPT !.identity_pk = i]
      PROVE  /\ g.ephemeral_pk = h.ephemeral_pk /\ g.identity_pk = h.identity_pk
             /\ g.supported_versions = h.supported_versions
  <2>1. g \in ClientHello
    BY <1>0
  <2>2. /\ h.identity_pk = i /\ h.identity_sig = g.identity_sig
        /\ h.ephemeral_pk = g.ephemeral_pk
        /\ h.supported_versions = g.supported_versions
    BY <1>3, <2>1 DEF ClientHello
  <2>3. i # None
    BY <1>3, ConfigAssumption
  <2>4. sign(g.ephemeral_pk, g.identity_pk) = sign(g.ephemeral_pk, i)
    BY <1>3, <2>2, <2>3 DEF IdentityAccepted, verify, ClientHellosInv
  <2>5. g.identity_pk = i
    BY <2>4 DEF sign
  <2> QED
    BY <2>2, <2>5
<1> QED
  BY <1>1, <1>2, <1>3 DEF ClientHelloInputs

LEMMA ServedKept ==
  ASSUME NEW s, Served(s), clientHellos \subseteq clientHellos',
         \A h \in serverHellos' : h.ephemeral_pk[1] = s => h \in serverHellos,
         attempts'[s] = attempts[s], handshake_complete'[s] = handshake_complete[s],
         peer_identity'[s] = peer_identity[s], session_keys'[s] = session_keys[s],
         selected_version'[s] = selected_version[s]
  PROVE  Served(s)'
<1>1. \A h : Serves(s, h) => Serves(s, h)'
  BY DEF Serves
<1>2. \A h : AnswerOf(s, h)' => AnswerOf(s, h)
  BY DEF AnswerOf
<1> QED
  BY <1>1, <1>2 DEF Served, AnswerOf

LEMMA ServedStep ==
  ASSUME TypeOK, ClientHellosInv, ServedInv, [Next]_vars
  PROVE  ServedInv'
<1>0. clientHellos \subseteq clientHellos'
  BY ClientHellosStep
<1>1. ASSUME UNCHANGED <<serverHellos, attempts, handshake_complete, peer_identity,
                         session_keys, selected_version>>
      PROVE  ServedInv'
  BY <1>0, <1>1, ServedKept DEF ServedInv
<1>2. ASSUME NEW s \in Servers, NEW h \in ClientHelloInputs,
             server_respond_to_handshake(s, h)
      PROVE  ServedInv'
  <2> SUFFICES ASSUME NEW r \in Servers PROVE Served(r)'
    BY DEF ServedInv
  <2> DEFINE version == negotiate(h.supported_versions, Supported[s])
             kp == generate_kx_keypair(s)
  <2>0. s \in Sessions /\ r \in Sessions /\ Served(r) /\ Served(s) /\ kp[1] = s
    BY DEF Sessions, ServedInv, generate_kx_keypair
  <2>1. attempts'[s] = attempts[s] + 1 /\ attempts[s] \in Nat
        /\ (r # s => attempts'[r] = attempts[r])
    BY <1>2, <2>0 DEF server_respond_to_handshake, TypeOK
  <2>2. CASE RespondRefused(s, h)
    <3>1. /\ UNCHANGED <<handshake_complete, session_keys, peer_identity, serverHellos>>
          /\ r # s => selected_version'[r] = selected_version[r]
      BY <2>0, <2>2 DEF RespondRefused, TypeOK
    <3>2. CASE r # s
      BY <1>0, <2>0, <2>1, <3>1, <3>2, ServedKept
    <3>3. CASE r = s
      <4>1. attempts'[s] # 0 /\ (attempts'[s] = 1 => attempts[s] = 0)
        BY <2>1
      <4> QED
        BY <2>0, <3>1, <3>3, <4>1 DEF Served, AnswerOf
    <3> QED
      BY <3>2, <3>3
  <2>3. CASE RespondAccepted(s, h)
    <3>1. PICK new : new = [selected_version |-> version, ephemeral_pk |-> kp,
                            signature |-> sign(kp, SigningKey[s])]
      OBVIOUS
    <3>2. PICK keys : keys = server_compute_session_keys(kp, h.ephemeral_pk)
      OBVIOUS
    <3>3. /\ version # None /\ IdentityAccepted(h)
          /\ selected_version' = [selected_version EXCEPT ![s] = version]
          /\ peer_identity' = [peer_identity EXCEPT ![s] =
                                 IF h.identity_pk = None THEN @ ELSE h.identity_pk]
          /\ session_keys' = [session_keys EXCEPT ![s] = keys]
          /\ serverHellos' = serverHellos \cup {new}
          /\ handshake_complete' = [handshake_complete EXCEPT ![s] = TRUE]
      BY <2>3, <3>1, <3>2 DEF RespondAccepted
    <3>4. keys.rx.client = h.ephemeral_pk
      BY <3>2 DEF server_compute_session_keys, SessionKey
    <3>5. new.ephemeral_pk[1] = s /\ new.selected_version = version
      BY <2>0, <3>1
    <3>6. version = negotiate(h.supported_versions, Supported[s])
      OBVIOUS
    <3> HIDE DEF version, kp
    <3>7. CASE r # s
      <4>1. /\ handshake_complete'[r] = handshake_complete[r]
            /\ peer_identity'[r] = peer_identity[r] /\ session_keys'[r] = session_keys[r]
            /\ selected_version'[r] = selected_version[r]
        BY <2>0, <3>3, <3>7 DEF TypeOK
      <4>2. \A g \in serverHellos' : g.ephemeral_pk[1] = r => g \in serverHellos
        BY <3>3, <3>5, <3>7
      <4> QED
        BY <1>0, <2>0, <2>1, <3>7, <4>1, <4>2, ServedKept
    <3>8. CASE r = s
      <4>1. attempts'[s] # 0 /\ (attempts'[s] = 1 => attempts[s] = 0)
        BY <2>1
      <4> SUFFICES ASSUME attempts[s] = 0
                   PROVE  /\ \A g \in serverHellos' : AnswerOf(s, g)' =>
                               g.selected_version = selected_version'[s]
                          /\ \E g \in clientHellos' : Serves(s, g)'
        BY <3>8, <4>1 DEF Served
      <4>2. /\ selected_version'[s] = version /\ session_keys'[s] = keys
            /\ peer_identity'[s] = h.identity_pk
        BY <2>0, <3>3 DEF TypeOK, Served
      <4>3. \A g \in serverHellos' : AnswerOf(s, g)' =>
              g.selected_version = selected_version'[s]
        BY <2>0, <3>3, <3>5, <4>2 DEF Served, AnswerOf
      <4>4. PICK g \in clientHellos : /\ g.ephemeral_pk = h.ephemeral_pk
                                      /\ g.identity_pk = h.identity_pk
                                      /\ g.supported_versions = h.supported_versions
        BY <3>3, AcceptedIsGenuine
      <4>5. Serves(s, g)'
        BY <3>3, <3>4, <3>6, <4>2, <4>4 DEF Serves
      <4> QED
        BY <1>0, <4>3, <4>4, <4>5
    <3> QED
      BY <3>7, <3>8
  <2> QED
    BY <1>2, <2>2, <2>3 DEF server_respond_to_handshake
<1>3. ASSUME NEW c \in Clients, NEW h \in ServerHelloInputs,
             client_finalize_handshake(c, h)
      PROVE  ServedInv'
  <2> SUFFICES ASSUME NEW r \in Servers PROVE Served(r)'
    BY DEF ServedInv
  <2>1. r # c /\ r \in Sessions /\ c \in Sessions
    BY RolesAssumption DEF Sessions
  <2>2. /\ UNCHANGED <<serverHellos, peer_identity>>
        /\ attempts'[r] = attempts[r]
    BY <1>3, <2>1 DEF client_finalize_handshake, TypeOK
  <2>3. /\ handshake_complete'[r] = handshake_complete[r]
        /\ session_keys'[r] = session_keys[r]
        /\ selected_version'[r] = selected_version[r]
    BY <1>3, <2>1 DEF client_finalize_handshake, FinalizeRefused, FinalizeAccepted, TypeOK
  <2> QED
    BY <1>0, <2>2, <2>3, ServedKept DEF ServedInv
<1> QED
  BY <1>1, <1>2, <1>3 DEF Next, set_client_identity_key, client_initiate_handshake,
                          encrypt_payload, decrypt_packet, vars, handshakeVars

LEMMA JoinedStep ==
  ASSUME TypeOK, HellosInv, JoinedInv, [Next]_vars
  PROVE  JoinedInv'
<1>1. ASSUME NEW c \in Clients, serverHellos \subseteq serverHellos',
             attempts'[c] = attempts[c], handshake_complete'[c] = handshake_complete[c],
             session_keys'[c] = session_keys[c], selected_version'[c] = selected_version[c]
      PROVE  Joined(c)'
  BY <1>1 DEF JoinedInv, Joined
<1>2. ASSUME UNCHANGED <<serverHellos, attempts, handshake_complete, session_keys,
                         selected_version>>
      PROVE  JoinedInv'
  BY <1>1, <1>2 DEF JoinedInv
<1>3. ASSUME NEW s \in Servers, NEW h \in ClientHelloInputs,
             server_respond_to_handshake(s, h)
      PROVE  JoinedInv'
  <2> SUFFICES ASSUME NEW c \in Clients PROVE Joined(c)'
    BY DEF JoinedInv
  <2>1. s # c /\ s \in Sessions /\ c \in Sessions
    BY RolesAssumption DEF Sessions
  <2>2. attempts'[c] = attempts[c]
    BY <1>3, <2>1 DEF server_respond_to_handshake, TypeOK
  <2>3. /\ handshake_complete'[c] = handshake_complete[c]
        /\ session_keys'[c] = session_keys[c]
        /\ selected_version'[c] = selected_version[c]
        /\ serverHellos \subseteq serverHellos'
    BY <1>3, <2>1 DEF server_respond_to_handshake, RespondRefused, RespondAccepted, TypeOK
  <2> QED
    BY <1>1, <2>2, <2>3
<1>4. ASSUME NEW d \in Clients, NEW h \in ServerHelloInputs,
             client_finalize_handshake(d, h)
      PROVE  JoinedInv'
  <2> SUFFICES ASSUME NEW c \in Clients PROVE Joined(c)'
    BY DEF JoinedInv
  <2>0. c \in Sessions /\ d \in Sessions /\ Joined(c)
    BY DEF Sessions, JoinedInv
  <2>1. /\ UNCHANGED serverHellos
        /\ attempts'[d] = attempts[d] + 1 /\ attempts[d] \in Nat
        /\ c # d => attempts'[c] = attempts[c]
    BY <1>4, <2>0 DEF client_finalize_handshake, TypeOK
  <2>2. attempts'[d] # 0 /\ (attempts'[d] = 1 => attempts[d] = 0)
    BY <2>1
  <2>3. CASE c # d
    <3>1. /\ handshake_complete'[c] = handshake_complete[c]
          /\ session_keys'[c] = session_keys[c]
          /\ selected_version'[c] = selected_version[c]
      BY <1>4, <2>0, <2>3 DEF client_finalize_handshake, FinalizeRefused,
                              FinalizeAccepted, TypeOK
    <3> QED
      BY <1>1, <2>1, <2>3, <3>1
  <2>4. CASE c = d /\ FinalizeRefused(c, h)
    <3>1. UNCHANGED handshake_complete
      BY <2>4 DEF FinalizeRefused
    <3> QED
      BY <2>0, <2>2, <2>4, <3>1 DEF Joined
  <2>5. CASE c = d /\ FinalizeAccepted(c, h)
    <3>1. PICK keys : keys = client_compute_session_keys(ephemeral_kx_kp[c], h.ephemeral_pk)
      OBVIOUS
    <3>2. /\ session_keys' = [session_keys EXCEPT ![c] = keys]
          /\ selected_version' = [selected_version EXCEPT ![c] = h.selected_version]
      BY <2>5, <3>1 DEF FinalizeAccepted
    <3>3. session_keys'[c] = keys /\ selected_version'[c] = h.selected_version
      BY <2>0, <3>2 DEF TypeOK
    <3>4. keys.tx.server = h.ephemeral_pk
      BY <3>1 DEF client_compute_session_keys, SessionKey
    <3>5. \E g \in serverHellos : /\ g.ephemeral_pk = h.ephemeral_pk
                                  /\ g.selected_version = h.selected_version
      <4>1. serverHellos \subseteq ServerHello
        BY DEF TypeOK
      <4>2. ASSUME NEW g \in serverHellos, h = [g EXCEPT !.signature = None]
            PROVE  g.ephemeral_pk = h.ephemeral_pk /\ g.selected_version = h.selected_version
        BY <4>1, <4>2 DEF ServerHello
      <4> QED
        BY <4>2 DEF ServerHelloInputs
    <3> QED
      BY <2>1, <2>2, <2>5, <3>3, <3>4, <3>5 DEF Joined
  <2> QED
    BY <1>4, <2>3, <2>4, <2>5 DEF client_finalize_handshake
<1> QED
  BY <1>2, <1>3, <1>4 DEF Next, set_client_identity_key, client_initiate_handshake,
                          encrypt_payload, decrypt_packet, vars, handshakeVars

ExchangeInv == HellosInv /\ ClientHellosInv /\ PairInv /\ ServedInv /\ JoinedInv

LEMMA ExchangeInvariant == Spec => [](TypeOK /\ KeysInv /\ ExchangeInv)
<1>1. Init => ExchangeInv
  BY DEF Init, ExchangeInv, HellosInv, ClientHellosInv, PairInv, ServedInv, Served,
         JoinedInv, Joined, Sessions
<1>2. TypeOK /\ ExchangeInv /\ [Next]_vars => ExchangeInv'
  BY HellosStep, ClientHellosStep, PairStep, ServedStep, JoinedStep DEF ExchangeInv
<1> QED
  BY <1>1, <1>2, KeysInvariant, PTL DEF Spec

(***************************************************************************)
(* The identity a server session reports after its hello is that of the    *)
(* client it shares keys with: server_respond_to_handshake verifies the    *)
(* signature over the ephemeral key it goes on to use.                     *)
(***************************************************************************)
THEOREM IdentityIsThePeersHolds == Spec => []IdentityIsThePeers
<1>1. ExchangeInv => IdentityIsThePeers
  BY DEF ExchangeInv, ServedInv, Served, Serves, IdentityIsThePeers
<1> QED
  BY <1>1, ExchangeInvariant, PTL

(***************************************************************************)
(* A client and a server that derived their keys from the same ephemeral   *)
(* keys mirror each other's keys; after one hello each they run the same   *)
(* version, the client's most preferred one that the server supports.      *)
(***************************************************************************)
THEOREM AgreementHolds == Spec => []Agreement
<1>1. TypeOK /\ KeysInv /\ ExchangeInv => Agreement
  <2> SUFFICES ASSUME TypeOK, KeysInv, ExchangeInv, NEW c \in Clients, NEW s \in Servers,
                      SameExchange(c, s)
               PROVE  /\ session_keys[c].tx = session_keys[s].rx
                      /\ session_keys[c].rx = session_keys[s].tx
                      /\ attempts[c] = 1 /\ attempts[s] = 1 =>
                           /\ selected_version[c] = selected_version[s]
                           /\ IsPreferredCommon(selected_version[c], Supported[c],
                                                Supported[s])
    BY DEF Agreement
  <2>0. c \in Sessions /\ s \in Sessions
    BY DEF Sessions
  <2>1. /\ OwnKeys(c) /\ OwnKeys(s)
        /\ session_keys[c].tx.client = session_keys[s].rx.client
        /\ session_keys[c].tx.server = session_keys[s].rx.server
    BY <2>0 DEF SameExchange, KeysInv
  <2>2. /\ session_keys[c].rx.client = session_keys[c].tx.client
        /\ session_keys[c].rx.server = session_keys[c].tx.server
        /\ session_keys[s].rx.client = session_keys[s].tx.client
        /\ session_keys[s].rx.server = session_keys[s].tx.server
    BY <2>0 DEF SameExchange, ExchangeInv, PairInv
  <2>3. \A k, l \in Keys :
          (k.client = l.client /\ k.server = l.server /\ k.direction = l.direction) => k = l
    BY DEF Keys
  <2>4. /\ session_keys[c].tx \in Keys /\ session_keys[c].rx \in Keys
        /\ session_keys[s].tx \in Keys /\ session_keys[s].rx \in Keys
        /\ session_keys[c].tx.direction = session_keys[s].rx.direction
        /\ session_keys[c].rx.direction = session_keys[s].tx.direction
        /\ session_keys[c].tx.client[1] = c /\ session_keys[s].tx.server[1] = s
    BY <2>1 DEF OwnKeys, SessionKeys
  <2>5. session_keys[c].tx = session_keys[s].rx /\ session_keys[c].rx = session_keys[s].tx
    BY <2>1, <2>2, <2>3, <2>4
  <2>6. ASSUME attempts[c] = 1, attempts[s] = 1
        PROVE  /\ selected_version[c] = selected_version[s]
               /\ IsPreferredCommon(selected_version[c], Supported[c], Supported[s])
    <3>1. PICK h \in serverHellos : /\ h.ephemeral_pk = session_keys[c].tx.server
                                    /\ h.selected_version = selected_version[c]
      BY <2>6 DEF ExchangeInv, JoinedInv, Joined, SameExchange
    <3>2. AnswerOf(s, h)
      BY <2>1, <2>2, <2>4, <3>1 DEF AnswerOf
    <3>3. selected_version[c] = selected_version[s]
      BY <2>6, <3>1, <3>2 DEF ExchangeInv, ServedInv, Served
    <3>4. PICK g \in clientHellos : Serves(s, g)
      BY <2>6 DEF ExchangeInv, ServedInv, Served, SameExchange
    <3>5. g.supported_versions = Supported[c]
      BY <2>1, <2>4, <3>4 DEF ExchangeInv, ClientHellosInv, Serves
    <3>6. Supported[c] \in Seq(Versions) /\ Supported[s] \in Seq(Versions)
      BY <2>0, ConfigAssumption
    <3> QED
      BY <3>3, <3>4, <3>5, <3>6, NegotiateCorrect DEF Serves
  <2> QED
    BY <2>5, <2>6
<1> QED
  BY <1>1, ExchangeInvariant, PTL

-----------------------------------------------------------------------------
(***************************************************************************)
(* Sessions implement the lossy channel and never reuse a counter under a  *)
(* key, for every set of sessions, versions, identities and payloads and   *)
(* every bound.                                                            *)
(***************************************************************************)

(***************************************************************************)
(* A packet was encrypted with a key that belongs to its sender, in the    *)
(* direction of the sender's role.                                         *)
(***************************************************************************)
SendersKey(p) ==
  /\ p.from \in Clients => p.key.direction = "c2s" /\ p.key.client[1] = p.from
  /\ p.from \in Servers => p.key.direction = "s2c" /\ p.key.server[1] = p.from

(***************************************************************************)
(* A packet holds the payload its sender sent as the how-manieth its       *)
(* counter says, according to a log of what everybody sent.                *)
(***************************************************************************)
Genuine(p, log) ==
  /\ p.counter \in 1..Len(log[p.from])
  /\ p.payload = log[p.from][p.counter]
  /\ SendersKey(p)

(***************************************************************************)
(* What the counters, the packets and the two logs have to do with each    *)
(* other.                                                                  *)
(***************************************************************************)
PacketsInv ==
  /\ \A s \in Sessions : send_counter[s] = Len(sent[s])
  /\ \A p \in packets : Genuine(p, sent)
  /\ \A p, q \in packets : p.from = q.from /\ p.counter = q.counter => p = q

ReceivedInv == \A r \in Sessions : recv_counter[r] = Channel!LastIndex(r)

LEMMA PacketsInit == Init => PacketsInv /\ ReceivedInv
  BY DEF Init, PacketsInv, ReceivedInv, Channel!LastIndex

(***************************************************************************)
(* Only encrypt_payload and decrypt_packet touch counters and logs.        *)
(***************************************************************************)
LEMMA HandshakeLeavesTransfer ==
  ASSUME Next
  PROVE  \/ UNCHANGED transferVars
         \/ \E s \in Sessions, m \in Payloads : encrypt_payload(s, m)
         \/ \E r \in Sessions : \E p \in packets : decrypt_packet(r, p)
BY DEF Next, set_client_identity_key, client_initiate_handshake,
       server_respond_to_handshake, client_finalize_handshake

LEMMA PacketsStep ==
  ASSUME TypeOK, KeysInv, PacketsInv, [Next]_vars
  PROVE  PacketsInv'
<1>1. CASE UNCHANGED transferVars
  BY <1>1 DEF transferVars, PacketsInv, Genuine, SendersKey
<1>2. ASSUME NEW s \in Sessions, NEW m \in Payloads, encrypt_payload(s, m)
      PROVE  PacketsInv'
  <2> DEFINE n == Len(sent[s]) + 1
             new == encrypt(s, m, n, session_keys[s].tx)
  <2>1. /\ sent \in [Sessions -> Seq(Payloads)]
        /\ send_counter \in [Sessions -> Nat]
        /\ packets \subseteq EncryptedPacket
    BY DEF TypeOK
  <2>2. NextCounter(s) = n
    BY DEF NextCounter, PacketsInv
  <2>3. /\ send_counter' = [send_counter EXCEPT ![s] = n]
        /\ packets' = packets \cup {new}
        /\ sent' = [sent EXCEPT ![s] = Append(@, m)]
    BY <1>2, <2>2 DEF encrypt_payload
  <2>4. /\ \A t \in Sessions : t # s => sent'[t] = sent[t]
        /\ Len(sent'[s]) = n
        /\ sent'[s][n] = m
        /\ \A i \in 1..Len(sent[s]) : sent'[s][i] = sent[s][i]
    BY <2>1, <2>3
  <2>5. \A t \in Sessions : send_counter'[t] = Len(sent'[t])
    BY <2>1, <2>3, <2>4 DEF PacketsInv
  <2>6. /\ new.from = s /\ new.counter = n /\ new.payload = m
        /\ new.key = session_keys[s].tx
    BY DEF encrypt
  <2>7. Genuine(new, sent')
    <3>1. SendersKey(new)
      BY <1>2, <2>6 DEF SendersKey, encrypt_payload, KeysInv, OwnKeys, Sessions
    <3>2. n \in 1..Len(sent'[s])
      BY <2>1, <2>4
    <3> QED
      BY <2>4, <2>6, <3>1, <3>2 DEF Genuine
  <2>8. ASSUME NEW p \in packets
        PROVE  Genuine(p, sent') /\ (p.from = s => p.counter < n)
    <3>1. Genuine(p, sent) /\ p.from \in Sessions
      BY <2>1 DEF PacketsInv, EncryptedPacket
    <3>2. p.counter \in 1..Len(sent[p.from])
      BY <3>1 DEF Genuine
    <3>3. CASE p.from = s
      BY <2>1, <2>4, <3>1, <3>2, <3>3 DEF Genuine
    <3>4. CASE p.from # s
      BY <2>4, <3>1, <3>4 DEF Genuine
    <3> QED
      BY <3>3, <3>4
  <2>9. n \in Nat
    BY <2>1
  <2> HIDE DEF n, new
  <2>10. ASSUME NEW p \in packets', NEW q \in packets',
                p.from = q.from, p.counter = q.counter
         PROVE  p = q
    BY <2>3, <2>6, <2>8, <2>9, <2>10 DEF PacketsInv
  <2>11. \A p \in packets' : Genuine(p, sent')
    BY <2>3, <2>7, <2>8
  <2> QED
    BY <2>5, <2>10, <2>11 DEF PacketsInv
<1>3. ASSUME NEW r \in Sessions, NEW p \in packets, decrypt_packet(r, p)
      PROVE  PacketsInv'
  BY <1>3 DEF decrypt_packet, PacketsInv, Genuine, SendersKey
<1> QED
  BY <1>1, <1>2, <1>3, HandshakeLeavesTransfer DEF vars

LEMMA ReceivedStep ==
  ASSUME TypeOK, ReceivedInv, [Next]_vars
  PROVE  ReceivedInv'
<1>1. CASE UNCHANGED transferVars
  BY <1>1 DEF transferVars, ReceivedInv, Channel!LastIndex
<1>2. ASSUME NEW s \in Sessions, NEW m \in Payloads, encrypt_payload(s, m)
      PROVE  ReceivedInv'
  BY <1>2 DEF encrypt_payload, ReceivedInv, Channel!LastIndex
<1>3. ASSUME NEW r \in Sessions, NEW p \in packets, decrypt_packet(r, p)
      PROVE  ReceivedInv'
  <2> DEFINE D == [from : Sessions, index : Nat, payload : Payloads]
             d == [from |-> p.from, index |-> p.counter, payload |-> p.payload]
  <2>1. delivered \in [Sessions -> Seq(D)] /\ recv_counter \in [Sessions -> Nat]
    BY DEF TypeOK
  <2>2. d \in D /\ d.index = p.counter
    BY DEF TypeOK, EncryptedPacket
  <2>3. /\ delivered' = [delivered EXCEPT ![r] = Append(@, d)]
        /\ recv_counter' = [recv_counter EXCEPT ![r] = p.counter]
    BY <1>3 DEF decrypt_packet
  <2> HIDE DEF d, D
  <2>4. ASSUME NEW q \in Sessions
        PROVE  recv_counter'[q] = Channel!LastIndex(q)'
    <3>1. CASE q = r
      <4>1. delivered[r] \in Seq(D)
        BY <2>1
      <4>2. delivered'[r] = Append(delivered[r], d)
        BY <2>1, <2>3
      <4>3. /\ delivered'[r] # <<>>
            /\ delivered'[r][Len(delivered'[r])] = d
        BY <2>2, <4>1, <4>2, AppendProperties
      <4> QED
        BY <2>1, <2>2, <2>3, <3>1, <4>3 DEF Channel!LastIndex
    <3>2. CASE q # r
      BY <2>1, <2>3, <3>2 DEF ReceivedInv, Channel!LastIndex
    <3> QED
      BY <3>1, <3>2
  <2> QED
    BY <2>4 DEF ReceivedInv
<1> QED
  BY <1>1, <1>2, <1>3, HandshakeLeavesTransfer DEF vars

LEMMA TransferInvariant == Spec => [](TypeOK /\ KeysInv /\ PacketsInv /\ ReceivedInv)
<1>1. Init => TypeOK /\ KeysInv /\ PacketsInv /\ ReceivedInv
  BY TypeInit, PacketsInit
<1>2. TypeOK /\ KeysInv /\ PacketsInv /\ ReceivedInv /\ [Next]_vars
        => (TypeOK /\ KeysInv /\ PacketsInv /\ ReceivedInv)'
  BY TypeStep, KeysStep, PacketsStep, ReceivedStep
<1> QED
  BY <1>1, <1>2, PTL DEF Spec

-----------------------------------------------------------------------------
(***************************************************************************)
(* encrypt_payload never uses a counter twice under one key, however often *)
(* sessions handshake again: a key names its owner and its direction, and  *)
(* the counter of an owner only grows.                                     *)
(***************************************************************************)
THEOREM CountersUniqueHolds == Spec => []CountersUnique
<1>1. TypeOK /\ PacketsInv => CountersUnique
  <2> SUFFICES ASSUME TypeOK, PacketsInv,
                      NEW p \in packets, NEW q \in packets,
                      p.key = q.key, p.counter = q.counter
               PROVE  p = q
    BY DEF CountersUnique
  <2>1. p.from \in Sessions /\ q.from \in Sessions
    BY DEF TypeOK, EncryptedPacket
  <2>2. SendersKey(p) /\ SendersKey(q)
    BY DEF PacketsInv, Genuine
  <2>3. p.from = q.from
    BY <2>1, <2>2 DEF SendersKey, Sessions
  <2> QED
    BY <2>3 DEF PacketsInv
<1> QED
  BY <1>1, TransferInvariant, PTL

(***************************************************************************)
(* Every step of the sessions is a step of the channel or leaves both logs *)
(* alone.                                                                  *)
(***************************************************************************)
LEMMA ChannelStep ==
  ASSUME TypeOK, KeysInv, PacketsInv, ReceivedInv, [Next]_vars
  PROVE  [Channel!Next]_(Channel!vars)
<1>1. CASE UNCHANGED transferVars
  BY <1>1 DEF transferVars, Channel!vars
<1>2. ASSUME NEW s \in Sessions, NEW m \in Payloads, encrypt_payload(s, m)
      PROVE  Channel!Next
  BY <1>2 DEF encrypt_payload, Channel!Next, Channel!Send, Channel!Endpoints, Sessions
<1>3. ASSUME NEW r \in Sessions, NEW p \in packets, decrypt_packet(r, p)
      PROVE  Channel!Next
  <2>1. p.from \in Sessions
    BY DEF TypeOK, EncryptedPacket
  <2>2. Genuine(p, sent)
    BY DEF PacketsInv
  <2>3. OwnKeys(r) /\ p.key = session_keys[r].rx
    BY <1>3 DEF decrypt_packet, Accepts, KeysInv
  <2>4. p.from \in Channel!Peers(r)
    BY <2>1, <2>2, <2>3 DEF Genuine, SendersKey, OwnKeys, Channel!Peers, Sessions
  <2>5. Channel!Deliver(r, p.from)
    <3>1. p.counter \in 1..Len(sent[p.from]) /\ p.payload = sent[p.from][p.counter]
      BY <2>2 DEF Genuine
    <3>2. p.counter > Channel!LastIndex(r)
      BY <1>3 DEF decrypt_packet, Accepts, ReceivedInv
    <3>3. /\ delivered' = [delivered EXCEPT ![r] = Append(@,
                 [from |-> p.from, index |-> p.counter, payload |-> sent[p.from][p.counter]])]
          /\ UNCHANGED sent
      BY <1>3, <3>1 DEF decrypt_packet
    <3> QED
      BY <3>1, <3>2, <3>3 DEF Channel!Deliver
  <2> QED
    BY <2>4, <2>5 DEF Channel!Next, Channel!Endpoints, Sessions
<1> QED
  BY <1>1, <1>2, <1>3, HandshakeLeavesTransfer DEF vars

(***************************************************************************)
(* Sessions implement the lossy channel: decrypt_packet returns genuine    *)
(* payloads of the other role, at most once and in order, over a network   *)
(* that loses, duplicates and reorders packets.                            *)
(***************************************************************************)
THEOREM ImplementsChannel == Spec => ChannelSpec
<1>1. Init => Channel!Init
  BY DEF Init, Channel!Init, Channel!Endpoints, Sessions
<1>2. TypeOK /\ KeysInv /\ PacketsInv /\ ReceivedInv /\ [Next]_vars
        => [Channel!Next]_(Channel!vars)
  BY ChannelStep
<1> QED
  BY <1>1, <1>2, TransferInvariant, PTL DEF Spec, ChannelSpec, Channel!Spec

=============================================================================
