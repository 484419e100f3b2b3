----------------------------- MODULE MCSession -----------------------------
(* Small instances of Session. *)
EXTENDS Session, TLC

CONSTANTS c1, c2, s1, s2   \* session objects
CONSTANTS goodKey, otherKey \* long-term signing keys of servers

\* c1 prefers the older version 1, s1 the newer 2; c2 shares only 1 with s1 and
\* only 3 with s2; s2 knows no version 1.
MCSupported == (c1 :> <<1, 3, 2>>) @@ (c2 :> <<3, 1>>) @@ (s1 :> <<2, 1>>) @@ (s2 :> <<2, 3>>)

MCSupportedPair == (c1 :> <<1, 3, 2>>) @@ (s1 :> <<2, 1>>)

MCSigningKey == (c1 :> goodKey) @@ (c2 :> goodKey) @@ (s1 :> goodKey) @@ (s2 :> otherKey)

MCSigningKeyPair == (c1 :> goodKey) @@ (s1 :> goodKey)
=============================================================================
