----------------------------- MODULE MCStreams -----------------------------
(* Small instances of Streams.                                              *)
EXTENDS Streams, TLC

MCCustomOpCodes == [STREAM_START |-> 64001, STREAM_DATA |-> 64002,
                    STREAM_END |-> 64003, STREAM_CANCEL |-> 64004]

MCDefaultOpCodes == OpCode

CONSTANT op1

\* The tables differ: the server has a handler for op1 in authenticated sessions
\* only.
MCSomeRegistered == [client |-> {op1}, server |-> {op1}, anonymous |-> {}]
MCNoneRegistered == [t \in Tables |-> {}]
=============================================================================
