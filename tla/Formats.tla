------------------------------ MODULE Formats -------------------------------
(***************************************************************************)
(* The formats together: a buffer is filled and read, or a file is read.   *)
(***************************************************************************)
EXTENDS Wire, Config

Init == WireInit /\ ConfigInit

ReadPayload == lines = <<>> /\ UNCHANGED configVars /\ ((\E b \in Byte : Receive(b)) \/ read_param)
ReadFile == params_data = <<>> /\ ~failed /\ UNCHANGED wireVars /\ \E line \in Lines : from_yaml_line(line)

Next == ReadPayload \/ ReadFile

Spec == Init /\ [][Next]_<<wireVars, configVars>>

=============================================================================
