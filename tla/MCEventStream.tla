----------------------------- MODULE MCEventStream -----------------------------
(* Small instances of EventStream: the bounds are in the configurations.      *)
EXTENDS EventStream
=============================================================================
