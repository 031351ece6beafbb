------------------------ MODULE MCTmPipelineDynamic -------------------------
(* Model values for the telemetry path on the heap. *)
EXTENDS TmPipelineDynamic

CONSTANTS a, b

MCApidOf == [tm \in 1..MaxTm |-> IF tm = 2 THEN b ELSE a]
MCServiceOf == [tm \in 1..MaxTm |-> IF tm \in {1, 4} THEN a ELSE b]
=============================================================================
