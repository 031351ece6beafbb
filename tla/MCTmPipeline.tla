---------------------------- MODULE MCTmPipeline ----------------------------
(* Model values for the telemetry path with static pools. *)
EXTENDS TmPipeline

CONSTANTS a, b

\* Packets of two APIDs and of two services, interleaved differently.
MCApidOf == [tm \in 1..MaxTm |-> IF tm = 2 THEN b ELSE a]
MCServiceOf == [tm \in 1..MaxTm |-> IF tm \in {1, 4} THEN a ELSE b]
=============================================================================
