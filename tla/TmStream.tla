------------------------------ MODULE TmStream ------------------------------
(***************************************************************************)
(* What the telemetry path of the example application promises the ground *)
(* station: the telemetry packets that arrive at the TM sink are sent in   *)
(* the order of their arrival, none twice and none left out in between.    *)
(***************************************************************************)
EXTENDS Naturals, Sequences

CONSTANT Tm

VARIABLES
    arrived,    \* the packets put into the sink's queue, in order
    sent        \* the packets sent to the client, in order

StreamInit ==
    /\ arrived = << >>
    /\ sent = << >>

Arrive(tm) ==
    /\ arrived' = Append(arrived, tm)
    /\ UNCHANGED sent

Send ==
    /\ Len(sent) < Len(arrived)
    /\ sent' = Append(sent, arrived[Len(sent) + 1])
    /\ UNCHANGED arrived

StreamNext == (\E tm \in Tm : Arrive(tm)) \/ Send

StreamSpec == StreamInit /\ [][StreamNext]_<<arrived, sent>>

=============================================================================
