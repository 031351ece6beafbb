------------------------- MODULE TmPipelineDynamic --------------------------
(***************************************************************************)
(* The telemetry path of the example application on the heap               *)
(* (dyn_tmtc_pool_main of satrs-example/src/main.rs): packets are vectors  *)
(* that travel through unbounded channels, without a pool and its lock.    *)
(* No send can fail while the threads run, so no thread panics.            *)
(***************************************************************************)
EXTENDS TmFunnel

CONSTANTS
    MaxTc,          \* bound: the telecommands received in a behaviour
    NoTm            \* not a packet

ASSUME DynamicAssumption ==
    /\ MaxTc \in Nat
    /\ MaxTm >= 2 * MaxTc
    /\ NoTm \notin Tms

VARIABLES
    created,        \* the packets 1..created have been created
    counts,         \* the counters written in each packet
    funnel,         \* tm_funnel_rx
    server,         \* tm_server_tx to tm_rx
    tm_queue,       \* the queue of the TCP server
    sink_tm,        \* the packet the sink has yet to send
    counters,
    udp_pc,
    recv_addr,      \* whether a client is known: last_sender
    tcs,            \* number of telecommands in the TC queue
    received,       \* number of telecommands received so far
    arrived, sent,  \* history: what entered the funnel, what was sent by UDP
    to_tcp          \* history: what was handed to the TCP queue

udp_vars == <<udp_pc, recv_addr, sent>>
sink_vars == <<counts, sink_tm, counters, to_tcp>>
tc_vars == <<tcs, received>>
vars == <<created, funnel, server, tm_queue, arrived, sink_vars, udp_vars, tc_vars>>

Init ==
    /\ created = 0
    /\ counts = [tm \in Tms |-> NoCounts]
    /\ funnel = << >>
    /\ server = << >>
    /\ tm_queue = << >>
    /\ sink_tm = NoTm
    /\ counters = NewCounters
    /\ udp_pc = "poll"
    /\ recv_addr = FALSE
    /\ tcs = 0 /\ received = 0
    /\ arrived = << >> /\ sent = << >> /\ to_tcp = << >>

\* send_tm of MpscTmAsVecSender with a new packet.
SendTm ==
    /\ created' = created + 1
    /\ funnel' = Append(funnel, created + 1)
    /\ arrived' = Append(arrived, created + 1)

\* The bound leaves two packets for each telecommand.
Produce ==
    /\ created < MaxTm - 2 * MaxTc
    /\ SendTm
    /\ UNCHANGED <<server, tm_queue, sink_vars, udp_vars, tc_vars>>
-----------------------------------------------------------------------------
(* TmSinkDynamic::operation *)

\* Mutant: the counters advance and are not written into the packet.
SinkProcess_unwritten ==
    /\ sink_tm = NoTm
    /\ funnel # << >>
    /\ sink_tm' = Head(funnel)
    /\ funnel' = Tail(funnel)
    /\ counters' = AfterPacket(counters, Head(funnel))
    /\ tm_queue' = AddTm(tm_queue, Head(funnel))
    /\ to_tcp' = Append(to_tcp, Head(funnel))
    /\ UNCHANGED <<created, counts, server, arrived, udp_vars, tc_vars>>

SinkProcess ==
    /\ sink_tm = NoTm
    /\ funnel # << >>
    /\ sink_tm' = Head(funnel)
    /\ funnel' = Tail(funnel)
    /\ counts' = [counts EXCEPT ![Head(funnel)] = CountsFor(counters, Head(funnel))]
    /\ counters' = AfterPacket(counters, Head(funnel))
    /\ tm_queue' = AddTm(tm_queue, Head(funnel))
    /\ to_tcp' = Append(to_tcp, Head(funnel))
    /\ UNCHANGED <<created, server, arrived, udp_vars, tc_vars>>

SinkSend ==
    /\ sink_tm # NoTm
    /\ server' = Append(server, sink_tm)
    /\ sink_tm' = NoTm
    /\ UNCHANGED <<created, funnel, tm_queue, arrived, counts, counters, to_tcp,
                   udp_vars, tc_vars>>

Sink == SinkProcess \/ SinkSend
-----------------------------------------------------------------------------
(* The tmtc-udp thread: UdpTmtcServer and TcSourceTaskDynamic in turn. *)

UdpPollTc ==
    /\ udp_pc = "poll"
    /\ received < MaxTc
    /\ received' = received + 1
    /\ tcs' = tcs + 1
    /\ recv_addr' = TRUE
    /\ UNCHANGED <<created, funnel, server, tm_queue, arrived, sink_vars, udp_pc, sent>>

\* Mutant: telemetry is sent only while there are telecommands to handle.
UdpPollEmpty_onlyWithTc ==
    /\ udp_pc = "poll"
    /\ udp_pc' = IF recv_addr /\ tcs > 0 THEN "drain" ELSE "tc"
    /\ UNCHANGED <<created, funnel, server, tm_queue, arrived, sink_vars, recv_addr,
                   sent, tc_vars>>

UdpPollEmpty ==
    /\ udp_pc = "poll"
    /\ udp_pc' = IF recv_addr THEN "drain" ELSE "tc"
    /\ UNCHANGED <<created, funnel, server, tm_queue, arrived, sink_vars, recv_addr,
                   sent, tc_vars>>

\* Mutant: the packet is not taken from the queue before it is sent.
UdpSendTm_twice ==
    /\ udp_pc = "drain"
    /\ server # << >>
    /\ Len(sent) < MaxTm
    /\ server' \in {server, Tail(server)}
    /\ sent' = Append(sent, Head(server))
    /\ UNCHANGED <<created, funnel, tm_queue, arrived, sink_vars, udp_pc, recv_addr,
                   tc_vars>>

\* send_tm_to_udp_client
UdpSendTm ==
    /\ udp_pc = "drain"
    /\ server # << >>
    /\ server' = Tail(server)
    /\ sent' = Append(sent, Head(server))
    /\ UNCHANGED <<created, funnel, tm_queue, arrived, sink_vars, udp_pc, recv_addr,
                   tc_vars>>

UdpDrained ==
    /\ udp_pc = "drain"
    /\ server = << >>
    /\ udp_pc' = "tc"
    /\ UNCHANGED <<created, funnel, server, tm_queue, arrived, sink_vars, recv_addr,
                   sent, tc_vars>>

NoTcToHandle ==
    /\ udp_pc = "tc"
    /\ tcs = 0
    /\ udp_pc' = "poll"
    /\ UNCHANGED <<created, funnel, server, tm_queue, arrived, sink_vars, recv_addr,
                   sent, tc_vars>>

\* A telecommand that cannot be parsed is dropped, the others are accepted.
HandleTc ==
    /\ udp_pc = "tc"
    /\ tcs > 0
    /\ tcs' = tcs - 1
    /\ udp_pc' \in {"poll", "accept"}
    /\ UNCHANGED <<created, funnel, server, tm_queue, arrived, sink_vars, recv_addr,
                   sent, received>>

\* The acceptance report; then the telecommand goes to its service, or a start
\* failure is reported.
Accept ==
    /\ udp_pc = "accept"
    /\ SendTm
    /\ udp_pc' \in {"poll", "reject"}
    /\ UNCHANGED <<server, tm_queue, sink_vars, recv_addr, sent, tc_vars>>

Reject ==
    /\ udp_pc = "reject"
    /\ SendTm
    /\ udp_pc' = "poll"
    /\ UNCHANGED <<server, tm_queue, sink_vars, recv_addr, sent, tc_vars>>

Udp ==
    \/ UdpPollTc \/ UdpPollEmpty \/ UdpSendTm \/ UdpDrained
    \/ NoTcToHandle \/ HandleTc \/ Accept \/ Reject
-----------------------------------------------------------------------------
(* The TCP thread *)

\* retrieve_packet
TcpTakeTm ==
    /\ tm_queue # << >>
    /\ tm_queue' = Tail(tm_queue)
    /\ UNCHANGED <<created, funnel, server, arrived, sink_vars, udp_vars, tc_vars>>

TcpRecvTc ==
    /\ received < MaxTc
    /\ received' = received + 1
    /\ tcs' = tcs + 1
    /\ UNCHANGED <<created, funnel, server, tm_queue, arrived, sink_vars, udp_vars>>

Next ==
    \/ Produce
    \/ Sink
    \/ Udp
    \/ TcpTakeTm
    \/ TcpRecvTc

Spec == Init /\ [][Next]_vars

\* The sink and the tmtc-udp thread run whenever they can.
FairSpec == Spec /\ WF_vars(Sink) /\ WF_vars(Udp)
-----------------------------------------------------------------------------
(* Properties *)

\* Every packet a receiver gets, by UDP or from the TCP queue, carries the
\* counters of its place in the stream (apply_packet_processing runs before
\* add_tm and send).
ReceiversSeeCounters == CountedIn(to_tcp, counts) /\ CountedIn(sent, counts)

Stream == INSTANCE TmStream WITH Tm <- Tms

\* The packets between the sink's queue and the client are neither lost nor
\* duplicated nor reordered.
ImplementsStream == Stream!StreamSpec

\* With a known client all telemetry that arrives at the sink is sent, whatever
\* the interleaving of the threads.
ArrivedIsSent ==
    \A n \in Tms :
        (recv_addr /\ Len(arrived) >= n) ~> (Len(sent) >= n)

=============================================================================
