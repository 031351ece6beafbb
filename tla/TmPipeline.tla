----------------------------- MODULE TmPipeline -----------------------------
(***************************************************************************)
(* The telemetry path of the example application with static pools         *)
(* (static_tmtc_pool_main of satrs-example/src/main.rs).  Telemetry lies   *)
(* in blocks of one pool behind a read-write lock; addresses travel from   *)
(* the producers through a bounded queue (funnel) to the TM sink and from  *)
(* there through a second bounded queue (server) to the UDP server.  The   *)
(* threads:                                                                *)
(*   producers  the PUS handlers: store a packet, then try_send it         *)
(*   sink       receives, locks the pool, writes the counters, sends to    *)
(*              the server queue and to the TCP queue, unlocks             *)
(*   tmtc-udp   polls telecommands, drains the server queue to the client, *)
(*              then accepts one telecommand, which produces telemetry     *)
(*   tcp        takes packets from the TCP queue, receives telecommands    *)
(* The lock is held over a blocking operation by the sink only, from       *)
(* SinkProcess to SinkAddTm; everybody else locks, acts and unlocks in one *)
(* step.  A thread that fails an `expect` panics: it stops, its receivers  *)
(* disconnect with what they hold, and a lock it holds is poisoned.        *)
(* Telecommands are counted; their pool is not part of the model.          *)
(***************************************************************************)
EXTENDS TmFunnel

CONSTANTS
    Producers,      \* the threads of the PUS handlers
    PoolSize,       \* blocks of the TM pool
    FunnelLen,      \* length of the queue to the TM sink
    ServerLen,      \* length of the queue to the UDP server
    TcQueueLen,     \* length of the queue of received telecommands
    MaxTc,          \* bound: the telecommands received in a behaviour
    NoTm            \* not a packet

ASSUME PipelineAssumption ==
    /\ PoolSize \in Nat
    /\ FunnelLen \in Nat
    /\ ServerLen \in Nat
    /\ TcQueueLen \in Nat
    /\ MaxTc \in Nat
    /\ MaxTm >= 2 * MaxTc
    /\ NoTm \notin Tms

VARIABLES
    created,        \* the packets 1..created have been created
    pool,           \* the packets that occupy a block
    counts,         \* the counters written in each packet
    funnel,         \* tm_funnel_rx
    server,         \* tm_server_tx to tm_rx
    tm_queue,       \* the queue of the TCP server
    producer,       \* the packet a producer stored and has yet to send
    sink_pc, sink_tm, counters,
    udp_pc, udp_tm,
    recv_addr,      \* whether a client is known: last_sender
    tcs,            \* number of telecommands in the TC queue
    received,       \* number of telecommands received so far
    arrived, sent,  \* history: what entered the funnel, what was sent by UDP
    to_tcp,         \* history: what was handed to the TCP queue
    lost,           \* history: packets that could not be stored
    leaked          \* history: packets dropped without freeing their block

sink_vars == <<sink_pc, sink_tm, counters, tm_queue, to_tcp>>
udp_vars == <<udp_pc, udp_tm, recv_addr, sent>>
tc_vars == <<tcs, received>>
loss_vars == <<lost, leaked>>
vars == <<created, pool, counts, funnel, server, producer, arrived, sink_vars,
          udp_vars, tc_vars, loss_vars>>

TypeOK ==
    /\ created \in 0..MaxTm
    /\ pool \subseteq Tms
    /\ counts \in [Tms -> Counts]
    /\ funnel \in Seq(Tms)
    /\ server \in Seq(Tms)
    /\ tm_queue \in Seq(Tms)
    /\ producer \in [Producers -> Tms \cup {NoTm}]
    /\ sink_pc \in {"recv", "lock", "send", "add_tm", "panicked"}
    /\ sink_tm \in Tms \cup {NoTm}
    /\ counters \in Counters
    /\ udp_pc \in {"poll", "drain", "hold", "tc", "accept", "accept_send",
                   "reject", "reject_send", "panicked"}
    /\ udp_tm \in Tms \cup {NoTm}
    /\ recv_addr \in BOOLEAN
    /\ tcs \in 0..TcQueueLen
    /\ received \in 0..MaxTc
    /\ arrived \in Seq(Tms)
    /\ sent \in Seq(Tms)
    /\ to_tcp \in Seq(Tms)
    /\ lost \subseteq Tms
    /\ leaked \subseteq Tms

Init ==
    /\ created = 0
    /\ pool = {}
    /\ counts = [tm \in Tms |-> NoCounts]
    /\ funnel = << >>
    /\ server = << >>
    /\ tm_queue = << >>
    /\ producer = [p \in Producers |-> NoTm]
    /\ sink_pc = "recv" /\ sink_tm = NoTm
    /\ counters = NewCounters
    /\ udp_pc = "poll" /\ udp_tm = NoTm
    /\ recv_addr = FALSE
    /\ tcs = 0 /\ received = 0
    /\ arrived = << >> /\ sent = << >> /\ to_tcp = << >>
    /\ lost = {} /\ leaked = {}

Locked == sink_pc \in {"send", "add_tm"}
Poisoned == sink_pc = "panicked"
-----------------------------------------------------------------------------
(* send_tm of PacketSenderWithSharedPool, in its two halves. *)

\* A new packet tm gets a block, unless the pool is full or its lock poisoned.
CanStore == ~Poisoned /\ Cardinality(pool) < PoolSize

Store(tm) ==
    /\ ~Locked
    /\ created' = tm
    /\ IF CanStore
       THEN pool' = pool \cup {tm} /\ UNCHANGED lost
       ELSE lost' = lost \cup {tm} /\ UNCHANGED pool

\* The address goes to the sink if its queue has room and the sink runs.
CanSend == ~Poisoned /\ Len(funnel) < FunnelLen

TrySend(tm) ==
    IF CanSend
    THEN /\ funnel' = Append(funnel, tm)
         /\ arrived' = Append(arrived, tm)
         /\ UNCHANGED leaked
    ELSE /\ leaked' = leaked \cup {tm}
         /\ UNCHANGED <<funnel, arrived>>

\* A producer that cannot store or send its packet reports the error and goes on.
\* The bound leaves two packets for each telecommand, its acceptance report and
\* its start failure.
ProducerStore(p) ==
    /\ producer[p] = NoTm
    /\ created < MaxTm - 2 * MaxTc
    /\ Store(created + 1)
    /\ producer' = [producer EXCEPT ![p] = IF CanStore THEN created + 1 ELSE NoTm]
    /\ UNCHANGED <<counts, funnel, server, arrived, sink_vars, udp_vars, tc_vars,
                   leaked>>

ProducerSend(p) ==
    /\ producer[p] # NoTm
    /\ TrySend(producer[p])
    /\ producer' = [producer EXCEPT ![p] = NoTm]
    /\ UNCHANGED <<created, pool, counts, server, sink_vars, udp_vars, tc_vars, lost>>
-----------------------------------------------------------------------------
(* TmSinkStatic::operation *)

SinkRecv ==
    /\ sink_pc = "recv"
    /\ funnel # << >>
    /\ sink_pc' = "lock"
    /\ sink_tm' = Head(funnel)
    /\ funnel' = Tail(funnel)
    /\ UNCHANGED <<created, pool, counts, server, producer, arrived, counters,
                   tm_queue, to_tcp, udp_vars, tc_vars, loss_vars>>

SinkProcess ==
    /\ sink_pc = "lock"
    /\ sink_pc' = "send"
    /\ counts' = [counts EXCEPT ![sink_tm] = CountsFor(counters, sink_tm)]
    /\ counters' = AfterPacket(counters, sink_tm)
    /\ UNCHANGED <<created, pool, funnel, server, producer, arrived, sink_tm,
                   tm_queue, to_tcp, udp_vars, tc_vars, loss_vars>>

\* Mutant: try_send instead of send, its error ignored.
SinkSend_drop ==
    /\ sink_pc = "send"
    /\ udp_pc # "panicked"
    /\ sink_pc' = "add_tm"
    /\ server' = IF Len(server) < ServerLen THEN Append(server, sink_tm) ELSE server
    /\ UNCHANGED <<created, pool, counts, funnel, producer, arrived, sink_tm,
                   counters, tm_queue, to_tcp, udp_vars, tc_vars, loss_vars>>

\* A blocking send with the pool locked.
SinkSend ==
    /\ sink_pc = "send"
    /\ udp_pc # "panicked"
    /\ Len(server) < ServerLen
    /\ sink_pc' = "add_tm"
    /\ server' = Append(server, sink_tm)
    /\ UNCHANGED <<created, pool, counts, funnel, producer, arrived, sink_tm,
                   counters, tm_queue, to_tcp, udp_vars, tc_vars, loss_vars>>

\* The UDP server is gone: the sink panics, poisons the lock and drops its queue.
SinkPanics ==
    /\ sink_pc = "send"
    /\ udp_pc = "panicked"
    /\ sink_pc' = "panicked"
    /\ sink_tm' = NoTm
    /\ funnel' = << >>
    /\ leaked' = leaked \cup {sink_tm} \cup {funnel[i] : i \in 1..Len(funnel)}
    /\ UNCHANGED <<created, pool, counts, server, producer, arrived, counters,
                   tm_queue, to_tcp, udp_vars, tc_vars, lost>>

\* The copy of the packet goes to the TCP server; then the lock is released.
SinkAddTm ==
    /\ sink_pc = "add_tm"
    /\ sink_pc' = "recv"
    /\ sink_tm' = NoTm
    /\ tm_queue' = AddTm(tm_queue, sink_tm)
    /\ to_tcp' = Append(to_tcp, sink_tm)
    /\ UNCHANGED <<created, pool, counts, funnel, server, producer, arrived,
                   counters, udp_vars, tc_vars, loss_vars>>

Sink == SinkRecv \/ SinkProcess \/ SinkSend \/ SinkPanics \/ SinkAddTm
-----------------------------------------------------------------------------
(* The tmtc-udp thread: UdpTmtcServer and TcSourceTaskStatic in turn. *)

udp_rest == <<created, pool, counts, funnel, server, producer, arrived, sink_vars,
              loss_vars>>

\* poll_tc_server receives a telecommand.  A full TC queue ends the polling.
UdpPollTc ==
    /\ udp_pc = "poll"
    /\ received < MaxTc
    /\ received' = received + 1
    /\ recv_addr' = TRUE
    /\ IF tcs < TcQueueLen
       THEN tcs' = tcs + 1 /\ UNCHANGED udp_pc
       ELSE udp_pc' = "drain" /\ UNCHANGED tcs
    /\ UNCHANGED <<udp_tm, sent, udp_rest>>

\* Nothing to receive.
UdpPollEmpty ==
    /\ udp_pc = "poll"
    /\ udp_pc' = IF recv_addr THEN "drain" ELSE "tc"
    /\ UNCHANGED <<udp_tm, recv_addr, sent, tc_vars, udp_rest>>

\* send_tm_to_udp_client
UdpTakeTm ==
    /\ udp_pc = "drain"
    /\ server # << >>
    /\ udp_pc' = "hold"
    /\ udp_tm' = Head(server)
    /\ server' = Tail(server)
    /\ UNCHANGED <<created, pool, counts, funnel, producer, arrived, sink_vars,
                   recv_addr, sent, tc_vars, loss_vars>>

\* Mutant: read without a guard, which leaves the block in use.
UdpSendTm_noGuard ==
    /\ udp_pc = "hold"
    /\ ~Locked
    /\ udp_pc' = "drain"
    /\ udp_tm' = NoTm
    /\ sent' = IF Poisoned THEN sent ELSE Append(sent, udp_tm)
    /\ leaked' = IF Poisoned THEN leaked \cup {udp_tm} ELSE leaked
    /\ UNCHANGED <<created, pool, counts, funnel, server, producer, arrived,
                   sink_vars, recv_addr, tc_vars, lost>>

\* The guard deletes the block once the packet was read.
UdpSendTm ==
    /\ udp_pc = "hold"
    /\ ~Locked
    /\ udp_pc' = "drain"
    /\ udp_tm' = NoTm
    /\ pool' = IF Poisoned THEN pool ELSE pool \ {udp_tm}
    /\ sent' = IF Poisoned THEN sent ELSE Append(sent, udp_tm)
    /\ leaked' = IF Poisoned THEN leaked \cup {udp_tm} ELSE leaked
    /\ UNCHANGED <<created, counts, funnel, server, producer, arrived, sink_vars,
                   recv_addr, tc_vars, lost>>

UdpDrained ==
    /\ udp_pc = "drain"
    /\ server = << >>
    /\ udp_pc' = "tc"
    /\ UNCHANGED <<udp_tm, recv_addr, sent, tc_vars, udp_rest>>

NoTcToHandle ==
    /\ udp_pc = "tc"
    /\ tcs = 0
    /\ udp_pc' = "poll"
    /\ UNCHANGED <<udp_tm, recv_addr, sent, tc_vars, udp_rest>>

\* poll_tc: a telecommand that cannot be parsed is dropped, the others accepted.
HandleTc ==
    /\ udp_pc = "tc"
    /\ tcs > 0
    /\ tcs' = tcs - 1
    /\ udp_pc' \in {"poll", "accept"}
    /\ UNCHANGED <<udp_tm, recv_addr, sent, received, udp_rest>>

\* What the receiver of the server queue holds is gone with the thread.
UdpPanics ==
    /\ udp_pc' = "panicked"
    /\ udp_tm' = NoTm
    /\ server' = << >>

\* acceptance_success stores and sends its report, or the thread panics.
AcceptStore ==
    /\ udp_pc = "accept"
    /\ Store(created + 1)
    /\ IF CanStore
       THEN /\ udp_pc' = "accept_send"
            /\ udp_tm' = created + 1
            /\ UNCHANGED <<server, leaked>>
       ELSE /\ UdpPanics
            /\ leaked' = leaked \cup {server[i] : i \in 1..Len(server)}
    /\ UNCHANGED <<counts, funnel, producer, arrived, sink_vars, recv_addr, sent,
                   tc_vars>>

\* The accepted telecommand goes to its service, or a start failure is reported.
AcceptSend ==
    /\ udp_pc = "accept_send"
    /\ IF CanSend
       THEN /\ TrySend(udp_tm)
            /\ udp_pc' \in {"poll", "reject"}
            /\ udp_tm' = NoTm
            /\ UNCHANGED server
       ELSE /\ UdpPanics
            /\ leaked' = leaked \cup {udp_tm} \cup {server[i] : i \in 1..Len(server)}
            /\ UNCHANGED <<funnel, arrived>>
    /\ UNCHANGED <<created, pool, counts, producer, sink_vars, recv_addr, sent,
                   tc_vars, lost>>

\* start_failure: an error is logged for a service that is not implemented and
\* a panic for an unknown one.
RejectStore ==
    /\ udp_pc = "reject"
    /\ Store(created + 1)
    /\ \/ /\ CanStore
          /\ udp_pc' = "reject_send"
          /\ udp_tm' = created + 1
          /\ UNCHANGED <<server, leaked>>
       \/ /\ ~CanStore
          /\ udp_pc' = "poll"
          /\ UNCHANGED <<udp_tm, server, leaked>>
       \/ /\ ~CanStore
          /\ UdpPanics
          /\ leaked' = leaked \cup {server[i] : i \in 1..Len(server)}
    /\ UNCHANGED <<counts, funnel, producer, arrived, sink_vars, recv_addr, sent,
                   tc_vars>>

RejectSend ==
    /\ udp_pc = "reject_send"
    /\ \/ /\ TrySend(udp_tm)
          /\ udp_pc' = "poll"
          /\ udp_tm' = NoTm
          /\ UNCHANGED server
       \/ /\ ~CanSend
          /\ UdpPanics
          /\ leaked' = leaked \cup {udp_tm} \cup {server[i] : i \in 1..Len(server)}
          /\ UNCHANGED <<funnel, arrived>>
    /\ UNCHANGED <<created, pool, counts, producer, sink_vars, recv_addr, sent,
                   tc_vars, lost>>

Udp ==
    \/ UdpPollTc \/ UdpPollEmpty
    \/ UdpTakeTm \/ UdpSendTm \/ UdpDrained
    \/ NoTcToHandle \/ HandleTc
    \/ AcceptStore \/ AcceptSend \/ RejectStore \/ RejectSend
-----------------------------------------------------------------------------
(* The TCP thread *)

\* retrieve_packet
TcpTakeTm ==
    /\ tm_queue # << >>
    /\ tm_queue' = Tail(tm_queue)
    /\ UNCHANGED <<created, pool, counts, funnel, server, producer, arrived, sink_pc,
                   sink_tm, counters, to_tcp, udp_vars, tc_vars, loss_vars>>

TcpRecvTc ==
    /\ received < MaxTc
    /\ received' = received + 1
    /\ udp_pc # "panicked"
    /\ tcs < TcQueueLen
    /\ tcs' = tcs + 1
    /\ UNCHANGED <<udp_vars, udp_rest>>

Next ==
    \/ \E p \in Producers : ProducerStore(p) \/ ProducerSend(p)
    \/ Sink
    \/ Udp
    \/ TcpTakeTm
    \/ TcpRecvTc

Spec == Init /\ [][Next]_vars

\* Every thread runs whenever it can; clients and producers need not be active.
FairSpec ==
    /\ Spec
    /\ WF_vars(Sink)
    /\ WF_vars(Udp)
    /\ \A p \in Producers : WF_vars(ProducerSend(p))
-----------------------------------------------------------------------------
(* Properties *)

Held(tm) == IF tm = NoTm THEN << >> ELSE <<tm>>

\* The packet taken from the server queue, and the one not yet put into it.
HeldByUdp == IF udp_pc = "hold" THEN Held(udp_tm) ELSE << >>
HeldBySink == IF sink_pc = "add_tm" THEN << >> ELSE Held(sink_tm)

\* The packets that arrived at the sink and are not yet sent, oldest first.
InFlow == HeldByUdp \o server \o HeldBySink \o funnel

Elems(s) == {s[i] : i \in 1..Len(s)}

\* The packets stored and not yet given to the sink.
InHands ==
    ({producer[p] : p \in Producers} \cup
     (IF udp_pc \in {"accept_send", "reject_send"} THEN {udp_tm} ELSE {})) \ {NoTm}

\* While the tmtc-udp thread runs, what was sent followed by what is on its way
\* is exactly what arrived at the sink: no packet is lost, duplicated or
\* overtaken between try_send of the producer and send_to of the UDP socket.
NothingLostOnTheWay ==
    udp_pc # "panicked" => arrived = sent \o InFlow

\* The rest of the inductive invariant (TmPipelineProofs): a thread holds a packet exactly where
\* its code does, and the sink panics only after the tmtc-udp thread; ...
ThreadsSound ==
    /\ sink_tm # NoTm <=> sink_pc \in {"lock", "send", "add_tm"}
    /\ udp_tm # NoTm <=> udp_pc \in {"hold", "accept_send", "reject_send"}
    /\ Poisoned => udp_pc = "panicked"

\* ... and the bound on the packets leaves room for the reports still to come.
ReportsDue == CASE udp_pc = "accept" -> 2
                [] udp_pc \in {"accept_send", "reject"} -> 1
                [] OTHER -> 0

BoundSound ==
    /\ 2 * tcs + ReportsDue <= 2 * received
    /\ created + 2 * (MaxTc - received) + 2 * tcs + ReportsDue <= MaxTm

\* The expects of the sink and the reads of the UDP server rely on this: every
\* address in a queue or in a thread's hands leads to a block in use, and a
\* block in use is on its way or was leaked by a failed send.  A packet is
\* freed once, by the guard of the UDP server.
BlocksInUse ==
    /\ pool = Elems(InFlow) \cup InHands \cup leaked
    /\ Elems(InFlow) \cap InHands = {}
    /\ leaked \cap (Elems(InFlow) \cup InHands) = {}
    /\ Cardinality(pool) <= PoolSize

\* The client sees the counters of each APID and of each service without a gap
\* (apply_packet_processing is reached by one thread, in the order of sending).
ClientSeesCounters == CountedIn(sent, counts)

\* The TCP queue always holds the newest packets, one more than its limit at
\* most (add_tm).
TcpKeepsNewest ==
    /\ EndOf(tm_queue, to_tcp)
    /\ Len(tm_queue) <= MaxPacketsStored + 1

Stream == INSTANCE TmStream WITH Tm <- Tms

\* The pipeline delivers the telemetry that arrives at the sink as a stream,
\* whatever panics: it may stop, and never skips or repeats a packet.
ImplementsStream == Stream!StreamSpec

\* With a known client all telemetry that arrives at the sink is sent.
ArrivedIsSent ==
    \A n \in Tms :
        (recv_addr /\ Len(arrived) >= n) ~> (Len(sent) >= n)

=============================================================================
