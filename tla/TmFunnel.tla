------------------------------ MODULE TmFunnel ------------------------------
(***************************************************************************)
(* The parts that the static and the dynamic TM sink share: TmFunnelCommon *)
(* of satrs-example/src/tmtc/tm_sink.rs and SyncTcpTmSource of             *)
(* satrs-example/src/interface/tcp.rs.  A telemetry packet is a number, in *)
(* the order of creation, with a fixed APID and service; what the sink     *)
(* writes into the packet are its two counters.                            *)
(***************************************************************************)
EXTENDS Naturals, Sequences, FiniteSets

CONSTANTS
    MaxTm,              \* bound: the packets created in a behaviour
    ApidOf, ServiceOf,  \* the APID and the PUS service of each packet
    MaxSeqCount,        \* MAX_SEQ_COUNT of the CCSDS header
    MaxMsgCount,        \* u16::MAX
    MaxPacketsStored    \* max_packets_stored of SyncTcpTmSource

Tms == 1..MaxTm
Apids == {ApidOf[tm] : tm \in Tms}
Services == {ServiceOf[tm] : tm \in Tms}

ASSUME FunnelAssumption ==
    /\ MaxTm \in Nat
    /\ MaxSeqCount \in Nat
    /\ MaxMsgCount \in Nat
    /\ MaxPacketsStored \in Nat
    /\ DOMAIN ApidOf = Tms
    /\ DOMAIN ServiceOf = Tms

\* The counters of a packet as its creator leaves them.
NoCounts == [seq |-> 0, msg |-> 0]
Counts == [seq : 0..MaxSeqCount, msg : 0..MaxMsgCount]

Counters == [seq : [Apids -> 0..MaxSeqCount], msg : [Services -> 0..MaxMsgCount]]
NewCounters == [seq |-> [a \in Apids |-> 0], msg |-> [s \in Services |-> 0]]

\* A counter that goes back to 0 after its largest value.
Increment(count, max) == IF count = max THEN 0 ELSE count + 1

\* The counters that apply_packet_processing writes into a packet ...
CountsFor(counters, tm) ==
    [seq |-> counters.seq[ApidOf[tm]], msg |-> counters.msg[ServiceOf[tm]]]

\* Mutant: the message counter is kept, as if the entry were copied.
AfterPacket_noMsg(counters, tm) ==
    [seq |-> [counters.seq EXCEPT ![ApidOf[tm]] = Increment(@, MaxSeqCount)],
     msg |-> counters.msg]

\* ... and the counters afterwards.
AfterPacket(counters, tm) ==
    [seq |-> [counters.seq EXCEPT ![ApidOf[tm]] = Increment(@, MaxSeqCount)],
     msg |-> [counters.msg EXCEPT ![ServiceOf[tm]] = Increment(@, MaxMsgCount)]]

\* Mutant: a full queue loses the newest packet.
AddTm_dropNewest(tm_queue, tm) ==
    IF Len(tm_queue) > MaxPacketsStored THEN tm_queue ELSE Append(tm_queue, tm)

\* add_tm: the oldest packet makes room once the queue exceeds its limit.
AddTm(tm_queue, tm) ==
    Append(IF Len(tm_queue) > MaxPacketsStored THEN Tail(tm_queue)
                                               ELSE tm_queue, tm)
-----------------------------------------------------------------------------
(* What a receiver of a stream of packets can rely on. *)

\* The packets before position i of s that agree with the i-th on attribute f.
Earlier(s, i, f) == {j \in 1..(i - 1) : f[s[j]] = f[s[i]]}

\* The counters in the packets of s count the packets of each APID and of each
\* service from 0, modulo the width of the counter.
CountedIn(s, counts) ==
    \A i \in 1..Len(s) :
        /\ counts[s[i]].seq = Cardinality(Earlier(s, i, ApidOf)) % (MaxSeqCount + 1)
        /\ counts[s[i]].msg = Cardinality(Earlier(s, i, ServiceOf)) % (MaxMsgCount + 1)

\* s holds the last packets of t.
EndOf(s, t) ==
    /\ Len(s) <= Len(t)
    /\ s = SubSeq(t, Len(t) - Len(s) + 1, Len(t))

=============================================================================
