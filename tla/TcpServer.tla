----------------------------- MODULE TcpServer ------------------------------
(***************************************************************************)
(* The TCP server for telecommands and telemetry (satrs/src/hal/std) and   *)
(* the task of the example that runs it: one thread that waits for a       *)
(* client, reads its stream into tc_buffer, hands on the packets found in  *)
(* it, and sends the telemetry of the TM source.  Clients, the network and *)
(* the producer of telemetry run concurrently with it.                     *)
(*                                                                         *)
(* tcp.plan is what happens in a behaviour from outside:                   *)
(*   server    the kind of server: space packets or COBS                   *)
(*   clients   the packets that each client sends before it disconnects    *)
(*   tms       the lengths of the telemetry packets that are produced      *)
(*   room      how many telecommands the TC sender takes before it fails   *)
(*   misread   what bytes inside a packet look like as a header            *)
(*   decodes   whether damaged COBS frames decode                          *)
(*   fault     the system call that may fail: accept, read, write, or none *)
(*   stop      whether the stop signal of the server is used               *)
(***************************************************************************)
EXTENDS Framing, FiniteSets, TLC

CONSTANTS
    TcBufferSize,   \* tc_buffer_size and tm_buffer_size of ServerConfig
    TmBufferSize

ASSUME TcpAssumption == {TcBufferSize, TmBufferSize} \subseteq Nat \ {0}

VARIABLE tcp

\* TcpSpacepacketsServer::new and TcpTmtcInCobsServer::new give the generic
\* server its parser and its TM sender.
SpacepacketsServer == [parser |-> "ccsds", tm_sender |-> "plain"]

InCobsServer == [parser |-> "cobs", tm_sender |-> "cobs"]

\* The bytes that a client sends.
Unit(plan, p) == IF plan.server.parser = "ccsds" THEN Packet(p) ELSE Frame(p)

Stream(plan, packets) == FlattenSeq([i \in DOMAIN packets |-> Unit(plan, packets[i])])

\* Whether the parser can find the packets of a client in its stream: bytes
\* after a packet with an invalid header must not look like another header.
Readable(plan, client) ==
    \/ plan.misread.validity = "Invalid"
    \/ \A i \in DOMAIN plan.clients[client] : Validate(plan.clients[client][i]) # "Invalid"

\* handle_accepted_connection at its start, and HandledConnectionInfo::new.
\* stream is what the client sends, with ends[k] where its first k packets end.
\* read, parsed and units are history: the bytes read, those parsed and the
\* whole packets among these; so is what Observed below defines.
NewConnection(plan, client) ==
    [client |-> client, stream |-> Stream(plan, plan.clients[client]),
     ends |-> [k \in 0..Len(plan.clients[client]) |->
                  Len(Stream(plan, SubSeq(plan.clients[client], 1, k)))],
     next_write_idx |-> 0,
     num_received_tcs |-> 0, num_sent_tms |-> 0, tm_was_sent |-> FALSE,
     read |-> 0, parsed |-> 0, units |-> 0, handed |-> << >>, refused |-> FALSE,
     split |-> FALSE, unkept |-> FALSE,
     documented |-> Readable(plan, client), sound |-> Readable(plan, client)]

NoConnection == [client |-> 0]

\* TcpTmtcGenericServer::new.  The listener is registered with the poll, which
\* reports it once (ready) for the connections that wait in the backlog.
\* tc_buffer is what is below current_write_idx in the buffer of the code: the
\* rest is never read.
NewServer(plan) ==
    [plan |-> plan, pc |-> "poll", ready |-> FALSE, backlog |-> << >>, clients |-> 0,
     arrived |-> 0, closed |-> FALSE, room |-> plan.room, stop_signal |-> FALSE,
     tc_buffer |-> << >>, conn |-> NoConnection,
     tm_source |-> << >>, produced |-> 0, sent |-> << >>, reports |-> << >>,
     ended |-> {}]
-----------------------------------------------------------------------------
(* Clients, network and telemetry *)

ClientPackets(t) == t.plan.clients[t.conn.client]

\* A client connects.
Connect ==
    /\ tcp.clients < Len(tcp.plan.clients)
    /\ tcp' = [tcp EXCEPT !.clients = @ + 1, !.ready = TRUE,
                          !.backlog = Append(@, tcp.clients + 1)]

\* Some more bytes arrive: what arrives between two reads is one piece.
Arrive ==
    /\ tcp.pc = "read" /\ ~ tcp.closed /\ tcp.conn.read = tcp.arrived
    /\ \E n \in 1..(Len(tcp.conn.stream) - tcp.arrived) :
          tcp' = [tcp EXCEPT !.arrived = @ + n]

\* The client goes, possibly in the middle of a packet.
Close ==
    /\ tcp.pc = "read" /\ ~ tcp.closed
    /\ tcp' = [tcp EXCEPT !.closed = TRUE]

\* The TM source, which is never full here, gets a packet.
ProduceTm ==
    /\ tcp.produced < Len(tcp.plan.tms)
    /\ tcp' = [tcp EXCEPT !.produced = @ + 1, !.tm_source = Append(@, tcp.produced + 1)]

SignalStop ==
    /\ tcp.plan.stop /\ ~ tcp.stop_signal
    /\ tcp' = [tcp EXCEPT !.stop_signal = TRUE]
-----------------------------------------------------------------------------
(* Waiting for clients *)

\* poll in handle_all_connections; when it times out the caller calls again.
DoPoll ==
    /\ tcp.pc = "poll" /\ tcp.ready
    /\ tcp' = [tcp EXCEPT !.pc = "accept", !.ready = FALSE]

\* Mutant: after an error the listener is not registered again.
Failed_NoReregister(t) == [t EXCEPT !.pc = "poll"]

\* handle_all_connections returns an error: the poll is told again of the
\* listener, and reports it if connections wait.
Failed(t) == [t EXCEPT !.pc = "poll", !.ready = @ \/ t.backlog # << >>]

\* The connection is dropped without a report.
ConnectionFailed(t) == Failed([t EXCEPT !.ended = @ \cup {t.conn.client}])

\* accept: WouldBlock ends the loop.
Accept ==
    /\ tcp.pc = "accept"
    /\ tcp' = IF tcp.backlog = << >> THEN [tcp EXCEPT !.pc = "poll"]
              ELSE [tcp EXCEPT !.pc = "read", !.backlog = Tail(@), !.arrived = 0,
                               !.closed = FALSE, !.tc_buffer = << >>,
                               !.conn = NewConnection(tcp.plan, Head(tcp.backlog))]

AcceptFails ==
    /\ tcp.pc = "accept" /\ tcp.plan.fault = "accept"
    /\ tcp' = Failed([tcp EXCEPT !.plan.fault = "none"])
-----------------------------------------------------------------------------
(* Telecommands *)

CurrentWriteIdx(t) == Len(t.tc_buffer)

Parse(t) ==
    IF t.plan.server.parser = "ccsds" THEN ParseSpacePackets(t.tc_buffer, t.plan.misread, t.room)
    ELSE ParseCobsFrames(t.tc_buffer, t.plan.decodes, t.room)

\* The whole packets in what was read, and how many bytes of the next one are
\* at its end.
Seen(t) ==
    LET units == Max({k \in DOMAIN t.conn.ends : t.conn.ends[k] <= t.conn.read})
    IN  [units |-> units, cut |-> t.conn.read - t.conn.ends[units]]

\* The history of the connection after a parse.  documented says that the parser
\* is meant to handle all cuts so far, and split that there was one.  The parse
\* of the rest of such a packet is the last one to be relied on when
\*  - the parser did not keep what was there: too little of a space packet, or
\*    one to be skipped; or a COBS frame with no whole one before it; or
\*  - nothing is cut off this time, so that next_write_idx keeps its old value.
\* unkept is either of them.  What is below the index is then old: the history
\* stops being sound when more is read behind it.  With COBS also a parse of
\* the old bytes alone may find a frame, since decoding has left zeros there.
Observed(t, r, seen) ==
    LET cobs == t.plan.server.parser = "cobs"
        fresh == t.conn.read > t.conn.parsed
        meant == \/ seen.cut = 0 \/ cobs
                 \/ /\ seen.cut >= HeaderLen
                    /\ Validate(ClientPackets(t)[seen.units + 1]) = "Valid"
        unkept == IF seen.cut = 0 THEN t.conn.split
                  ELSE ~ meant \/ (cobs /\ seen.units = t.conn.units)
    IN  [t.conn EXCEPT !.handed = @ \o r.handed, !.units = seen.units, !.parsed = t.conn.read,
                       !.split = @ \/ seen.cut > 0,
                       !.documented = @ /\ meant,
                       !.unkept = IF fresh THEN unkept ELSE @,
                       !.sound = @ /\ ~ (t.conn.unkept /\ (fresh \/ cobs))]

\* Mutant: the write index is one too low.
AfterParse_OffByOne(t, r, conn) ==
    LET next == IF r.tail = 0 THEN t.conn.next_write_idx ELSE CurrentWriteIdx(t) - r.tail
        first == IF r.tail = 0 THEN 1 ELSE r.tail
    IN  [t EXCEPT !.room = r.room,
                  !.tc_buffer = SubSeq(DecodedInPlace(@, r.starts), first, first + next - 1),
                  !.conn = [conn EXCEPT !.num_received_tcs = @ + r.found, !.next_write_idx = next]]

\* handle_tc_parsing of both servers when no packet was refused: what was cut
\* off goes to the front, and next_write_idx is only written in that case.  The
\* caller goes on at that index, above what is in the buffer there.
AfterParse(t, r, conn) ==
    LET next == IF r.tail = 0 THEN t.conn.next_write_idx ELSE CurrentWriteIdx(t) - r.tail + 1
        first == IF r.tail = 0 THEN 1 ELSE r.tail
    IN  [t EXCEPT !.room = r.room,
                  !.tc_buffer = SubSeq(DecodedInPlace(@, r.starts), first, first + next - 1),
                  !.conn = [conn EXCEPT !.num_received_tcs = @ + r.found, !.next_write_idx = next]]

\* A refused packet ends the connection; those before it are handed on.
Refused(t, conn) ==
    ConnectionFailed([t EXCEPT !.room = 0, !.conn = [conn EXCEPT !.refused = TRUE]])

\* The calls of handle_tc_parsing, and what the server goes on with.
Parsed(t, pc) ==
    \E r \in {Parse(t)}, seen \in {Seen(t)} :
    \E conn \in {Observed(t, r, seen)} :
        tcp' = IF r.ok THEN [AfterParse(t, r, conn) EXCEPT !.pc = pc] ELSE Refused(t, conn)

BufferFree(t) == TcBufferSize - CurrentWriteIdx(t)

\* read returns what has arrived, as much as fits.
Read ==
    /\ tcp.pc = "read" /\ tcp.conn.read < tcp.arrived /\ BufferFree(tcp) > 0
    /\ \E end \in {Min({tcp.arrived, tcp.conn.read + BufferFree(tcp)})} :
       \E t \in {[tcp EXCEPT !.conn.read = end,
                             !.tc_buffer = @ \o SubSeq(tcp.conn.stream, tcp.conn.read + 1, end)]} :
          IF BufferFree(t) = 0 THEN Parsed(t, "read") ELSE tcp' = t

\* read returns 0 when the client has closed the connection, and for a buffer
\* without room.
ReadNothing ==
    /\ tcp.pc = "read"
    /\ BufferFree(tcp) = 0 \/ (tcp.closed /\ tcp.conn.read = tcp.arrived)
    /\ IF CurrentWriteIdx(tcp) > 0 THEN Parsed(tcp, "last_tm")
       ELSE tcp' = [tcp EXCEPT !.pc = "last_tm"]

ReadWouldBlock ==
    /\ tcp.pc = "read" /\ ~ tcp.closed
    /\ tcp.conn.read = tcp.arrived /\ BufferFree(tcp) > 0
    /\ Parsed([tcp EXCEPT !.conn.tm_was_sent = FALSE], "tm")

ReadFails ==
    /\ tcp.pc = "read" /\ tcp.plan.fault = "read"
    /\ tcp' = ConnectionFailed([tcp EXCEPT !.plan.fault = "none"])
-----------------------------------------------------------------------------
(* Telemetry *)

\* cobs::max_encoding_length
MaxEncodingLength(n) == n + ((n + 253) \div 254)

\* Whether a packet is too long for the buffers: retrieve_packet of the
\* example and the encoder panic.  CobsTmSender::new leaves no room for the
\* two sentinels.
TooLong(plan, n) ==
    \/ n > TmBufferSize
    \/ plan.server.tm_sender = "cobs" /\ MaxEncodingLength(n) + 2 > MaxEncodingLength(TmBufferSize)

\* One turn of the loop in handle_tm_sending.
SendTmPacket ==
    /\ tcp.pc \in {"tm", "last_tm"} /\ tcp.tm_source # << >>
    /\ tcp' = IF TooLong(tcp.plan, tcp.plan.tms[Head(tcp.tm_source)])
              THEN [tcp EXCEPT !.pc = "panic"]
              ELSE [tcp EXCEPT !.tm_source = Tail(@), !.conn.tm_was_sent = TRUE,
                               !.conn.num_sent_tms = @ + 1,
                               !.sent = Append(@, <<tcp.conn.client, Head(tcp.tm_source)>>)]

WriteFails ==
    /\ tcp.pc \in {"tm", "last_tm"} /\ tcp.tm_source # << >>
    /\ tcp.plan.fault = "write" /\ ~ TooLong(tcp.plan, tcp.plan.tms[Head(tcp.tm_source)])
    /\ tcp' = ConnectionFailed([tcp EXCEPT !.plan.fault = "none", !.tm_source = Tail(@)])

Report(t, stopped) ==
    [t EXCEPT !.pc = "accept", !.ended = @ \cup {t.conn.client},
              !.reports = Append(@, [client |-> t.conn.client,
                                     num_received_tcs |-> t.conn.num_received_tcs,
                                     num_sent_tms |-> t.conn.num_sent_tms,
                                     stopped_by_signal |-> stopped,
                                     handed |-> Len(t.conn.handed)])]

\* The TM source is exhausted: the stop signal counts if nothing was sent.
EndTm ==
    /\ tcp.tm_source = << >>
    /\ \/ /\ tcp.pc = "tm"
          /\ tcp' = IF ~ tcp.conn.tm_was_sent /\ tcp.stop_signal THEN Report(tcp, TRUE)
                    ELSE [tcp EXCEPT !.pc = "read"]
       \/ /\ tcp.pc = "last_tm"
          /\ tcp' = Report(tcp, FALSE)
-----------------------------------------------------------------------------
ServerStep ==
    \/ DoPoll \/ Accept \/ Read \/ ReadNothing \/ ReadWouldBlock \/ SendTmPacket \/ EndTm

TcpNext ==
    \/ ServerStep
    \/ Connect \/ Arrive \/ Close \/ ProduceTm \/ SignalStop
    \/ AcceptFails \/ ReadFails \/ WriteFails

\* The thread of the server runs, and no client stays for ever.
TcpFairness == WF_tcp(ServerStep) /\ SF_tcp(Close)
-----------------------------------------------------------------------------
TcpPanicked == tcp.pc = "panic"

\* The packets of the client that the server must hand on after a parse.
Wanted ==
    IF tcp.plan.server.parser = "cobs" THEN SubSeq(ClientPackets(tcp), 1, tcp.conn.units)
    ELSE SelectSeq(SubSeq(ClientPackets(tcp), 1, tcp.conn.units), LAMBDA p : Validate(p) = "Valid")

\* Exactly the packets that were read are handed on, whole and in order, each
\* after the parse that follows its last byte.
AllHanded ==
    /\ IsPrefix(tcp.conn.handed, Wanted)
    /\ ~ tcp.conn.refused => tcp.conn.handed = Wanted

\* Until more is read behind old bytes in tc_buffer, the packets of a client
\* are handed on, whatever the sizes of the pieces in which they arrive.  This
\* includes a packet that is split over any number of reads, up to the parse
\* that finds it complete, and a client that goes in the middle of a packet.
StreamIntact == tcp.conn # NoConnection /\ tcp.conn.sound => AllHanded

\* Telemetry reaches the clients in the order of its production, each packet
\* once, and the report of a connection counts what was exchanged in it.
ExchangeCounted ==
    /\ LET on_the_way == [i \in DOMAIN tcp.sent |-> tcp.sent[i][2]] \o tcp.tm_source
       IN  \A i, j \in DOMAIN on_the_way : i < j => on_the_way[i] < on_the_way[j]
    /\ \A i \in DOMAIN tcp.reports :
          LET report == tcp.reports[i]
          IN  /\ report.num_received_tcs = report.handed
              /\ report.num_sent_tms =
                    Cardinality({j \in DOMAIN tcp.sent : tcp.sent[j][1] = report.client})

\* What is exchanged in a connection is in order and counted, and complete up
\* to the first read behind old bytes, which SplitPacketsRebuilt is about.
ConnectionKept == StreamIntact /\ ExchangeCounted

\* Packets that are split over several reads are rebuilt, as the documentation
\* of the parsers says: "able to deal with broken tail packets at the end" for
\* the start of a space packet of at least HeaderLen bytes, and for COBS "a
\* reliable way to reconstruct full packets even from a data stream which is
\* split up".  It is not so: handle_tc_parsing leaves next_write_idx as it was
\* when nothing is cut off, and the next packet is put behind old bytes.
SplitPacketsRebuilt == tcp.conn # NoConnection /\ tcp.conn.documented => AllHanded

\* Every client that connects is served until its connection ends.
ClientsServed == []<>(TcpPanicked \/ 1..tcp.clients \subseteq tcp.ended)
=============================================================================
