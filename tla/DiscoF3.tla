------------------------------ MODULE DiscoF3 -------------------------------
(***************************************************************************)
(* The example for the STM32F3 board: telecommands come in on a UART as    *)
(* COBS frames, are executed by a task, and their reports and replies go   *)
(* out on the same UART from a queue.  The tasks have one priority and run *)
(* one at a time; the interrupts come between them and in the middle of    *)
(* them.  The LEDs, the clocks and the delays are left out.                *)
(*                                                                         *)
(* disco.plan is what comes from outside: chunks are the bytes received    *)
(* between two idle gaps of the line, decodes whether a frame decodes that *)
(* is not a whole one.                                                     *)
(***************************************************************************)
EXTENDS Framing

CONSTANTS
    Telecommands,   \* what each packet asks for
    MaxTcLen,       \* MAX_TC_LEN
    TmQueueLen,     \* capacity of TM_REQUESTS: 8
    SeqCountMod     \* 2^16, the width of the sequence counter

\* A ping, a new blink frequency, a telecommand for another APID, and one that
\* is not a request for another reason.
Requests == {"Ping", "Blink", "WrongApid", "Unknown"}

ASSUME DiscoAssumption ==
    /\ {MaxTcLen, TmQueueLen, SeqCountMod} \subseteq Nat \ {0}
    /\ DOMAIN Telecommands \subseteq Packets
    /\ \A p \in DOMAIN Telecommands :
          /\ Telecommands[p] \in Requests
          /\ PacketLen[p] <= MaxTcLen

VARIABLE disco

\* The DMA buffer has one byte of COBS overhead more than a packet.
TC_BUF_LEN == MaxTcLen + 1

\* UartTxState: idle, or transmitting a telemetry packet.
Idle == << >>

Transmitting(tm) == <<tm>>

\* init.  task is the argument with which serial_rx_handler was spawned,
\* delay what the blink task waits for.  taken, executed, line and dropped are
\* history: the chunks received, the telecommands executed with the number of
\* their chunk, the telemetry sent, and that for which the queue had no room.
NewDisco(plan) ==
    [plan |-> plan, pc |-> "run", taken |-> 0, task |-> << >>,
     decode_buf |-> [i \in 1..MaxTcLen |-> Zero], seq_count |-> 0,
     blink_freq |-> "default", delay |-> "default", tm_requests |-> << >>,
     state |-> Idle, executed |-> << >>, line |-> << >>, dropped |-> {}]
-----------------------------------------------------------------------------
(* The reports and the reply for a telecommand                             *)

\* fetch_add, which wraps around.
CountFrom(d, n) == (d.seq_count + n) % SeqCountMod

\* A report carries the number of the execution that it is about.
Tm(d, kind, n) == [of |-> Len(d.executed) + 1, kind |-> kind, seq_count |-> CountFrom(d, n)]

PingReply(d, n) == Tm(d, "pong", n)

StartReport(d, n) == Tm(d, "start", n)

CompletionReport(d, n) == Tm(d, "completion", n)

\* What convert_pus_tc_to_request and serial_rx_handler send.  The acceptance
\* report and the ping reply count on, the start and the completion report
\* only read the counter.  A request that is not known ends after acceptance.
Reports(d, p) ==
    CASE Telecommands[p] = "Ping" ->
            <<Tm(d, "acceptance", 0), StartReport(d, 1), PingReply(d, 1), CompletionReport(d, 2)>>
      [] Telecommands[p] = "Blink" ->
            <<Tm(d, "acceptance", 0), StartReport(d, 1), CompletionReport(d, 1)>>
      [] Telecommands[p] = "Unknown" -> <<Tm(d, "acceptance", 0)>>
      [] Telecommands[p] = "WrongApid" -> <<Tm(d, "acceptance failure", 0)>>

\* send_tm: what TM_REQUESTS has no room for is lost.
Enqueued(queue, tms) == SubSeq(queue \o tms, 1, Min({TmQueueLen, Len(queue) + Len(tms)}))

NotEnqueued(queue, tms) == Range(tms) \ Range(Enqueued(queue, tms))

Execute(d, p) ==
    [d EXCEPT !.executed = Append(@, <<d.taken, p>>),
              !.tm_requests = Enqueued(@, Reports(d, p)),
              !.dropped = @ \cup NotEnqueued(d.tm_requests, Reports(d, p)),
              !.seq_count = CountFrom(d, IF Telecommands[p] = "Ping" THEN 2 ELSE 1),
              !.blink_freq = IF Telecommands[p] = "Blink" THEN p ELSE @]
-----------------------------------------------------------------------------
(* Telecommands *)

Sentinels(bytes) == {i \in DOMAIN bytes : bytes[i] = Zero}

\* The bytes that cobs::decode takes: from the first that is not zero to the
\* next zero or the end.
FrameIn(bytes) ==
    LET start == Min((DOMAIN bytes \ Sentinels(bytes)) \cup {Len(bytes) + 1})
        end == Min({i \in Sentinels(bytes) : i > start} \cup {Len(bytes) + 1})
    IN  SubSeq(bytes, start, end - 1)

\* What is written to decode_buf, also if decoding fails at the end: the bytes
\* after the code byte, or others if the first byte is none.
DecodedBytes(frame) ==
    IF frame[1][2] = 0 THEN Tail(frame)
    ELSE [i \in 1..(Len(frame) - 1) |-> <<"other", i>>]

Written(buf, bytes) == [i \in DOMAIN buf |-> IF i <= Len(bytes) THEN bytes[i] ELSE buf[i]]

Decodes(plan, frame) == plan.decodes \/ \E p \in Packets : frame = Encoded(p)

\* Mutant: the checksum of the telecommand is not verified.
TcIn_NoChecksum(buf) ==
    {p \in DOMAIN Telecommands : SubSeq(buf, 1, HeaderLen) = SubSeq(Packet(p), 1, HeaderLen)}

\* PusTcReader::new on the whole buffer, behind the decoded bytes still those
\* of earlier telecommands.
TcIn(buf) == {p \in DOMAIN Telecommands : SubSeq(buf, 1, PacketLen[p]) = Packet(p)}

\* serial_rx_handler runs from its start to its end.
SerialRxHandler ==
    /\ disco.pc = "run" /\ disco.task # << >>
    /\ \E frame \in {FrameIn(disco.task[1])}, idle \in {[disco EXCEPT !.task = << >>]} :
          \/ /\ frame = << >>
             /\ disco' = idle
          \/ /\ frame # << >>
             /\ \E d \in {[idle EXCEPT !.decode_buf = Written(@, DecodedBytes(frame))]} :
                   \/ /\ ~ Decodes(disco.plan, frame) \/ TcIn(d.decode_buf) = {}
                      /\ disco' = d
                   \/ /\ Decodes(disco.plan, frame)
                      /\ \E p \in TcIn(d.decode_buf) : disco' = Execute(d, p)
-----------------------------------------------------------------------------
(* Interrupts *)

Chunk == disco.plan.chunks[disco.taken + 1]

\* The telemetry of a transfer that is complete has gone out.
AfterTx(d) == [d EXCEPT !.state = Idle, !.line = @ \o d.state]

\* A chunk is given to serial_rx_handler, which must not be running.
AfterRx(d, chunk) ==
    IF d.task = << >> THEN [d EXCEPT !.task = <<chunk>>, !.taken = @ + 1]
    ELSE [d EXCEPT !.pc = "panic"]

\* serial_isr for the end of a transmission, for an idle line, or for both.
SerialIsr(complete, idle) ==
    /\ disco.pc = "run" /\ (complete \/ idle)
    /\ complete => disco.state # Idle
    /\ idle => disco.taken < Len(disco.plan.chunks) /\ Len(Chunk) < TC_BUF_LEN
    /\ LET sent == IF complete THEN AfterTx(disco) ELSE disco
       IN  disco' = IF idle THEN AfterRx(sent, Chunk) ELSE sent

\* rx_dma_isr: the buffer is full, and longer than a TcPacket.
RxDmaIsr ==
    /\ disco.pc = "run" /\ disco.taken < Len(disco.plan.chunks)
    /\ Len(Chunk) >= TC_BUF_LEN
    /\ disco' = [disco EXCEPT !.pc = "panic"]
-----------------------------------------------------------------------------
(* The other tasks *)

\* Mutant: the handler waits for the time of a transfer before the first one.
SerialTxHandler_NoFirst ==
    /\ disco.pc = "run" /\ disco.state = Idle /\ disco.tm_requests # << >>
    /\ disco.line # << >>
    /\ disco' = [disco EXCEPT !.tm_requests = Tail(@), !.state = Transmitting(Head(disco.tm_requests))]

\* serial_tx_handler when the UART is idle.
SerialTxHandler ==
    /\ disco.pc = "run" /\ disco.state = Idle /\ disco.tm_requests # << >>
    /\ disco' = [disco EXCEPT !.tm_requests = Tail(@), !.state = Transmitting(Head(disco.tm_requests))]

\* A turn of blink.
Blink ==
    /\ disco.pc = "run" /\ disco.delay # disco.blink_freq
    /\ disco' = [disco EXCEPT !.delay = disco.blink_freq]

DiscoNext ==
    \/ \E complete, idle \in BOOLEAN : SerialIsr(complete, idle)
    \/ RxDmaIsr \/ SerialRxHandler \/ SerialTxHandler \/ Blink

\* Every task runs when it is due, and transmissions end.
DiscoFairness ==
    /\ WF_disco(SerialIsr(TRUE, FALSE)) /\ WF_disco(SerialRxHandler)
    /\ WF_disco(SerialTxHandler) /\ WF_disco(Blink)
-----------------------------------------------------------------------------
\* A chunk begins with the whole frame of a packet.
BeginsWith(chunk, p) ==
    \E i \in 0..Len(chunk) :
        /\ \A j \in 1..i : chunk[j] = Zero
        /\ IsPrefix(Encoded(p), SubSeq(chunk, i + 1, Len(chunk)))

\* At most one telecommand is executed for each chunk, in the order of the
\* chunks.  A chunk with a whole frame at its front always leads to its
\* execution.  What is left in decode_buf can make a damaged frame execute
\* once more what was executed before it, and never anything else: each
\* execution is that of the last whole frame received.
CommandsExecuted ==
    LET Chunks == disco.plan.chunks
        executed == disco.executed
        handled == 1..(IF disco.task = << >> THEN disco.taken ELSE disco.taken - 1)
        wholes(n) == {k \in 1..n : \E p \in DOMAIN Telecommands : BeginsWith(Chunks[k], p)}
    IN  /\ \A i, j \in DOMAIN executed : i < j => executed[i][1] < executed[j][1]
        /\ \A k \in handled, p \in DOMAIN Telecommands :
              BeginsWith(Chunks[k], p) => \E i \in DOMAIN executed : executed[i] = <<k, p>>
        /\ \A i \in DOMAIN executed :
              /\ wholes(executed[i][1]) # {}
              /\ BeginsWith(Chunks[Max(wholes(executed[i][1]))], executed[i][2])

ReportSteps == <<"acceptance failure", "acceptance", "start", "pong", "completion">>

\* Telemetry goes out in the order of the telecommands and of the steps of
\* each of them, nothing twice, and nothing is missing that the queue had room
\* for: every execution begins with its acceptance report.
ReportsInOrder ==
    LET Position(tm) == 5 * tm.of + (CHOOSE i \in 1..5 : ReportSteps[i] = tm.kind)
        flow == disco.line \o disco.state \o disco.tm_requests
        all == {flow[i] : i \in DOMAIN flow} \cup disco.dropped
    IN  /\ \A i, j \in DOMAIN flow : i < j => Position(flow[i]) < Position(flow[j])
        /\ \A n \in DOMAIN disco.executed :
              {tm.kind : tm \in {t \in all : t.of = n}} =
                  CASE Telecommands[disco.executed[n][2]] = "Ping" ->
                          {"acceptance", "start", "pong", "completion"}
                    [] Telecommands[disco.executed[n][2]] = "Blink" ->
                          {"acceptance", "start", "completion"}
                    [] Telecommands[disco.executed[n][2]] = "WrongApid" -> {"acceptance failure"}
                    [] OTHER -> {"acceptance"}

\* Every telecommand that arrives whole is executed, no other, and every
\* execution is reported step by step, in order and without duplicates.
CommandsAnswered == CommandsExecuted /\ ReportsInOrder

\* As long as the board runs, every received chunk is handled, all telemetry
\* goes out, and the blink task takes over the frequency that was set last.
BoardWorks ==
    []<>(disco.pc = "panic" \/ (/\ disco.task = << >> /\ disco.tm_requests = << >>
                                /\ disco.state = Idle /\ disco.delay = disco.blink_freq))
=============================================================================
