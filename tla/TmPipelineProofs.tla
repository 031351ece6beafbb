-------------------------- MODULE TmPipelineProofs --------------------------
(***************************************************************************)
(* For every number of producers and packets and every length of the       *)
(* queues and of the pool: what arrives at the TM sink is sent in order,   *)
(* no packet is lost or duplicated on the way, and the pipeline implements *)
(* the abstract stream.  The packets of the flow, as a set, are the blocks *)
(* of the pool in use, so every address leads to a block; and the queue of *)
(* the TCP server holds the newest packets.                                *)
(***************************************************************************)
EXTENDS TmPipeline, FiniteSetTheorems, TLAPS

(* Most leaves need only first-order reasoning and go to Zenon; a leaf     *)
(* with arithmetic, or with functions and records that Zenon does not      *)
(* know, names SMT.  Both get more time than their default, for slower     *)
(* machines.                                                               *)
USE ZenonT(60)

-----------------------------------------------------------------------------
(* Sequences: how a packet moves from one part of the flow to the next     *)

\* A sequence is a function on its indices.
LEMMA SeqDomain ==
    ASSUME NEW S, NEW s \in Seq(S)
    PROVE  Len(s) \in Nat /\ s \in [1..Len(s) -> S] /\ DOMAIN s = 1..Len(s)
BY SMTT(60)

\* Sequences with the same elements are the same.
LEMMA SeqSame ==
    ASSUME NEW S, NEW s \in Seq(S), NEW t \in Seq(S), Len(s) = Len(t),
           \A i \in 1..Len(s) : s[i] = t[i]
    PROVE  s = t
<1>1. s \in [1..Len(s) -> S] /\ t \in [1..Len(s) -> S]
  BY SMTT(60)
<1> QED
  BY SMTT(60), <1>1

\* A sequence that is not empty has a first element.
LEMMA SeqNotEmpty ==
    ASSUME NEW S, NEW s \in Seq(S), s # << >>
    PROVE  Len(s) \in Nat \ {0}
<1>1. CASE Len(s) = 0
  <2>1. s \in [1..0 -> S]
    BY SMTT(60), <1>1
  <2> QED
    BY SMTT(60), <2>1
<1> QED
  BY SMTT(60), <1>1

\* The elements of a concatenation, of a longer sequence, of a tail and of a
\* section.
LEMMA Concatenated ==
    ASSUME NEW S, NEW s \in Seq(S), NEW t \in Seq(S)
    PROVE  /\ s \o t \in Seq(S)
           /\ Len(s \o t) = Len(s) + Len(t)
           /\ \A i \in 1..(Len(s) + Len(t)) :
                 (s \o t)[i] = IF i <= Len(s) THEN s[i] ELSE t[i - Len(s)]
<1>1. s \o t \in Seq(S) /\ Len(s \o t) = Len(s) + Len(t)
  BY SMTT(60)
<1>2. \A i \in 1..(Len(s) + Len(t)) :
         (s \o t)[i] = IF i <= Len(s) THEN s[i] ELSE t[i - Len(s)]
  BY SMTT(60)
<1> QED
  BY <1>1, <1>2

\* What a sequence is after an element has joined it.
LEMMA Appended ==
    ASSUME NEW S, NEW s \in Seq(S), NEW x \in S
    PROVE  /\ Append(s, x) \in Seq(S)
           /\ Append(s, x) # << >>
           /\ Len(Append(s, x)) = Len(s) + 1
           /\ \A i \in 1..Len(s) : Append(s, x)[i] = s[i]
           /\ Append(s, x)[Len(s) + 1] = x
BY SMTT(60)

\* What it is after its head has left it.
LEMMA TailOf ==
    ASSUME NEW S, NEW s \in Seq(S), s # << >>
    PROVE  /\ Head(s) \in S
           /\ Tail(s) \in Seq(S)
           /\ Len(Tail(s)) = Len(s) - 1
           /\ \A i \in 1..Len(Tail(s)) : Tail(s)[i] = s[i + 1]
BY SMTT(60)

\* A section of a sequence.
LEMMA SectionOf ==
    ASSUME NEW S, NEW s \in Seq(S), NEW m \in 1..(Len(s) + 1), NEW n \in 0..Len(s)
    PROVE  /\ SubSeq(s, m, n) \in Seq(S)
           /\ Len(SubSeq(s, m, n)) = IF m <= n THEN n - m + 1 ELSE 0
           /\ \A i \in 1..(n - m + 1) : SubSeq(s, m, n)[i] = s[m + i - 1]
BY SMTT(60)

\* Concatenation is associative, has a unit, and stays within the sequences.
LEMMA ConcatFacts ==
    ASSUME NEW S
    PROVE  /\ \A s, t \in Seq(S) : s \o t \in Seq(S)
           /\ \A s, t, u \in Seq(S) : (s \o t) \o u = s \o (t \o u)
           /\ \A s \in Seq(S) : s \o << >> = s /\ << >> \o s = s
           /\ \A x \in S : <<x>> \in Seq(S)
           /\ \A s \in Seq(S), x \in S : Append(s, x) = s \o <<x>>
<1>1. \A s, t \in Seq(S) : s \o t \in Seq(S)
  BY Concatenated
<1>2. \A s, t, u \in Seq(S) : (s \o t) \o u = s \o (t \o u)
  BY SMTT(60)
<1>3. \A s \in Seq(S) : s \o << >> = s /\ << >> \o s = s
  BY SMTT(60)
<1>4. \A x \in S : <<x>> \in Seq(S)
  BY SMTT(60)
<1>5. \A s \in Seq(S), x \in S : Append(s, x) = s \o <<x>>
  BY SMTT(60)
<1> QED
  BY <1>1, <1>2, <1>3, <1>4, <1>5

\* A queue that is not empty is its head followed by its tail.
LEMMA HeadTail ==
    ASSUME NEW S, NEW s \in Seq(S), s # << >>
    PROVE  /\ Head(s) \in S /\ Tail(s) \in Seq(S)
           /\ s = <<Head(s)>> \o Tail(s)
<1>1. Head(s) \in S /\ Tail(s) \in Seq(S) /\ Len(Tail(s)) = Len(s) - 1
  BY TailOf
<1>2. \A i \in 1..Len(Tail(s)) : Tail(s)[i] = s[i + 1]
  BY TailOf
<1>3. Len(s) \in Nat \ {0} /\ Head(s) = s[1]
  BY SMTT(60), SeqNotEmpty
<1>4. <<Head(s)>> \in Seq(S) /\ Len(<<Head(s)>>) = 1 /\ <<Head(s)>>[1] = Head(s)
  BY SMTT(60), <1>1
<1> PICK h, r, c : h = <<Head(s)>> /\ r = Tail(s) /\ c = h \o r
  OBVIOUS
<1>5. /\ c \in Seq(S)
      /\ Len(c) = 1 + Len(r)
      /\ \A i \in 1..(1 + Len(r)) : c[i] = IF i <= 1 THEN h[i] ELSE r[i - 1]
  BY <1>1, <1>4, Concatenated
<1>6. Len(c) = Len(s)
  BY SMTT(60), <1>1, <1>3, <1>5
<1>7. \A i \in 1..Len(s) : s[i] = c[i]
  <2> TAKE i \in 1..Len(s)
  <2>1. CASE i = 1
    BY SMTT(60), <2>1, <1>1, <1>3, <1>4, <1>5, <1>6
  <2>2. CASE i # 1
    <3>1. i - 1 \in 1..Len(r) /\ i \in 1..(1 + Len(r)) /\ ~(i <= 1)
      BY SMTT(60), <2>2, <1>1, <1>3
    <3>2. c[i] = r[i - 1]
      BY <3>1, <1>5
    <3>3. r[i - 1] = s[(i - 1) + 1]
      BY <3>1, <1>2
    <3> QED
      BY SMTT(60), <3>2, <3>3
  <2> QED
    BY <2>1, <2>2
<1>8. s = c
  BY <1>5, <1>6, <1>7, SeqSame
<1> QED
  BY <1>1, <1>8

\* The proofs about the flow need only the laws of concatenation: with names of
\* their own the provers do not look into the sequences.
Cat(s, t) == s \o t
Single(x) == <<x>>

\* The laws of concatenation.
LEMMA CatFacts ==
    ASSUME NEW S
    PROVE  /\ \A s, t \in Seq(S) : Cat(s, t) \in Seq(S)
           /\ \A s, t, u \in Seq(S) : Cat(Cat(s, t), u) = Cat(s, Cat(t, u))
           /\ \A s \in Seq(S) : Cat(s, << >>) = s /\ Cat(<< >>, s) = s
           /\ \A x \in S : Single(x) \in Seq(S)
BY ConcatFacts DEF Cat, Single

\* Appending a packet, and taking the first one, in terms of Cat.
LEMMA AppendIsCat ==
    ASSUME NEW S, NEW s \in Seq(S), NEW x \in S
    PROVE  Append(s, x) = Cat(s, Single(x))
BY ConcatFacts DEF Cat, Single

\* A sequence is its head and its tail.
LEMMA TakeIsCat ==
    ASSUME NEW S, NEW s \in Seq(S), s # << >>
    PROVE  /\ Head(s) \in S /\ Tail(s) \in Seq(S)
           /\ s = Cat(Single(Head(s)), Tail(s))
BY HeadTail DEF Cat, Single

\* A packet that arrives is the last of the flow.
LEMMA ArriveKeepsFlow ==
    ASSUME NEW S, NEW d \in Seq(S), NEW g \in Seq(S), NEW f \in Seq(S), NEW v \in Seq(S)
    PROVE  Cat(Cat(d, Cat(g, f)), v) = Cat(d, Cat(g, Cat(f, v)))
<1>1. Cat(g, f) \in Seq(S)
  BY CatFacts
<1>2. Cat(Cat(d, Cat(g, f)), v) = Cat(d, Cat(Cat(g, f), v))
  BY SMTT(60), <1>1, CatFacts
<1>3. Cat(Cat(g, f), v) = Cat(g, Cat(f, v))
  BY SMTT(60), CatFacts
<1> QED
  BY <1>2, <1>3

\* A packet taken from a queue stays at its place.
LEMMA TakeKeepsFlow ==
    ASSUME NEW S, NEW g \in Seq(S), NEW v \in Seq(S), NEW r \in Seq(S)
    PROVE  Cat(Cat(g, v), r) = Cat(Cat(g, << >>), Cat(v, r))
<1>1. Cat(g, << >>) = g
  BY CatFacts
<1>2. Cat(Cat(g, v), r) = Cat(g, Cat(v, r))
  BY SMTT(60), CatFacts
<1> QED
  BY <1>1, <1>2

\* A packet put into the server queue stays at its place.
LEMMA PutKeepsFlow ==
    ASSUME NEW S, NEW h \in Seq(S), NEW q \in Seq(S), NEW v \in Seq(S)
    PROVE  Cat(Cat(h, Cat(q, v)), << >>) = Cat(Cat(h, q), v)
<1>1. Cat(q, v) \in Seq(S)
  BY CatFacts
<1>2. Cat(h, Cat(q, v)) \in Seq(S)
  BY <1>1, CatFacts
<1>3. Cat(Cat(h, q), v) = Cat(h, Cat(q, v))
  BY SMTT(60), CatFacts
<1>4. Cat(Cat(h, Cat(q, v)), << >>) = Cat(h, Cat(q, v))
  BY <1>2, CatFacts
<1> QED
  BY <1>3, <1>4

\* The sequence a has the element x at the place after the length of d.
HasNext(a, d, x) == Len(d) < Len(a) /\ a[Len(d) + 1] = x

\* A sequence that continues d with x has x after the length of d.
LEMMA NextElement ==
    ASSUME NEW S, NEW d \in Seq(S), NEW r \in Seq(S), NEW x \in S
    PROVE  HasNext(Cat(Cat(d, Single(x)), r), d, x)
<1>0. PICK a, e, c : a = Cat(Cat(d, Single(x)), r) /\ e = Append(d, x) /\ c = e \o r
  OBVIOUS
<1>1. e \in Seq(S) /\ Len(e) = Len(d) + 1 /\ e[Len(d) + 1] = x
  BY <1>0, Appended
<1>2. e = Cat(d, Single(x))
  BY <1>0, AppendIsCat
<1>3. a = c
  BY <1>0, <1>2 DEF Cat
<1>4. /\ Len(c) = Len(e) + Len(r)
      /\ \A i \in 1..(Len(e) + Len(r)) :
            c[i] = IF i <= Len(e) THEN e[i] ELSE r[i - Len(e)]
  BY <1>0, <1>1, Concatenated
<1>5. Len(d) \in Nat /\ Len(r) \in Nat
  BY SeqDomain
<1>6. /\ Len(d) + 1 \in 1..(Len(e) + Len(r)) /\ Len(d) + 1 <= Len(e)
      /\ Len(d) < Len(e) + Len(r)
  BY SMTT(60), <1>1, <1>5
<1>7. HasNext(a, d, x)
  BY <1>1, <1>3, <1>4, <1>6 DEF HasNext
<1> QED
  BY <1>0, <1>7

\* The packet in the hands of the UDP server is the first of the flow, ...
LEMMA SendKeepsFlow ==
    ASSUME NEW S, NEW d \in Seq(S), NEW q \in Seq(S),
           NEW s \in Seq(S), NEW f \in Seq(S), NEW v \in Seq(S)
    PROVE  Cat(d, Cat(Cat(Cat(v, q), s), f))
             = Cat(Cat(d, v), Cat(Cat(Cat(<< >>, q), s), f))
<1>1. Cat(q, s) \in Seq(S) /\ Cat(<< >>, q) = q
  BY CatFacts
<1>2. Cat(Cat(q, s), f) \in Seq(S)
  BY <1>1, CatFacts
<1>3. Cat(Cat(v, q), s) = Cat(v, Cat(q, s))
  BY SMTT(60), CatFacts
<1>4. Cat(Cat(v, Cat(q, s)), f) = Cat(v, Cat(Cat(q, s), f))
  BY SMTT(60), <1>1, CatFacts
<1>5. Cat(Cat(d, v), Cat(Cat(q, s), f)) = Cat(d, Cat(v, Cat(Cat(q, s), f)))
  BY SMTT(60), <1>2, CatFacts
<1> QED
  BY <1>1, <1>3, <1>4, <1>5
-----------------------------------------------------------------------------
(* The state *)

\* apply_packet_processing keeps the counters within their widths.
LEMMA CountersStay ==
    ASSUME counters \in Counters, NEW tm \in Tms
    PROVE  /\ CountsFor(counters, tm) \in Counts
           /\ AfterPacket(counters, tm) \in Counters
<1>1. ApidOf[tm] \in Apids /\ ServiceOf[tm] \in Services
  BY DEF Apids, Services
<1>2. \A max \in Nat : \A c \in 0..max : Increment(c, max) \in 0..max
  BY SMTT(60) DEF Increment
<1> QED
  BY <1>1, <1>2, FunnelAssumption DEF Counters, Counts, CountsFor, AfterPacket

\* What a thread holds is a sequence of at most one packet.
LEMMA HeldIsSeq ==
    ASSUME NEW tm \in Tms \cup {NoTm}
    PROVE  Held(tm) \in Seq(Tms) /\ << >> \in Seq(Tms)
BY SMTT(60) DEF Held

\* The flow and its parts.
LEMMA FlowParts ==
    ASSUME TypeOK
    PROVE  /\ HeldByUdp \in Seq(Tms) /\ HeldBySink \in Seq(Tms)
           /\ server \in Seq(Tms) /\ funnel \in Seq(Tms)
           /\ arrived \in Seq(Tms) /\ sent \in Seq(Tms)
           /\ Cat(HeldByUdp, server) \in Seq(Tms)
           /\ Cat(Cat(HeldByUdp, server), HeldBySink) \in Seq(Tms)
<1>1. HeldByUdp \in Seq(Tms) /\ HeldBySink \in Seq(Tms)
  <2>1. udp_tm \in Tms \cup {NoTm} /\ sink_tm \in Tms \cup {NoTm}
    BY DEF TypeOK
  <2>2. Held(udp_tm) \in Seq(Tms) /\ Held(sink_tm) \in Seq(Tms) /\ << >> \in Seq(Tms)
    BY <2>1, HeldIsSeq
  <2> QED
    BY <2>1, <2>2 DEF HeldByUdp, HeldBySink
<1>2. server \in Seq(Tms) /\ funnel \in Seq(Tms) /\ arrived \in Seq(Tms) /\ sent \in Seq(Tms)
  BY DEF TypeOK
<1>3. Cat(HeldByUdp, server) \in Seq(Tms)
  BY <1>1, <1>2, CatFacts
<1>4. Cat(Cat(HeldByUdp, server), HeldBySink) \in Seq(Tms)
  BY <1>1, <1>3, CatFacts
<1> QED
  BY <1>1, <1>2, <1>3, <1>4

\* NothingLostOnTheWay and the flow in terms of Cat.
Flow == Cat(Cat(Cat(HeldByUdp, server), HeldBySink), funnel)
FlowInv == udp_pc # "panicked" => arrived = Cat(sent, Flow)

\* FlowInv is NothingLostOnTheWay.
LEMMA FlowInvIsNothingLost == FlowInv <=> NothingLostOnTheWay
BY DEF FlowInv, Flow, NothingLostOnTheWay, InFlow, Cat

\* A step that moves no packet keeps the flow.
LEMMA FlowStays ==
    ASSUME FlowInv, UNCHANGED <<arrived, sent>>,
           udp_pc' # "panicked" => udp_pc # "panicked" /\ Flow' = Flow
    PROVE  FlowInv'
BY DEF FlowInv

\* try_send keeps the types of what it changes.
LEMMA TrySendTypes ==
    ASSUME TypeOK, NEW tm \in Tms, TrySend(tm)
    PROVE  funnel' \in Seq(Tms) /\ arrived' \in Seq(Tms) /\ leaked' \subseteq Tms
<1>1. Append(funnel, tm) \in Seq(Tms) /\ Append(arrived, tm) \in Seq(Tms)
  BY Appended DEF TypeOK
<1>2. leaked \cup {tm} \subseteq Tms
  BY DEF TypeOK
<1> QED
  BY <1>1, <1>2 DEF TypeOK, TrySend

\* try_send of a packet makes it the last of the flow or leaves the flow alone.
LEMMA TrySendKeepsFlow ==
    ASSUME TypeOK, FlowInv, NEW tm \in Tms, TrySend(tm),
           UNCHANGED <<server, sent, HeldBySink, HeldByUdp>>,
           udp_pc' # "panicked" => udp_pc # "panicked"
    PROVE  FlowInv'
<1> SUFFICES ASSUME udp_pc' # "panicked"
             PROVE  arrived' = Cat(sent', Flow')
  BY DEF FlowInv
<1>1. arrived = Cat(sent, Flow)
  BY DEF FlowInv
<1>2. CASE CanSend
  <2>1. Append(arrived, tm) = Cat(arrived, Single(tm))
    BY FlowParts, AppendIsCat
  <2>2. Append(funnel, tm) = Cat(funnel, Single(tm))
    BY FlowParts, AppendIsCat
  <2>3. Single(tm) \in Seq(Tms)
    BY CatFacts
  <2>4. Cat(Cat(sent, Flow), Single(tm))
          = Cat(sent, Cat(Cat(Cat(HeldByUdp, server), HeldBySink), Cat(funnel, Single(tm))))
    <3>0. PICK g, v : g = Cat(Cat(HeldByUdp, server), HeldBySink) /\ v = Single(tm)
      OBVIOUS
    <3>1. /\ g \in Seq(Tms) /\ v \in Seq(Tms)
          /\ sent \in Seq(Tms) /\ funnel \in Seq(Tms)
      BY <2>3, <3>0, FlowParts
    <3>2. Cat(Cat(sent, Cat(g, funnel)), v) = Cat(sent, Cat(g, Cat(funnel, v)))
      BY SMTT(60), <3>1, ArriveKeepsFlow
    <3> QED
      BY <3>0, <3>2 DEF Flow
  <2>5. Flow' = Cat(Cat(Cat(HeldByUdp, server), HeldBySink), Cat(funnel, Single(tm)))
    BY <1>2, <2>2 DEF Flow, TrySend
  <2> QED
    BY <1>1, <1>2, <2>1, <2>4, <2>5 DEF TrySend
<1>3. CASE ~CanSend
  BY <1>1, <1>3 DEF TrySend, Flow
<1> QED
  BY <1>2, <1>3

-----------------------------------------------------------------------------
(* The steps *)

\* The inductive invariant: NothingLostOnTheWay, in terms of Cat, holds at a step
\* only because a thread holds a packet where ThreadsSound says it does, and the
\* numbers of the reports stay within Tms because of BoundSound.
Inductive == TypeOK /\ ThreadsSound /\ BoundSound /\ FlowInv

\* The numbers that BoundSound is about.
LEMMA BoundTypes ==
    ASSUME TypeOK
    PROVE  /\ created \in Nat /\ received \in Nat /\ tcs \in Nat
           /\ MaxTc \in Nat /\ MaxTm \in Nat /\ received <= MaxTc
<1>1. created \in 0..MaxTm /\ received \in 0..MaxTc /\ tcs \in 0..TcQueueLen
  BY DEF TypeOK
<1> QED
  BY SMTT(60), <1>1, FunnelAssumption, PipelineAssumption

\* A producer's packet is within the bound and does not touch the flow.
LEMMA ProducerStoreKeeps ==
    ASSUME Inductive, NEW p \in Producers, ProducerStore(p)
    PROVE  Inductive'
<1> USE DEF Inductive
<1>1. created + 1 \in Tms /\ created + 1 \in 0..MaxTm
  <2>1. created < MaxTm - 2 * MaxTc
    BY DEF ProducerStore
  <2> QED
    BY SMTT(60), <2>1, BoundTypes DEF Tms
<1>2. TypeOK'
  BY <1>1 DEF TypeOK, ProducerStore, Store, sink_vars, udp_vars, tc_vars
<1>3. ThreadsSound'
  BY DEF ThreadsSound, Poisoned, ProducerStore, sink_vars, udp_vars
<1>4. BoundSound'
  <2>1. created' = created + 1 /\ UNCHANGED <<udp_pc, tcs, received>>
    BY DEF ProducerStore, Store, udp_vars, tc_vars
  <2>2. created < MaxTm - 2 * MaxTc
    BY DEF ProducerStore
  <2>3. ReportsDue' = ReportsDue /\ ReportsDue \in Nat
    BY <2>1 DEF ReportsDue
  <2> QED
    BY SMTT(60), <2>1, <2>2, <2>3, BoundTypes DEF BoundSound
<1>5. FlowInv'
  <2>1. UNCHANGED <<arrived, sent, udp_pc, udp_tm, sink_pc, sink_tm, server, funnel>>
    BY DEF ProducerStore, sink_vars, udp_vars
  <2> QED
    BY <2>1, FlowStays DEF Flow, HeldByUdp, HeldBySink, Held
<1> QED
  BY <1>2, <1>3, <1>4, <1>5

\* What a producer sends is the last of the flow.
LEMMA ProducerSendKeeps ==
    ASSUME Inductive, NEW p \in Producers, ProducerSend(p)
    PROVE  Inductive'
<1> USE DEF Inductive
<1>1. producer[p] \in Tms
  BY DEF TypeOK, ProducerSend
<1>2. TypeOK'
  <2>1. funnel' \in Seq(Tms) /\ arrived' \in Seq(Tms) /\ leaked' \subseteq Tms
    BY <1>1, TrySendTypes DEF ProducerSend
  <2> QED
    BY <2>1 DEF TypeOK, ProducerSend, sink_vars, udp_vars, tc_vars
<1>3. ThreadsSound'
  BY DEF ThreadsSound, Poisoned, ProducerSend, sink_vars, udp_vars
<1>4. BoundSound'
  BY DEF BoundSound, ReportsDue, ProducerSend, udp_vars, tc_vars
<1>5. FlowInv'
  <2>1. UNCHANGED <<sent, udp_pc, udp_tm, sink_pc, sink_tm, server>>
    BY DEF ProducerSend, sink_vars, udp_vars
  <2>2. HeldBySink' = HeldBySink /\ HeldByUdp' = HeldByUdp
    BY <2>1 DEF HeldByUdp, HeldBySink, Held
  <2>3. TrySend(producer[p])
    BY DEF ProducerSend
  <2> QED
    BY <1>1, <2>1, <2>2, <2>3, TrySendKeepsFlow
<1> QED
  BY <1>2, <1>3, <1>4, <1>5

\* A packet goes from the sink's queue into the hands of the sink, ...
LEMMA SinkRecvKeeps ==
    ASSUME Inductive, SinkRecv
    PROVE  Inductive'
<1> USE DEF Inductive
<1>1. /\ Head(funnel) \in Tms /\ Tail(funnel) \in Seq(Tms)
      /\ funnel = Cat(Single(Head(funnel)), Tail(funnel))
  BY FlowParts, TakeIsCat DEF SinkRecv
<1>2. TypeOK'
  BY <1>1 DEF TypeOK, SinkRecv, udp_vars, tc_vars, loss_vars
<1>3. ThreadsSound'
  BY <1>1, PipelineAssumption DEF ThreadsSound, Poisoned, SinkRecv, udp_vars
<1>4. BoundSound'
  BY DEF BoundSound, ReportsDue, SinkRecv, udp_vars, tc_vars
<1>5. FlowInv'
  <2>1. HeldBySink = << >>
    BY DEF ThreadsSound, SinkRecv, HeldBySink, Held
  <2>2. HeldBySink' = Single(Head(funnel)) /\ funnel' = Tail(funnel)
    BY <1>1, PipelineAssumption DEF SinkRecv, HeldBySink, Held, Single
  <2>3. HeldByUdp' = HeldByUdp /\ UNCHANGED <<server, arrived, sent, udp_pc>>
    BY DEF SinkRecv, udp_vars, HeldByUdp, Held
  <2>4. Flow' = Flow
    <3>0. PICK g, v, r : g = Cat(HeldByUdp, server) /\ v = Single(Head(funnel))
                         /\ r = Tail(funnel)
      OBVIOUS
    <3>1. g \in Seq(Tms) /\ v \in Seq(Tms) /\ r \in Seq(Tms)
      BY <1>1, <3>0, FlowParts, CatFacts
    <3>2. Cat(Cat(g, v), r) = Cat(Cat(g, << >>), Cat(v, r))
      BY SMTT(60), <3>1, TakeKeepsFlow
    <3>3. Flow' = Cat(Cat(g, v), r)
      BY <2>2, <2>3, <3>0 DEF Flow
    <3>4. Flow = Cat(Cat(g, << >>), Cat(v, r))
      BY <1>1, <2>1, <3>0 DEF Flow
    <3> QED
      BY <3>2, <3>3, <3>4
  <2> QED
    BY <2>3, <2>4, FlowStays
<1> QED
  BY <1>2, <1>3, <1>4, <1>5

\* ... gets its counters, ...
LEMMA SinkProcessKeeps ==
    ASSUME Inductive, SinkProcess
    PROVE  Inductive'
<1> USE DEF Inductive
<1>1. sink_tm \in Tms
  BY DEF TypeOK, ThreadsSound, SinkProcess
<1>2. TypeOK'
  <2>1. counters \in Counters
    BY DEF TypeOK
  <2>2. CountsFor(counters, sink_tm) \in Counts /\ AfterPacket(counters, sink_tm) \in Counters
    BY <1>1, <2>1, CountersStay
  <2>3. counts' \in [Tms -> Counts] /\ counters' \in Counters
    BY <1>1, <2>2 DEF TypeOK, SinkProcess
  <2> QED
    BY <2>3 DEF TypeOK, SinkProcess, udp_vars, tc_vars, loss_vars
<1>3. ThreadsSound'
  BY DEF ThreadsSound, Poisoned, SinkProcess, udp_vars
<1>4. BoundSound'
  BY DEF BoundSound, ReportsDue, SinkProcess, udp_vars, tc_vars
<1>5. FlowInv'
  <2>1. UNCHANGED <<arrived, sent, udp_pc, udp_tm, sink_tm, server, funnel>>
    BY DEF SinkProcess, udp_vars
  <2>2. HeldBySink' = HeldBySink
    BY DEF SinkProcess, HeldBySink, Held
  <2> QED
    BY <2>1, <2>2, FlowStays DEF Flow, HeldByUdp, Held
<1> QED
  BY <1>2, <1>3, <1>4, <1>5

\* ... is put into the server queue, ...
LEMMA SinkSendKeeps ==
    ASSUME Inductive, SinkSend
    PROVE  Inductive'
<1> USE DEF Inductive
<1>1. sink_tm \in Tms
  BY DEF TypeOK, ThreadsSound, SinkSend
<1>2. Append(server, sink_tm) \in Seq(Tms)
       /\ Append(server, sink_tm) = Cat(server, Single(sink_tm))
  BY <1>1, FlowParts, Appended, AppendIsCat
<1>3. TypeOK'
  BY <1>2 DEF TypeOK, SinkSend, udp_vars, tc_vars, loss_vars
<1>4. ThreadsSound'
  BY DEF ThreadsSound, Poisoned, SinkSend, udp_vars
<1>5. BoundSound'
  BY DEF BoundSound, ReportsDue, SinkSend, udp_vars, tc_vars
<1>6. FlowInv'
  <2>1. HeldBySink = Single(sink_tm)
    BY <1>1, PipelineAssumption DEF SinkSend, HeldBySink, Held, Single
  <2>2. HeldBySink' = << >> /\ server' = Cat(server, Single(sink_tm))
    BY <1>2 DEF SinkSend, HeldBySink
  <2>3. HeldByUdp' = HeldByUdp /\ UNCHANGED <<funnel, arrived, sent, udp_pc>>
    BY DEF SinkSend, udp_vars, HeldByUdp, Held
  <2>4. Flow' = Flow
    <3>0. PICK v : v = Single(sink_tm)
      OBVIOUS
    <3>1. HeldByUdp \in Seq(Tms) /\ server \in Seq(Tms) /\ v \in Seq(Tms)
      BY <1>1, <3>0, FlowParts, CatFacts
    <3>2. Cat(Cat(HeldByUdp, Cat(server, v)), << >>) = Cat(Cat(HeldByUdp, server), v)
      BY SMTT(60), <3>1, PutKeepsFlow
    <3> QED
      BY <2>1, <2>2, <2>3, <3>0, <3>2 DEF Flow
  <2> QED
    BY <2>3, <2>4, FlowStays
<1> QED
  BY <1>3, <1>4, <1>5, <1>6

\* ... and is copied to the TCP server.
LEMMA SinkAddTmKeeps ==
    ASSUME Inductive, SinkAddTm
    PROVE  Inductive'
<1> USE DEF Inductive
<1>1. sink_tm \in Tms
  BY DEF TypeOK, ThreadsSound, SinkAddTm
<1>2. TypeOK'
  <2>1. tm_queue \in Seq(Tms) /\ to_tcp \in Seq(Tms)
    BY DEF TypeOK
  <2>2. Append(to_tcp, sink_tm) \in Seq(Tms) /\ Append(tm_queue, sink_tm) \in Seq(Tms)
    BY <1>1, <2>1, Appended
  <2>3. CASE Len(tm_queue) > MaxPacketsStored
    <3>1. tm_queue # << >>
      BY SMTT(60), <2>1, <2>3, FunnelAssumption
    <3>2. Tail(tm_queue) \in Seq(Tms)
      BY <2>1, <3>1, TakeIsCat
    <3>3. Append(Tail(tm_queue), sink_tm) \in Seq(Tms)
      BY <1>1, <3>2, Appended
    <3>4. tm_queue' = Append(Tail(tm_queue), sink_tm)
      BY <2>3 DEF SinkAddTm, AddTm
    <3> QED
      BY <2>2, <3>3, <3>4 DEF TypeOK, SinkAddTm, udp_vars, tc_vars, loss_vars
  <2>4. CASE ~(Len(tm_queue) > MaxPacketsStored)
    <3>1. tm_queue' = Append(tm_queue, sink_tm)
      BY <2>4 DEF SinkAddTm, AddTm
    <3> QED
      BY <2>2, <3>1 DEF TypeOK, SinkAddTm, udp_vars, tc_vars, loss_vars
  <2> QED
    BY <2>3, <2>4
<1>3. ThreadsSound'
  BY DEF ThreadsSound, Poisoned, SinkAddTm, udp_vars
<1>4. BoundSound'
  BY DEF BoundSound, ReportsDue, SinkAddTm, udp_vars, tc_vars
<1>5. FlowInv'
  <2>1. UNCHANGED <<arrived, sent, udp_pc, udp_tm, server, funnel>>
    BY DEF SinkAddTm, udp_vars
  <2>2. HeldBySink' = HeldBySink
    BY DEF SinkAddTm, HeldBySink, Held
  <2> QED
    BY <2>1, <2>2, FlowStays DEF Flow, HeldByUdp, Held
<1> QED
  BY <1>2, <1>3, <1>4, <1>5

\* The sink panics only once the tmtc-udp thread is gone.
LEMMA SinkPanicsKeeps ==
    ASSUME Inductive, SinkPanics
    PROVE  Inductive'
<1> USE DEF Inductive
<1>1. TypeOK'
  <2>1. sink_tm \in Tms
    BY DEF TypeOK, ThreadsSound, SinkPanics
  <2>2. leaked' \subseteq Tms
    <3>1. /\ leaked' = leaked \cup {sink_tm} \cup {funnel[i] : i \in 1..Len(funnel)}
          /\ leaked \subseteq Tms /\ funnel \in Seq(Tms)
      BY DEF TypeOK, SinkPanics
    <3> QED
      BY SMTT(60), <2>1, <3>1
  <2>3. funnel' \in Seq(Tms) /\ sink_pc' = "panicked" /\ sink_tm' = NoTm
    <3>1. funnel' = << >> /\ sink_pc' = "panicked" /\ sink_tm' = NoTm
      BY DEF SinkPanics
    <3> QED
      BY SMTT(60), <3>1
  <2> QED
    BY <2>2, <2>3 DEF TypeOK, SinkPanics, udp_vars, tc_vars
<1>2. ThreadsSound'
  BY DEF ThreadsSound, Poisoned, SinkPanics, udp_vars
<1>3. BoundSound'
  BY DEF BoundSound, ReportsDue, SinkPanics, udp_vars, tc_vars
<1>4. FlowInv'
  BY DEF FlowInv, SinkPanics, udp_vars
<1> QED
  BY <1>1, <1>2, <1>3, <1>4

\* A step of the tmtc-udp thread that only goes on in its code.
LEMMA UdpControlKeeps ==
    ASSUME Inductive, UdpPollEmpty \/ UdpDrained \/ NoTcToHandle
    PROVE  Inductive'
<1> USE DEF Inductive
<1>1. /\ udp_pc \in {"poll", "drain", "tc"} /\ udp_pc' \in {"poll", "drain", "tc"}
      /\ UNCHANGED <<udp_tm, recv_addr, sent, tc_vars, udp_rest>>
  BY DEF UdpPollEmpty, UdpDrained, NoTcToHandle
<1>2. TypeOK'
  BY <1>1 DEF TypeOK, udp_rest, sink_vars, tc_vars, loss_vars
<1>3. ThreadsSound'
  BY <1>1 DEF ThreadsSound, Poisoned, udp_rest, sink_vars
<1>4. BoundSound'
  BY <1>1 DEF BoundSound, ReportsDue, udp_rest, tc_vars
<1>5. FlowInv'
  BY <1>1, FlowStays DEF Flow, HeldByUdp, HeldBySink, Held, udp_rest, sink_vars
<1> QED
  BY <1>2, <1>3, <1>4, <1>5

\* A telecommand received by UDP, ...
LEMMA UdpPollTcKeeps ==
    ASSUME Inductive, UdpPollTc
    PROVE  Inductive'
<1> USE DEF Inductive
<1>1. /\ udp_pc = "poll" /\ udp_pc' \in {"poll", "drain"}
      /\ received < MaxTc /\ received' = received + 1
      /\ tcs' = tcs \/ (tcs < TcQueueLen /\ tcs' = tcs + 1)
      /\ UNCHANGED <<udp_tm, sent, udp_rest>>
  BY DEF UdpPollTc
<1>2. received' \in 0..MaxTc /\ tcs' \in 0..TcQueueLen
  <2>1. received \in 0..MaxTc /\ tcs \in 0..TcQueueLen
    BY DEF TypeOK
  <2> QED
    BY SMTT(60), <1>1, <2>1, PipelineAssumption
<1>3. TypeOK'
  <2>1. recv_addr' \in BOOLEAN
    BY DEF UdpPollTc
  <2> QED
    BY <1>1, <1>2, <2>1 DEF TypeOK, udp_rest, sink_vars, loss_vars
<1>4. ThreadsSound'
  BY <1>1 DEF ThreadsSound, Poisoned, udp_rest, sink_vars
<1>5. BoundSound'
  <2>1. ReportsDue = 0 /\ ReportsDue' = 0 /\ created' = created
    BY <1>1 DEF ReportsDue, udp_rest
  <2>2. /\ 2 * tcs <= 2 * received
        /\ created + 2 * (MaxTc - received) + 2 * tcs <= MaxTm
    BY SMTT(60), <2>1, BoundTypes DEF BoundSound
  <2>3. CASE tcs' = tcs
    BY SMTT(60), <1>1, <2>1, <2>2, <2>3, BoundTypes DEF BoundSound
  <2>4. CASE tcs' = tcs + 1
    BY SMTT(60), <1>1, <2>1, <2>2, <2>4, BoundTypes DEF BoundSound
  <2> QED
    BY <1>1, <2>3, <2>4
<1>6. FlowInv'
  BY <1>1, FlowStays DEF Flow, HeldByUdp, HeldBySink, Held, udp_rest, sink_vars
<1> QED
  BY <1>3, <1>4, <1>5, <1>6

\* ... or by TCP, leaves room for its two reports, ...
LEMMA TcpRecvTcKeeps ==
    ASSUME Inductive, TcpRecvTc
    PROVE  Inductive'
<1> USE DEF Inductive
<1>1. /\ received < MaxTc /\ received' = received + 1
      /\ tcs < TcQueueLen /\ tcs' = tcs + 1
      /\ UNCHANGED <<udp_vars, udp_rest>>
  BY DEF TcpRecvTc
<1>2. received' \in 0..MaxTc /\ tcs' \in 0..TcQueueLen
  <2>1. received \in 0..MaxTc /\ tcs \in 0..TcQueueLen
    BY DEF TypeOK
  <2> QED
    BY SMTT(60), <1>1, <2>1, PipelineAssumption
<1>3. TypeOK'
  BY <1>1, <1>2 DEF TypeOK, udp_vars, udp_rest, sink_vars, loss_vars
<1>4. ThreadsSound'
  BY <1>1 DEF ThreadsSound, Poisoned, udp_vars, udp_rest, sink_vars
<1>5. BoundSound'
  <2>1. ReportsDue' = ReportsDue /\ ReportsDue \in Nat /\ created' = created
    BY <1>1 DEF ReportsDue, udp_vars, udp_rest
  <2>2. PICK k \in Nat : k = ReportsDue
    BY <2>1
  <2>3. /\ 2 * tcs + k <= 2 * received
        /\ created + 2 * (MaxTc - received) + 2 * tcs + k <= MaxTm
    BY <2>2 DEF BoundSound
  <2>4. /\ 2 * (tcs + 1) + k <= 2 * (received + 1)
        /\ created + 2 * (MaxTc - (received + 1)) + 2 * (tcs + 1) + k <= MaxTm
    BY SMTT(60), <2>3, BoundTypes
  <2> QED
    BY <1>1, <2>1, <2>2, <2>4 DEF BoundSound
<1>6. FlowInv'
  BY <1>1, FlowStays DEF Flow, HeldByUdp, HeldBySink, Held, udp_vars, udp_rest, sink_vars
<1> QED
  BY <1>3, <1>4, <1>5, <1>6

\* ... which are due once it is handled.
LEMMA HandleTcKeeps ==
    ASSUME Inductive, HandleTc
    PROVE  Inductive'
<1> USE DEF Inductive
<1>1. /\ udp_pc = "tc" /\ udp_pc' \in {"poll", "accept"}
      /\ tcs > 0 /\ tcs' = tcs - 1
      /\ UNCHANGED <<udp_tm, recv_addr, sent, received, udp_rest>>
  BY DEF HandleTc
<1>2. tcs' \in 0..TcQueueLen
  <2>1. tcs \in 0..TcQueueLen
    BY DEF TypeOK
  <2> QED
    BY SMTT(60), <1>1, <2>1, PipelineAssumption
<1>3. TypeOK'
  BY <1>1, <1>2 DEF TypeOK, udp_rest, sink_vars, loss_vars
<1>4. ThreadsSound'
  BY <1>1 DEF ThreadsSound, Poisoned, udp_rest, sink_vars
<1>5. BoundSound'
  <2>1. ReportsDue = 0 /\ ReportsDue' \in {0, 2} /\ created' = created
    BY <1>1 DEF ReportsDue, udp_rest
  <2>2. /\ created \in Nat /\ received \in Nat /\ tcs \in Nat /\ received' = received
        /\ MaxTc \in Nat /\ MaxTm \in Nat
    BY <1>1, BoundTypes
  <2>3. CASE ReportsDue' = 0
    BY SMTT(60), <1>1, <2>1, <2>2, <2>3 DEF BoundSound
  <2>4. CASE ReportsDue' = 2
    BY SMTT(60), <1>1, <2>1, <2>2, <2>4 DEF BoundSound
  <2> QED
    BY <2>1, <2>3, <2>4
<1>6. FlowInv'
  BY <1>1, FlowStays DEF Flow, HeldByUdp, HeldBySink, Held, udp_rest, sink_vars
<1> QED
  BY <1>3, <1>4, <1>5, <1>6

\* The TCP server takes packets from a queue outside the flow.
LEMMA TcpTakeTmKeeps ==
    ASSUME Inductive, TcpTakeTm
    PROVE  Inductive'
<1> USE DEF Inductive
<1>1. TypeOK'
  <2>1. PICK q : q = tm_queue
    OBVIOUS
  <2>2. q \in Seq(Tms) /\ q # << >>
    BY <2>1 DEF TypeOK, TcpTakeTm
  <2>3. Tail(q) \in Seq(Tms)
    BY <2>2, TakeIsCat
  <2> QED
    BY <2>1, <2>3 DEF TypeOK, TcpTakeTm, udp_vars, tc_vars, loss_vars
<1>2. ThreadsSound'
  BY DEF ThreadsSound, Poisoned, TcpTakeTm, udp_vars
<1>3. BoundSound'
  BY DEF BoundSound, ReportsDue, TcpTakeTm, udp_vars, tc_vars
<1>4. FlowInv'
  BY FlowStays DEF Flow, HeldByUdp, HeldBySink, Held, TcpTakeTm, udp_vars
<1> QED
  BY <1>1, <1>2, <1>3, <1>4

\* The UDP server takes the first packet of its queue ...
LEMMA UdpTakeTmKeeps ==
    ASSUME Inductive, UdpTakeTm
    PROVE  Inductive'
<1> USE DEF Inductive
<1>1. /\ Head(server) \in Tms /\ Tail(server) \in Seq(Tms)
      /\ server = Cat(Single(Head(server)), Tail(server))
  BY FlowParts, TakeIsCat DEF UdpTakeTm
<1>2. TypeOK'
  BY <1>1 DEF TypeOK, UdpTakeTm, sink_vars, tc_vars, loss_vars
<1>3. ThreadsSound'
  BY <1>1, PipelineAssumption DEF ThreadsSound, Poisoned, UdpTakeTm, sink_vars
<1>4. BoundSound'
  BY DEF BoundSound, ReportsDue, UdpTakeTm, tc_vars
<1>5. FlowInv'
  <2>1. HeldByUdp = << >> /\ HeldBySink' = HeldBySink
    BY DEF UdpTakeTm, HeldByUdp, HeldBySink, Held, sink_vars
  <2>2. HeldByUdp' = Single(Head(server)) /\ server' = Tail(server)
    BY <1>1, PipelineAssumption DEF UdpTakeTm, HeldByUdp, Held, Single
  <2>3. UNCHANGED <<funnel, arrived, sent>> /\ udp_pc # "panicked"
    BY DEF UdpTakeTm
  <2>4. Cat(<< >>, server) = server
    BY FlowParts, CatFacts
  <2>5. Flow' = Flow
    BY <1>1, <2>1, <2>2, <2>3, <2>4 DEF Flow
  <2> QED
    BY <2>3, <2>5, FlowStays
<1> QED
  BY <1>2, <1>3, <1>4, <1>5

\* ... and sends it, as the next packet of the stream.
LEMMA UdpSendTmSends ==
    ASSUME Inductive, UdpSendTm
    PROVE  /\ FlowInv'
           /\ arrived' = arrived /\ Len(sent) < Len(arrived)
           /\ sent' = Append(sent, arrived[Len(sent) + 1])
<1> USE DEF Inductive
<1>1. udp_tm \in Tms /\ ~Poisoned /\ udp_pc = "hold"
  BY DEF UdpSendTm, ThreadsSound, TypeOK
<1>2. /\ sent' = Append(sent, udp_tm)
      /\ UNCHANGED <<arrived, server, funnel>>
      /\ udp_pc' = "drain"
  BY <1>1 DEF UdpSendTm
<1>3. HeldByUdp = Single(udp_tm)
  BY <1>1, PipelineAssumption DEF HeldByUdp, Held, Single
<1>4. HeldByUdp' = << >> /\ HeldBySink' = HeldBySink
  BY DEF UdpSendTm, HeldByUdp, HeldBySink, Held, sink_vars
<1>5. arrived = Cat(sent, Flow)
  BY <1>1 DEF FlowInv
<1>6. PICK v, a, w, f, e : /\ v = Single(udp_tm) /\ a = arrived
                           /\ w = HeldBySink /\ f = funnel /\ e = sent
  OBVIOUS
<1>7. /\ v \in Seq(Tms) /\ w \in Seq(Tms) /\ f \in Seq(Tms) /\ e \in Seq(Tms)
      /\ server \in Seq(Tms)
  BY <1>1, <1>6, FlowParts, CatFacts
<1>8. PICK r : r = Cat(Cat(Cat(<< >>, server), w), f)
  OBVIOUS
<1>9. r \in Seq(Tms)
  <2>1. Cat(<< >>, server) = server /\ Cat(server, w) \in Seq(Tms)
    BY <1>7, CatFacts
  <2>2. Cat(Cat(server, w), f) \in Seq(Tms)
    BY <1>7, <2>1, CatFacts
  <2> QED
    BY <1>8, <2>1, <2>2
<1>10. Cat(e, Cat(Cat(Cat(v, server), w), f)) = Cat(Cat(e, v), Cat(Cat(Cat(<< >>, server), w), f))
  BY SMTT(60), <1>7, SendKeepsFlow
<1>11. a = Cat(Cat(e, Single(udp_tm)), r)
  BY <1>3, <1>5, <1>6, <1>8, <1>10 DEF Flow
<1>12. Len(e) < Len(a) /\ a[Len(e) + 1] = udp_tm
  <2>1. e \in Seq(Tms)
    BY <1>7
  <2>2. udp_tm \in Tms
    BY <1>1
  <2> QED
    <3>1. HasNext(Cat(Cat(e, Single(udp_tm)), r), e, udp_tm)
      BY <1>9, <2>1, <2>2, NextElement
    <3> QED
      BY <1>11, <3>1 DEF HasNext
<1>13. Append(e, udp_tm) = Cat(e, Single(udp_tm))
  BY <1>1, <1>7, AppendIsCat
<1>14. Flow' = r
  BY <1>2, <1>4, <1>6, <1>8 DEF Flow
<1>15. arrived' = Cat(sent', Flow')
  BY <1>2, <1>6, <1>11, <1>13, <1>14
<1> QED
  BY <1>2, <1>6, <1>12, <1>15 DEF FlowInv

\* Sending keeps the rest of the invariant as well.
LEMMA UdpSendTmKeeps ==
    ASSUME Inductive, UdpSendTm
    PROVE  Inductive'
<1> USE DEF Inductive
<1>1. TypeOK'
  <2>1. udp_tm \in Tms
    BY DEF UdpSendTm, ThreadsSound, TypeOK
  <2>2. sent \in Seq(Tms)
    BY DEF TypeOK
  <2>3. Append(sent, udp_tm) \in Seq(Tms)
    BY <2>1, <2>2, Appended
  <2>4. sent' \in Seq(Tms) /\ pool' \subseteq Tms /\ leaked' \subseteq Tms
    BY <2>1, <2>2, <2>3 DEF UdpSendTm, TypeOK
  <2> QED
    BY <2>4 DEF TypeOK, UdpSendTm, sink_vars, tc_vars
<1>2. ThreadsSound'
  BY DEF ThreadsSound, Poisoned, UdpSendTm, sink_vars
<1>3. BoundSound'
  BY DEF BoundSound, ReportsDue, UdpSendTm, tc_vars
<1>4. FlowInv'
  BY UdpSendTmSends
<1> QED
  BY <1>1, <1>2, <1>3, <1>4

\* A report has a number within the bound, and is stored without touching the
\* flow while the thread runs.
LEMMA ReportStoreKeeps ==
    ASSUME Inductive, AcceptStore \/ RejectStore
    PROVE  Inductive'
<1> USE DEF Inductive
<1>1. created + 1 \in Tms /\ created + 1 \in 0..MaxTm
  <2>1. udp_pc \in {"accept", "reject"}
    BY DEF AcceptStore, RejectStore
  <2>2. ReportsDue \in {1, 2}
    BY <2>1 DEF ReportsDue
  <2>3. created + ReportsDue <= MaxTm
    BY SMTT(60), <2>2, BoundTypes DEF BoundSound
  <2> QED
    BY SMTT(60), <2>2, <2>3, BoundTypes DEF Tms
<1>2. /\ Store(created + 1)
      /\ UNCHANGED <<counts, funnel, producer, arrived, sink_vars, recv_addr, sent, tc_vars>>
      /\ \/ /\ udp_pc' = IF udp_pc = "accept" THEN "accept_send" ELSE "reject_send"
            /\ udp_tm' = created + 1
            /\ UNCHANGED <<server, leaked>>
         \/ /\ udp_pc = "reject" /\ udp_pc' = "poll"
            /\ UNCHANGED <<udp_tm, server, leaked>>
         \/ /\ UdpPanics
            /\ leaked' = leaked \cup {server[j] : j \in 1..Len(server)}
  BY DEF AcceptStore, RejectStore
<1>3. udp_pc \in {"accept", "reject"} /\ udp_tm = NoTm
  BY DEF AcceptStore, RejectStore, ThreadsSound
<1>4. TypeOK'
  <2>1. created' \in 0..MaxTm /\ pool' \subseteq Tms /\ lost' \subseteq Tms
    BY <1>1, <1>2 DEF Store, TypeOK
  <2>2. /\ udp_tm' \in Tms \cup {NoTm}
        /\ udp_pc' \in {"poll", "accept_send", "reject_send", "panicked"}
    BY <1>1, <1>2, <1>3 DEF UdpPanics
  <2>3. server' \in Seq(Tms) /\ leaked' \subseteq Tms
    <3>1. server \in Seq(Tms) /\ leaked \subseteq Tms
      BY DEF TypeOK
    <3>2. PICK X : X = {server[j] : j \in 1..Len(server)}
      OBVIOUS
    <3>3. X \subseteq Tms
      BY SMTT(60), <3>1, <3>2
    <3>4. server' \in {server, << >>} /\ leaked' \in {leaked, leaked \cup X}
      BY <1>2, <3>2 DEF UdpPanics
    <3>5. leaked' \subseteq Tms
      BY <3>1, <3>3, <3>4
    <3>6. << >> \in Seq(Tms)
      BY SMTT(60)
    <3>7. server' \in Seq(Tms)
      BY <3>1, <3>4, <3>6
    <3> QED
      BY <3>5, <3>7
  <2> QED
    BY <1>2, <2>1, <2>2, <2>3 DEF TypeOK, sink_vars, tc_vars
<1>5. ThreadsSound'
  <2>1. created + 1 # NoTm
    BY <1>1, PipelineAssumption
  <2>2. UNCHANGED <<sink_pc, sink_tm>> /\ sink_pc # "panicked"
    BY <1>2, <1>3 DEF sink_vars, ThreadsSound, Poisoned
  <2> QED
    BY <1>2, <1>3, <2>1, <2>2 DEF ThreadsSound, Poisoned, UdpPanics
<1>6. BoundSound'
  <2>1. created' = created + 1 /\ UNCHANGED <<tcs, received>>
    BY <1>2 DEF Store, tc_vars
  <2>2. ReportsDue \in {1, 2} /\ ReportsDue' \in {0, 1} /\ ReportsDue' + 1 <= ReportsDue
    BY SMTT(60), <1>2, <1>3 DEF ReportsDue, UdpPanics
  <2>3. /\ created \in Nat /\ received \in Nat /\ tcs \in Nat
        /\ MaxTc \in Nat /\ MaxTm \in Nat
    BY BoundTypes
  <2>4. PICK k, l \in Nat : k = ReportsDue /\ l = ReportsDue' /\ l + 1 <= k
    BY <2>2
  <2>5. l + 1 <= k
    BY <2>4
  <2>6. /\ 2 * tcs + k <= 2 * received
        /\ created + 2 * (MaxTc - received) + 2 * tcs + k <= MaxTm
    BY <2>4 DEF BoundSound
  <2>7. /\ 2 * tcs + l <= 2 * received
        /\ (created + 1) + 2 * (MaxTc - received) + 2 * tcs + l <= MaxTm
    BY SMTT(60), <2>3, <2>5, <2>6
  <2> QED
    BY <2>1, <2>4, <2>7 DEF BoundSound
<1>7. FlowInv'
  <2>1. udp_pc' # "panicked" => UNCHANGED <<server, HeldByUdp>>
    BY <1>2, <1>3 DEF UdpPanics, HeldByUdp
  <2>2. UNCHANGED <<funnel, arrived, sent, HeldBySink>> /\ udp_pc # "panicked"
    BY <1>2, <1>3 DEF sink_vars, HeldBySink, Held
  <2> QED
    BY <2>1, <2>2, FlowStays DEF Flow
<1> QED
  BY <1>4, <1>5, <1>6, <1>7

\* A report is sent as a producer's packet is.
LEMMA ReportSendKeeps ==
    ASSUME Inductive, AcceptSend \/ RejectSend
    PROVE  Inductive'
<1> USE DEF Inductive
<1>1. udp_pc \in {"accept_send", "reject_send"} /\ udp_tm \in Tms
  BY DEF AcceptSend, RejectSend, ThreadsSound, TypeOK
<1>2. /\ UNCHANGED <<created, pool, counts, producer, sink_vars, recv_addr, sent, tc_vars, lost>>
      /\ udp_tm' = NoTm
      /\ \/ /\ TrySend(udp_tm) /\ UNCHANGED server
            /\ udp_pc' = "poll" \/ (udp_pc = "accept_send" /\ udp_pc' = "reject")
         \/ /\ UdpPanics
            /\ leaked' = leaked \cup {udp_tm} \cup {server[j] : j \in 1..Len(server)}
            /\ UNCHANGED <<funnel, arrived>>
  BY DEF AcceptSend, RejectSend, UdpPanics
<1>3. TypeOK'
  <2>1. /\ funnel' \in Seq(Tms) /\ arrived' \in Seq(Tms) /\ leaked' \subseteq Tms
        /\ server' \in Seq(Tms) /\ udp_pc' \in {"poll", "reject", "panicked"}
    <3>1. CASE TrySend(udp_tm) /\ UNCHANGED server /\ udp_pc' \in {"poll", "reject"}
      BY <1>1, <3>1, TrySendTypes DEF TypeOK
    <3>2. CASE /\ UdpPanics
               /\ leaked' = leaked \cup {udp_tm} \cup {server[j] : j \in 1..Len(server)}
               /\ UNCHANGED <<funnel, arrived>>
      <4>1. server \in Seq(Tms) /\ leaked \subseteq Tms /\ funnel \in Seq(Tms)
              /\ arrived \in Seq(Tms)
        BY DEF TypeOK
      <4>2. {server[j] : j \in 1..Len(server)} \subseteq Tms
        BY SMTT(60), <4>1
      <4>3. leaked' \subseteq Tms
        BY <1>1, <3>2, <4>1, <4>2
      <4> QED
        BY SMTT(60), <3>2, <4>1, <4>3 DEF UdpPanics
    <3> QED
      BY <1>2, <3>1, <3>2
  <2> QED
    BY <1>2, <2>1 DEF TypeOK, sink_vars, tc_vars
<1>4. ThreadsSound'
  <2>1. UNCHANGED <<sink_pc, sink_tm>> /\ sink_pc # "panicked"
    BY <1>1, <1>2 DEF sink_vars, ThreadsSound, Poisoned
  <2> QED
    BY <1>2, <2>1 DEF ThreadsSound, Poisoned, UdpPanics
<1>5. BoundSound'
  <2>1. UNCHANGED <<created, tcs, received>>
    BY <1>2 DEF tc_vars
  <2>2. ReportsDue \in {0, 1} /\ ReportsDue' \in {0, 1} /\ ReportsDue' <= ReportsDue
    BY SMTT(60), <1>1, <1>2 DEF ReportsDue, UdpPanics
  <2>3. /\ created \in Nat /\ received \in Nat /\ tcs \in Nat
        /\ MaxTc \in Nat /\ MaxTm \in Nat
    BY BoundTypes
  <2>4. PICK k, l \in Nat : k = ReportsDue /\ l = ReportsDue' /\ l <= k
    BY <2>2
  <2>5. l <= k
    BY <2>4
  <2>6. /\ 2 * tcs + k <= 2 * received
        /\ created + 2 * (MaxTc - received) + 2 * tcs + k <= MaxTm
    BY <2>4 DEF BoundSound
  <2>7. /\ 2 * tcs + l <= 2 * received
        /\ created + 2 * (MaxTc - received) + 2 * tcs + l <= MaxTm
    BY SMTT(60), <2>3, <2>5, <2>6
  <2> QED
    BY <2>1, <2>4, <2>7 DEF BoundSound
<1>6. FlowInv'
  <2>1. CASE UdpPanics
    BY <2>1 DEF UdpPanics, FlowInv
  <2>2. CASE ~UdpPanics
    <3>1. /\ TrySend(udp_tm)
          /\ UNCHANGED <<server, sent>>
          /\ udp_pc # "panicked" /\ udp_pc' \in {"poll", "reject"}
      BY <1>1, <1>2, <2>2
    <3>2. HeldByUdp' = HeldByUdp /\ HeldBySink' = HeldBySink
      BY <1>1, <1>2, <3>1 DEF HeldByUdp, HeldBySink, Held, sink_vars
    <3> QED
      BY <1>1, <3>1, <3>2, TrySendKeepsFlow
  <2> QED
    BY <2>1, <2>2
<1> QED
  BY <1>3, <1>4, <1>5, <1>6

-----------------------------------------------------------------------------
(* The theorems *)

\* The invariant holds initially: the flow is empty.
LEMMA InitInductive == Init => Inductive
<1> SUFFICES ASSUME Init PROVE Inductive
  OBVIOUS
<1>1. TypeOK
  <2>1. NoCounts \in Counts /\ NewCounters \in Counters
    BY SMTT(60), FunnelAssumption DEF NoCounts, Counts, NewCounters, Counters
  <2>2. 0 \in 0..MaxTm /\ 0 \in 0..TcQueueLen /\ 0 \in 0..MaxTc
    BY SMTT(60), FunnelAssumption, PipelineAssumption
  <2>3. recv_addr \in BOOLEAN
    BY DEF Init
  <2>4. /\ created = 0 /\ tcs = 0 /\ received = 0
        /\ pool = {} /\ lost = {} /\ leaked = {}
        /\ counts = [tm \in Tms |-> NoCounts] /\ counters = NewCounters
        /\ producer = [p \in Producers |-> NoTm]
        /\ sink_pc = "recv" /\ sink_tm = NoTm /\ udp_pc = "poll" /\ udp_tm = NoTm
        /\ funnel = << >> /\ server = << >> /\ tm_queue = << >>
        /\ arrived = << >> /\ sent = << >> /\ to_tcp = << >>
    BY DEF Init
  <2> QED
    BY SMTT(60), <2>1, <2>2, <2>3, <2>4 DEF TypeOK
<1>2. ThreadsSound
  BY DEF Init, ThreadsSound, Poisoned
<1>3. BoundSound
  BY SMTT(60), FunnelAssumption, PipelineAssumption DEF Init, BoundSound, ReportsDue
<1>4. FlowInv
  BY SMTT(60) DEF Init, FlowInv, Flow, HeldByUdp, HeldBySink, Held, Cat
<1> QED
  BY <1>1, <1>2, <1>3, <1>4 DEF Inductive

\* Every step keeps it.
LEMMA NextInductive == Inductive /\ [Next]_vars => Inductive'
<1> SUFFICES ASSUME Inductive, [Next]_vars PROVE Inductive'
  OBVIOUS
<1>1. CASE \E p \in Producers : ProducerStore(p) \/ ProducerSend(p)
  BY <1>1, ProducerStoreKeeps, ProducerSendKeeps
<1>2. CASE Sink
  BY <1>2, SinkRecvKeeps, SinkProcessKeeps, SinkSendKeeps, SinkPanicsKeeps, SinkAddTmKeeps
  DEF Sink
<1>3. CASE Udp
  BY <1>3, UdpPollTcKeeps, UdpControlKeeps, UdpTakeTmKeeps, UdpSendTmKeeps, HandleTcKeeps,
     ReportStoreKeeps, ReportSendKeeps
  DEF Udp
<1>4. CASE TcpTakeTm \/ TcpRecvTc
  BY <1>4, TcpTakeTmKeeps, TcpRecvTcKeeps
<1>5. CASE UNCHANGED vars
  <2>1. UNCHANGED <<created, pool, counts, funnel, server, producer, arrived, sink_pc, sink_tm,
                    counters, tm_queue, to_tcp, udp_pc, udp_tm, recv_addr, sent, tcs, received,
                    lost, leaked>>
    BY <1>5 DEF vars, sink_vars, udp_vars, tc_vars, loss_vars
  <2>2. TypeOK'
    BY <2>1 DEF Inductive, TypeOK
  <2>3. ThreadsSound' /\ BoundSound'
    BY <2>1 DEF Inductive, ThreadsSound, Poisoned, BoundSound, ReportsDue
  <2>4. FlowInv'
    BY <2>1, FlowStays DEF Inductive, Flow, HeldByUdp, HeldBySink, Held
  <2> QED
    BY <2>2, <2>3, <2>4 DEF Inductive
<1> QED
  BY <1>1, <1>2, <1>3, <1>4, <1>5 DEF Next

\* For every number of threads and packets and every length of the queues: while
\* the tmtc-udp thread runs, what was sent followed by what is on its way is
\* what arrived at the sink.
THEOREM FlowIsComplete == Spec => []NothingLostOnTheWay
<1>1. Inductive => NothingLostOnTheWay
  BY FlowInvIsNothingLost DEF Inductive
<1> QED
  BY <1>1, InitInductive, NextInductive, PTL DEF Spec

\* A step of the pipeline is a step of the stream or changes nothing of it: the
\* only packet that is sent is the next one in the order of arrival.
LEMMA StepImplementsStream ==
    Inductive /\ [Next]_vars => [Stream!StreamNext]_<<arrived, sent>>
<1> SUFFICES ASSUME Inductive, [Next]_vars
             PROVE  [Stream!StreamNext]_<<arrived, sent>>
  OBVIOUS
<1>1. ASSUME NEW tm \in Tms, TrySend(tm), UNCHANGED sent
      PROVE  [Stream!StreamNext]_<<arrived, sent>>
  BY <1>1 DEF TrySend, Stream!StreamNext, Stream!Arrive
<1>2. ASSUME NEW p \in Producers, ProducerSend(p)
      PROVE  [Stream!StreamNext]_<<arrived, sent>>
  BY <1>1, <1>2 DEF ProducerSend, Inductive, TypeOK, udp_vars
<1>3. ASSUME AcceptSend \/ RejectSend
      PROVE  [Stream!StreamNext]_<<arrived, sent>>
  <2>1. udp_tm \in Tms
    BY <1>3 DEF AcceptSend, RejectSend, Inductive, ThreadsSound, TypeOK
  <2>2. UNCHANGED sent /\ (TrySend(udp_tm) \/ UNCHANGED arrived)
    BY <1>3 DEF AcceptSend, RejectSend
  <2> QED
    BY <1>1, <2>1, <2>2
<1>4. ASSUME UdpSendTm
      PROVE  [Stream!StreamNext]_<<arrived, sent>>
  BY <1>4, UdpSendTmSends DEF Stream!StreamNext, Stream!Send
<1>5. ASSUME \/ \E p \in Producers : ProducerStore(p)
             \/ Sink
             \/ TcpTakeTm \/ TcpRecvTc
             \/ UNCHANGED vars
      PROVE  UNCHANGED <<arrived, sent>>
  BY <1>5 DEF ProducerStore, Sink, SinkRecv, SinkProcess, SinkSend, SinkPanics, SinkAddTm,
              TcpTakeTm, TcpRecvTc, vars, udp_vars, udp_rest
<1>6. ASSUME \/ UdpPollTc \/ UdpPollEmpty \/ UdpTakeTm \/ UdpDrained
             \/ NoTcToHandle \/ HandleTc \/ AcceptStore \/ RejectStore
      PROVE  UNCHANGED <<arrived, sent>>
  BY <1>6 DEF UdpPollTc, UdpPollEmpty, UdpTakeTm, UdpDrained, NoTcToHandle, HandleTc,
              AcceptStore, RejectStore, udp_rest
<1> QED
  BY <1>2, <1>3, <1>4, <1>5, <1>6 DEF Next, Udp

\* For every number of threads and packets and every length of the queues, and
\* whatever panics: the pipeline implements the stream, that is, it may stop, and
\* never skips, repeats or reorders a packet.
THEOREM PipelineImplementsStream == Spec => ImplementsStream
<1>1. Init => Stream!StreamInit
  BY DEF Init, Stream!StreamInit
<1> QED
  BY <1>1, InitInductive, NextInductive, StepImplementsStream, PTL
  DEF Spec, ImplementsStream, Stream!StreamSpec

-----------------------------------------------------------------------------
(* The packets of the flow, as a set                                       *)

\* No packet occurs twice in s.
Distinct(s) == \A i, j \in 1..Len(s) : s[i] = s[j] => i = j

\* The packets of a concatenation are those of its parts, ...
LEMMA ElemsOfCat ==
    ASSUME NEW S, NEW s \in Seq(S), NEW t \in Seq(S)
    PROVE  Elems(Cat(s, t)) = Elems(s) \cup Elems(t)
<1>0. PICK c : c = s \o t
  OBVIOUS
<1>1. /\ Len(c) = Len(s) + Len(t)
      /\ \A i \in 1..(Len(s) + Len(t)) :
            c[i] = IF i <= Len(s) THEN s[i] ELSE t[i - Len(s)]
  BY <1>0, Concatenated
<1>2. Len(s) \in Nat /\ Len(t) \in Nat
  BY SeqDomain
<1>3. ASSUME NEW i \in 1..Len(s) PROVE s[i] \in Elems(c)
  <2>1. i \in 1..Len(c) /\ c[i] = s[i]
    BY SMTT(60), <1>1, <1>2
  <2> QED
    BY <2>1 DEF Elems
<1>4. ASSUME NEW i \in 1..Len(t) PROVE t[i] \in Elems(c)
  <2>1. /\ Len(s) + i \in 1..Len(c) /\ ~(Len(s) + i <= Len(s))
        /\ (Len(s) + i) - Len(s) = i
    BY SMTT(60), <1>1, <1>2
  <2>2. c[Len(s) + i] = t[i]
    BY <1>1, <2>1
  <2> QED
    BY <2>1, <2>2 DEF Elems
<1>5. ASSUME NEW i \in 1..Len(c) PROVE c[i] \in Elems(s) \cup Elems(t)
  <2>1. CASE i <= Len(s)
    <3>1. i \in 1..Len(s) /\ c[i] = s[i]
      BY SMTT(60), <1>1, <1>2, <2>1
    <3> QED
      BY <3>1 DEF Elems
  <2>2. CASE ~(i <= Len(s))
    <3>1. i - Len(s) \in 1..Len(t) /\ c[i] = t[i - Len(s)]
      BY SMTT(60), <1>1, <1>2, <2>2
    <3> QED
      BY <3>1 DEF Elems
  <2> QED
    BY <2>1, <2>2
<1>6. Elems(c) \subseteq Elems(s) \cup Elems(t)
  BY <1>5 DEF Elems
<1>7. Elems(s) \cup Elems(t) \subseteq Elems(c)
  BY <1>3, <1>4 DEF Elems
<1> QED
  BY <1>0, <1>6, <1>7 DEF Cat

\* ... one for a single packet and none for an empty queue.
LEMMA ElemsOfFew ==
    /\ Elems(<< >>) = {}
    /\ \A x : Elems(Single(x)) = {x}
<1>1. Elems(<< >>) = {}
  BY SMTT(60) DEF Elems
<1>2. ASSUME NEW x PROVE Elems(Single(x)) = {x}
  <2>1. Len(<<x>>) = 1 /\ <<x>>[1] = x
    OBVIOUS
  <2> QED
    BY SMTT(60), <2>1 DEF Elems, Single
<1> QED
  BY <1>1, <1>2

\* A queue that is not empty consists of its head and of what is left of it.
LEMMA ElemsOfQueue ==
    ASSUME NEW S, NEW s \in Seq(S), s # << >>
    PROVE  Elems(s) = {Head(s)} \cup Elems(Tail(s))
<1>1. /\ Head(s) \in S /\ Tail(s) \in Seq(S)
      /\ s = Cat(Single(Head(s)), Tail(s))
  BY TakeIsCat
<1>2. Single(Head(s)) \in Seq(S)
  BY <1>1, CatFacts
<1>3. Elems(Cat(Single(Head(s)), Tail(s))) = Elems(Single(Head(s))) \cup Elems(Tail(s))
  BY <1>1, <1>2, ElemsOfCat
<1> QED
  BY <1>1, <1>3, ElemsOfFew

\* The parts of a sequence without duplicates have no packet in common.
LEMMA DistinctParts ==
    ASSUME NEW S, NEW s \in Seq(S), NEW t \in Seq(S), Distinct(Cat(s, t))
    PROVE  Elems(s) \cap Elems(t) = {} /\ Distinct(s) /\ Distinct(t)
<1>0. PICK c : c = s \o t
  OBVIOUS
<1>1. /\ Len(c) = Len(s) + Len(t)
      /\ \A i \in 1..(Len(s) + Len(t)) :
            c[i] = IF i <= Len(s) THEN s[i] ELSE t[i - Len(s)]
  BY <1>0, Concatenated
<1>2. Len(s) \in Nat /\ Len(t) \in Nat
  BY SeqDomain
<1>3. \A i, j \in 1..Len(c) : c[i] = c[j] => i = j
  BY <1>0 DEF Distinct, Cat
<1>4. \A i \in 1..Len(s) : i \in 1..Len(c) /\ c[i] = s[i]
  BY SMTT(60), <1>1, <1>2
<1>5. ASSUME NEW i \in 1..Len(t)
      PROVE  Len(s) + i \in 1..Len(c) /\ c[Len(s) + i] = t[i]
  <2>1. /\ Len(s) + i \in 1..(Len(s) + Len(t)) /\ ~(Len(s) + i <= Len(s))
        /\ (Len(s) + i) - Len(s) = i
    BY SMTT(60), <1>2
  <2> QED
    BY <1>1, <2>1
<1>6. ASSUME NEW i \in 1..Len(s), NEW j \in 1..Len(t) PROVE s[i] # t[j]
  <2>1. i # Len(s) + j
    BY SMTT(60), <1>2
  <2> QED
    BY <1>3, <1>4, <1>5, <2>1
<1>7. Elems(s) \cap Elems(t) = {}
  BY <1>6 DEF Elems
<1>8. Distinct(s)
  BY <1>3, <1>4 DEF Distinct
<1>9. Distinct(t)
  <2> SUFFICES ASSUME NEW i \in 1..Len(t), NEW j \in 1..Len(t), t[i] = t[j]
               PROVE  i = j
    BY DEF Distinct
  <2>1. Len(s) + i = Len(s) + j
    BY <1>3, <1>5
  <2> QED
    BY SMTT(60), <1>2, <2>1
<1> QED
  BY <1>7, <1>8, <1>9

\* A packet that is not in a sequence without duplicates can be appended to it.
LEMMA DistinctAppend ==
    ASSUME NEW S, NEW s \in Seq(S), NEW x \in S, Distinct(s), x \notin Elems(s)
    PROVE  Distinct(Append(s, x))
<1>0. PICK a : a = Append(s, x)
  OBVIOUS
<1>1. /\ Len(a) = Len(s) + 1 /\ a[Len(s) + 1] = x
      /\ \A i \in 1..Len(s) : a[i] = s[i]
  BY SMTT(60), <1>0, Appended
<1>2. Len(s) \in Nat
  BY SeqDomain
<1>3. ASSUME NEW i \in 1..Len(a), NEW j \in 1..Len(a), a[i] = a[j]
      PROVE  i = j
  <2>1. i \in 1..Len(s) \/ i = Len(s) + 1
    BY SMTT(60), <1>1, <1>2
  <2>2. j \in 1..Len(s) \/ j = Len(s) + 1
    BY SMTT(60), <1>1, <1>2
  <2>3. \A k \in 1..Len(s) : s[k] # x
    BY DEF Elems
  <2> QED
    BY <1>1, <1>3, <2>1, <2>2, <2>3 DEF Distinct
<1> QED
  BY <1>0, <1>3 DEF Distinct

-----------------------------------------------------------------------------
(* The blocks of the pool                                                  *)

\* Two producers never hold the same packet, nor a producer and the tmtc-udp
\* thread.
HandsApart ==
    /\ \A p, q \in Producers : producer[p] = producer[q] /\ producer[p] # NoTm => p = q
    /\ udp_pc \in {"accept_send", "reject_send"} =>
          \A p \in Producers : producer[p] # udp_tm

\* A packet that was not created yet is nowhere, ...
Numbered == Elems(arrived) \cup InHands \cup pool \subseteq 1..created

\* ... and a packet arrives once.
ArrivedOnce == Distinct(arrived) /\ Elems(arrived) \cap InHands = {}

\* The inductive invariant behind BlocksInUse.  A block is freed when its packet
\* is sent: the packet is then in no other place, because it arrived once.
BlocksInv ==
    /\ HandsApart
    /\ Numbered
    /\ ArrivedOnce
    /\ BlocksInUse
    /\ udp_pc = "panicked" => server = << >>

\* A queue with a packet more.
LEMMA ElemsOfAppend ==
    ASSUME NEW S, NEW s \in Seq(S), NEW x \in S
    PROVE  Elems(Append(s, x)) = Elems(s) \cup {x}
<1>1. Append(s, x) = Cat(s, Single(x)) /\ Single(x) \in Seq(S)
  BY SMTT(60), AppendIsCat, CatFacts
<1>2. Elems(Cat(s, Single(x))) = Elems(s) \cup Elems(Single(x))
  BY <1>1, ElemsOfCat
<1> QED
  BY <1>1, <1>2, ElemsOfFew

\* The packets of four queues in a row.
LEMMA ElemsOfFour ==
    ASSUME NEW S, NEW h \in Seq(S), NEW q \in Seq(S), NEW k \in Seq(S), NEW f \in Seq(S)
    PROVE  Elems(h \o q \o k \o f) = Elems(h) \cup Elems(q) \cup Elems(k) \cup Elems(f)
<1>1. PICK c, d : c = Cat(h, q) /\ d = Cat(c, k)
  OBVIOUS
<1>2. c \in Seq(S)
  BY <1>1, CatFacts
<1>3. d \in Seq(S)
  BY <1>1, <1>2, CatFacts
<1>4. Elems(Cat(d, f)) = Elems(d) \cup Elems(f)
  BY <1>3, ElemsOfCat
<1>5. Elems(d) = Elems(c) \cup Elems(k) /\ Elems(c) = Elems(h) \cup Elems(q)
  BY SMTT(60), <1>1, <1>2, ElemsOfCat
<1>6. h \o q \o k \o f = Cat(d, f)
  BY <1>1 DEF Cat
<1> QED
  BY <1>4, <1>5, <1>6

\* The packets on their way are those of the four parts of the flow, before a
\* step and after it.
LEMMA FlowElems ==
    ASSUME TypeOK, TypeOK'
    PROVE  /\ Elems(InFlow) = Elems(HeldByUdp) \cup Elems(server) \cup Elems(HeldBySink)
                                \cup Elems(funnel)
           /\ Elems(InFlow') = Elems(HeldByUdp') \cup Elems(server') \cup Elems(HeldBySink')
                                \cup Elems(funnel')
<1>1. /\ HeldByUdp' \in Seq(Tms) /\ HeldBySink' \in Seq(Tms)
      /\ server' \in Seq(Tms) /\ funnel' \in Seq(Tms)
  <2>1. udp_tm' \in Tms \cup {NoTm} /\ sink_tm' \in Tms \cup {NoTm}
        /\ server' \in Seq(Tms) /\ funnel' \in Seq(Tms)
    BY DEF TypeOK
  <2>2. Held(udp_tm') \in Seq(Tms) /\ Held(sink_tm') \in Seq(Tms) /\ << >> \in Seq(Tms)
    BY <2>1, HeldIsSeq
  <2> QED
    BY <2>1, <2>2 DEF HeldByUdp, HeldBySink
<1>2. InFlow' = HeldByUdp' \o server' \o HeldBySink' \o funnel'
  BY DEF InFlow
<1>3. InFlow = HeldByUdp \o server \o HeldBySink \o funnel
  BY DEF InFlow
<1> QED
  BY SMTT(60), <1>1, <1>2, <1>3, FlowParts, ElemsOfFour

\* While the tmtc-udp thread runs, the parts of the flow are apart.
LEMMA FlowApart ==
    ASSUME Inductive, BlocksInv, udp_pc # "panicked"
    PROVE  /\ Elems(HeldByUdp) \cap Elems(server) = {}
           /\ (Elems(HeldByUdp) \cup Elems(server)) \cap Elems(HeldBySink) = {}
           /\ (Elems(HeldByUdp) \cup Elems(server) \cup Elems(HeldBySink))
                \cap Elems(funnel) = {}
<1>0. TypeOK
  BY DEF Inductive
<1>1. Distinct(Cat(sent, Flow))
  BY DEF Inductive, FlowInv, BlocksInv, ArrivedOnce
<1>2. PICK h, g, w : /\ h = HeldByUdp /\ g = Cat(h, server) /\ w = Cat(g, HeldBySink)
                     /\ Flow = Cat(w, funnel)
  BY DEF Flow
<1>3. /\ h \in Seq(Tms) /\ server \in Seq(Tms) /\ g \in Seq(Tms) /\ HeldBySink \in Seq(Tms)
      /\ w \in Seq(Tms) /\ funnel \in Seq(Tms) /\ sent \in Seq(Tms)
  BY <1>0, <1>2, FlowParts
<1>4. Flow \in Seq(Tms)
  BY <1>2, <1>3, CatFacts
<1>5. Distinct(Flow)
  BY <1>1, <1>3, <1>4, DistinctParts
<1>6. Elems(w) \cap Elems(funnel) = {} /\ Distinct(w)
  BY <1>2, <1>3, <1>5, DistinctParts
<1>7. Elems(g) \cap Elems(HeldBySink) = {} /\ Distinct(g)
  BY <1>2, <1>3, <1>6, DistinctParts
<1>8. Elems(h) \cap Elems(server) = {}
  BY <1>2, <1>3, <1>7, DistinctParts
<1>9. Elems(g) = Elems(h) \cup Elems(server) /\ Elems(w) = Elems(g) \cup Elems(HeldBySink)
  BY SMTT(60), <1>2, <1>3, ElemsOfCat
<1> QED
  BY <1>2, <1>6, <1>7, <1>8, <1>9

\* The pool is a finite set.
LEMMA PoolFinite ==
    ASSUME TypeOK
    PROVE  IsFiniteSet(pool) /\ Cardinality(pool) \in Nat
<1>1. IsFiniteSet(Tms)
  BY SMTT(60), FS_Interval, FunnelAssumption DEF Tms
<1>2. IsFiniteSet(pool)
  BY <1>1, FS_Subset DEF TypeOK
<1> QED
  BY <1>2, FS_CardinalityType

\* What BlocksInv says of sets: w is on its way, i in hands, l leaked, p in the
\* pool, a arrived, and n packets were created.
Sound(w, i, l, p, a, n) ==
    /\ p = w \cup i \cup l
    /\ w \cap i = {} /\ l \cap (w \cup i) = {}
    /\ a \cap i = {}
    /\ a \cup i \cup p \subseteq 1..n

\* Sound is about the sets of BlocksInv.
LEMMA SoundIs ==
    BlocksInv <=> /\ Sound(Elems(InFlow), InHands, leaked, pool, Elems(arrived), created)
                  /\ HandsApart /\ Distinct(arrived) /\ Cardinality(pool) <= PoolSize
                  /\ (udp_pc = "panicked" => server = << >>)
BY DEF BlocksInv, Sound, Numbered, ArrivedOnce, BlocksInUse

\* A new packet gets a block and is in hands, ...
LEMMA SoundStore ==
    ASSUME NEW w, NEW i, NEW l, NEW p, NEW a, NEW n \in Nat, Sound(w, i, l, p, a, n)
    PROVE  /\ Sound(w, i \cup {n + 1}, l, p \cup {n + 1}, a, n + 1)
           /\ Sound(w, i, l, p, a, n + 1)
           /\ n + 1 \notin p \cup i \cup a
<1>1. n + 1 \notin 1..n /\ 1..n \subseteq 1..(n + 1) /\ n + 1 \in 1..(n + 1)
  BY SMTT(60)
<1> QED
  BY <1>1 DEF Sound

\* ... arrives at the sink, or is leaked, ...
LEMMA SoundSend ==
    ASSUME NEW w, NEW i, NEW l, NEW p, NEW a, NEW n \in Nat, Sound(w, i, l, p, a, n),
           NEW x \in i
    PROVE  /\ Sound(w \cup {x}, i \ {x}, l, p, a \cup {x}, n)
           /\ Sound(w, i \ {x}, l \cup {x}, p, a, n)
           /\ x \notin a
BY DEF Sound

\* ... is leaked on its way when a thread panics, ...
LEMMA SoundLeak ==
    ASSUME NEW w, NEW i, NEW l, NEW p, NEW a, NEW n \in Nat, Sound(w, i, l, p, a, n),
           NEW x \in SUBSET w
    PROVE  Sound(w \ x, i, l \cup x, p, a, n)
BY DEF Sound

\* ... or is sent, and its block freed.
LEMMA SoundFree ==
    ASSUME NEW w, NEW i, NEW l, NEW p, NEW a, NEW n \in Nat, Sound(w, i, l, p, a, n),
           NEW x \in w
    PROVE  Sound(w \ {x}, i, l, p \ {x}, a, n)
BY DEF Sound

\* A step that moves packets only within the flow, or none at all.
LEMMA BlocksStay ==
    ASSUME BlocksInv, Elems(InFlow') = Elems(InFlow),
           UNCHANGED <<created, pool, producer, arrived, leaked>>,
           \/ udp_pc' = udp_pc /\ udp_tm' = udp_tm
           \/ /\ udp_pc \notin {"accept_send", "reject_send"}
              /\ udp_pc' \notin {"accept_send", "reject_send"},
           udp_pc' = "panicked" => server' = << >>
    PROVE  BlocksInv'
<1>1. InHands' = InHands
  BY DEF InHands
<1>2. HandsApart'
  BY DEF HandsApart, BlocksInv
<1> QED
  BY <1>1, <1>2, SoundIs DEF BlocksInv, Numbered, ArrivedOnce, BlocksInUse

\* A producer's packet gets a block of its own.
LEMMA ProducerStoreBlocks ==
    ASSUME Inductive, BlocksInv, NEW p \in Producers, ProducerStore(p)
    PROVE  BlocksInv'
<1>0. TypeOK /\ created \in Nat /\ created + 1 \in Tms
  <2>1. TypeOK /\ created < MaxTm - 2 * MaxTc
    BY DEF Inductive, ProducerStore
  <2> QED
    BY SMTT(60), <2>1, BoundTypes DEF Tms
<1>1. /\ UNCHANGED <<funnel, server, arrived, sink_pc, sink_tm, udp_pc, udp_tm, leaked>>
      /\ created' = created + 1
  BY DEF ProducerStore, Store, sink_vars, udp_vars
<1>2. InFlow' = InFlow
  BY <1>1 DEF InFlow, HeldByUdp, HeldBySink, Held
<1>3. PICK w, i, l, a : w = Elems(InFlow) /\ i = InHands /\ l = leaked /\ a = Elems(arrived)
  OBVIOUS
<1>4. Sound(w, i, l, pool, a, created)
  BY <1>3, SoundIs
<1>5. /\ Sound(w, i \cup {created + 1}, l, pool \cup {created + 1}, a, created + 1)
      /\ Sound(w, i, l, pool, a, created + 1)
      /\ created + 1 \notin pool \cup i \cup a
  BY <1>0, <1>4, SoundStore
<1>6. producer[p] = NoTm /\ producer \in [Producers -> Tms \cup {NoTm}] /\ created + 1 # NoTm
  BY <1>0, PipelineAssumption DEF ProducerStore, TypeOK
<1>7. CASE CanStore
  <2>1. pool' = pool \cup {created + 1} /\ producer' = [producer EXCEPT ![p] = created + 1]
    BY <1>7 DEF ProducerStore, Store
  <2>2. InHands' = InHands \cup {created + 1}
    <3>1. {producer'[q] : q \in Producers} \ {NoTm}
            = ({producer[q] : q \in Producers} \ {NoTm}) \cup {created + 1}
      BY <1>6, <2>1
    <3> QED
      BY <1>1, <1>6, <3>1 DEF InHands
  <2>3. HandsApart'
    <3>1. \A q \in Producers : producer[q] # created + 1
      BY <1>3, <1>5, <1>6 DEF InHands
    <3>2. udp_pc \in {"accept_send", "reject_send"} => udp_tm # created + 1
      BY <1>3, <1>5, <1>6 DEF InHands
    <3> QED
      BY <1>1, <1>6, <2>1, <3>1, <3>2 DEF HandsApart, BlocksInv
  <2>4. Cardinality(pool') <= PoolSize
    <3>1. Cardinality(pool') = Cardinality(pool) + 1
      BY <1>0, <1>5, <2>1, PoolFinite, FS_AddElement
    <3> QED
      BY SMTT(60), <1>0, <1>7, <3>1, PoolFinite, PipelineAssumption DEF CanStore
  <2> QED
    BY <1>1, <1>2, <1>3, <1>5, <2>1, <2>2, <2>3, <2>4, SoundIs DEF BlocksInv, Sound,
       Numbered, ArrivedOnce, BlocksInUse
<1>8. CASE ~CanStore
  <2>1. pool' = pool /\ producer' = producer
    BY <1>6, <1>8 DEF ProducerStore, Store
  <2>2. InHands' = InHands
    BY <1>1, <2>1 DEF InHands
  <2>3. HandsApart'
    BY <1>1, <2>1 DEF HandsApart, BlocksInv
  <2> QED
    BY <1>1, <1>2, <1>3, <1>5, <2>1, <2>2, <2>3, SoundIs DEF BlocksInv, Sound,
       Numbered, ArrivedOnce, BlocksInUse
<1> QED
  BY <1>7, <1>8

\* try_send moves a packet from hands into the flow, or leaks it.
LEMMA TrySendBlocks ==
    ASSUME Inductive, Inductive', BlocksInv, NEW tm \in InHands, tm \in Tms, TrySend(tm),
           InHands' = InHands \ {tm}, HandsApart',
           UNCHANGED <<created, pool, server, HeldByUdp, HeldBySink>>,
           udp_pc' = "panicked" => server = << >>
    PROVE  BlocksInv'
<1>0. TypeOK /\ TypeOK' /\ created \in Nat
  BY BoundTypes DEF Inductive
<1>3. PICK w, i, l, a : w = Elems(InFlow) /\ i = InHands /\ l = leaked /\ a = Elems(arrived)
  OBVIOUS
<1>4. Sound(w, i, l, pool, a, created) /\ Distinct(arrived) /\ Cardinality(pool) <= PoolSize
  BY <1>3, SoundIs
<1>5. /\ Sound(w \cup {tm}, i \ {tm}, l, pool, a \cup {tm}, created)
      /\ Sound(w, i \ {tm}, l \cup {tm}, pool, a, created)
      /\ tm \notin a
  BY <1>0, <1>3, <1>4, SoundSend
<1>6. CASE CanSend
  <2>1. funnel' = Append(funnel, tm) /\ arrived' = Append(arrived, tm) /\ leaked' = leaked
    BY <1>6 DEF TrySend
  <2>2. Elems(Append(funnel, tm)) = Elems(funnel) \cup {tm}
    BY SMTT(60), <1>0, FlowParts, ElemsOfAppend
  <2>3. Elems(Append(arrived, tm)) = Elems(arrived) \cup {tm}
    BY SMTT(60), <1>0, FlowParts, ElemsOfAppend
  <2>4. Elems(InFlow') = w \cup {tm}
    BY <1>0, <1>3, <2>1, <2>2, FlowElems
  <2>5. Distinct(arrived')
    BY <1>0, <1>3, <1>4, <1>5, <2>1, FlowParts, DistinctAppend
  <2>6. Sound(Elems(InFlow'), InHands', leaked', pool', Elems(arrived'), created')
    BY <1>3, <1>5, <2>1, <2>3, <2>4
  <2> QED
    BY <1>4, <2>5, <2>6, SoundIs DEF BlocksInv, Sound, Numbered, ArrivedOnce, BlocksInUse
<1>7. CASE ~CanSend
  <2>1. UNCHANGED <<funnel, arrived>> /\ leaked' = leaked \cup {tm}
    BY <1>7 DEF TrySend
  <2>2. InFlow' = InFlow
    BY <2>1 DEF InFlow
  <2>3. Sound(Elems(InFlow'), InHands', leaked', pool', Elems(arrived'), created')
    BY <1>3, <1>5, <2>1, <2>2
  <2> QED
    BY <1>4, <2>1, <2>3, SoundIs DEF BlocksInv, Sound, Numbered, ArrivedOnce, BlocksInUse
<1> QED
  BY <1>6, <1>7

\* A producer sends the packet in its hands.
LEMMA ProducerSendBlocks ==
    ASSUME Inductive, Inductive', BlocksInv, NEW p \in Producers, ProducerSend(p)
    PROVE  BlocksInv'
<1>1. /\ UNCHANGED <<created, pool, server, sink_pc, sink_tm, udp_pc, udp_tm>>
      /\ producer[p] # NoTm /\ TrySend(producer[p])
      /\ producer' = [producer EXCEPT ![p] = NoTm]
  BY DEF ProducerSend, sink_vars, udp_vars
<1>2. producer \in [Producers -> Tms \cup {NoTm}] /\ NoTm \notin Tms
  BY PipelineAssumption DEF Inductive, TypeOK
<1>3. producer[p] \in InHands /\ producer[p] \in Tms
  BY <1>1, <1>2 DEF InHands
<1>4. /\ \A q, r \in Producers : producer[q] = producer[r] /\ producer[q] # NoTm => q = r
      /\ udp_pc \in {"accept_send", "reject_send"} => \A q \in Producers : producer[q] # udp_tm
  BY DEF BlocksInv, HandsApart
<1>5. HandsApart'
  <2>1. \A q \in Producers : producer'[q] = IF q = p THEN NoTm ELSE producer[q]
    BY <1>1, <1>2
  <2>2. udp_pc \in {"accept_send", "reject_send"} => udp_tm # NoTm
    BY DEF Inductive, ThreadsSound
  <2> QED
    BY SMTT(60), <1>1, <1>4, <2>1, <2>2 DEF HandsApart
<1>6. InHands' = InHands \ {producer[p]}
  <2>1. {producer'[q] : q \in Producers} \ {NoTm}
          = ({producer[q] : q \in Producers} \ {NoTm}) \ {producer[p]}
    BY <1>1, <1>2, <1>4
  <2>2. udp_pc \in {"accept_send", "reject_send"} => udp_tm # producer[p]
    BY <1>4
  <2> QED
    BY <1>1, <2>1, <2>2 DEF InHands
<1>7. HeldByUdp' = HeldByUdp /\ HeldBySink' = HeldBySink
  BY <1>1 DEF HeldByUdp, HeldBySink, Held
<1>8. udp_pc' = "panicked" => server = << >>
  BY <1>1 DEF BlocksInv
<1> QED
  BY <1>1, <1>3, <1>5, <1>6, <1>7, <1>8, TrySendBlocks

\* The sink moves packets within the flow ...
LEMMA SinkBlocks ==
    ASSUME Inductive, Inductive', BlocksInv, SinkRecv \/ SinkProcess \/ SinkSend \/ SinkAddTm
    PROVE  BlocksInv'
<1>0. TypeOK /\ TypeOK' /\ server \in Seq(Tms) /\ funnel \in Seq(Tms)
  BY DEF Inductive, TypeOK
<1>1. UNCHANGED <<created, pool, producer, arrived, leaked, udp_pc, udp_tm>>
  BY DEF SinkRecv, SinkProcess, SinkSend, SinkAddTm, udp_vars, loss_vars
<1>2. HeldByUdp' = HeldByUdp
  BY <1>1 DEF HeldByUdp, Held
<1>3. Elems(HeldBySink') \cup Elems(server') \cup Elems(funnel')
        = Elems(HeldBySink) \cup Elems(server) \cup Elems(funnel)
  <2>1. CASE SinkRecv
    <3>1. Elems(funnel) = {Head(funnel)} \cup Elems(Tail(funnel)) /\ Head(funnel) \in Tms
      BY <1>0, <2>1, ElemsOfQueue, TakeIsCat DEF SinkRecv
    <3>2. HeldBySink = << >> /\ HeldBySink' = Single(Head(funnel))
      BY <2>1, <3>1, PipelineAssumption
      DEF SinkRecv, HeldBySink, Held, Single, Inductive, ThreadsSound
    <3> QED
      BY <2>1, <3>1, <3>2, ElemsOfFew DEF SinkRecv
  <2>2. CASE SinkSend
    <3>1. sink_tm \in Tms
      BY <2>2 DEF Inductive, TypeOK, ThreadsSound, SinkSend
    <3>2. HeldBySink = Single(sink_tm) /\ HeldBySink' = << >>
      BY <2>2, <3>1, PipelineAssumption DEF SinkSend, HeldBySink, Held, Single
    <3>3. Elems(Append(server, sink_tm)) = Elems(server) \cup {sink_tm}
      BY SMTT(60), <1>0, <3>1, ElemsOfAppend
    <3> QED
      BY <2>2, <3>2, <3>3, ElemsOfFew DEF SinkSend
  <2>3. CASE SinkProcess \/ SinkAddTm
    <3>1. HeldBySink' = HeldBySink /\ UNCHANGED <<server, funnel>>
      BY <2>3 DEF SinkProcess, SinkAddTm, HeldBySink, Held
    <3> QED
      BY <3>1
  <2> QED
    BY <2>1, <2>2, <2>3
<1>4. Elems(InFlow') = Elems(InFlow)
  BY <1>0, <1>2, <1>3, FlowElems
<1>5. udp_pc' = "panicked" => server' = << >>
  BY <1>1 DEF SinkRecv, SinkProcess, SinkSend, SinkAddTm, BlocksInv
<1> QED
  BY <1>1, <1>4, <1>5, BlocksStay

\* ... and leaks what it holds when it panics.
LEMMA SinkPanicsBlocks ==
    ASSUME Inductive, Inductive', BlocksInv, SinkPanics
    PROVE  BlocksInv'
<1>0. TypeOK /\ TypeOK' /\ created \in Nat /\ NoTm \notin Tms /\ sink_tm \in Tms
  <2>1. TypeOK /\ TypeOK' /\ sink_tm \in Tms
    BY DEF Inductive, TypeOK, ThreadsSound, SinkPanics
  <2> QED
    BY <2>1, BoundTypes, PipelineAssumption
<1>1. /\ UNCHANGED <<created, pool, producer, arrived, server, udp_pc, udp_tm>>
      /\ udp_pc = "panicked" /\ server = << >>
      /\ sink_tm' = NoTm /\ funnel' = << >> /\ sink_pc = "send"
      /\ leaked' = leaked \cup ({sink_tm} \cup Elems(funnel))
  BY DEF SinkPanics, udp_vars, BlocksInv, Elems
<1>2. HeldBySink = Single(sink_tm) /\ HeldBySink' = << >> /\ HeldByUdp = << >> /\ HeldByUdp' = << >>
  BY <1>0, <1>1 DEF HeldBySink, HeldByUdp, Held, Single
<1>3. Elems(InFlow) = {sink_tm} \cup Elems(funnel) /\ Elems(InFlow') = {}
  BY <1>0, <1>1, <1>2, FlowElems, ElemsOfFew
<1>4. InHands' = InHands /\ HandsApart'
  BY <1>1 DEF InHands, HandsApart, BlocksInv
<1>5. PICK w, i, l, a : w = Elems(InFlow) /\ i = InHands /\ l = leaked /\ a = Elems(arrived)
  OBVIOUS
<1>6. Sound(w, i, l, pool, a, created) /\ Distinct(arrived) /\ Cardinality(pool) <= PoolSize
  BY <1>5, SoundIs
<1>7. Sound(w \ w, i, l \cup w, pool, a, created)
  BY <1>0, <1>6, SoundLeak
<1>8. Sound(Elems(InFlow'), InHands', leaked', pool', Elems(arrived'), created')
  BY <1>1, <1>3, <1>4, <1>5, <1>7
<1> QED
  BY <1>1, <1>4, <1>6, <1>8 DEF BlocksInv, Sound, Numbered, ArrivedOnce, BlocksInUse

\* The UDP server takes a packet from its queue ...
LEMMA UdpTakeBlocks ==
    ASSUME Inductive, Inductive', BlocksInv, UdpTakeTm
    PROVE  BlocksInv'
<1>0. TypeOK /\ TypeOK' /\ server \in Seq(Tms)
  BY DEF Inductive, TypeOK
<1>1. /\ UNCHANGED <<created, pool, producer, arrived, leaked, funnel, sink_pc, sink_tm>>
      /\ udp_pc = "drain" /\ udp_pc' = "hold" /\ server # << >>
      /\ udp_tm' = Head(server) /\ server' = Tail(server)
  BY DEF UdpTakeTm, loss_vars, sink_vars
<1>2. Elems(server) = {Head(server)} \cup Elems(Tail(server)) /\ Head(server) \in Tms
  BY <1>0, <1>1, ElemsOfQueue, TakeIsCat
<1>3. HeldByUdp = << >> /\ HeldByUdp' = Single(Head(server)) /\ HeldBySink' = HeldBySink
  BY <1>1, <1>2, PipelineAssumption DEF HeldByUdp, HeldBySink, Held, Single
<1>4. Elems(InFlow') = Elems(InFlow)
  BY <1>0, <1>1, <1>2, <1>3, FlowElems, ElemsOfFew
<1> QED
  BY <1>1, <1>4, BlocksStay

\* ... and frees its block, in which no other address lies.
LEMMA UdpSendBlocks ==
    ASSUME Inductive, Inductive', BlocksInv, UdpSendTm
    PROVE  BlocksInv'
<1>0. TypeOK /\ TypeOK' /\ created \in Nat /\ NoTm \notin Tms
  BY BoundTypes, PipelineAssumption DEF Inductive
<1>1. udp_tm \in Tms /\ ~Poisoned /\ udp_pc = "hold" /\ udp_pc' = "drain"
  BY DEF UdpSendTm, ThreadsSound, Inductive, TypeOK
<1>2. /\ UNCHANGED <<created, producer, arrived, leaked, funnel, server, sink_pc, sink_tm>>
      /\ pool' = pool \ {udp_tm}
  BY <1>1 DEF UdpSendTm, sink_vars
<1>3. HeldByUdp = Single(udp_tm) /\ HeldByUdp' = << >> /\ HeldBySink' = HeldBySink
  BY <1>0, <1>1, <1>2 DEF HeldByUdp, HeldBySink, Held, Single
<1>4. udp_tm \notin Elems(server) \cup Elems(HeldBySink) \cup Elems(funnel)
  BY <1>1, <1>3, FlowApart, ElemsOfFew
<1>5. Elems(InFlow') = Elems(InFlow) \ {udp_tm} /\ udp_tm \in Elems(InFlow)
  BY SMTT(60), <1>0, <1>2, <1>3, <1>4, FlowElems, ElemsOfFew
<1>6. InHands' = InHands /\ HandsApart'
  BY <1>1, <1>2 DEF InHands, HandsApart, BlocksInv
<1>7. PICK w, i, l, a : w = Elems(InFlow) /\ i = InHands /\ l = leaked /\ a = Elems(arrived)
  OBVIOUS
<1>8. Sound(w, i, l, pool, a, created) /\ Distinct(arrived) /\ Cardinality(pool) <= PoolSize
  BY <1>7, SoundIs
<1>9. Sound(w \ {udp_tm}, i, l, pool \ {udp_tm}, a, created)
  BY <1>0, <1>5, <1>7, <1>8, SoundFree
<1>10. Sound(Elems(InFlow'), InHands', leaked', pool', Elems(arrived'), created')
  BY <1>2, <1>5, <1>6, <1>7, <1>9
<1>11. Cardinality(pool') <= PoolSize
  <2>1. Cardinality(pool') <= Cardinality(pool) /\ Cardinality(pool') \in Nat
    BY <1>0, <1>2, PoolFinite, FS_Subset, FS_CardinalityType
  <2> QED
    BY SMTT(60), <1>0, <1>8, <2>1, PoolFinite, PipelineAssumption
<1> QED
  BY <1>1, <1>2, <1>6, <1>8, <1>10, <1>11 DEF BlocksInv, Sound, Numbered, ArrivedOnce, BlocksInUse

\* A panic of the tmtc-udp thread leaks the packets of its queue and the one in
\* its hands.
LEMMA UdpPanicsBlocks ==
    ASSUME Inductive, Inductive', BlocksInv, UdpPanics, NEW x \in {{}, {udp_tm}},
           udp_pc # "panicked" /\ udp_pc # "hold",
           x = {} => udp_pc \notin {"accept_send", "reject_send"},
           x # {} => udp_pc \in {"accept_send", "reject_send"},
           leaked' = leaked \cup x \cup Elems(server),
           created' \in {created, created + 1},
           UNCHANGED <<pool, producer, arrived, funnel, sink_pc, sink_tm>>
    PROVE  BlocksInv'
<1>0. TypeOK /\ TypeOK' /\ created \in Nat
  BY BoundTypes DEF Inductive
<1>1. udp_pc' = "panicked" /\ udp_tm' = NoTm /\ server' = << >>
  BY DEF UdpPanics
<1>2. HeldByUdp = << >> /\ HeldByUdp' = << >> /\ HeldBySink' = HeldBySink
  BY <1>1 DEF HeldByUdp, HeldBySink, Held
<1>3. PICK w, i, l, a, s : /\ w = Elems(InFlow) /\ i = InHands /\ l = leaked
                           /\ a = Elems(arrived) /\ s = Elems(server)
  OBVIOUS
<1>4. Elems(InFlow') = w \ s /\ s \subseteq w
  BY <1>0, <1>1, <1>2, <1>3, FlowElems, FlowApart, ElemsOfFew
<1>5. Sound(w, i, l, pool, a, created) /\ Distinct(arrived) /\ Cardinality(pool) <= PoolSize
  BY <1>3, SoundIs
<1>6. Sound(w \ s, i, l \cup s, pool, a, created)
  BY <1>0, <1>4, <1>5, SoundLeak
<1>7. HandsApart'
  BY <1>1 DEF HandsApart, BlocksInv
<1>8. Sound(Elems(InFlow'), InHands', leaked', pool, a, created)
  <2>1. CASE x = {}
    <3>1. InHands' = i /\ leaked' = l \cup s
      BY <1>1, <1>3, <2>1 DEF InHands
    <3> QED
      BY <1>4, <1>6, <3>1
  <2>2. CASE x = {udp_tm}
    <3>1. udp_tm # NoTm /\ udp_pc \in {"accept_send", "reject_send"}
      BY <2>2 DEF Inductive, ThreadsSound
    <3>2. \A p \in Producers : producer[p] # udp_tm
      BY <3>1 DEF BlocksInv, HandsApart
    <3>3. udp_tm \in i /\ InHands' = i \ {udp_tm}
      BY <1>1, <1>3, <3>1, <3>2 DEF InHands
    <3>4. Sound(w \ s, i \ {udp_tm}, (l \cup s) \cup {udp_tm}, pool, a, created)
      BY <1>0, <1>6, <3>3, SoundSend
    <3>5. leaked' = (l \cup s) \cup {udp_tm}
      BY <1>3, <2>2
    <3> QED
      BY <1>4, <3>3, <3>4, <3>5
  <2> QED
    BY <2>1, <2>2
<1>9. Sound(Elems(InFlow'), InHands', leaked', pool, a, created')
  <2>1. PICK v, j, m : v = Elems(InFlow') /\ j = InHands' /\ m = leaked'
    OBVIOUS
  <2>2. Sound(v, j, m, pool, a, created)
    BY <1>8, <2>1
  <2>3. Sound(v, j, m, pool, a, created + 1)
    BY <1>0, <2>2, SoundStore
  <2> QED
    BY <2>1, <2>2, <2>3
<1> QED
  BY <1>1, <1>3, <1>5, <1>7, <1>9 DEF BlocksInv, Sound, Numbered, ArrivedOnce, BlocksInUse

\* A report gets a block as a producer's packet does, is given up, or the thread
\* panics.
LEMMA ReportStoreBlocks ==
    ASSUME Inductive, Inductive', BlocksInv, AcceptStore \/ RejectStore
    PROVE  BlocksInv'
<1>0. TypeOK /\ created \in Nat /\ NoTm \notin Tms /\ created + 1 \in Tms
  <2>1. created' = created + 1
    BY DEF AcceptStore, RejectStore, Store
  <2>2. TypeOK /\ created' \in 0..MaxTm
    BY DEF Inductive, TypeOK
  <2>3. created + 1 \in Tms
    BY SMTT(60), <2>1, <2>2, BoundTypes DEF Tms
  <2> QED
    BY <2>2, <2>3, BoundTypes, PipelineAssumption
<1>1. /\ created' = created + 1 /\ udp_pc \in {"accept", "reject"} /\ udp_tm = NoTm
      /\ UNCHANGED <<funnel, producer, arrived, sink_pc, sink_tm>>
  BY DEF AcceptStore, RejectStore, Store, sink_vars, Inductive, ThreadsSound
<1>2. PICK w, i, l, a : w = Elems(InFlow) /\ i = InHands /\ l = leaked /\ a = Elems(arrived)
  OBVIOUS
<1>3. Sound(w, i, l, pool, a, created) /\ Distinct(arrived) /\ Cardinality(pool) <= PoolSize
  BY <1>2, SoundIs
<1>4. /\ Sound(w, i \cup {created + 1}, l, pool \cup {created + 1}, a, created + 1)
      /\ Sound(w, i, l, pool, a, created + 1)
      /\ created + 1 \notin pool \cup i \cup a
  BY <1>0, <1>3, SoundStore
<1>5. CASE CanStore
  <2>1. /\ pool' = pool \cup {created + 1} /\ udp_tm' = created + 1
        /\ udp_pc' \in {"accept_send", "reject_send"} /\ UNCHANGED <<server, leaked>>
    BY <1>5 DEF AcceptStore, RejectStore, Store
  <2>2. InFlow' = InFlow
    BY <1>1, <2>1 DEF InFlow, HeldByUdp, HeldBySink, Held
  <2>3. InHands' = i \cup {created + 1}
    BY <1>0, <1>1, <1>2, <2>1 DEF InHands
  <2>4. HandsApart'
    <3>1. \A q \in Producers : producer[q] # created + 1
      BY <1>0, <1>2, <1>4 DEF InHands
    <3> QED
      BY <1>1, <2>1, <3>1 DEF HandsApart, BlocksInv
  <2>5. Cardinality(pool') <= PoolSize
    <3>1. Cardinality(pool') = Cardinality(pool) + 1
      BY <1>0, <1>4, <2>1, PoolFinite, FS_AddElement
    <3> QED
      BY SMTT(60), <1>0, <1>5, <3>1, PoolFinite, PipelineAssumption DEF CanStore
  <2> QED
    BY <1>1, <1>2, <1>3, <1>4, <2>1, <2>2, <2>3, <2>4, <2>5
    DEF BlocksInv, Sound, Numbered, ArrivedOnce, BlocksInUse
<1>6. CASE ~CanStore /\ udp_pc' = "poll"
  <2>1. UNCHANGED <<pool, server, leaked, udp_tm>>
    BY <1>6 DEF AcceptStore, RejectStore, Store, UdpPanics
  <2>2. InFlow' = InFlow
    BY <1>1, <1>6, <2>1 DEF InFlow, HeldByUdp, HeldBySink, Held
  <2>3. InHands' = i /\ HandsApart'
    BY <1>1, <1>2, <1>6, <2>1 DEF InHands, HandsApart, BlocksInv
  <2> QED
    BY <1>1, <1>2, <1>3, <1>4, <1>6, <2>1, <2>2, <2>3
    DEF BlocksInv, Sound, Numbered, ArrivedOnce, BlocksInUse
<1>7. CASE ~CanStore /\ udp_pc' # "poll"
  <2>1. UdpPanics /\ pool' = pool /\ leaked' = leaked \cup {} \cup Elems(server)
    BY <1>7 DEF AcceptStore, RejectStore, Store, Elems
  <2> QED
    BY <1>1, <2>1, UdpPanicsBlocks
<1> QED
  BY <1>5, <1>6, <1>7

\* A report is sent as a producer's packet is, or the thread panics.
LEMMA ReportSendBlocks ==
    ASSUME Inductive, Inductive', BlocksInv, AcceptSend \/ RejectSend
    PROVE  BlocksInv'
<1>1. /\ UNCHANGED <<created, pool, producer, sink_pc, sink_tm>>
      /\ udp_pc \in {"accept_send", "reject_send"} /\ udp_tm' = NoTm
  BY DEF AcceptSend, RejectSend, UdpPanics, sink_vars
<1>2. udp_tm \in Tms /\ NoTm \notin Tms
  BY <1>1, PipelineAssumption DEF Inductive, TypeOK, ThreadsSound
<1>3. \A p \in Producers : producer[p] # udp_tm
  BY <1>1 DEF BlocksInv, HandsApart
<1>4. CASE UdpPanics
  <2>1. /\ leaked' = leaked \cup {udp_tm} \cup Elems(server)
        /\ UNCHANGED <<funnel, arrived>>
    BY <1>4 DEF AcceptSend, RejectSend, UdpPanics, Elems
  <2> QED
    BY <1>1, <1>4, <2>1, UdpPanicsBlocks
<1>5. CASE ~UdpPanics
  <2>1. TrySend(udp_tm) /\ server' = server /\ udp_pc' \in {"poll", "reject"}
    BY <1>5 DEF AcceptSend, RejectSend
  <2>2. udp_tm \in InHands /\ InHands' = InHands \ {udp_tm}
    BY <1>1, <1>2, <1>3, <2>1 DEF InHands
  <2>3. HandsApart'
    BY <1>1, <2>1 DEF HandsApart, BlocksInv
  <2>4. HeldByUdp' = HeldByUdp /\ HeldBySink' = HeldBySink
    BY <1>1, <2>1 DEF HeldByUdp, HeldBySink, Held
  <2> QED
    BY <1>1, <1>2, <2>1, <2>2, <2>3, <2>4, TrySendBlocks
<1> QED
  BY <1>4, <1>5

\* The other steps touch no packet of the static pool.
LEMMA OtherBlocks ==
    ASSUME Inductive, BlocksInv,
           \/ UdpPollTc \/ UdpPollEmpty \/ UdpDrained \/ NoTcToHandle \/ HandleTc
           \/ TcpTakeTm \/ TcpRecvTc \/ UNCHANGED vars
    PROVE  BlocksInv'
<1>1. UNCHANGED <<created, pool, producer, arrived, leaked, funnel, server, sink_pc,
                  sink_tm, udp_tm>>
  BY DEF UdpPollTc, UdpPollEmpty, UdpDrained, NoTcToHandle, HandleTc, TcpTakeTm, TcpRecvTc,
         vars, udp_vars, udp_rest, sink_vars, loss_vars
<1>2. \/ udp_pc' = udp_pc
      \/ /\ udp_pc \in {"poll", "drain", "tc"}
         /\ udp_pc' \in {"poll", "drain", "tc", "accept"}
  BY DEF UdpPollTc, UdpPollEmpty, UdpDrained, NoTcToHandle, HandleTc, TcpTakeTm, TcpRecvTc,
         vars, udp_vars, udp_rest
<1>3. HeldByUdp' = HeldByUdp /\ HeldBySink' = HeldBySink
  BY <1>1, <1>2 DEF HeldByUdp, HeldBySink, Held
<1>4. InFlow' = InFlow
  BY <1>1, <1>3 DEF InFlow
<1>5. udp_pc' = "panicked" => server' = << >>
  BY <1>1, <1>2 DEF BlocksInv
<1> QED
  BY <1>1, <1>2, <1>4, <1>5, BlocksStay

\* The invariant holds initially and is kept by every step.
LEMMA InitBlocks == Init => BlocksInv
<1> SUFFICES ASSUME Init PROVE BlocksInv
  OBVIOUS
<1>1. /\ created = 0 /\ pool = {} /\ leaked = {} /\ udp_pc = "poll"
      /\ arrived = << >> /\ \A p \in Producers : producer[p] = NoTm
  BY DEF Init
<1>2. InFlow = << >>
  BY SMTT(60) DEF Init, InFlow, HeldByUdp, HeldBySink, Held
<1>3. InHands = {}
  BY <1>1 DEF InHands
<1>4. Cardinality(pool) <= PoolSize
  BY SMTT(60), <1>1, FS_EmptySet, PipelineAssumption
<1>5. HandsApart /\ Distinct(arrived)
  BY SMTT(60), <1>1 DEF HandsApart, Distinct
<1> QED
  BY <1>1, <1>2, <1>3, <1>4, <1>5, ElemsOfFew DEF BlocksInv, Numbered, ArrivedOnce, BlocksInUse

\* Every step keeps each block of the pool with one owner.
LEMMA NextBlocks == Inductive /\ Inductive' /\ BlocksInv /\ [Next]_vars => BlocksInv'
<1> SUFFICES ASSUME Inductive, Inductive', BlocksInv, [Next]_vars PROVE BlocksInv'
  OBVIOUS
<1>1. CASE \E p \in Producers : ProducerStore(p) \/ ProducerSend(p)
  BY <1>1, ProducerStoreBlocks, ProducerSendBlocks
<1>2. CASE Sink
  BY <1>2, SinkBlocks, SinkPanicsBlocks DEF Sink
<1>3. CASE Udp \/ TcpTakeTm \/ TcpRecvTc \/ UNCHANGED vars
  BY <1>3, UdpTakeBlocks, UdpSendBlocks, ReportStoreBlocks, ReportSendBlocks, OtherBlocks DEF Udp
<1> QED
  BY <1>1, <1>2, <1>3 DEF Next

\* For every number of threads and packets and every size of the queues and of
\* the pool: every address on its way or in a thread's hands leads to a block in
\* use, every other block in use was leaked by a failed send, and a block is
\* freed once, by the guard of the UDP server.
THEOREM AddressesLeadToBlocks == Spec => []BlocksInUse
<1>1. BlocksInv => BlocksInUse
  BY DEF BlocksInv
<1> QED
  BY <1>1, InitInductive, NextInductive, InitBlocks, NextBlocks, PTL DEF Spec

-----------------------------------------------------------------------------
(* The queue of the TCP server                                             *)

\* The last k packets of t.
LEMMA LastOf ==
    ASSUME NEW S, NEW t \in Seq(S), NEW k \in Nat, k <= Len(t)
    PROVE  /\ SubSeq(t, Len(t) - k + 1, Len(t)) \in Seq(S)
           /\ Len(SubSeq(t, Len(t) - k + 1, Len(t))) = k
           /\ \A i \in 1..k : SubSeq(t, Len(t) - k + 1, Len(t))[i] = t[(Len(t) - k) + i]
<1> DEFINE m == Len(t) - k + 1
           n == Len(t)
<1>1. n \in Nat /\ m \in Int /\ n \in Int /\ m >= 1
  BY SMTT(60), SeqDomain
<1>2. m \in 1..(Len(t) + 1) /\ n \in 0..Len(t)
  BY SMTT(60), <1>1
<1>3. m <= n => n - m + 1 = k
  BY SMTT(60), <1>1
<1>4. ~(m <= n) => k = 0
  BY SMTT(60), <1>1
<1>5. n - m + 1 = k /\ \A i \in 1..k : m + i - 1 = (n - k) + i
  BY SMTT(60), <1>1
<1> HIDE DEF m, n
<1>6. /\ SubSeq(t, m, n) \in Seq(S)
      /\ Len(SubSeq(t, m, n)) = IF m <= n THEN n - m + 1 ELSE 0
      /\ \A i \in 1..(n - m + 1) : SubSeq(t, m, n)[i] = t[m + i - 1]
  BY <1>2, SectionOf
<1>7. Len(SubSeq(t, m, n)) = k
  BY <1>3, <1>4, <1>6
<1>8. \A i \in 1..k : SubSeq(t, m, n)[i] = t[(n - k) + i]
  BY <1>5, <1>6
<1> QED
  BY <1>6, <1>7, <1>8 DEF m, n

\* EndOf, packet by packet.
LEMMA EndOfIs ==
    ASSUME NEW S, NEW s \in Seq(S), NEW t \in Seq(S)
    PROVE  EndOf(s, t) <=>
             /\ Len(s) <= Len(t)
             /\ \A i \in 1..Len(s) : s[i] = t[(Len(t) - Len(s)) + i]
<1> SUFFICES ASSUME Len(s) <= Len(t)
             PROVE  s = SubSeq(t, Len(t) - Len(s) + 1, Len(t)) <=>
                      \A i \in 1..Len(s) : s[i] = t[(Len(t) - Len(s)) + i]
  BY DEF EndOf
<1>1. PICK u : u = SubSeq(t, Len(t) - Len(s) + 1, Len(t))
  OBVIOUS
<1>2. /\ u \in Seq(S) /\ Len(u) = Len(s)
      /\ \A i \in 1..Len(s) : u[i] = t[(Len(t) - Len(s)) + i]
  BY <1>1, SeqDomain, LastOf
<1>3. s = u <=> \A i \in 1..Len(s) : s[i] = u[i]
  BY <1>2, SeqSame
<1> QED
  BY <1>1, <1>2, <1>3

\* Taking the oldest packet from the end of a stream leaves its end, ...
LEMMA EndOfTail ==
    ASSUME NEW S, NEW s \in Seq(S), NEW t \in Seq(S), s # << >>, EndOf(s, t)
    PROVE  EndOf(Tail(s), t) /\ Tail(s) \in Seq(S) /\ Len(Tail(s)) = Len(s) - 1
<1>0. PICK r : r = Tail(s)
  OBVIOUS
<1>1. /\ r \in Seq(S) /\ Len(r) = Len(s) - 1
      /\ \A i \in 1..Len(r) : r[i] = s[i + 1]
  BY <1>0, TailOf
<1>2. Len(s) \in Nat /\ Len(t) \in Nat /\ Len(s) <= Len(t) /\ Len(r) \in Nat
  BY <1>1, SeqDomain DEF EndOf
<1>3. \A i \in 1..Len(s) : s[i] = t[(Len(t) - Len(s)) + i]
  BY EndOfIs
<1>4. ASSUME NEW i \in 1..Len(r) PROVE r[i] = t[(Len(t) - Len(r)) + i]
  <2>1. i + 1 \in 1..Len(s) /\ (Len(t) - Len(s)) + (i + 1) = (Len(t) - Len(r)) + i
    BY SMTT(60), <1>1, <1>2
  <2> QED
    BY <1>1, <1>3, <2>1
<1>5. Len(r) <= Len(t)
  BY SMTT(60), <1>1, <1>2
<1> QED
  BY <1>0, <1>1, <1>4, <1>5, EndOfIs

\* ... and so does appending a packet to both.
LEMMA EndOfAppend ==
    ASSUME NEW S, NEW s \in Seq(S), NEW t \in Seq(S), NEW x \in S, EndOf(s, t)
    PROVE  EndOf(Append(s, x), Append(t, x)) /\ Len(Append(s, x)) = Len(s) + 1
<1>0. PICK a, b : a = Append(s, x) /\ b = Append(t, x)
  OBVIOUS
<1>1. /\ a \in Seq(S) /\ Len(a) = Len(s) + 1 /\ a[Len(s) + 1] = x
      /\ \A i \in 1..Len(s) : a[i] = s[i]
  BY SMTT(60), <1>0, Appended
<1>2. /\ b \in Seq(S) /\ Len(b) = Len(t) + 1 /\ b[Len(t) + 1] = x
      /\ \A i \in 1..Len(t) : b[i] = t[i]
  BY <1>0, Appended
<1>3. Len(s) \in Nat /\ Len(t) \in Nat /\ Len(s) <= Len(t)
  BY SeqDomain DEF EndOf
<1>4. \A i \in 1..Len(s) : s[i] = t[(Len(t) - Len(s)) + i]
  BY EndOfIs
<1>5. ASSUME NEW i \in 1..Len(a) PROVE a[i] = b[(Len(b) - Len(a)) + i]
  <2>1. CASE i = Len(s) + 1
    <3>1. (Len(b) - Len(a)) + i = Len(t) + 1
      BY SMTT(60), <1>1, <1>2, <1>3, <2>1
    <3> QED
      BY <1>1, <1>2, <2>1, <3>1
  <2>2. CASE i # Len(s) + 1
    <3>1. PICK j : j = (Len(t) - Len(s)) + i
      OBVIOUS
    <3>2. i \in 1..Len(s) /\ (Len(b) - Len(a)) + i = j /\ j \in 1..Len(t)
      BY SMTT(60), <1>1, <1>2, <1>3, <2>2, <3>1
    <3>3. a[i] = s[i] /\ b[j] = t[j]
      BY <1>1, <1>2, <3>2
    <3>4. s[i] = t[j]
      BY <1>4, <3>1, <3>2
    <3> QED
      BY <3>2, <3>3, <3>4
  <2> QED
    BY <2>1, <2>2
<1>6. Len(a) <= Len(b)
  BY SMTT(60), <1>1, <1>2, <1>3
<1> QED
  BY <1>0, <1>1, <1>2, <1>5, <1>6, EndOfIs

\* add_tm keeps the newest packets and the limit of its queue.
LEMMA AddTmKeepsNewest ==
    ASSUME NEW q \in Seq(Tms), NEW t \in Seq(Tms), NEW x \in Tms, EndOf(q, t),
           Len(q) <= MaxPacketsStored + 1
    PROVE  EndOf(AddTm(q, x), Append(t, x)) /\ Len(AddTm(q, x)) <= MaxPacketsStored + 1
<1>1. Len(q) \in Nat /\ MaxPacketsStored \in Nat
  BY SeqDomain, FunnelAssumption
<1>2. CASE Len(q) > MaxPacketsStored
  <2>1. q # << >>
    BY SMTT(60), <1>1, <1>2
  <2>2. PICK r \in Seq(Tms) : r = Tail(q) /\ EndOf(r, t) /\ Len(r) = Len(q) - 1
    BY <2>1, EndOfTail
  <2>3. AddTm(q, x) = Append(r, x)
    BY <1>2, <2>2 DEF AddTm
  <2>4. EndOf(Append(r, x), Append(t, x)) /\ Len(Append(r, x)) = Len(r) + 1
    BY <2>2, EndOfAppend
  <2> QED
    BY SMTT(60), <1>1, <2>2, <2>3, <2>4
<1>3. CASE ~(Len(q) > MaxPacketsStored)
  <2>1. AddTm(q, x) = Append(q, x)
    BY <1>3 DEF AddTm
  <2>2. EndOf(Append(q, x), Append(t, x)) /\ Len(Append(q, x)) = Len(q) + 1
    BY EndOfAppend
  <2> QED
    BY SMTT(60), <1>1, <1>3, <2>1, <2>2
<1> QED
  BY <1>2, <1>3

\* Every step keeps the newest packets in the queue of the TCP server.
LEMMA NextKeepsNewest == Inductive /\ TcpKeepsNewest /\ [Next]_vars => TcpKeepsNewest'
<1> SUFFICES ASSUME Inductive, TcpKeepsNewest, [Next]_vars PROVE TcpKeepsNewest'
  OBVIOUS
<1>1. tm_queue \in Seq(Tms) /\ to_tcp \in Seq(Tms)
  BY DEF Inductive, TypeOK
<1>2. ASSUME SinkAddTm PROVE TcpKeepsNewest'
  <2>1. sink_tm \in Tms
    BY <1>2 DEF SinkAddTm, Inductive, TypeOK, ThreadsSound
  <2> QED
    BY <1>1, <1>2, <2>1, AddTmKeepsNewest DEF SinkAddTm, TcpKeepsNewest
<1>3. ASSUME TcpTakeTm PROVE TcpKeepsNewest'
  <2>1. tm_queue # << >> /\ tm_queue' = Tail(tm_queue) /\ to_tcp' = to_tcp
    BY <1>3 DEF TcpTakeTm
  <2>2. EndOf(tm_queue', to_tcp) /\ Len(tm_queue') = Len(tm_queue) - 1
    BY <1>1, <2>1, EndOfTail DEF TcpKeepsNewest
  <2>3. Len(tm_queue) \in Nat
    BY <1>1, SeqDomain
  <2> QED
    BY SMTT(60), <2>1, <2>2, <2>3, FunnelAssumption DEF TcpKeepsNewest
<1>4. ASSUME UNCHANGED <<tm_queue, to_tcp>> PROVE TcpKeepsNewest'
  BY <1>4 DEF TcpKeepsNewest
<1>5. CASE \E p \in Producers : ProducerStore(p) \/ ProducerSend(p)
  BY <1>4, <1>5 DEF ProducerStore, ProducerSend, sink_vars
<1>6. CASE Sink
  BY <1>2, <1>4, <1>6 DEF Sink, SinkRecv, SinkProcess, SinkSend, SinkPanics
<1>7. CASE Udp
  BY <1>4, <1>7 DEF Udp, UdpPollTc, UdpPollEmpty, UdpTakeTm, UdpSendTm, UdpDrained, NoTcToHandle,
     HandleTc, AcceptStore, AcceptSend, RejectStore, RejectSend, udp_rest, sink_vars
<1>8. CASE TcpRecvTc \/ UNCHANGED vars
  BY <1>4, <1>8 DEF TcpRecvTc, vars, udp_rest, sink_vars
<1> QED
  BY <1>3, <1>5, <1>6, <1>7, <1>8 DEF Next

\* For every limit of the queue of the TCP server: it always holds the newest
\* packets, one more than its limit at most.
THEOREM TcpQueueHoldsNewest == Spec => []TcpKeepsNewest
<1>1. Init => TcpKeepsNewest
  <2> SUFFICES ASSUME Init PROVE TcpKeepsNewest
    OBVIOUS
  <2>1. tm_queue = << >> /\ to_tcp = << >> /\ Len(<< >>) = 0 /\ << >> \in Seq(Tms)
    BY SMTT(60) DEF Init
  <2>2. EndOf(<< >>, << >>)
    <3>1. SubSeq(<< >>, 1, 0) = << >>
      BY SMTT(60)
    <3> QED
      BY SMTT(60), <2>1, <3>1 DEF EndOf
  <2> QED
    BY SMTT(60), <2>1, <2>2, FunnelAssumption DEF TcpKeepsNewest
<1> QED
  BY <1>1, InitInductive, NextInductive, NextKeepsNewest, PTL DEF Spec

=============================================================================
