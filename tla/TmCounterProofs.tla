-------------------------- MODULE TmCounterProofs --------------------------
(***************************************************************************)
(* For every number of producers and packets and every length of the       *)
(* queues: the client sees the message counters and the sequence counts    *)
(* without a gap, on the path through the pool and on the one on the heap, *)
(* and the path on the heap implements the abstract stream too.  The       *)
(* invariant behind the counters follows them from the funnel, which       *)
(* assigns them, along the flow: the part of the flow behind the funnel    *)
(* begins with what the client has seen.                                   *)
(***************************************************************************)
EXTENDS TmPipelineProofs

(* Most leaves need only first-order reasoning and go to Zenon; a leaf     *)
(* with arithmetic, or with functions and records that Zenon does not      *)
(* know, names SMT.  Both get more time than their default, for slower     *)
(* machines.                                                               *)
USE ZenonT(60)

-----------------------------------------------------------------------------
(* Counting packets                                                        *)

\* Division with remainder.
LEMMA ModFacts ==
    ASSUME NEW m \in Nat \ {0}
    PROVE  /\ \A c \in Nat : /\ c \div m \in Nat /\ c % m \in 0..(m - 1)
                             /\ c = m * (c \div m) + (c % m)
           /\ \A q \in Nat, r \in 0..(m - 1) : (m * q + r) % m = r
<1>1. \A c \in Nat : c \div m \in Nat
  BY SMTT(60)
<1>2. \A c \in Nat : c % m \in 0..(m - 1)
  BY SMTT(60)
<1>3. \A c \in Nat : c = m * (c \div m) + (c % m)
  BY SMTT(60)
<1>4. \A q \in Nat, r \in 0..(m - 1) : (m * q + r) % m = r
  BY SMTT(60)
<1> QED
  BY <1>1, <1>2, <1>3, <1>4

\* A counter that goes back to 0 after its largest value counts modulo its width.
LEMMA ModIncrement ==
    ASSUME NEW c \in Nat, NEW max \in Nat
    PROVE  (c + 1) % (max + 1) = Increment(c % (max + 1), max)
<1>1. PICK m \in Nat \ {0} : m = max + 1
  BY SMTT(60)
<1>2. PICK q \in Nat, r \in 0..(m - 1) : q = c \div m /\ r = c % m
  BY ModFacts
<1>3. c = m * q + r
  BY <1>2, ModFacts
<1>4. CASE r = max
  <2>1. m * (q + 1) = m * q + m
    BY SMTT(60)
  <2>2. c + 1 = m * (q + 1) + 0
    BY SMTT(60), <1>1, <1>3, <1>4, <2>1
  <2>3. (m * (q + 1) + 0) % m = 0
    <3>1. q + 1 \in Nat /\ 0 \in 0..(m - 1)
      BY SMTT(60)
    <3> QED
      BY <3>1, ModFacts
  <2> QED
    BY <1>1, <1>2, <1>4, <2>2, <2>3 DEF Increment
<1>5. CASE r # max
  <2>1. r + 1 \in 0..(m - 1) /\ c + 1 = m * q + (r + 1)
    BY SMTT(60), <1>1, <1>3, <1>5
  <2>2. (m * q + (r + 1)) % m = r + 1
    BY <2>1, ModFacts
  <2> QED
    BY <1>1, <1>2, <1>5, <2>1, <2>2 DEF Increment
<1> QED
  BY <1>4, <1>5

\* The positions of s whose packets have the value v of attribute f.
With(s, f, v) == {j \in 1..Len(s) : f[s[j]] = v}

\* The counters are those of a sink that has processed s.
CountersMatch(s, c) ==
    /\ \A v \in Apids : c.seq[v] = Cardinality(With(s, ApidOf, v)) % (MaxSeqCount + 1)
    /\ \A v \in Services : c.msg[v] = Cardinality(With(s, ServiceOf, v)) % (MaxMsgCount + 1)

\* t begins with s.
Begins(s, t) == Len(s) <= Len(t) /\ \A i \in 1..Len(s) : s[i] = t[i]

\* A packet more is counted for its value of the attribute, ...
LEMMA WithAppend ==
    ASSUME NEW S, NEW s \in Seq(S), NEW x \in S, NEW f, NEW v
    PROVE  /\ Cardinality(With(s, f, v)) \in Nat
           /\ Cardinality(With(Append(s, x), f, v))
                = IF f[x] = v THEN Cardinality(With(s, f, v)) + 1
                              ELSE Cardinality(With(s, f, v))
<1>0. PICK a, n : a = Append(s, x) /\ n = Len(s)
  OBVIOUS
<1>1. /\ n \in Nat /\ Len(a) = n + 1 /\ a[n + 1] = x
      /\ \A i \in 1..n : a[i] = s[i]
  BY SMTT(60), <1>0, Appended, SeqDomain
<1>2. IsFiniteSet(1..n)
  BY SMTT(60), <1>1, FS_Interval
<1>3. IsFiniteSet(With(s, f, v))
  BY <1>0, <1>2, FS_Subset DEF With
<1>4. Cardinality(With(s, f, v)) \in Nat
  BY <1>3, FS_CardinalityType
<1>5. 1..(n + 1) = (1..n) \cup {n + 1} /\ n + 1 \notin 1..n
  BY SMTT(60), <1>1
<1>6. CASE f[x] = v
  <2>1. With(a, f, v) = With(s, f, v) \cup {n + 1} /\ n + 1 \notin With(s, f, v)
    BY <1>0, <1>1, <1>5, <1>6 DEF With
  <2>2. Cardinality(With(a, f, v)) = Cardinality(With(s, f, v)) + 1
    BY <1>3, <2>1, FS_AddElement
  <2> QED
    BY <1>0, <1>4, <1>6, <2>2
<1>7. CASE f[x] # v
  <2>1. With(a, f, v) = With(s, f, v)
    BY SMTT(60), <1>0, <1>1, <1>5, <1>7 DEF With
  <2> QED
    BY <1>0, <1>4, <1>7, <2>1
<1> QED
  BY <1>6, <1>7

\* ... and changes nothing of what comes before it.
LEMMA EarlierAppend ==
    ASSUME NEW S, NEW s \in Seq(S), NEW x \in S, NEW f
    PROVE  /\ \A i \in 1..Len(s) : Earlier(Append(s, x), i, f) = Earlier(s, i, f)
           /\ Earlier(Append(s, x), Len(s) + 1, f) = With(s, f, f[x])
<1>0. PICK a, n : a = Append(s, x) /\ n = Len(s)
  OBVIOUS
<1>1. /\ n \in Nat /\ Len(a) = n + 1 /\ a[n + 1] = x
      /\ \A i \in 1..n : a[i] = s[i]
  BY SMTT(60), <1>0, Appended, SeqDomain
<1>2. ASSUME NEW i \in 1..n PROVE Earlier(a, i, f) = Earlier(s, i, f)
  <2>1. \A j \in 1..(i - 1) : j \in 1..n
    BY SMTT(60), <1>1
  <2> QED
    BY <1>1, <2>1 DEF Earlier
<1>3. Earlier(a, n + 1, f) = With(s, f, f[x])
  <2>1. 1..((n + 1) - 1) = 1..n
    BY SMTT(60), <1>1
  <2> QED
    BY <1>0, <1>1, <2>1 DEF Earlier, With
<1> QED
  BY <1>0, <1>2, <1>3

\* apply_packet_processing of a packet that was not processed before: the packets
\* processed are counted, that packet included, and so are the counters.
LEMMA ProcessCounted ==
    ASSUME NEW s \in Seq(Tms), NEW x \in Tms, x \notin Elems(s),
           NEW n \in [Tms -> Counts], NEW c \in Counters,
           CountedIn(s, n), CountersMatch(s, c)
    PROVE  /\ CountedIn(Append(s, x), [n EXCEPT ![x] = CountsFor(c, x)])
           /\ CountersMatch(Append(s, x), AfterPacket(c, x))
<1>0. PICK a, m, k : a = Append(s, x) /\ m = [n EXCEPT ![x] = CountsFor(c, x)] /\ k = Len(s)
  OBVIOUS
<1>1. /\ k \in Nat /\ Len(a) = k + 1 /\ a[k + 1] = x
      /\ \A i \in 1..k : a[i] = s[i] /\ s[i] \in Tms
  BY SMTT(60), <1>0, Appended, SeqDomain
<1>2. ApidOf[x] \in Apids /\ ServiceOf[x] \in Services
  BY DEF Apids, Services
<1>3. m[x] = [seq |-> c.seq[ApidOf[x]], msg |-> c.msg[ServiceOf[x]]]
  BY <1>0 DEF CountsFor
<1>4. ASSUME NEW i \in 1..(k + 1)
      PROVE  /\ m[a[i]].seq = Cardinality(Earlier(a, i, ApidOf)) % (MaxSeqCount + 1)
             /\ m[a[i]].msg = Cardinality(Earlier(a, i, ServiceOf)) % (MaxMsgCount + 1)
  <2>1. CASE i = k + 1
    <3>1. /\ Earlier(a, i, ApidOf) = With(s, ApidOf, ApidOf[x])
          /\ Earlier(a, i, ServiceOf) = With(s, ServiceOf, ServiceOf[x])
      BY <1>0, <2>1, EarlierAppend
    <3>2. /\ c.seq[ApidOf[x]] = Cardinality(With(s, ApidOf, ApidOf[x])) % (MaxSeqCount + 1)
          /\ c.msg[ServiceOf[x]] = Cardinality(With(s, ServiceOf, ServiceOf[x])) % (MaxMsgCount + 1)
      BY <1>2 DEF CountersMatch
    <3> QED
      BY SMTT(60), <1>1, <1>3, <2>1, <3>1, <3>2
  <2>2. CASE i # k + 1
    <3>1. i \in 1..k
      BY SMTT(60), <1>1, <2>2
    <3>2. a[i] = s[i] /\ s[i] # x /\ s[i] \in Tms
      BY <1>0, <1>1, <3>1 DEF Elems
    <3>3. m[a[i]] = n[s[i]]
      BY <1>0, <3>2
    <3>4. /\ Earlier(a, i, ApidOf) = Earlier(s, i, ApidOf)
          /\ Earlier(a, i, ServiceOf) = Earlier(s, i, ServiceOf)
      <4>1. i \in 1..Len(s)
        BY <1>0, <3>1
      <4>2. ASSUME NEW f PROVE Earlier(Append(s, x), i, f) = Earlier(s, i, f)
        BY <4>1, EarlierAppend
      <4> QED
        BY <1>0, <4>2
    <3>5. /\ n[s[i]].seq = Cardinality(Earlier(s, i, ApidOf)) % (MaxSeqCount + 1)
          /\ n[s[i]].msg = Cardinality(Earlier(s, i, ServiceOf)) % (MaxMsgCount + 1)
      BY <1>0, <3>1 DEF CountedIn
    <3> QED
      BY <3>3, <3>4, <3>5
  <2> QED
    BY <2>1, <2>2
<1>5. CountedIn(a, m)
  BY <1>1, <1>4 DEF CountedIn
<1>6. MaxSeqCount \in Nat /\ MaxMsgCount \in Nat
  BY FunnelAssumption
<1>7. /\ c.seq \in [Apids -> 0..MaxSeqCount] /\ c.msg \in [Services -> 0..MaxMsgCount]
      /\ AfterPacket(c, x).seq =
            [c.seq EXCEPT ![ApidOf[x]] = Increment(c.seq[ApidOf[x]], MaxSeqCount)]
      /\ AfterPacket(c, x).msg =
            [c.msg EXCEPT ![ServiceOf[x]] = Increment(c.msg[ServiceOf[x]], MaxMsgCount)]
  BY DEF Counters, AfterPacket
<1>8. ASSUME NEW v \in Apids
      PROVE  AfterPacket(c, x).seq[v] = Cardinality(With(a, ApidOf, v)) % (MaxSeqCount + 1)
  <2>1. PICK e, d : e = Cardinality(With(s, ApidOf, v)) /\ d = Cardinality(With(a, ApidOf, v))
    OBVIOUS
  <2>2. e \in Nat /\ d = IF ApidOf[x] = v THEN e + 1 ELSE e
    BY SMTT(60), <1>0, <2>1, WithAppend
  <2>3. c.seq[v] = e % (MaxSeqCount + 1)
    BY <2>1 DEF CountersMatch
  <2>4. (e + 1) % (MaxSeqCount + 1) = Increment(e % (MaxSeqCount + 1), MaxSeqCount)
    BY <1>6, <2>2, ModIncrement
  <2>5. AfterPacket(c, x).seq[v]
          = IF ApidOf[x] = v THEN Increment(c.seq[v], MaxSeqCount) ELSE c.seq[v]
    BY <1>2, <1>7
  <2> QED
    BY <2>1, <2>2, <2>3, <2>4, <2>5
<1>9. ASSUME NEW v \in Services
      PROVE  AfterPacket(c, x).msg[v] = Cardinality(With(a, ServiceOf, v)) % (MaxMsgCount + 1)
  <2>1. PICK e, d : e = Cardinality(With(s, ServiceOf, v)) /\ d = Cardinality(With(a, ServiceOf, v))
    OBVIOUS
  <2>2. e \in Nat /\ d = IF ServiceOf[x] = v THEN e + 1 ELSE e
    BY SMTT(60), <1>0, <2>1, WithAppend
  <2>3. c.msg[v] = e % (MaxMsgCount + 1)
    BY <2>1 DEF CountersMatch
  <2>4. (e + 1) % (MaxMsgCount + 1) = Increment(e % (MaxMsgCount + 1), MaxMsgCount)
    BY <1>6, <2>2, ModIncrement
  <2>5. AfterPacket(c, x).msg[v]
          = IF ServiceOf[x] = v THEN Increment(c.msg[v], MaxMsgCount) ELSE c.msg[v]
    BY <1>2, <1>7
  <2> QED
    BY <2>1, <2>2, <2>3, <2>4, <2>5
<1> QED
  BY <1>0, <1>5, <1>8, <1>9 DEF CountersMatch

\* What is counted is counted in its beginnings.
LEMMA CountedBegins ==
    ASSUME NEW s \in Seq(Tms), NEW t \in Seq(Tms), NEW n, Begins(s, t), CountedIn(t, n)
    PROVE  CountedIn(s, n)
<1>1. /\ Len(s) \in Nat /\ Len(t) \in Nat /\ Len(s) <= Len(t)
      /\ \A i \in 1..Len(s) : s[i] = t[i]
  BY SeqDomain DEF Begins
<1>2. ASSUME NEW i \in 1..Len(s), NEW f PROVE Earlier(s, i, f) = Earlier(t, i, f)
  <2>1. \A j \in 1..(i - 1) : j \in 1..Len(s)
    BY SMTT(60), <1>1
  <2> QED
    BY <1>1, <2>1 DEF Earlier
<1>3. \A i \in 1..Len(s) : i \in 1..Len(t)
  BY SMTT(60), <1>1
<1> QED
  BY <1>1, <1>2, <1>3 DEF CountedIn

\* The first part of a concatenation, and its length.
LEMMA CatBegins ==
    ASSUME NEW S, NEW s \in Seq(S), NEW r \in Seq(S)
    PROVE  /\ Len(s) \in Nat /\ Len(r) \in Nat
           /\ Len(Cat(s, r)) = Len(s) + Len(r)
           /\ \A i \in 1..Len(s) : Cat(s, r)[i] = s[i]
<1>0. PICK c : c = s \o r
  OBVIOUS
<1>1. /\ Len(c) = Len(s) + Len(r)
      /\ \A i \in 1..(Len(s) + Len(r)) : c[i] = IF i <= Len(s) THEN s[i] ELSE r[i - Len(s)]
  BY <1>0, Concatenated
<1>2. Len(s) \in Nat /\ Len(r) \in Nat
  BY SeqDomain
<1> QED
  BY SMTT(60), <1>0, <1>1, <1>2 DEF Cat

\* A shorter beginning of a sequence is a beginning of a longer one.
LEMMA BeginsCat ==
    ASSUME NEW S, NEW s \in Seq(S), NEW r \in Seq(S), NEW t \in Seq(S), NEW q \in Seq(S),
           Cat(s, r) = Cat(t, q), Len(q) <= Len(r)
    PROVE  Begins(s, t)
<1>1. /\ Len(s) \in Nat /\ Len(t) \in Nat /\ Len(r) \in Nat /\ Len(q) \in Nat
      /\ Len(s) + Len(r) = Len(t) + Len(q)
  BY CatBegins
<1>2. Len(s) <= Len(t) /\ \A i \in 1..Len(s) : i \in 1..Len(t)
  BY SMTT(60), <1>1
<1>3. \A i \in 1..Len(s) : Cat(s, r)[i] = s[i]
  BY CatBegins
<1>4. \A i \in 1..Len(t) : Cat(t, q)[i] = t[i]
  BY CatBegins
<1> QED
  BY <1>2, <1>3, <1>4 DEF Begins

\* A sequence begins with itself, and does so when it is continued.
LEMMA BeginsOwn ==
    ASSUME NEW S, NEW s \in Seq(S), NEW r \in Seq(S)
    PROVE  Begins(s, Cat(s, r)) /\ Begins(s, s)
<1>1. /\ Len(s) \in Nat /\ Len(r) \in Nat /\ Len(Cat(s, r)) = Len(s) + Len(r)
      /\ \A i \in 1..Len(s) : Cat(s, r)[i] = s[i]
  BY CatBegins
<1>2. Begins(s, Cat(s, r))
  BY SMTT(60), <1>1 DEF Begins
<1>3. Begins(s, s)
  BY SMTT(60), <1>1 DEF Begins
<1> QED
  BY <1>2, <1>3

-----------------------------------------------------------------------------
(* The counters that the client sees                                       *)

\* The packets that were put into the server queue, and those that got their
\* counters, in that order.
Delivered == Cat(to_tcp, IF sink_pc = "add_tm" THEN Single(sink_tm) ELSE << >>)
Processed == Cat(Delivered, IF sink_pc = "send" THEN Single(sink_tm) ELSE << >>)

\* The inductive invariant behind ClientSeesCounters: the sink processes the
\* packets in the order of arrival, and each of them once; those it processed
\* are counted, and so are its counters; and the client got the first of those
\* that were put into the server queue.
CountersInv ==
    /\ ~Poisoned => arrived = Cat(Cat(Delivered, HeldBySink), funnel)
    /\ CountedIn(Processed, counts)
    /\ ~Poisoned => CountersMatch(Processed, counters)
    /\ Begins(sent, Delivered)

\* The sequences of the invariant.
LEMMA CountersTypes ==
    ASSUME Inductive
    PROVE  /\ to_tcp \in Seq(Tms) /\ Delivered \in Seq(Tms) /\ Processed \in Seq(Tms)
           /\ HeldBySink \in Seq(Tms) /\ funnel \in Seq(Tms) /\ sent \in Seq(Tms)
           /\ Cat(Delivered, HeldBySink) \in Seq(Tms)
           /\ << >> \in Seq(Tms)
           /\ sink_pc \in {"lock", "send", "add_tm"} =>
                 /\ sink_tm \in Tms /\ Single(sink_tm) \in Seq(Tms)
                 /\ sink_pc # "add_tm" => HeldBySink = Single(sink_tm)
           /\ sink_pc \notin {"lock", "send"} => HeldBySink = << >>
<1>1. TypeOK /\ ThreadsSound
  BY DEF Inductive
<1>2. /\ to_tcp \in Seq(Tms) /\ HeldBySink \in Seq(Tms) /\ funnel \in Seq(Tms)
      /\ sent \in Seq(Tms) /\ << >> \in Seq(Tms)
  BY SMTT(60), <1>1, FlowParts DEF TypeOK
<1>3. sink_pc \in {"lock", "send", "add_tm"} => sink_tm \in Tms
  BY <1>1 DEF TypeOK, ThreadsSound
<1>4. sink_pc \in {"lock", "send", "add_tm"} => Single(sink_tm) \in Seq(Tms)
  BY <1>3, CatFacts
<1>5. sink_pc \in {"lock", "send"} => HeldBySink = Single(sink_tm)
  BY <1>3, PipelineAssumption DEF HeldBySink, Held, Single
<1>6. sink_pc \notin {"lock", "send"} => HeldBySink = << >>
  BY <1>1 DEF HeldBySink, Held, ThreadsSound, TypeOK
<1>7. Delivered \in Seq(Tms)
  BY <1>2, <1>4, CatFacts DEF Delivered
<1>8. Processed \in Seq(Tms)
  BY <1>2, <1>4, <1>7, CatFacts DEF Processed
<1>9. Cat(Delivered, HeldBySink) \in Seq(Tms)
  BY <1>2, <1>7, CatFacts
<1> QED
  BY <1>2, <1>3, <1>4, <1>5, <1>6, <1>7, <1>8, <1>9

\* s continued by g, k and f is d continued by k and f: then d begins with s.
LEMMA SentBegins ==
    ASSUME NEW S, NEW s \in Seq(S), NEW d \in Seq(S), NEW k \in Seq(S), NEW f \in Seq(S),
           NEW g \in Seq(S), Cat(s, Cat(Cat(g, k), f)) = Cat(Cat(d, k), f)
    PROVE  Begins(s, d)
<1>1. Cat(k, f) \in Seq(S) /\ Cat(g, k) \in Seq(S)
  BY CatFacts
<1>2. Cat(Cat(d, k), f) = Cat(d, Cat(k, f)) /\ Cat(Cat(g, k), f) \in Seq(S)
  BY SMTT(60), <1>1, CatFacts
<1>3. Len(Cat(k, f)) <= Len(Cat(Cat(g, k), f))
  <2>1. /\ Len(k) \in Nat /\ Len(f) \in Nat /\ Len(g) \in Nat
        /\ Len(Cat(k, f)) = Len(k) + Len(f) /\ Len(Cat(g, k)) = Len(g) + Len(k)
    BY CatBegins
  <2>2. Len(Cat(Cat(g, k), f)) = Len(Cat(g, k)) + Len(f)
    BY <1>1, CatBegins
  <2> QED
    BY SMTT(60), <2>1, <2>2
<1> QED
  BY <1>1, <1>2, <1>3, BeginsCat

\* A step that processes no packet and neither sends nor delivers one.
LEMMA CountersInvStays ==
    ASSUME CountersInv,
           UNCHANGED <<sink_pc, Delivered, Processed, HeldBySink, counts, counters, sent>>,
           ~Poisoned => \/ UNCHANGED <<arrived, funnel>>
                        \/ arrived' = Cat(Cat(Delivered, HeldBySink), funnel')
    PROVE  CountersInv'
BY DEF CountersInv, Poisoned

\* The sink processes a packet that it never processed before, ...
LEMMA SinkProcessCounts ==
    ASSUME Inductive, BlocksInv, CountersInv, SinkProcess
    PROVE  CountersInv'
<1>1. /\ sink_pc = "lock" /\ sink_pc' = "send"
      /\ UNCHANGED <<to_tcp, sink_tm, arrived, funnel, sent>>
      /\ counts' = [counts EXCEPT ![sink_tm] = CountsFor(counters, sink_tm)]
      /\ counters' = AfterPacket(counters, sink_tm)
  BY DEF SinkProcess, udp_vars
<1>2. ~Poisoned /\ HeldBySink' = HeldBySink
  BY <1>1 DEF Poisoned, HeldBySink, Held
<1>3. /\ Delivered \in Seq(Tms) /\ sink_tm \in Tms /\ Single(sink_tm) \in Seq(Tms)
      /\ HeldBySink = Single(sink_tm) /\ funnel \in Seq(Tms) /\ to_tcp \in Seq(Tms)
      /\ Cat(Delivered, HeldBySink) \in Seq(Tms)
  BY <1>1, CountersTypes
<1>4. Delivered' = Delivered /\ Processed = Delivered /\ Processed' = Append(Processed, sink_tm)
  <2>1. Delivered' = Delivered
    BY <1>1 DEF Delivered
  <2>2. Processed = Cat(Delivered, << >>) /\ Processed' = Cat(Delivered', Single(sink_tm))
    BY <1>1 DEF Processed
  <2>3. Cat(Delivered, << >>) = Delivered
    BY <1>3, CatFacts
  <2>4. Append(Delivered, sink_tm) = Cat(Delivered, Single(sink_tm))
    BY <1>3, AppendIsCat
  <2> QED
    BY <2>1, <2>2, <2>3, <2>4
<1>5. sink_tm \notin Elems(Processed)
  <2>1. Distinct(Cat(Cat(Delivered, HeldBySink), funnel))
    BY <1>2 DEF CountersInv, BlocksInv, ArrivedOnce
  <2>2. Distinct(Cat(Delivered, HeldBySink))
    BY <1>3, <2>1, DistinctParts
  <2>3. Elems(Delivered) \cap Elems(Single(sink_tm)) = {}
    BY <1>3, <2>2, DistinctParts
  <2> QED
    BY <1>4, <2>3, ElemsOfFew
<1>6. counts \in [Tms -> Counts] /\ counters \in Counters
  BY DEF Inductive, TypeOK
<1>7. CountedIn(Processed, counts) /\ CountersMatch(Processed, counters)
  BY <1>2 DEF CountersInv
<1>8. CountedIn(Processed', counts') /\ CountersMatch(Processed', counters')
  <2>1. PICK s : s = Processed
    OBVIOUS
  <2>2. s \in Seq(Tms)
    BY <1>3, <1>4, <2>1
  <2>3. /\ CountedIn(Append(s, sink_tm), [counts EXCEPT ![sink_tm] = CountsFor(counters, sink_tm)])
        /\ CountersMatch(Append(s, sink_tm), AfterPacket(counters, sink_tm))
    BY <1>3, <1>5, <1>6, <1>7, <2>1, <2>2, ProcessCounted
  <2> QED
    BY <1>1, <1>4, <2>1, <2>3
<1> QED
  BY <1>1, <1>2, <1>4, <1>8 DEF CountersInv

\* ... takes the first packet of its queue, ...
LEMMA SinkRecvCounts ==
    ASSUME Inductive, CountersInv, SinkRecv
    PROVE  CountersInv'
<1>1. /\ sink_pc = "recv" /\ sink_pc' = "lock" /\ funnel # << >>
      /\ sink_tm' = Head(funnel) /\ funnel' = Tail(funnel)
      /\ UNCHANGED <<to_tcp, arrived, sent, counts, counters>>
  BY DEF SinkRecv, udp_vars
<1>2. Delivered' = Delivered /\ Processed' = Processed
  BY <1>1 DEF Delivered, Processed
<1>3. /\ Head(funnel) \in Tms /\ Tail(funnel) \in Seq(Tms)
      /\ funnel = Cat(Single(Head(funnel)), Tail(funnel))
      /\ Delivered \in Seq(Tms) /\ HeldBySink = << >>
  BY <1>1, CountersTypes, TakeIsCat
<1>4. HeldBySink' = Single(Head(funnel))
  BY <1>1, <1>3, PipelineAssumption DEF HeldBySink, Held, Single
<1>5. PICK d, v, r : d = Delivered /\ v = Single(Head(funnel)) /\ r = Tail(funnel)
  OBVIOUS
<1>6. Cat(Cat(d, v), r) = Cat(Cat(d, << >>), Cat(v, r))
  <2>1. d \in Seq(Tms) /\ v \in Seq(Tms) /\ r \in Seq(Tms)
    BY <1>3, <1>5, CatFacts
  <2> QED
    BY SMTT(60), <2>1, TakeKeepsFlow
<1>7. arrived' = Cat(Cat(Delivered', HeldBySink'), funnel')
  <2>1. arrived = Cat(Cat(Delivered, HeldBySink), funnel)
    BY <1>1 DEF CountersInv, Poisoned
  <2> QED
    BY <1>1, <1>2, <1>3, <1>4, <1>5, <1>6, <2>1
<1> QED
  BY <1>1, <1>2, <1>7 DEF CountersInv, Poisoned

\* ... delivers the packet in its hands, ...
LEMMA SinkSendCounts ==
    ASSUME Inductive, CountersInv, SinkSend
    PROVE  CountersInv'
<1>1. /\ sink_pc = "send" /\ sink_pc' = "add_tm"
      /\ UNCHANGED <<to_tcp, sink_tm, arrived, funnel, sent, counts, counters>>
  BY DEF SinkSend, udp_vars
<1>2. /\ to_tcp \in Seq(Tms) /\ sink_tm \in Tms /\ Single(sink_tm) \in Seq(Tms)
      /\ HeldBySink = Single(sink_tm) /\ funnel \in Seq(Tms) /\ Delivered \in Seq(Tms)
      /\ sent \in Seq(Tms)
  BY <1>1, CountersTypes
<1>3. Delivered = to_tcp /\ Delivered' = Cat(to_tcp, Single(sink_tm)) /\ HeldBySink' = << >>
  BY <1>1, <1>2, CatFacts DEF Delivered, HeldBySink
<1>4. Cat(Delivered', << >>) = Delivered' /\ Delivered' \in Seq(Tms)
  BY SMTT(60), <1>2, <1>3, CatFacts
<1>5. Processed' = Delivered' /\ Processed = Delivered'
  BY <1>1, <1>3, <1>4 DEF Processed
<1>6. arrived = Cat(Cat(Delivered, HeldBySink), funnel) /\ CountersMatch(Processed, counters)
  BY <1>1 DEF CountersInv, Poisoned
<1>7. arrived' = Cat(Cat(Delivered', HeldBySink'), funnel')
  BY <1>1, <1>2, <1>3, <1>4, <1>6
<1>8. Begins(sent, Delivered')
  <2>1. PICK d, r : d = Delivered /\ r = Cat(d, Single(sink_tm))
    OBVIOUS
  <2>2. Begins(sent, d) /\ Begins(d, r) /\ r = Delivered'
    BY <1>2, <1>3, <2>1, BeginsOwn DEF CountersInv
  <2>3. Len(sent) \in Nat /\ Len(d) \in Nat /\ Len(r) \in Nat
    BY <1>2, <1>3, <1>4, <2>1, SeqDomain
  <2> QED
    BY SMTT(60), <2>2, <2>3 DEF Begins
<1> QED
  BY <1>1, <1>5, <1>6, <1>7, <1>8 DEF CountersInv

\* ... hands it to the TCP server, ...
LEMMA SinkAddTmCounts ==
    ASSUME Inductive, CountersInv, SinkAddTm
    PROVE  CountersInv'
<1>1. /\ sink_pc = "add_tm" /\ sink_pc' = "recv" /\ sink_tm' = NoTm
      /\ to_tcp' = Append(to_tcp, sink_tm)
      /\ UNCHANGED <<arrived, funnel, sent, counts, counters>>
  BY DEF SinkAddTm, udp_vars
<1>2. to_tcp \in Seq(Tms) /\ sink_tm \in Tms /\ Delivered \in Seq(Tms)
  BY <1>1, CountersTypes
<1>3. Delivered = to_tcp' /\ HeldBySink = << >> /\ HeldBySink' = << >>
  BY <1>1, <1>2, AppendIsCat DEF Delivered, HeldBySink, Held
<1>4. Cat(Delivered, << >>) = Delivered
  BY <1>2, CatFacts
<1>5. Delivered' = Delivered
  BY <1>1, <1>3, <1>4 DEF Delivered
<1>6. Processed' = Processed
  BY <1>1, <1>5 DEF Processed
<1> QED
  BY <1>1, <1>3, <1>5, <1>6 DEF CountersInv, Poisoned

\* ... or panics before it delivers the packet.
LEMMA SinkPanicsCounts ==
    ASSUME Inductive, CountersInv, SinkPanics
    PROVE  CountersInv'
<1>1. /\ sink_pc = "send" /\ sink_pc' = "panicked"
      /\ UNCHANGED <<to_tcp, arrived, sent, counts, counters>>
  BY DEF SinkPanics, udp_vars
<1>2. Delivered \in Seq(Tms) /\ Processed \in Seq(Tms) /\ Single(sink_tm) \in Seq(Tms)
  BY <1>1, CountersTypes
<1>3. Delivered' = Delivered
  BY <1>1 DEF Delivered
<1>4. Processed' = Delivered /\ Processed = Cat(Delivered, Single(sink_tm))
  BY <1>1, <1>2, <1>3, CatFacts DEF Processed
<1>5. CountedIn(Delivered, counts)
  <2>1. Begins(Delivered, Processed)
    BY <1>2, <1>4, BeginsOwn
  <2>2. CountedIn(Processed, counts)
    BY DEF CountersInv
  <2> QED
    BY <1>2, <2>1, <2>2, CountedBegins
<1> QED
  BY <1>1, <1>3, <1>4, <1>5 DEF CountersInv, Poisoned

\* A packet that arrives is the last for the sink.
LEMMA TrySendCounts ==
    ASSUME Inductive, CountersInv, NEW tm \in Tms, TrySend(tm),
           UNCHANGED <<sink_pc, sink_tm, to_tcp, counts, counters, sent>>
    PROVE  CountersInv'
<1>1. UNCHANGED <<Delivered, HeldBySink>>
  BY DEF Delivered, HeldBySink, Held
<1>2. UNCHANGED Processed
  BY <1>1 DEF Processed
<1>3. ASSUME ~Poisoned, ~UNCHANGED <<arrived, funnel>>
      PROVE  arrived' = Cat(Cat(Delivered, HeldBySink), funnel')
  <2>1. arrived' = Append(arrived, tm) /\ funnel' = Append(funnel, tm)
    BY <1>3 DEF TrySend
  <2>2. PICK g, f, v : g = Cat(Delivered, HeldBySink) /\ f = funnel /\ v = Single(tm)
    OBVIOUS
  <2>3. g \in Seq(Tms) /\ f \in Seq(Tms) /\ v \in Seq(Tms)
    BY <2>2, CountersTypes, CatFacts
  <2>4. arrived = Cat(g, f) /\ arrived \in Seq(Tms)
    BY <1>3, <2>2 DEF CountersInv, Inductive, TypeOK
  <2>5. Append(arrived, tm) = Cat(arrived, v) /\ Append(f, tm) = Cat(f, v)
    BY <2>2, <2>3, <2>4, AppendIsCat
  <2>6. Cat(Cat(g, f), v) = Cat(g, Cat(f, v))
    BY SMTT(60), <2>3, CatFacts
  <2> QED
    BY <2>1, <2>2, <2>4, <2>5, <2>6
<1> QED
  BY <1>1, <1>2, <1>3, CountersInvStays

\* The client gets the next of the packets that were put into the server queue.
LEMMA UdpSendCounts ==
    ASSUME Inductive, Inductive', CountersInv, UdpSendTm
    PROVE  CountersInv'
<1>1. UNCHANGED <<sink_pc, sink_tm, to_tcp, counts, counters, arrived, funnel>>
  BY DEF UdpSendTm, sink_vars
<1>2. UNCHANGED <<Delivered, HeldBySink>>
  BY <1>1 DEF Delivered, HeldBySink, Held
<1>3. UNCHANGED Processed
  BY <1>1, <1>2 DEF Processed
<1>4. ~Poisoned /\ udp_pc' = "drain"
  BY DEF UdpSendTm, Inductive, ThreadsSound
<1>5. Begins(sent', Delivered')
  <2>1. arrived' = Cat(sent', Flow')
    BY <1>4 DEF Inductive, FlowInv
  <2>2. PICK s, d, k, f, g : /\ s = sent' /\ d = Delivered /\ k = HeldBySink /\ f = funnel
                             /\ g = Cat(HeldByUdp', server')
    OBVIOUS
  <2>3. Flow' = Cat(Cat(g, k), f)
    BY <1>1, <1>2, <2>2 DEF Flow
  <2>4. arrived = Cat(Cat(d, k), f)
    BY <1>4, <2>2 DEF CountersInv
  <2>5. d \in Seq(Tms) /\ k \in Seq(Tms) /\ f \in Seq(Tms)
    BY <2>2, CountersTypes
  <2>6. s \in Seq(Tms) /\ HeldByUdp' \in Seq(Tms) /\ server' \in Seq(Tms)
    BY SMTT(60), <2>2 DEF Inductive, TypeOK, HeldByUdp, Held
  <2>7. g \in Seq(Tms)
    BY <2>2, <2>6, CatFacts
  <2>8. Cat(s, Cat(Cat(g, k), f)) = Cat(Cat(d, k), f)
    BY <1>1, <2>1, <2>2, <2>3, <2>4
  <2>9. Begins(s, d)
    BY <2>5, <2>6, <2>7, <2>8, SentBegins
  <2> QED
    BY <1>2, <2>2, <2>9
<1> QED
  BY <1>1, <1>2, <1>3, <1>5 DEF CountersInv, Poisoned

\* The other steps leave the sink and its packets alone.
LEMMA OtherCounts ==
    ASSUME CountersInv,
           \/ \E p \in Producers : ProducerStore(p)
           \/ UdpPollTc \/ UdpPollEmpty \/ UdpTakeTm \/ UdpDrained \/ NoTcToHandle \/ HandleTc
           \/ AcceptStore \/ RejectStore
           \/ TcpTakeTm \/ TcpRecvTc \/ UNCHANGED vars
    PROVE  CountersInv'
<1>1. UNCHANGED <<sink_pc, sink_tm, to_tcp, counts, counters, arrived, funnel, sent>>
  <2>1. CASE \E p \in Producers : ProducerStore(p)
    BY <2>1 DEF ProducerStore, sink_vars, udp_vars
  <2>2. CASE UdpPollTc \/ UdpPollEmpty \/ UdpTakeTm \/ UdpDrained \/ NoTcToHandle \/ HandleTc
    BY <2>2 DEF UdpPollTc, UdpPollEmpty, UdpTakeTm, UdpDrained, NoTcToHandle, HandleTc,
                udp_rest, sink_vars
  <2>3. CASE AcceptStore \/ RejectStore
    BY <2>3 DEF AcceptStore, RejectStore, sink_vars
  <2>4. CASE TcpTakeTm \/ TcpRecvTc \/ UNCHANGED vars
    BY <2>4 DEF TcpTakeTm, TcpRecvTc, vars, udp_vars, udp_rest, sink_vars
  <2> QED
    BY <2>1, <2>2, <2>3, <2>4
<1>2. UNCHANGED <<Delivered, HeldBySink>>
  BY <1>1 DEF Delivered, HeldBySink, Held
<1>3. UNCHANGED Processed
  BY <1>1, <1>2 DEF Processed
<1> QED
  BY <1>1, <1>2, <1>3, CountersInvStays

\* The invariant holds initially ...
LEMMA InitCounts == Init => CountersInv
<1> SUFFICES ASSUME Init PROVE CountersInv
  OBVIOUS
<1>1. /\ sink_pc = "recv" /\ sink_tm = NoTm /\ counters = NewCounters
      /\ to_tcp = << >> /\ arrived = << >> /\ sent = << >> /\ funnel = << >>
  BY DEF Init
<1>2. Cat(<< >>, << >>) = << >>
  BY SMTT(60) DEF Cat
<1>3. Delivered = << >> /\ Processed = << >> /\ HeldBySink = << >>
  BY <1>1, <1>2 DEF Delivered, Processed, HeldBySink, Held
<1>4. \A f, v : Cardinality(With(<< >>, f, v)) = 0
  BY SMTT(60), FS_EmptySet DEF With
<1>5. 0 % (MaxSeqCount + 1) = 0 /\ 0 % (MaxMsgCount + 1) = 0
  BY SMTT(60), FunnelAssumption
<1>6. CountersMatch(<< >>, counters)
  BY <1>1, <1>4, <1>5 DEF CountersMatch, NewCounters
<1>7. \A n : CountedIn(<< >>, n)
  BY SMTT(60) DEF CountedIn
<1>8. Begins(<< >>, << >>)
  BY SMTT(60) DEF Begins
<1> QED
  BY <1>1, <1>2, <1>3, <1>6, <1>7, <1>8 DEF CountersInv

\* ... and is kept by every step.
LEMMA NextCounts ==
    Inductive /\ Inductive' /\ BlocksInv /\ CountersInv /\ [Next]_vars => CountersInv'
<1> SUFFICES ASSUME Inductive, Inductive', BlocksInv, CountersInv, [Next]_vars
             PROVE  CountersInv'
  OBVIOUS
<1>1. ASSUME NEW p \in Producers, ProducerSend(p) PROVE CountersInv'
  <2>1. /\ producer[p] \in Tms /\ TrySend(producer[p])
        /\ UNCHANGED <<sink_pc, sink_tm, to_tcp, counts, counters, sent>>
    BY <1>1 DEF ProducerSend, sink_vars, udp_vars, Inductive, TypeOK
  <2> QED
    BY <2>1, TrySendCounts
<1>2. ASSUME AcceptSend \/ RejectSend PROVE CountersInv'
  <2>1. /\ udp_tm \in Tms /\ UNCHANGED <<sink_pc, sink_tm, to_tcp, counts, counters, sent>>
        /\ TrySend(udp_tm) \/ UNCHANGED <<arrived, funnel>>
    BY <1>2 DEF AcceptSend, RejectSend, sink_vars, Inductive, TypeOK, ThreadsSound
  <2>2. CASE TrySend(udp_tm)
    BY <2>1, <2>2, TrySendCounts
  <2>3. CASE UNCHANGED <<arrived, funnel>>
    <3>1. UNCHANGED <<Delivered, HeldBySink>>
      BY <2>1 DEF Delivered, HeldBySink, Held
    <3>2. UNCHANGED Processed
      BY <2>1, <3>1 DEF Processed
    <3> QED
      BY <2>1, <2>3, <3>1, <3>2, CountersInvStays
  <2> QED
    BY <2>1, <2>2, <2>3
<1>3. CASE Sink
  BY <1>3, SinkRecvCounts, SinkProcessCounts, SinkSendCounts, SinkAddTmCounts, SinkPanicsCounts
  DEF Sink
<1>4. CASE UdpSendTm
  BY <1>4, UdpSendCounts
<1> QED
  BY <1>1, <1>2, <1>3, <1>4, OtherCounts DEF Next, Udp

\* For every number of packets, APIDs and services, every width of the counters,
\* and every number of threads: the client sees the counters of each APID and of
\* each service without a gap.
THEOREM CountersWithoutGap == Spec => []ClientSeesCounters
<1>1. ASSUME Inductive, CountersInv PROVE ClientSeesCounters
  <2>1. Delivered \in Seq(Tms) /\ Processed \in Seq(Tms) /\ sent \in Seq(Tms)
    BY <1>1, CountersTypes
  <2>2. Begins(Delivered, Processed)
    <3>1. PICK r \in Seq(Tms) : Processed = Cat(Delivered, r)
      BY <1>1, CountersTypes DEF Processed
    <3> QED
      BY <2>1, <3>1, BeginsOwn
  <2>3. Begins(sent, Delivered) /\ CountedIn(Processed, counts)
    BY <1>1 DEF CountersInv
  <2>4. CountedIn(Delivered, counts)
    BY <2>1, <2>2, <2>3, CountedBegins
  <2>5. CountedIn(sent, counts)
    BY <2>1, <2>3, <2>4, CountedBegins
  <2> QED
    BY <2>5 DEF ClientSeesCounters
<1>2. Inductive /\ CountersInv => ClientSeesCounters
  BY <1>1
<1> QED
  BY <1>2, InitInductive, NextInductive, InitBlocks, NextBlocks, InitCounts, NextCounts, PTL
  DEF Spec

-----------------------------------------------------------------------------
(* The telemetry path on the heap                                          *)

Dynamic == INSTANCE TmPipelineDynamic

\* What both modules take from TmFunnel is the same.
LEMMA DynamicFunnel ==
    /\ Dynamic!Tms = Tms /\ Dynamic!NoCounts = NoCounts
    /\ Dynamic!NewCounters = NewCounters
    /\ \A c, tm : /\ Dynamic!CountsFor(c, tm) = CountsFor(c, tm)
                  /\ Dynamic!AfterPacket(c, tm) = AfterPacket(c, tm)
    /\ \A q, tm : Dynamic!AddTm(q, tm) = AddTm(q, tm)
    /\ \A s, n : Dynamic!CountedIn(s, n) <=> CountedIn(s, n)
<1>1. Dynamic!Tms = Tms
  BY DEF Dynamic!Tms, Tms
<1>2. Dynamic!NoCounts = NoCounts
  BY DEF Dynamic!NoCounts, NoCounts
<1>3. Dynamic!NewCounters = NewCounters
  BY <1>1 DEF Dynamic!NewCounters, NewCounters, Dynamic!Apids, Apids, Dynamic!Services, Services
<1>4. \A c, tm : Dynamic!CountsFor(c, tm) = CountsFor(c, tm)
  BY DEF Dynamic!CountsFor, CountsFor
<1>5. \A c, tm : Dynamic!AfterPacket(c, tm) = AfterPacket(c, tm)
  BY DEF Dynamic!AfterPacket, AfterPacket, Dynamic!Increment, Increment
<1>6. \A q, tm : Dynamic!AddTm(q, tm) = AddTm(q, tm)
  BY DEF Dynamic!AddTm, AddTm
<1>7. \A s, n : Dynamic!CountedIn(s, n) <=> CountedIn(s, n)
  <2>1. \A s, i, f : Dynamic!Earlier(s, i, f) = Earlier(s, i, f)
    BY DEF Dynamic!Earlier, Earlier
  <2>2. \A S : Dynamic!Cardinality(S) = Cardinality(S)
    BY DEF Dynamic!Cardinality, Cardinality
  <2> QED
    BY <2>1, <2>2 DEF Dynamic!CountedIn, CountedIn
<1> QED
  BY <1>1, <1>2, <1>3, <1>4, <1>5, <1>6, <1>7

\* The inductive invariant of the path on the heap.  The packets arrive in the
\* order of their numbers, so none arrives twice; what the sink has processed is
\* what was sent, what waits for the client and what it has yet to send.
DynamicTypes ==
    /\ created \in Nat /\ tcs \in Nat /\ received \in 0..MaxTc
    /\ udp_pc \in {"poll", "drain", "tc", "accept", "reject"}
    /\ counts \in [Tms -> Counts] /\ counters \in Counters
    /\ sink_tm \in Tms \cup {NoTm}
    /\ funnel \in Seq(Tms) /\ server \in Seq(Tms) /\ to_tcp \in Seq(Tms)
    /\ arrived \in Seq(Tms) /\ sent \in Seq(Tms)
DynamicFlow ==
    /\ arrived = Cat(to_tcp, funnel)
    /\ to_tcp = Cat(Cat(sent, server), Held(sink_tm))
DynamicOrder == Len(arrived) = created /\ \A i \in 1..created : arrived[i] = i
DynamicCounts == CountedIn(to_tcp, counts) /\ CountersMatch(to_tcp, counters)

DynamicInv ==
    DynamicTypes /\ BoundSound /\ DynamicFlow /\ DynamicOrder /\ DynamicCounts

\* A new packet arrives as the last one.
LEMMA DynamicSendTm ==
    ASSUME DynamicTypes, DynamicFlow, DynamicOrder, Dynamic!SendTm, created + 1 \in Tms,
           UNCHANGED <<sent, server, sink_tm, to_tcp>>
    PROVE  /\ created' \in Nat /\ funnel' \in Seq(Tms) /\ arrived' \in Seq(Tms)
           /\ DynamicFlow' /\ DynamicOrder'
<1>0. PICK x \in Tms : x = created + 1
  OBVIOUS
<1>1. /\ created' = x /\ funnel' = Append(funnel, x) /\ arrived' = Append(arrived, x)
      /\ created \in Nat /\ funnel \in Seq(Tms) /\ arrived \in Seq(Tms)
      /\ to_tcp \in Seq(Tms)
  BY <1>0 DEF Dynamic!SendTm, DynamicTypes
<1>2. /\ funnel' \in Seq(Tms) /\ arrived' \in Seq(Tms)
      /\ Len(arrived') = Len(arrived) + 1 /\ arrived'[Len(arrived) + 1] = x
      /\ \A i \in 1..Len(arrived) : arrived'[i] = arrived[i]
  BY <1>1, Appended
<1>3. DynamicOrder'
  BY SMTT(60), <1>0, <1>1, <1>2 DEF DynamicOrder
<1>4. arrived' = Cat(to_tcp, funnel')
  <2>1. PICK v \in Seq(Tms) : v = Single(x)
    BY CatFacts
  <2>2. arrived' = Cat(arrived, v) /\ funnel' = Cat(funnel, v)
    BY <1>1, <2>1, AppendIsCat
  <2>3. Cat(Cat(to_tcp, funnel), v) = Cat(to_tcp, Cat(funnel, v))
    BY SMTT(60), <1>1, CatFacts
  <2> QED
    BY <2>2, <2>3 DEF DynamicFlow
<1>5. DynamicFlow'
  BY <1>4 DEF DynamicFlow
<1> QED
  BY SMTT(60), <1>0, <1>1, <1>2, <1>3, <1>5

\* The packets that arrived are numbered, so none of them arrives twice.
LEMMA DynamicDistinct ==
    ASSUME DynamicOrder PROVE Distinct(arrived)
BY DEF DynamicOrder, Distinct

\* The sink processes the first packet of its queue, ...
LEMMA DynamicSinkProcess ==
    ASSUME DynamicInv, Dynamic!SinkProcess
    PROVE  DynamicInv'
<1>0. PICK x, r : x = Head(funnel) /\ r = Tail(funnel)
  OBVIOUS
<1>1. /\ sink_tm = NoTm /\ funnel # << >> /\ sink_tm' = x /\ funnel' = r
      /\ counts' = [counts EXCEPT ![x] = CountsFor(counters, x)]
      /\ counters' = AfterPacket(counters, x)
      /\ to_tcp' = Append(to_tcp, x)
      /\ UNCHANGED <<created, server, arrived, sent, udp_pc, tcs, received>>
  BY <1>0, DynamicFunnel DEF Dynamic!SinkProcess, Dynamic!udp_vars, Dynamic!tc_vars
<1>2. /\ x \in Tms /\ r \in Seq(Tms) /\ funnel = Cat(Single(x), r)
      /\ Single(x) \in Seq(Tms)
  BY <1>0, <1>1, TakeIsCat, CatFacts DEF DynamicInv, DynamicTypes
<1>3. /\ to_tcp \in Seq(Tms) /\ sent \in Seq(Tms) /\ server \in Seq(Tms)
      /\ counts \in [Tms -> Counts] /\ counters \in Counters
  BY DEF DynamicInv, DynamicTypes
<1>4. to_tcp' = Cat(to_tcp, Single(x)) /\ to_tcp' \in Seq(Tms)
  <2>1. to_tcp' = Cat(to_tcp, Single(x))
    BY <1>1, <1>2, <1>3, AppendIsCat
  <2> QED
    BY <1>2, <1>3, <2>1, CatFacts
<1>5. DynamicTypes'
  <2>1. CountsFor(counters, x) \in Counts /\ AfterPacket(counters, x) \in Counters
    BY <1>2, <1>3, CountersStay
  <2> QED
    BY <1>1, <1>2, <1>4, <2>1 DEF DynamicInv, DynamicTypes
<1>6. BoundSound' /\ DynamicOrder'
  BY <1>1 DEF DynamicInv, BoundSound, ReportsDue, DynamicOrder
<1>7. DynamicFlow'
  <2>1. Cat(Cat(to_tcp, Single(x)), r) = Cat(to_tcp, Cat(Single(x), r))
    BY SMTT(60), <1>2, <1>3, CatFacts
  <2>2. Held(sink_tm) = << >> /\ Held(sink_tm') = Single(x)
    BY <1>1, <1>2, PipelineAssumption DEF Held, Single
  <2>3. Cat(sent, server) \in Seq(Tms)
    BY <1>3, CatFacts
  <2>4. to_tcp = Cat(sent, server)
    BY <2>2, <2>3, CatFacts DEF DynamicInv, DynamicFlow
  <2> QED
    BY <1>1, <1>2, <1>4, <2>1, <2>2, <2>4 DEF DynamicInv, DynamicFlow
<1>8. DynamicCounts'
  <2>1. x \notin Elems(to_tcp)
    <3>1. Distinct(Cat(to_tcp, funnel))
      BY DynamicDistinct DEF DynamicInv, DynamicFlow
    <3>2. Elems(to_tcp) \cap Elems(funnel) = {}
      BY <1>3, <3>1, DistinctParts DEF DynamicInv, DynamicTypes
    <3>3. x \in Elems(funnel)
      BY SMTT(60), <1>2, ElemsOfCat, ElemsOfFew
    <3> QED
      BY <3>2, <3>3
  <2>2. CountedIn(to_tcp, counts) /\ CountersMatch(to_tcp, counters)
    BY DEF DynamicInv, DynamicCounts
  <2>3. /\ CountedIn(Append(to_tcp, x), [counts EXCEPT ![x] = CountsFor(counters, x)])
        /\ CountersMatch(Append(to_tcp, x), AfterPacket(counters, x))
    BY <1>2, <1>3, <2>1, <2>2, ProcessCounted
  <2> QED
    BY <1>1, <2>3 DEF DynamicCounts
<1> QED
  BY <1>5, <1>6, <1>7, <1>8 DEF DynamicInv

\* ... and puts it into the server queue.
LEMMA DynamicSinkSend ==
    ASSUME DynamicInv, Dynamic!SinkSend
    PROVE  DynamicInv'
<1>1. /\ sink_tm # NoTm /\ sink_tm' = NoTm /\ server' = Append(server, sink_tm)
      /\ UNCHANGED <<created, funnel, arrived, counts, counters, to_tcp, sent, udp_pc,
                     tcs, received>>
  BY DEF Dynamic!SinkSend, Dynamic!udp_vars, Dynamic!tc_vars
<1>2. sink_tm \in Tms /\ server \in Seq(Tms) /\ sent \in Seq(Tms)
  BY <1>1 DEF DynamicInv, DynamicTypes
<1>3. PICK v \in Seq(Tms) : v = Single(sink_tm)
  BY <1>2, CatFacts
<1>4. server' = Cat(server, v)
  BY <1>1, <1>2, <1>3, AppendIsCat
<1>5. server' \in Seq(Tms)
  BY <1>2, <1>3, <1>4, CatFacts
<1>6. DynamicFlow'
  <2>1. Held(sink_tm) = v /\ Held(sink_tm') = << >>
    BY <1>1, <1>3 DEF Held, Single
  <2>2. Cat(Cat(sent, server), v) = Cat(sent, Cat(server, v))
    BY SMTT(60), <1>2, CatFacts
  <2>3. Cat(sent, server') \in Seq(Tms)
    BY <1>2, <1>5, CatFacts
  <2>4. Cat(Cat(sent, server'), << >>) = Cat(sent, server')
    BY <2>3, CatFacts
  <2> QED
    BY <1>1, <1>4, <2>1, <2>2, <2>4 DEF DynamicInv, DynamicFlow
<1> QED
  BY <1>1, <1>5, <1>6
  DEF DynamicInv, DynamicTypes, BoundSound, ReportsDue, DynamicOrder, DynamicCounts

\* The UDP server sends the first packet of the server queue, which is the next
\* one in the order of arrival.
LEMMA DynamicUdpSend ==
    ASSUME DynamicInv, Dynamic!UdpSendTm
    PROVE  /\ DynamicInv'
           /\ Len(sent) < Len(arrived) /\ sent' = Append(sent, arrived[Len(sent) + 1])
<1>0. PICK x, r : x = Head(server) /\ r = Tail(server)
  OBVIOUS
<1>1. /\ server # << >> /\ server' = r /\ sent' = Append(sent, x)
      /\ UNCHANGED <<created, funnel, arrived, counts, counters, to_tcp, sink_tm, udp_pc,
                     tcs, received>>
  BY <1>0 DEF Dynamic!UdpSendTm, Dynamic!sink_vars, Dynamic!tc_vars
<1>2. /\ server \in Seq(Tms) /\ sent \in Seq(Tms) /\ funnel \in Seq(Tms)
      /\ sink_tm \in Tms \cup {NoTm}
  BY DEF DynamicInv, DynamicTypes
<1>3. x \in Tms /\ r \in Seq(Tms) /\ server = Cat(Single(x), r)
  BY <1>0, <1>1, <1>2, TakeIsCat
<1>4. PICK v \in Seq(Tms) : v = Single(x)
  BY <1>3, CatFacts
<1>5. sent' = Cat(sent, v) /\ sent' \in Seq(Tms)
  <2>1. sent' = Cat(sent, v)
    BY <1>1, <1>2, <1>3, <1>4, AppendIsCat
  <2> QED
    BY <1>2, <2>1, CatFacts
<1>6. PICK h \in Seq(Tms) : h = Held(sink_tm)
  <2>1. Held(sink_tm) \in Seq(Tms)
    BY SMTT(60), <1>2 DEF Held
  <2> QED
    BY <2>1
<1>7. Cat(sent, Cat(v, r)) = Cat(Cat(sent, v), r)
  BY SMTT(60), <1>2, <1>3, CatFacts
<1>8. to_tcp = Cat(Cat(sent', r), h)
  BY <1>3, <1>4, <1>5, <1>6, <1>7 DEF DynamicInv, DynamicFlow
<1>9. DynamicInv'
  BY <1>1, <1>3, <1>5, <1>6, <1>8
  DEF DynamicInv, DynamicTypes, DynamicFlow, BoundSound, ReportsDue, DynamicOrder,
      DynamicCounts
<1>10. arrived = Cat(Cat(sent, v), Cat(r, Cat(h, funnel)))
  <2>1. Cat(h, funnel) \in Seq(Tms) /\ Cat(sent', r) \in Seq(Tms)
    BY <1>2, <1>3, <1>5, CatFacts
  <2>2. Cat(Cat(Cat(sent', r), h), funnel) = Cat(Cat(sent', r), Cat(h, funnel))
    BY SMTT(60), <1>2, <2>1, CatFacts
  <2>3. Cat(Cat(sent', r), Cat(h, funnel)) = Cat(sent', Cat(r, Cat(h, funnel)))
    BY SMTT(60), <1>3, <1>5, <2>1, CatFacts
  <2> QED
    BY <1>5, <1>8, <2>2, <2>3 DEF DynamicInv, DynamicFlow
<1>11. Cat(r, Cat(h, funnel)) \in Seq(Tms)
  <2>1. Cat(h, funnel) \in Seq(Tms)
    BY <1>2, CatFacts
  <2> QED
    BY <1>3, <2>1, CatFacts
<1>12. Len(sent) < Len(arrived) /\ arrived[Len(sent) + 1] = x
  <2>1. sent \in Seq(Tms) /\ x \in Tms
    BY <1>2, <1>3
  <2>2. HasNext(Cat(Cat(sent, Single(x)), Cat(r, Cat(h, funnel))), sent, x)
    BY <1>11, <2>1, NextElement
  <2> QED
    BY <1>4, <1>10, <2>2 DEF HasNext
<1> QED
  BY <1>1, <1>9, <1>12

\* The numbers of the reports are within the bound.
LEMMA DynamicBound ==
    ASSUME DynamicTypes, BoundSound
    PROVE  /\ created < MaxTm - 2 * MaxTc => created + 1 \in Tms
           /\ udp_pc \in {"accept", "reject"} => created + 1 \in Tms
<1>1. /\ created \in Nat /\ tcs \in Nat /\ received \in Nat /\ received <= MaxTc
      /\ MaxTc \in Nat /\ MaxTm \in Nat
  BY SMTT(60), PipelineAssumption, FunnelAssumption DEF DynamicTypes
<1>2. udp_pc \in {"accept", "reject"} => ReportsDue \in {1, 2}
  BY DEF ReportsDue
<1>3. created + 2 * (MaxTc - received) + 2 * tcs + ReportsDue <= MaxTm
  BY DEF BoundSound
<1> QED
  BY SMTT(60), <1>1, <1>2, <1>3 DEF Tms

\* The steps that move no packet keep what the invariant says of the packets.
LEMMA DynamicControl ==
    ASSUME DynamicInv,
           \/ Dynamic!UdpPollTc \/ Dynamic!UdpPollEmpty \/ Dynamic!UdpDrained
           \/ Dynamic!NoTcToHandle \/ Dynamic!HandleTc
           \/ Dynamic!TcpTakeTm \/ Dynamic!TcpRecvTc \/ UNCHANGED Dynamic!vars
    PROVE  DynamicInv' /\ UNCHANGED <<arrived, sent>>
<1> USE DEF Dynamic!sink_vars, Dynamic!udp_vars, Dynamic!tc_vars
<1>1. UNCHANGED <<created, funnel, server, arrived, counts, sink_tm, counters, to_tcp, sent>>
  <2>1. CASE Dynamic!UdpPollTc \/ Dynamic!UdpPollEmpty \/ Dynamic!UdpDrained
    BY <2>1 DEF Dynamic!UdpPollTc, Dynamic!UdpPollEmpty, Dynamic!UdpDrained
  <2>2. CASE Dynamic!NoTcToHandle \/ Dynamic!HandleTc \/ Dynamic!TcpTakeTm
    BY <2>2 DEF Dynamic!NoTcToHandle, Dynamic!HandleTc, Dynamic!TcpTakeTm
  <2>3. CASE Dynamic!TcpRecvTc \/ UNCHANGED Dynamic!vars
    BY <2>3 DEF Dynamic!TcpRecvTc, Dynamic!vars
  <2> QED
    BY <2>1, <2>2, <2>3
<1>2. /\ created \in Nat /\ tcs \in Nat /\ received \in Nat /\ received <= MaxTc
      /\ MaxTc \in Nat /\ MaxTm \in Nat
  BY SMTT(60), PipelineAssumption, FunnelAssumption DEF DynamicInv, DynamicTypes
<1>3. ASSUME tcs' \in Nat, received' \in 0..MaxTc,
             udp_pc' \in {"poll", "drain", "tc", "accept", "reject"},
             2 * tcs' + ReportsDue' <= 2 * received',
             created + 2 * (MaxTc - received') + 2 * tcs' + ReportsDue' <= MaxTm
      PROVE  DynamicInv'
  <2>1. DynamicTypes' /\ BoundSound'
    BY <1>1, <1>3 DEF DynamicInv, DynamicTypes, BoundSound
  <2>2. DynamicFlow' /\ DynamicOrder' /\ DynamicCounts'
    BY <1>1 DEF DynamicInv, DynamicFlow, DynamicOrder, DynamicCounts
  <2> QED
    BY <2>1, <2>2 DEF DynamicInv
<1>4. /\ udp_pc \in {"poll", "drain", "tc", "accept", "reject"} /\ ReportsDue \in 0..2
      /\ 2 * tcs + ReportsDue <= 2 * received
      /\ created + 2 * (MaxTc - received) + 2 * tcs + ReportsDue <= MaxTm
  BY SMTT(60) DEF DynamicInv, DynamicTypes, BoundSound, ReportsDue
<1>5. ASSUME Dynamic!UdpPollTc \/ Dynamic!TcpRecvTc PROVE DynamicInv'
  <2>1. received < MaxTc /\ received' = received + 1 /\ tcs' = tcs + 1 /\ udp_pc' = udp_pc
    BY <1>5 DEF Dynamic!UdpPollTc, Dynamic!TcpRecvTc
  <2>2. ReportsDue' = ReportsDue
    BY <2>1 DEF ReportsDue
  <2> QED
    BY SMTT(60), <1>2, <1>3, <1>4, <2>1, <2>2
<1>6. ASSUME Dynamic!UdpPollEmpty \/ Dynamic!UdpDrained \/ Dynamic!NoTcToHandle
      PROVE  DynamicInv'
  <2>1. /\ UNCHANGED <<tcs, received>> /\ ReportsDue = 0 /\ ReportsDue' = 0
        /\ udp_pc' \in {"poll", "drain", "tc"}
    BY <1>6 DEF Dynamic!UdpPollEmpty, Dynamic!UdpDrained, Dynamic!NoTcToHandle, ReportsDue
  <2> QED
    BY SMTT(60), <1>2, <1>3, <1>4, <2>1, PipelineAssumption
<1>7. ASSUME Dynamic!HandleTc PROVE DynamicInv'
  <2>1. /\ tcs > 0 /\ tcs' = tcs - 1 /\ received' = received
        /\ ReportsDue = 0 /\ ReportsDue' \in {0, 2} /\ udp_pc' \in {"poll", "accept"}
    BY <1>7 DEF Dynamic!HandleTc, ReportsDue
  <2>2. CASE ReportsDue' = 0
    BY SMTT(60), <1>2, <1>3, <1>4, <2>1, <2>2
  <2>3. CASE ReportsDue' = 2
    BY SMTT(60), <1>2, <1>3, <1>4, <2>1, <2>3
  <2> QED
    BY <2>1, <2>2, <2>3
<1>8. ASSUME Dynamic!TcpTakeTm \/ UNCHANGED Dynamic!vars PROVE DynamicInv'
  <2>1. UNCHANGED <<tcs, received, udp_pc>>
    BY <1>8 DEF Dynamic!TcpTakeTm, Dynamic!vars
  <2>2. ReportsDue' = ReportsDue
    BY <2>1 DEF ReportsDue
  <2> QED
    BY SMTT(60), <1>2, <1>3, <1>4, <2>1, <2>2, PipelineAssumption
<1> QED
  BY <1>1, <1>5, <1>6, <1>7, <1>8

\* The steps that create a packet.
LEMMA DynamicCreate ==
    ASSUME DynamicInv, Dynamic!Produce \/ Dynamic!Accept \/ Dynamic!Reject
    PROVE  /\ DynamicInv'
           /\ created + 1 \in Tms /\ arrived' = Append(arrived, created + 1) /\ sent' = sent
<1> USE DEF Dynamic!sink_vars, Dynamic!udp_vars, Dynamic!tc_vars
<1>1. /\ Dynamic!SendTm
      /\ UNCHANGED <<server, counts, sink_tm, counters, to_tcp, sent, tcs, received>>
  BY DEF Dynamic!Produce, Dynamic!Accept, Dynamic!Reject
<1>2. created + 1 \in Tms
  BY DynamicBound DEF Dynamic!Produce, Dynamic!Accept, Dynamic!Reject, DynamicInv
<1>3. /\ created' \in Nat /\ funnel' \in Seq(Tms) /\ arrived' \in Seq(Tms)
      /\ DynamicFlow' /\ DynamicOrder'
  BY <1>1, <1>2, DynamicSendTm DEF DynamicInv
<1>4. /\ created \in Nat /\ tcs \in Nat /\ received \in Nat /\ received <= MaxTc
      /\ MaxTc \in Nat /\ MaxTm \in Nat /\ created' = created + 1
  BY SMTT(60), <1>1, PipelineAssumption, FunnelAssumption
  DEF DynamicInv, DynamicTypes, Dynamic!SendTm
<1>5. /\ ReportsDue \in 0..2 /\ 2 * tcs + ReportsDue <= 2 * received
      /\ created + 2 * (MaxTc - received) + 2 * tcs + ReportsDue <= MaxTm
  BY SMTT(60) DEF DynamicInv, BoundSound, ReportsDue
<1>6. BoundSound' /\ udp_pc' \in {"poll", "drain", "tc", "accept", "reject"}
  <2>1. CASE Dynamic!Produce
    <3>1. udp_pc' = udp_pc /\ created < MaxTm - 2 * MaxTc
      BY <2>1 DEF Dynamic!Produce
    <3>2. ReportsDue' = ReportsDue
      BY <3>1 DEF ReportsDue
    <3> QED
      BY SMTT(60), <1>1, <1>4, <1>5, <3>1, <3>2 DEF BoundSound, DynamicInv, DynamicTypes
  <2>2. CASE Dynamic!Accept
    <3>1. udp_pc' \in {"poll", "reject"} /\ ReportsDue = 2 /\ ReportsDue' \in {0, 1}
      BY <2>2 DEF Dynamic!Accept, ReportsDue
    <3>2. CASE ReportsDue' = 0
      BY SMTT(60), <1>1, <1>4, <1>5, <3>1, <3>2 DEF BoundSound
    <3>3. CASE ReportsDue' = 1
      BY SMTT(60), <1>1, <1>4, <1>5, <3>1, <3>3 DEF BoundSound
    <3> QED
      BY <3>1, <3>2, <3>3
  <2>3. CASE Dynamic!Reject
    <3>1. udp_pc' = "poll" /\ ReportsDue = 1 /\ ReportsDue' = 0
      BY <2>3 DEF Dynamic!Reject, ReportsDue
    <3> QED
      BY SMTT(60), <1>1, <1>4, <1>5, <3>1 DEF BoundSound
  <2> QED
    BY <2>1, <2>2, <2>3
<1>7. DynamicTypes' /\ DynamicCounts'
  BY <1>1, <1>3, <1>6 DEF DynamicInv, DynamicTypes, DynamicCounts
<1>8. arrived' = Append(arrived, created + 1)
  BY <1>1 DEF Dynamic!SendTm
<1> QED
  BY <1>1, <1>2, <1>3, <1>6, <1>7, <1>8 DEF DynamicInv

\* The invariant holds initially ...
LEMMA DynamicInit == Dynamic!Init => DynamicInv
<1> SUFFICES ASSUME Dynamic!Init PROVE DynamicInv
  OBVIOUS
<1>1. /\ created = 0 /\ counts = [tm \in Tms |-> NoCounts] /\ counters = NewCounters
      /\ funnel = << >> /\ server = << >> /\ to_tcp = << >> /\ arrived = << >>
      /\ sent = << >> /\ sink_tm = NoTm /\ udp_pc = "poll" /\ tcs = 0 /\ received = 0
  BY DynamicFunnel DEF Dynamic!Init
<1>2. Cat(<< >>, << >>) = << >> /\ Held(NoTm) = << >>
  BY SMTT(60) DEF Cat, Held
<1>3. NoCounts \in Counts /\ NewCounters \in Counters
  BY SMTT(60), FunnelAssumption DEF NoCounts, Counts, NewCounters, Counters
<1>4. DynamicTypes
  BY SMTT(60), <1>1, <1>3, PipelineAssumption DEF DynamicTypes
<1>5. BoundSound
  <2>1. ReportsDue = 0
    BY <1>1 DEF ReportsDue
  <2> QED
    BY SMTT(60), <1>1, <2>1, PipelineAssumption, FunnelAssumption DEF BoundSound
<1>6. DynamicFlow /\ DynamicOrder
  BY SMTT(60), <1>1, <1>2 DEF DynamicFlow, DynamicOrder
<1>7. DynamicCounts
  <2>1. \A f, v : Cardinality(With(<< >>, f, v)) = 0
    BY SMTT(60), FS_EmptySet DEF With
  <2>2. 0 % (MaxSeqCount + 1) = 0 /\ 0 % (MaxMsgCount + 1) = 0
    BY SMTT(60), FunnelAssumption
  <2>3. CountersMatch(<< >>, counters)
    BY <1>1, <2>1, <2>2 DEF CountersMatch, NewCounters
  <2>4. \A n : CountedIn(<< >>, n)
    BY SMTT(60) DEF CountedIn
  <2> QED
    BY <1>1, <2>3, <2>4 DEF DynamicCounts
<1> QED
  BY <1>4, <1>5, <1>6, <1>7 DEF DynamicInv

\* ... and is kept by every step.
LEMMA DynamicNext == DynamicInv /\ [Dynamic!Next]_Dynamic!vars => DynamicInv'
<1> SUFFICES ASSUME DynamicInv, [Dynamic!Next]_Dynamic!vars PROVE DynamicInv'
  OBVIOUS
<1>1. CASE Dynamic!Produce \/ Dynamic!Accept \/ Dynamic!Reject
  BY <1>1, DynamicCreate
<1>2. CASE Dynamic!Sink
  BY <1>2, DynamicSinkProcess, DynamicSinkSend DEF Dynamic!Sink
<1>3. CASE Dynamic!UdpSendTm
  BY <1>3, DynamicUdpSend
<1>4. CASE \/ Dynamic!UdpPollTc \/ Dynamic!UdpPollEmpty \/ Dynamic!UdpDrained
           \/ Dynamic!NoTcToHandle \/ Dynamic!HandleTc
           \/ Dynamic!TcpTakeTm \/ Dynamic!TcpRecvTc \/ UNCHANGED Dynamic!vars
  BY <1>4, DynamicControl
<1> QED
  BY <1>1, <1>2, <1>3, <1>4 DEF Dynamic!Next, Dynamic!Udp

\* On the heap, for every number of packets, APIDs and services and every width of
\* the counters: what a receiver gets, by UDP or from the TCP queue, carries the
\* counters of its place in the stream (ReceiversSeeCounters of the run).
THEOREM DynamicCountersWithoutGap == Dynamic!Spec => []Dynamic!ReceiversSeeCounters
<1>1. ASSUME DynamicInv PROVE Dynamic!ReceiversSeeCounters
  <2>1. PICK h \in Seq(Tms) : h = Held(sink_tm)
    <3>1. sink_tm \in Tms \cup {NoTm}
      BY <1>1 DEF DynamicInv, DynamicTypes
    <3>2. Held(sink_tm) \in Seq(Tms)
      BY SMTT(60), <3>1 DEF Held
    <3> QED
      BY <3>2
  <2>2. sent \in Seq(Tms) /\ server \in Seq(Tms) /\ to_tcp \in Seq(Tms)
    BY <1>1 DEF DynamicInv, DynamicTypes
  <2>3. to_tcp = Cat(sent, Cat(server, h)) /\ Cat(server, h) \in Seq(Tms)
    BY SMTT(60), <1>1, <2>1, <2>2, CatFacts DEF DynamicInv, DynamicFlow
  <2>4. Begins(sent, to_tcp)
    BY <2>2, <2>3, BeginsOwn
  <2>5. CountedIn(to_tcp, counts)
    BY <1>1 DEF DynamicInv, DynamicCounts
  <2>6. CountedIn(sent, counts)
    BY <2>2, <2>4, <2>5, CountedBegins
  <2> QED
    BY <2>5, <2>6, DynamicFunnel DEF Dynamic!ReceiversSeeCounters
<1>2. DynamicInv => Dynamic!ReceiversSeeCounters
  BY <1>1
<1> QED
  BY <1>2, DynamicInit, DynamicNext, PTL DEF Dynamic!Spec

\* The packets between the sink's queue and the client are neither lost nor
\* duplicated nor reordered (ImplementsStream of the run of the path on the heap).
THEOREM DynamicImplementsStream == Dynamic!Spec => Dynamic!ImplementsStream
<1>1. Dynamic!Init => Dynamic!Stream!StreamInit
  BY DEF Dynamic!Init, Dynamic!Stream!StreamInit
<1>2. DynamicInv /\ [Dynamic!Next]_Dynamic!vars
        => [Dynamic!Stream!StreamNext]_<<arrived, sent>>
  <2> SUFFICES ASSUME DynamicInv, [Dynamic!Next]_Dynamic!vars
               PROVE  [Dynamic!Stream!StreamNext]_<<arrived, sent>>
    OBVIOUS
  <2>1. CASE Dynamic!Produce \/ Dynamic!Accept \/ Dynamic!Reject
    BY <2>1, DynamicCreate, DynamicFunnel DEF Dynamic!Stream!StreamNext, Dynamic!Stream!Arrive
  <2>2. CASE Dynamic!Sink
    BY <2>2 DEF Dynamic!Sink, Dynamic!SinkProcess, Dynamic!SinkSend, Dynamic!udp_vars
  <2>3. CASE Dynamic!UdpSendTm
    <3>1. UNCHANGED arrived
      BY <2>3 DEF Dynamic!UdpSendTm
    <3> QED
      BY <2>3, <3>1, DynamicUdpSend DEF Dynamic!Stream!StreamNext, Dynamic!Stream!Send
  <2>4. CASE \/ Dynamic!UdpPollTc \/ Dynamic!UdpPollEmpty \/ Dynamic!UdpDrained
             \/ Dynamic!NoTcToHandle \/ Dynamic!HandleTc
             \/ Dynamic!TcpTakeTm \/ Dynamic!TcpRecvTc \/ UNCHANGED Dynamic!vars
    BY <2>4, DynamicControl
  <2> QED
    BY <2>1, <2>2, <2>3, <2>4 DEF Dynamic!Next, Dynamic!Udp
<1> QED
  BY <1>1, <1>2, DynamicInit, DynamicNext, PTL
  DEF Dynamic!Spec, Dynamic!ImplementsStream, Dynamic!Stream!StreamSpec

=============================================================================
