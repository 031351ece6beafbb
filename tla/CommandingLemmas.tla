-------------------------- MODULE CommandingLemmas --------------------------
(***************************************************************************)
(* What the handlers and the steps of Commanding do, one lemma each: which *)
(* reports a handler sends, how the number of reports changes, that every  *)
(* step keeps the blocks of the TC pool as BlocksInv says, and that it     *)
(* keeps what the ground was told true, as ToldInv says.  CommandingProofs *)
(* has the steps for the reports and draws the theorems.                   *)
(***************************************************************************)
EXTENDS CommandingInvariants, TLAPS

\* Most leaves need only first-order reasoning and go to Zenon; a leaf with
\* arithmetic, or with functions and records that Zenon does not know, names
\* SMT.  Both get more time than their default, for slower machines.
USE ZenonT(60)

-----------------------------------------------------------------------------
(* Lines of messages and the blocks that they have.                        *)

\* The parts of a message in a line.
LEMMA KeptFields ==
    ASSUME NEW x \in Kept
    PROVE  x.tc \in AllTcs /\ x.addr \in 0..PoolSize
BY SMTT(60) DEF Kept, InMemoryTcs, AcceptedTcs, AcceptedTc

\* The head of a line leaves it, and the rest moves up.
LEMMA TailFacts ==
    ASSUME NEW S, NEW s \in Seq(S), s # << >>
    PROVE  /\ Tail(s) \in Seq(S) /\ Head(s) = s[1] /\ Head(s) \in S
           /\ Len(s) \in Nat /\ Len(s) >= 1 /\ Len(Tail(s)) = Len(s) - 1
           /\ \A i \in 1..(Len(s) - 1) : Tail(s)[i] = s[i + 1]
BY SMTT(60)

\* A message joins the end of a line, and the others keep their places.
LEMMA AppendFacts ==
    ASSUME NEW S, NEW s \in Seq(S), NEW x \in S
    PROVE  /\ Append(s, x) \in Seq(S) /\ Len(s) \in Nat
           /\ Len(Append(s, x)) = Len(s) + 1 /\ Append(s, x)[Len(s) + 1] = x
           /\ \A i \in 1..Len(s) : Append(s, x)[i] = s[i]
BY SMTT(60)

\* A message is taken: its block is given up for now.
LEMMA OwnedTake ==
    ASSUME NEW L \in [Places -> Seq(Kept)], NEW p, NEW g, NEW k \in Places,
           L[k] # << >>, Owned(L, p, g)
    PROVE  /\ WithLine(L, k, Tail(L[k])) \in [Places -> Seq(Kept)]
           /\ Owned(WithLine(L, k, Tail(L[k])), p, g \cup ({Head(L[k]).addr} \ {0}))
<1>0. PICK M : M = WithLine(L, k, Tail(L[k]))
  OBVIOUS
<1>1. L[k] \in Seq(Kept)
  OBVIOUS
<1>2. /\ Tail(L[k]) \in Seq(Kept) /\ Head(L[k]) = L[k][1] /\ Head(L[k]) \in Kept
      /\ Len(L[k]) \in Nat /\ Len(L[k]) >= 1 /\ Len(Tail(L[k])) = Len(L[k]) - 1
      /\ \A i \in 1..(Len(L[k]) - 1) : Tail(L[k])[i] = L[k][i + 1]
  BY <1>1, TailFacts
<1>3. /\ M \in [Places -> Seq(Kept)] /\ M[k] = Tail(L[k])
      /\ \A m \in Places : m # k => M[m] = L[m]
  BY <1>0, <1>2 DEF WithLine
<1>4. PICK a : a = Head(L[k]).addr
  OBVIOUS
<1>5. 1 \in 1..Len(L[k]) /\ a = L[k][1].addr
  BY SMTT(60), <1>2, <1>4
\* A place of M is one of L other than the head.
<1>6. ASSUME NEW m \in Places, NEW i \in 1..Len(M[m])
      PROVE  \E j \in 1..Len(L[m]) :
                /\ M[m][i] = L[m][j] /\ (m = k => j = i + 1) /\ (m # k => j = i)
  <2>1. CASE m = k
    <3>1. i + 1 \in 1..Len(L[m]) /\ i \in 1..(Len(L[k]) - 1)
      BY SMTT(60), <1>2, <1>3, <1>6, <2>1
    <3>2. M[m][i] = L[m][i + 1]
      BY <1>2, <1>3, <2>1, <3>1
    <3> QED
      BY <2>1, <3>1, <3>2
  <2>2. CASE m # k
    BY <1>3, <1>6, <2>2
  <2> QED
    BY <2>1, <2>2
<1>7. PICK h : h = g \cup ({a} \ {0})
  OBVIOUS
<1>8. GivenUp(p, h)
  <2>1. a # 0 => a \in Addrs /\ p[a] = Head(L[k]).tc
    BY <1>2, <1>5 DEF Owned, Leading, LeadsTo
  <2>2. Head(L[k]).tc # NoTc
    BY <1>2, KeptFields, CommandingAssumption
  <2> QED
    BY <1>7, <2>1, <2>2 DEF Owned, GivenUp
<1>9. Leading(M, p, h)
  <2> SUFFICES ASSUME NEW m \in Places, NEW i \in 1..Len(M[m]), M[m][i].addr # 0
               PROVE  LeadsTo(M[m][i].addr, M[m][i].tc, p, h)
    BY DEF Leading
  <2>1. PICK j \in 1..Len(L[m]) : M[m][i] = L[m][j] /\ (m = k => j = i + 1) /\ (m # k => j = i)
    BY <1>6
  <2>2. L[m][j].addr # 0 /\ LeadsTo(L[m][j].addr, L[m][j].tc, p, g)
    BY <2>1 DEF Owned, Leading
  <2>3. ~ (m = k /\ j = 1)
    BY SMTT(60), <2>1
  <2>4. L[m][j].addr # a
    <3>1. L[m][j].addr = a => Clash(L, m, j, k, 1)
      BY <1>5, <2>2 DEF Clash
    <3> QED
      BY <1>5, <2>3, <3>1 DEF Owned, Apart
  <2> QED
    BY <1>7, <2>1, <2>2, <2>4 DEF LeadsTo
<1>10. ASSUME NEW m \in Places, NEW n \in Places, NEW i \in 1..Len(M[m]),
              NEW j \in 1..Len(M[n]), Clash(M, m, i, n, j)
       PROVE  m = n /\ i = j
  <2>1. PICK u \in 1..Len(L[m]) : M[m][i] = L[m][u] /\ (m = k => u = i + 1) /\ (m # k => u = i)
    BY <1>6
  <2>2. PICK v \in 1..Len(L[n]) : M[n][j] = L[n][v] /\ (n = k => v = j + 1) /\ (n # k => v = j)
    BY <1>6
  <2>3. Clash(L, m, u, n, v)
    BY <1>10, <2>1, <2>2 DEF Clash
  <2>4. m = n /\ u = v
    BY <2>3 DEF Owned, Apart
  <2>5. m = k => i = j
    BY SMTT(60), <2>1, <2>2, <2>4
  <2> QED
    BY <2>1, <2>2, <2>4, <2>5
<1>11. Found(M, p, h)
  <2> SUFFICES ASSUME NEW b \in Addrs, p[b] # NoTc, b \notin h
               PROVE  HasMessage(M, b)
    BY DEF Found
  <2>1. b # 0
    BY SMTT(60), CommandingAssumption DEF Addrs
  <2>2. b \notin g /\ b # a
    BY <1>7, <2>1
  <2>3. PICK m \in Places : \E i \in 1..Len(L[m]) : L[m][i].addr = b
    BY <2>2 DEF Owned, Found, HasMessage
  <2>4. PICK j \in 1..Len(L[m]) : L[m][j].addr = b
    BY <2>3
  <2>5. CASE m # k
    BY <1>3, <2>4, <2>5 DEF HasMessage
  <2>6. CASE m = k
    <3>1. j # 1
      BY <1>5, <2>2, <2>4, <2>6
    <3>2. PICK i : i = j - 1
      OBVIOUS
    <3>3. i \in 1..(Len(L[k]) - 1) /\ j = i + 1
      BY SMTT(60), <1>2, <2>6, <3>1, <3>2
    <3>4. i \in 1..Len(M[k]) /\ M[k][i] = L[k][j]
      BY <1>2, <1>3, <3>3
    <3> QED
      BY <2>4, <2>6, <3>4 DEF HasMessage
  <2> QED
    BY <2>5, <2>6
<1> QED
  <2>1. Apart(M)
    BY <1>10 DEF Apart
  <2> QED
    BY <1>0, <1>3, <1>4, <1>7, <1>8, <1>9, <1>11, <2>1 DEF Owned

\* A message joins a line: its block, if it has one, was given up until now.
LEMMA OwnedPut ==
    ASSUME NEW L \in [Places -> Seq(Kept)], NEW p, NEW g, NEW k \in Places, NEW x \in Kept,
           Owned(L, p, g), x.addr = 0 \/ (x.addr \in g /\ p[x.addr] = x.tc)
    PROVE  /\ WithLine(L, k, Append(L[k], x)) \in [Places -> Seq(Kept)]
           /\ Owned(WithLine(L, k, Append(L[k], x)), p, g \ {x.addr})
<1>0. PICK M : M = WithLine(L, k, Append(L[k], x))
  OBVIOUS
<1>1. L[k] \in Seq(Kept)
  OBVIOUS
<1>2. /\ Append(L[k], x) \in Seq(Kept) /\ Len(L[k]) \in Nat
      /\ Len(Append(L[k], x)) = Len(L[k]) + 1 /\ Append(L[k], x)[Len(L[k]) + 1] = x
      /\ \A i \in 1..Len(L[k]) : Append(L[k], x)[i] = L[k][i]
  BY SMTT(60), <1>1, AppendFacts
<1>3. /\ M \in [Places -> Seq(Kept)] /\ M[k] = Append(L[k], x)
      /\ \A m \in Places : m # k => M[m] = L[m]
  BY <1>0, <1>2 DEF WithLine
<1>4. PICK h : h = g \ {x.addr}
  OBVIOUS
<1>5. PICK z : z = Len(L[k]) + 1
  OBVIOUS
<1>6. z \in 1..Len(M[k]) /\ M[k][z] = x /\ z \notin 1..Len(L[k])
  BY SMTT(60), <1>2, <1>3, <1>5
\* The places of M are those of L and the new one.
<1>7. ASSUME NEW m \in Places, NEW i \in 1..Len(M[m])
      PROVE  \/ m = k /\ i = z
             \/ i \in 1..Len(L[m]) /\ M[m][i] = L[m][i]
  <2>1. CASE m = k
    <3>1. i = z \/ i \in 1..Len(L[k])
      BY SMTT(60), <1>2, <1>3, <1>5, <2>1
    <3> QED
      BY <1>2, <1>3, <2>1, <3>1
  <2>2. CASE m # k
    BY <1>3, <2>2
  <2> QED
    BY <2>1, <2>2
<1>8. ASSUME NEW m \in Places, NEW i \in 1..Len(L[m])
      PROVE  i \in 1..Len(M[m]) /\ M[m][i] = L[m][i]
  <2>1. CASE m = k
    <3>1. i \in 1..Len(M[k])
      BY SMTT(60), <1>2, <1>3, <2>1
    <3> QED
      BY <1>2, <1>3, <2>1, <3>1
  <2>2. CASE m # k
    BY <1>3, <2>2
  <2> QED
    BY <2>1, <2>2
<1>9. ASSUME NEW m \in Places, NEW i \in 1..Len(L[m]), L[m][i].addr = x.addr
      PROVE  x.addr = 0
  BY <1>9 DEF Owned, Leading, LeadsTo
<1>10. GivenUp(p, h)
  BY <1>4 DEF Owned, GivenUp
<1>11. Leading(M, p, h)
  <2> SUFFICES ASSUME NEW m \in Places, NEW i \in 1..Len(M[m]), M[m][i].addr # 0
               PROVE  LeadsTo(M[m][i].addr, M[m][i].tc, p, h)
    BY DEF Leading
  <2>1. CASE m = k /\ i = z
    <3>1. x.addr \in g /\ p[x.addr] = x.tc
      BY <1>6, <2>1
    <3>2. x.addr \in Addrs
      BY <3>1 DEF Owned, GivenUp
    <3> QED
      BY <1>4, <1>6, <2>1, <3>1, <3>2 DEF LeadsTo
  <2>2. CASE i \in 1..Len(L[m]) /\ M[m][i] = L[m][i]
    <3>1. LeadsTo(L[m][i].addr, L[m][i].tc, p, g)
      BY <2>2 DEF Owned, Leading
    <3> QED
      BY <1>4, <2>2, <3>1 DEF LeadsTo
  <2> QED
    BY <1>7, <2>1, <2>2
<1>12. ASSUME NEW m \in Places, NEW n \in Places, NEW i \in 1..Len(M[m]),
              NEW j \in 1..Len(M[n]), Clash(M, m, i, n, j)
       PROVE  m = n /\ i = j
  <2>1. CASE m = k /\ i = z /\ n = k /\ j = z
    BY <2>1
  <2>2. CASE m = k /\ i = z /\ j \in 1..Len(L[n]) /\ M[n][j] = L[n][j]
    BY <1>6, <1>9, <1>12, <2>2 DEF Clash
  <2>3. CASE i \in 1..Len(L[m]) /\ M[m][i] = L[m][i] /\ n = k /\ j = z
    BY <1>6, <1>9, <1>12, <2>3 DEF Clash
  <2>4. CASE i \in 1..Len(L[m]) /\ M[m][i] = L[m][i] /\ j \in 1..Len(L[n]) /\ M[n][j] = L[n][j]
    <3>1. Clash(L, m, i, n, j)
      BY <1>12, <2>4 DEF Clash
    <3> QED
      BY <2>4, <3>1 DEF Owned, Apart
  <2> QED
    BY <1>7, <2>1, <2>2, <2>3, <2>4
<1>13. Found(M, p, h)
  <2> SUFFICES ASSUME NEW b \in Addrs, p[b] # NoTc, b \notin h
               PROVE  HasMessage(M, b)
    BY DEF Found
  <2>1. CASE b = x.addr
    BY <1>6, <2>1 DEF HasMessage
  <2>2. CASE b # x.addr
    <3>1. PICK m \in Places : \E i \in 1..Len(L[m]) : L[m][i].addr = b
      BY <1>4, <2>2 DEF Owned, Found, HasMessage
    <3>2. PICK i \in 1..Len(L[m]) : L[m][i].addr = b
      BY <3>1
    <3>3. i \in 1..Len(M[m]) /\ M[m][i].addr = b
      BY <1>8, <3>2
    <3> QED
      BY <3>3 DEF HasMessage
  <2> QED
    BY <2>1, <2>2
<1> QED
  <2>1. Apart(M)
    BY <1>12 DEF Apart
  <2> QED
    BY <1>0, <1>3, <1>4, <1>10, <1>11, <1>13, <2>1 DEF Owned

\* A free block takes a telecommand.
LEMMA OwnedAlloc ==
    ASSUME NEW L \in [Places -> Seq(Kept)], NEW p \in [Addrs -> AllTcs \cup {NoTc}], NEW g,
           NEW a \in Addrs, NEW tc \in AllTcs, p[a] = NoTc, Owned(L, p, g)
    PROVE  /\ [p EXCEPT ![a] = tc] \in [Addrs -> AllTcs \cup {NoTc}]
           /\ [p EXCEPT ![a] = tc][a] = tc
           /\ Owned(L, [p EXCEPT ![a] = tc], g \cup {a})
<1>1. PICK q : q = [p EXCEPT ![a] = tc]
  OBVIOUS
<1>2. /\ q \in [Addrs -> AllTcs \cup {NoTc}] /\ q[a] = tc
      /\ \A b \in Addrs : b # a => q[b] = p[b]
  BY SMTT(60), <1>1
<1>3. GivenUp(q, g \cup {a})
  BY <1>2, CommandingAssumption DEF Owned, GivenUp
<1>4. Leading(L, q, g \cup {a})
  <2> SUFFICES ASSUME NEW m \in Places, NEW i \in 1..Len(L[m]), L[m][i].addr # 0
               PROVE  LeadsTo(L[m][i].addr, L[m][i].tc, q, g \cup {a})
    BY DEF Leading
  <2>1. LeadsTo(L[m][i].addr, L[m][i].tc, p, g)
    BY DEF Owned, Leading
  <2>2. L[m][i] \in Kept
    <3>1. L[m] \in Seq(Kept)
      OBVIOUS
    <3> QED
      BY SMTT(60), <3>1
  <2>3. L[m][i].tc # NoTc
    BY <2>2, KeptFields, CommandingAssumption
  <2> QED
    BY <1>2, <2>1, <2>3 DEF LeadsTo
<1>5. Found(L, q, g \cup {a})
  BY <1>2 DEF Owned, Found
<1> QED
  BY <1>1, <1>2, <1>3, <1>4, <1>5 DEF Owned

\* A block that was given up is freed.
LEMMA OwnedFree ==
    ASSUME NEW L, NEW p \in [Addrs -> AllTcs \cup {NoTc}], NEW g, NEW a \in g, Owned(L, p, g)
    PROVE  /\ [p EXCEPT ![a] = NoTc] \in [Addrs -> AllTcs \cup {NoTc}]
           /\ Owned(L, [p EXCEPT ![a] = NoTc], g \ {a})
<1>1. PICK q : q = [p EXCEPT ![a] = NoTc]
  OBVIOUS
<1>2. a \in Addrs
  BY DEF Owned, GivenUp
<1>3. /\ q \in [Addrs -> AllTcs \cup {NoTc}] /\ q[a] = NoTc
      /\ \A b \in Addrs : b # a => q[b] = p[b]
  BY SMTT(60), <1>1, <1>2
<1>4. GivenUp(q, g \ {a})
  BY <1>3 DEF Owned, GivenUp
<1>5. Leading(L, q, g \ {a})
  BY <1>3 DEF Owned, Leading, LeadsTo
<1>6. Found(L, q, g \ {a})
  BY <1>3 DEF Owned, Found
<1> QED
  BY <1>1, <1>3, <1>4, <1>5, <1>6 DEF Owned

\* The lines after the queue to the TC source, or that of a service, changed.
LEMMA SourceLine ==
    ASSUME NEW s, NEW q, NEW t
    PROVE  /\ LinesOf(t, q) = WithLine(LinesOf(s, q), "source", t)
           /\ LinesOf(s, q)["source"] = s /\ "source" \in Places
BY DEF LinesOf, Places, WithLine

\* The line of a service is its queue.
LEMMA LineOfQueue ==
    ASSUME NEW s, NEW q, NEW k \in Services
    PROVE  LinesOf(s, q)[k] = q[k] /\ k \in Places /\ k # "source"
<1>1. k # "source" /\ k \in Places
  BY SMTT(60) DEF Places, Services, Direct, Targeted
<1> QED
  BY <1>1 DEF LinesOf

\* A change of one queue is a change of one line.
LEMMA QueueLine ==
    ASSUME NEW s, NEW q, DOMAIN q = Services, NEW k \in Services, NEW t
    PROVE  LinesOf(s, WithLine(q, k, t)) = WithLine(LinesOf(s, q), k, t)
<1>1. k # "source" /\ k \in Places
  BY LineOfQueue
<1>2. \A m \in Places : m # "source" => m \in DOMAIN q
  BY DEF Places
<1> QED
  BY <1>1, <1>2 DEF LinesOf, WithLine

\* All lines hold messages.
LEMMA LinesType ==
    ASSUME NEW s \in Seq(InMemoryTcs), NEW q \in [Services -> Seq(AcceptedTcs)]
    PROVE  LinesOf(s, q) \in [Places -> Seq(Kept)]
<1>1. s \in Seq(Kept) /\ \A k \in Services : q[k] \in Seq(Kept)
  <2>1. \A k \in Services : q[k] \in Seq(AcceptedTcs)
    OBVIOUS
  <2> QED
    BY SMTT(60), <2>1 DEF Kept
<1> QED
  BY <1>1 DEF LinesOf, Places

\* The places of a sequence and what is at them.
LEMMA SeqDomain ==
    ASSUME NEW S, NEW s \in Seq(S)
    PROVE  DOMAIN s = 1..Len(s) /\ Len(s) \in Nat /\ \A i \in 1..Len(s) : s[i] \in S
BY SMTT(60)

\* The places that hold an address are those of a line.
LEMMA HoldersInLines ==
    ASSUME TcTypes, NEW a, NEW e
    PROVE  e \in Holders(a) <=>
              \E k \in Places : \E i \in 1..Len(Lines[k]) : e = <<k, i>> /\ Lines[k][i].addr = a
<1>1. DOMAIN source = 1..Len(source)
  BY SeqDomain DEF TcTypes
<1>2. ASSUME NEW k \in Services
      PROVE  DOMAIN queues[k] = 1..Len(queues[k]) /\ Lines[k] = queues[k] /\ k \in Places
  <2>1. queues[k] \in Seq(AcceptedTcs) /\ DOMAIN queues = Services
    BY DEF TcTypes
  <2>2. DOMAIN queues[k] = 1..Len(queues[k])
    BY <2>1, SeqDomain
  <2>3. Lines[k] = queues[k] /\ k \in Places
    BY LineOfQueue DEF Lines
  <2> QED
    BY <2>2, <2>3
<1>3. Lines["source"] = source /\ "source" \in Places
  BY SourceLine DEF Lines
<1>4. ASSUME e \in Holders(a)
      PROVE  \E k \in Places : \E i \in 1..Len(Lines[k]) : e = <<k, i>> /\ Lines[k][i].addr = a
  <2>1. CASE \E i \in DOMAIN source : e = <<"source", i>> /\ source[i].addr = a
    BY <1>1, <1>3, <2>1
  <2>2. CASE \E k \in Services : \E i \in DOMAIN queues[k] : e = <<k, i>> /\ queues[k][i].addr = a
    BY <1>2, <2>2
  <2> QED
    BY <1>4, <2>1, <2>2 DEF Holders
<1>5. ASSUME NEW k \in Places, NEW i \in 1..Len(Lines[k]), e = <<k, i>>, Lines[k][i].addr = a
      PROVE  e \in Holders(a)
  <2>1. CASE k = "source"
    BY <1>1, <1>3, <1>5, <2>1 DEF Holders
  <2>2. CASE k \in Services
    <3>1. i \in DOMAIN queues[k] /\ queues[k][i].addr = a
      BY <1>2, <1>5, <2>2
    <3>2. e \in {<<k, n>> : n \in {j \in DOMAIN queues[k] : queues[k][j].addr = a}}
      BY <1>5, <3>1
    <3> QED
      BY <2>2, <3>2 DEF Holders
  <2> QED
    BY <2>1, <2>2 DEF Places
<1> QED
  BY <1>4, <1>5

-----------------------------------------------------------------------------
(* The context of a handler.                                               *)

\* A handler starts with no packet sent.
LEMMA NewContextFacts ==
    ASSUME NEW room \in Nat
    PROVE  /\ IsContext(NewContext(room)) /\ NewContext(room).tm = << >>
           /\ NewContext(room).result = "ok" /\ ~ NewContext(room).full
           /\ NewContext(room).room = room
BY SMTT(60) DEF NewContext, IsContext, HasFields

\* send_tm: the sender takes the packet, or the handler has none.
LEMMA SendTmFacts ==
    ASSUME NEW c, IsContext(c), NEW tm \in Tms
    PROVE  /\ IsContext(SendTm(c, tm)) /\ SendTm(c, tm).token = c.token
           /\ Took(c, SendTm(c, tm), tm) \/ Stopped(c, SendTm(c, tm), TRUE)
<1>1. CASE c.result = "panic"
  <2>1. SendTm(c, tm) = c
    BY <1>1 DEF SendTm
  <2> QED
    BY <1>1, <2>1 DEF Stopped
<1>2. CASE c.result # "panic" /\ c.room = 0
  <2>1. SendTm(c, tm) = [c EXCEPT !.result = "err", !.full = TRUE]
    BY <1>2 DEF SendTm
  <2> QED
    BY SMTT(60), <1>2, <2>1 DEF Stopped, IsContext, HasFields
<1>3. CASE c.result # "panic" /\ c.room # 0
  <2>1. PICK t, n : t = Append(c.tm, tm) /\ n = c.room - 1
    OBVIOUS
  <2>2. SendTm(c, tm) = [c EXCEPT !.tm = t, !.room = n, !.result = "ok"]
    BY <1>3, <2>1 DEF SendTm
  <2>3. t \in Seq(Tms)
    BY <2>1, AppendFacts DEF IsContext
  <2>4. n \in Nat
    BY SMTT(60), <1>3, <2>1 DEF IsContext
  <2>5. IsContext([c EXCEPT !.tm = t, !.room = n, !.result = "ok"])
    BY SMTT(60), <2>3, <2>4 DEF IsContext, HasFields
  <2>6. Took(c, [c EXCEPT !.tm = t, !.room = n, !.result = "ok"], tm)
    BY SMTT(60), <1>3, <2>1 DEF Took, IsContext, HasFields
  <2>7. [c EXCEPT !.tm = t, !.room = n, !.result = "ok"].token = c.token
    BY SMTT(60) DEF IsContext, HasFields
  <2> QED
    BY <2>2, <2>5, <2>6, <2>7
<1> QED
  BY <1>1, <1>2, <1>3

\* A verification report goes out with the next token, or it has a cause why
\* not.
LEMMA SendReportFacts ==
    ASSUME NEW c, IsContext(c), NEW s \in Subservices, NEW len, NEW i \in Ids, NEW next,
           NEW token, token.request_id = i
    PROVE  LET d == SendReport(c, Report(s, len, token, next))
           IN  /\ IsContext(d)
               /\ Went(c, d, s, i, next) \/ Stopped(c, d, SourceBufferLargeEnough(len))
<1> DEFINE r == Report(s, len, token, next)
           tm == [subservice |-> s, request_id |-> i]
<1>1. r.tm = tm /\ r.len = len /\ r.token = Token(next, i)
  BY DEF Report, VerifTm
<1>2. tm \in Tms
  BY DEF Tms
<1>3. PICK e : e = SendTm(c, tm)
  OBVIOUS
<1>4. IsContext(e) /\ e.token = c.token /\ (Took(c, e, tm) \/ Stopped(c, e, TRUE))
  BY <1>2, <1>3, SendTmFacts
<1>5. CASE c.result = "panic"
  <2>1. SendReport(c, r) = c
    BY <1>5 DEF SendReport
  <2> QED
    BY <1>5, <2>1 DEF Stopped
<1>6. CASE c.result # "panic" /\ ~ SourceBufferLargeEnough(len)
  <2>1. SendReport(c, r) = [c EXCEPT !.result = "err"]
    BY <1>1, <1>6 DEF SendReport
  <2>2. IsContext([c EXCEPT !.result = "err"])
    BY SMTT(60) DEF IsContext, HasFields
  <2>3. Stopped(c, [c EXCEPT !.result = "err"], SourceBufferLargeEnough(len))
    BY SMTT(60), <1>6 DEF Stopped, IsContext, HasFields
  <2> QED
    BY <2>1, <2>2, <2>3
<1>7. CASE c.result # "panic" /\ SourceBufferLargeEnough(len)
  <2>1. SendReport(c, r) = IF e.result = "ok" THEN [e EXCEPT !.token = r.token] ELSE e
    BY <1>1, <1>3, <1>7 DEF SendReport
  <2>2. CASE e.result = "ok"
    <3>1. Took(c, e, tm)
      BY <1>4, <2>2 DEF Stopped
    <3>2. IsContext([e EXCEPT !.token = r.token])
      BY SMTT(60), <1>4 DEF IsContext, HasFields
    <3>3. Went(c, [e EXCEPT !.token = r.token], s, i, next)
      BY SMTT(60), <1>1, <1>4, <3>1 DEF Went, Took, IsContext, HasFields
    <3> QED
      BY <2>1, <2>2, <3>2, <3>3
  <2>3. CASE e.result # "ok"
    <3>1. Stopped(c, e, TRUE)
      BY <1>4, <2>3 DEF Took
    <3> QED
      BY <1>4, <1>7, <2>1, <2>3, <3>1 DEF Stopped
  <2> QED
    BY <2>2, <2>3
<1> QED
  BY <1>5, <1>6, <1>7

\* expect() turns an error into a panic and changes nothing else.
LEMMA ExpectFacts ==
    ASSUME NEW c, IsContext(c)
    PROVE  /\ IsContext(Expect(c)) /\ Expect(c).tm = c.tm /\ Expect(c).token = c.token
           /\ Expect(c).full = c.full /\ Expect(c).result \in {"ok", "panic"}
           /\ Expect(c).result = "ok" <=> c.result = "ok"
<1>1. CASE c.result = "err"
  <2>1. Expect(c) = [c EXCEPT !.result = "panic"]
    BY <1>1 DEF Expect
  <2> QED
    BY SMTT(60), <1>1, <2>1 DEF IsContext, HasFields
<1>2. CASE c.result # "err"
  BY <1>2 DEF Expect, IsContext
<1> QED
  BY <1>1, <1>2

\* What the success reports of the verification reporter do ...
LEMMA SuccessFacts ==
    ASSUME NEW c, IsContext(c), NEW token, NEW i \in Ids, token.request_id = i
    PROVE  /\ Reports(c, AcceptanceSuccess(c, token), "AcceptanceSuccess", i, "Accepted", TRUE)
           /\ Reports(c, StartSuccess(c, token), "StartSuccess", i, "Started", TRUE)
           /\ Reports(c, StepSuccess(c, token), "StepSuccess", i, "Started", TRUE)
           /\ Reports(c, CompletionSuccess(c, token), "CompletionSuccess", i, "Completed", TRUE)
<1>1. SourceBufferLargeEnough(SuccessLen(0)) /\ SourceBufferLargeEnough(SuccessLen(StepLen))
  BY SMTT(60) DEF SourceBufferLargeEnough, SourceDataBufLen, SuccessLen, RequestIdLen, StepLen
<1>2. {"AcceptanceSuccess", "StartSuccess", "StepSuccess", "CompletionSuccess"} \subseteq Subservices
  BY DEF Subservices
<1>3. ASSUME NEW s \in Subservices, NEW step, NEW next, SourceBufferLargeEnough(SuccessLen(step))
      PROVE  Reports(c, SendReport(c, SuccessReport(s, step, token, next)), s, i, next, TRUE)
  <2>1. LET d == SendReport(c, Report(s, SuccessLen(step), token, next))
        IN  /\ IsContext(d)
            /\ Went(c, d, s, i, next) \/ Stopped(c, d, SourceBufferLargeEnough(SuccessLen(step)))
    BY SendReportFacts
  <2> QED
    BY <1>3, <2>1 DEF SuccessReport, Reports, Stopped
<1>4. Reports(c, AcceptanceSuccess(c, token), "AcceptanceSuccess", i, "Accepted", TRUE)
  BY <1>1, <1>2, <1>3 DEF AcceptanceSuccess, AcceptanceSuccessReport, SuccessNoStep
<1>5. Reports(c, StartSuccess(c, token), "StartSuccess", i, "Started", TRUE)
  BY <1>1, <1>2, <1>3 DEF StartSuccess, StartSuccessReport, SuccessNoStep
<1>6. Reports(c, StepSuccess(c, token), "StepSuccess", i, "Started", TRUE)
  BY <1>1, <1>2, <1>3 DEF StepSuccess, StepSuccessReport
<1>7. Reports(c, CompletionSuccess(c, token), "CompletionSuccess", i, "Completed", TRUE)
  BY <1>1, <1>2, <1>3 DEF CompletionSuccess, CompletionSuccessReport, SuccessNoStep
<1> QED
  BY <1>4, <1>5, <1>6, <1>7

\* ... and the failure reports, whose length depends on the failure data.
LEMMA FailureFacts ==
    ASSUME NEW c, IsContext(c), NEW token, NEW i \in Ids, token.request_id = i, NEW n
    PROVE  /\ Reports(c, StartFailure(c, token, n), "StartFailure", i, "Completed",
                      SourceBufferLargeEnough(FailLen(0, n)))
           /\ Reports(c, StepFailure(c, token, n), "StepFailure", i, "Completed",
                      SourceBufferLargeEnough(FailLen(StepLen, n)))
           /\ Reports(c, CompletionFailure(c, token, n), "CompletionFailure", i, "Completed",
                      SourceBufferLargeEnough(FailLen(0, n)))
<1>1. {"StartFailure", "StepFailure", "CompletionFailure"} \subseteq Subservices
  BY DEF Subservices
<1>2. ASSUME NEW s \in Subservices, NEW step
      PROVE  Reports(c, SendReport(c, FailureReport(s, step, n, token)), s, i, "Completed",
                     SourceBufferLargeEnough(FailLen(step, n)))
  BY SendReportFacts DEF FailureReport, Reports
<1>3. Reports(c, StartFailure(c, token, n), "StartFailure", i, "Completed",
              SourceBufferLargeEnough(FailLen(0, n)))
  BY <1>1, <1>2 DEF StartFailure, StartFailureReport, FailureNoStep
<1>4. Reports(c, StepFailure(c, token, n), "StepFailure", i, "Completed",
              SourceBufferLargeEnough(FailLen(StepLen, n)))
  BY <1>1, <1>2 DEF StepFailure, StepFailureReport
<1>5. Reports(c, CompletionFailure(c, token, n), "CompletionFailure", i, "Completed",
              SourceBufferLargeEnough(FailLen(0, n)))
  BY <1>1, <1>2 DEF CompletionFailure, CompletionFailureReport, FailureNoStep
<1> QED
  BY <1>3, <1>4, <1>5

\* Failure data of eight bytes fits.
LEMMA ShortFits ==
    ASSUME NEW n \in 0..8
    PROVE  SourceBufferLargeEnough(FailLen(0, n))
BY SMTT(60) DEF SourceBufferLargeEnough, SourceDataBufLen, FailLen, RequestIdLen, FailCodeLen

\* A report under expect(): it was sent, or the handler panics.
LEMMA ExpectedFacts ==
    ASSUME NEW c, NEW d, NEW s, NEW i, NEW next, NEW fits, Reports(c, d, s, i, next, fits)
    PROVE  Expected(c, Expect(d), s, i, next)
<1>1. IsContext(d)
  BY DEF Reports
<1>2. CASE Went(c, d, s, i, next)
  <2>1. d.result = "ok"
    BY <1>2 DEF Went, Took
  <2>2. Expect(d) = d
    BY <2>1 DEF Expect
  <2> QED
    BY <1>1, <1>2, <2>2 DEF Expected
<1>3. CASE Stopped(c, d, fits)
  BY <1>1, <1>3, ExpectFacts DEF Expected, Stopped
<1> QED
  BY <1>2, <1>3 DEF Reports

\* The acceptance report, and the token that the distributor gets for it.
LEMMA AcceptedToken ==
    ASSUME NEW tc \in AllTcs, NEW room \in Nat
    PROVE  LET c == AcceptanceSuccess(NewContext(room), AddTc(tc))
               i == RequestIdNew(tc)
           IN  /\ Reports(NewContext(room), c, "AcceptanceSuccess", i, "Accepted", TRUE)
               /\ Expected(NewContext(room), Expect(c), "AcceptanceSuccess", i, "Accepted")
               /\ Expect(c).result = "ok" => Expect(c).token = Token("Accepted", i)
<1>1. PICK c, i : c = AcceptanceSuccess(NewContext(room), AddTc(tc)) /\ i = RequestIdNew(tc)
  OBVIOUS
<1>2. i \in Ids /\ AddTc(tc).request_id = i
  BY <1>1 DEF Ids, AddTc, Token
<1>3. Reports(NewContext(room), c, "AcceptanceSuccess", i, "Accepted", TRUE)
  BY <1>1, <1>2, NewContextFacts, SuccessFacts
<1>4. Expected(NewContext(room), Expect(c), "AcceptanceSuccess", i, "Accepted")
  BY <1>3, ExpectedFacts
<1>5. Expect(c).result = "ok" => Expect(c).token = Token("Accepted", i)
  BY <1>4 DEF Expected, Went
<1> QED
  BY <1>1, <1>3, <1>4, <1>5

\* A telecommand in the queue of a service has the token of its own request.
LEMMA AcceptedFields ==
    ASSUME NEW x \in AcceptedTcs
    PROVE  /\ x.tc \in AllTcs /\ x.token = Token("Accepted", RequestIdNew(x.tc))
           /\ x.token.request_id = RequestIdNew(x.tc) /\ RequestIdNew(x.tc) \in Ids
<1>1. PICK tc \in AllTcs, addr \in 0..PoolSize : x = AcceptedTc(tc, addr)
  BY SMTT(60) DEF AcceptedTcs
<1>2. x.tc = tc /\ x.token = Token("Accepted", RequestIdNew(tc))
  BY <1>1 DEF AcceptedTc
<1>3. Token("Accepted", RequestIdNew(tc)).request_id = RequestIdNew(tc) /\ RequestIdNew(tc) \in Ids
  BY DEF Token, Ids
<1> QED
  BY <1>2, <1>3

\* A panic sends nothing.
LEMMA PanicFacts ==
    ASSUME NEW c, IsContext(c)
    PROVE  /\ IsContext(Panic(c)) /\ Panic(c).result = "panic" /\ Panic(c).tm = c.tm
           /\ Panic(c).full = c.full
BY SMTT(60) DEF Panic, IsContext, HasFields

-----------------------------------------------------------------------------
(* Request IDs and event IDs as numbers.                                   *)

\* Quotient and remainder of a number in two parts.
LEMMA DivMod ==
    ASSUME NEW m \in Nat \ {0}, NEW q \in Nat, NEW r \in 0..(m - 1)
    PROVE  (q * m + r) \div m = q /\ (q * m + r) % m = r
BY SMTT(60)

\* A number put together from three parts is taken apart again.
LEMMA ThreeParts ==
    ASSUME NEW A \in Nat \ {0}, NEW B \in Nat \ {0}, NEW x \in Nat, NEW y \in 0..(A - 1),
           NEW z \in 0..(B - 1)
    PROVE  HasParts(x * (A * B) + y * B + z, A, B, x, y, z)
<1>0. PICK n : n = x * (A * B) + y * B + z
  OBVIOUS
<1>1. PICK w : w = x * A + y
  OBVIOUS
<1>2. w \in Nat /\ n = w * B + z
  BY SMTT(60), <1>0, <1>1
<1>3. n \div B = w /\ n % B = z
  BY SMTT(60), <1>2, DivMod
<1>4. w % A = y
  BY SMTT(60), <1>1, DivMod
<1>5. PICK C, r : C = A * B /\ r = y * B + z
  OBVIOUS
<1>6. C \in Nat \ {0} /\ n = x * C + r
  BY SMTT(60), <1>0, <1>5
<1>7. r \in 0..(C - 1)
  <2>1. y * B <= (A - 1) * B /\ y * B \in Nat
    BY SMTT(60)
  <2>2. (A - 1) * B = C - B
    BY SMTT(60), <1>5
  <2> QED
    BY SMTT(60), <1>5, <1>6, <2>1, <2>2
<1>8. n \div C = x
  BY SMTT(60), <1>6, <1>7, DivMod
<1> QED
  BY <1>0, <1>3, <1>4, <1>5, <1>8 DEF HasParts

\* RequestId::from gives back the request ID that raw was called on.
LEMMA RequestIdRoundTrip ==
    ASSUME NEW id \in RequestIds
    PROVE  RequestIdFrom(RequestIdRaw(id)) = id
<1>1. PICK V, A, B : V = 2^VersionBits /\ A = 2^PacketIdBits /\ B = 2^PscBits
  OBVIOUS
<1>2. V \in Nat \ {0} /\ A \in Nat \ {0} /\ B \in Nat \ {0} /\ 2^(PacketIdBits + PscBits) = A * B
  BY <1>1, VerificationPowers
<1>3. /\ id.version \in 0..(V - 1) /\ id.packet_id \in 0..(A - 1) /\ id.psc \in 0..(B - 1)
      /\ id = [version |-> id.version, packet_id |-> id.packet_id, psc |-> id.psc]
  BY <1>1 DEF RequestIds
<1>4. PICK x, y, z : x = id.version /\ y = id.packet_id /\ z = id.psc
  OBVIOUS
<1>5. PICK n : n = RequestIdRaw(id)
  OBVIOUS
<1>6. x \in Nat /\ x \in 0..(V - 1) /\ y \in 0..(A - 1) /\ z \in 0..(B - 1)
  BY SMTT(60), <1>2, <1>3, <1>4
<1>7. n = x * (A * B) + y * B + z
  <2>1. n = (x * A + y) * B + z
    BY <1>1, <1>4, <1>5 DEF RequestIdRaw
  <2> QED
    BY SMTT(60), <1>2, <1>6, <2>1
<1>8. n % B = z /\ (n \div B) % A = y /\ n \div (A * B) = x
  <2>1. HasParts(x * (A * B) + y * B + z, A, B, x, y, z)
    BY <1>2, <1>6, ThreeParts
  <2> QED
    BY <1>7, <2>1 DEF HasParts
<1>9. x % V = x
  BY SMTT(60), <1>2, <1>6
<1>10. RequestIdFrom(n) = [version |-> x, packet_id |-> y, psc |-> z]
  <2>1. (n \div 2^(PacketIdBits + PscBits)) % 2^VersionBits = x
    BY <1>1, <1>2, <1>8, <1>9
  <2>2. (n \div 2^PscBits) % 2^PacketIdBits = y /\ n % 2^PscBits = z
    BY <1>1, <1>8
  <2> QED
    BY <2>1, <2>2 DEF RequestIdFrom
<1> QED
  BY <1>3, <1>4, <1>5, <1>10

\* EventU32::from gives back the event that raw was called on.
LEMMA EventRoundTrip ==
    ASSUME NEW event \in EventIds
    PROVE  EventFrom(Raw(event)) = event
<1>1. PICK G, U : G = 2^GroupBits /\ U = 2^UniqueBits
  OBVIOUS
<1>2. G \in Nat \ {0} /\ U \in Nat \ {0} /\ 2^(GroupBits + UniqueBits) = G * U
  BY <1>1, EventPowers
<1>3. /\ event.severity \in {Severities[i] : i \in 1..4} /\ event.group_id \in 0..(G - 1)
      /\ event.unique_id \in 0..(U - 1)
      /\ event = [severity |-> event.severity, group_id |-> event.group_id,
                  unique_id |-> event.unique_id]
  BY <1>1 DEF EventIds, MaxGroupId
<1>4. PICK i \in 1..4 : event.severity = Severities[i]
  BY <1>3
<1>5. \E j \in 0..3 : Severities[j + 1] = event.severity
  <2>1. i - 1 \in 0..3 /\ (i - 1) + 1 = i
    BY SMTT(60)
  <2> QED
    BY <1>4, <2>1
<1>6. PICK x, y, z : x = SeverityCode(event.severity) /\ y = event.group_id /\ z = event.unique_id
  OBVIOUS
<1>7. x \in 0..3 /\ Severities[x + 1] = event.severity
  BY <1>5, <1>6 DEF SeverityCode
<1>8. PICK n : n = Raw(event)
  OBVIOUS
<1>9. x \in Nat /\ y \in 0..(G - 1) /\ z \in 0..(U - 1) /\ x % 4 = x /\ ~ (y > G - 1)
  BY SMTT(60), <1>2, <1>3, <1>6, <1>7
<1>10. n = x * (G * U) + y * U + z
  BY <1>1, <1>2, <1>6, <1>8 DEF Raw
<1>11. n % U = z /\ (n \div U) % G = y /\ n \div (G * U) = x
  <2>1. HasParts(x * (G * U) + y * U + z, G, U, x, y, z)
    BY <1>2, <1>9, ThreeParts
  <2> QED
    BY <1>10, <2>1 DEF HasParts
<1>12. EventFrom(n) = NewChecked(Severities[x + 1], y, z)[1]
  <2>1. (n \div 2^(GroupBits + UniqueBits)) % 4 = x
    BY <1>2, <1>9, <1>11
  <2>2. (n \div 2^UniqueBits) % 2^GroupBits = y /\ n % 2^UniqueBits = z
    BY <1>1, <1>11
  <2> QED
    BY <2>1, <2>2 DEF EventFrom, SeverityFrom
<1>13. NewChecked(Severities[x + 1], y, z) =
          <<[severity |-> Severities[x + 1], group_id |-> y, unique_id |-> z]>>
  BY <1>1, <1>9 DEF NewChecked, MaxGroupId
<1>14. EventFrom(n) = [severity |-> Severities[x + 1], group_id |-> y, unique_id |-> z]
  BY SMTT(60), <1>12, <1>13
<1> QED
  BY <1>3, <1>6, <1>7, <1>8, <1>14

\* The events of the program have IDs that fit.
LEMMA EventsAreIds == Events \subseteq EventIds
<1>1. TestEvent \in EventIds
  <2>1. PICK e : e = [severity |-> Severities[1], group_id |-> 0, unique_id |-> 0]
    OBVIOUS
  <2>2. 0 \in 0..MaxGroupId /\ 0 \in 0..(2^UniqueBits - 1) /\ 1 \in 1..4
    <3>1. PICK G, U : G = 2^GroupBits /\ U = 2^UniqueBits
      OBVIOUS
    <3>2. G \in Nat \ {0} /\ U \in Nat \ {0}
      BY <3>1, EventPowers
    <3>3. 0 \in 0..(G - 1) /\ 0 \in 0..(U - 1) /\ 1 \in 1..4
      BY SMTT(60), <3>2
    <3> QED
      BY <3>1, <3>3 DEF MaxGroupId
  <2>3. e \in EventIds
    BY <2>1, <2>2 DEF EventIds
  <2>4. SeverityCode(Severities[1]) = 0
    <3>1. \A i \in 0..3 : Severities[i + 1] = Severities[1] <=> i = 0
      BY SMTT(60) DEF Severities
    <3>2. 0 \in 0..3
      BY SMTT(60)
    <3> QED
      BY <3>1, <3>2 DEF SeverityCode
  <2>5. Raw(e) = 0
    <3>1. PICK U, C : U = 2^UniqueBits /\ C = 2^(GroupBits + UniqueBits)
      OBVIOUS
    <3>2. U \in Nat /\ C \in Nat
      BY SMTT(60), <3>1, EventPowers
    <3>3. 0 * C + 0 * U + 0 = 0
      BY SMTT(60), <3>2
    <3> QED
      BY <2>1, <2>4, <3>1, <3>3 DEF Raw
  <2> QED
    BY <2>3, <2>5, EventRoundTrip DEF TestEvent
<1>2. ASSUME NEW tc \in Tcs PROVE EventFrom(tc.event) \in EventIds
  <2>1. PICK e \in EventIds : tc.event = Raw(e)
    BY CommandingAssumption DEF AllTcs
  <2> QED
    BY <2>1, EventRoundTrip
<1> QED
  BY <1>1, <1>2 DEF Events

-----------------------------------------------------------------------------
(* The reports that a handler has sent.                                    *)

\* One more packet adds its own place to the reports of its kind and request
\* only.
LEMMA SentAppend ==
    ASSUME NEW S, NEW tm \in Seq(S), NEW x \in S, NEW s, NEW id
    PROVE  Sent(Append(tm, x), s, id) =
              (IF x = [subservice |-> s, request_id |-> id]
               THEN Sent(tm, s, id) \cup {Len(tm) + 1} ELSE Sent(tm, s, id))
<1>1. /\ DOMAIN tm = 1..Len(tm) /\ Len(tm) \in Nat /\ DOMAIN Append(tm, x) = 1..(Len(tm) + 1)
      /\ Append(tm, x)[Len(tm) + 1] = x /\ \A i \in 1..Len(tm) : Append(tm, x)[i] = tm[i]
  BY SMTT(60)
<1>2. 1..(Len(tm) + 1) = 1..Len(tm) \cup {Len(tm) + 1} /\ Len(tm) + 1 \notin 1..Len(tm)
  BY SMTT(60), <1>1
<1>3. CASE x = [subservice |-> s, request_id |-> id]
  BY <1>1, <1>2, <1>3 DEF Sent
<1>4. CASE x # [subservice |-> s, request_id |-> id]
  BY <1>1, <1>2, <1>4 DEF Sent
<1> QED
  BY <1>3, <1>4

\* A handler that has sent no packet has sent no report.
LEMMA SendsNothing ==
    ASSUME NEW i
    PROVE  Sends(<< >>, i, {})
<1>1. ASSUME NEW s, NEW id PROVE Sent(<< >>, s, id) = {}
  BY SMTT(60) DEF Sent
<1> QED
  BY <1>1 DEF Sends

\* A report of a new kind is one more kind.
LEMMA SendsReport ==
    ASSUME NEW tm \in Seq(Tms), NEW i \in Ids, NEW K, Sends(tm, i, K), NEW s \in Subservices \ K
    PROVE  Sends(Append(tm, [subservice |-> s, request_id |-> i]), i, K \cup {s})
<1>1. PICK x : x = [subservice |-> s, request_id |-> i]
  OBVIOUS
<1>2. x \in Tms
  BY <1>1 DEF Tms
<1>3. ASSUME NEW id \in Ids, NEW t \in Subservices
      PROVE  IF id = i /\ t \in K \cup {s} THEN \E j : Sent(Append(tm, x), t, id) = {j}
                                           ELSE Sent(Append(tm, x), t, id) = {}
  <2>1. x = [subservice |-> t, request_id |-> id] <=> t = s /\ id = i
    BY SMTT(60), <1>1
  <2>2. Sent(Append(tm, x), t, id) =
           (IF t = s /\ id = i THEN Sent(tm, t, id) \cup {Len(tm) + 1} ELSE Sent(tm, t, id))
    BY SMTT(60), <1>2, <2>1, SentAppend
  <2>3. IF id = i /\ t \in K THEN \E j : Sent(tm, t, id) = {j} ELSE Sent(tm, t, id) = {}
    BY DEF Sends
  <2>4. CASE t = s /\ id = i
    <3>1. Sent(Append(tm, x), t, id) = {Len(tm) + 1}
      BY <2>2, <2>3, <2>4
    <3> QED
      BY <2>4, <3>1
  <2>5. CASE ~ (t = s /\ id = i)
    <3>1. Sent(Append(tm, x), t, id) = Sent(tm, t, id)
      BY <2>2, <2>5
    <3> QED
      BY <2>3, <2>5, <3>1
  <2> QED
    BY <2>4, <2>5
<1> QED
  BY <1>1, <1>3 DEF Sends

\* Other telemetry is no report.
LEMMA SendsOther ==
    ASSUME NEW S, NEW tm \in Seq(S), NEW i, NEW K, Sends(tm, i, K), NEW x \in S, DOMAIN x = {"subservice"}
    PROVE  Sends(Append(tm, x), i, K)
<1>1. ASSUME NEW id \in Ids, NEW t \in Subservices
      PROVE  Sent(Append(tm, x), t, id) = Sent(tm, t, id)
  <2>1. x # [subservice |-> t, request_id |-> id]
    BY SMTT(60)
  <2> QED
    BY SMTT(60), <2>1, SentAppend
<1> QED
  BY <1>1 DEF Sends

-----------------------------------------------------------------------------
(* The reports of the handlers.                                            *)

\* The kinds of reports that a handler may have sent.
LEMMA KindFacts ==
    /\ Plain({}) /\ ~ Begun({}) /\ ~ Final({})
    /\ Plain(Only("StartSuccess")) /\ ~ Final(Only("StartSuccess"))
    /\ Plain(Only("StepSuccess")) /\ ~ Begun(Only("StepSuccess")) /\ ~ Final(Only("StepSuccess"))
    /\ Plain(Only("StartFailure")) /\ Tells(Only("StartFailure"))
    /\ \A s \in Finals : Plain(Only(s)) /\ ~ Begun(Only(s)) /\ Final(Only(s)) /\ Tells(Only(s))
    /\ Plain(Both("StartSuccess", "CompletionSuccess")) /\ Tells(Both("StartSuccess", "CompletionSuccess"))
    /\ Plain(Both("StartFailure", "CompletionFailure")) /\ Tells(Both("StartFailure", "CompletionFailure"))
<1>1. Plain({}) /\ ~ Begun({}) /\ ~ Final({})
  BY DEF Plain, AtMostOne, Begun, Final
<1>2. /\ Plain(Only("StartSuccess")) /\ ~ Final(Only("StartSuccess"))
      /\ Plain(Only("StepSuccess")) /\ ~ Begun(Only("StepSuccess")) /\ ~ Final(Only("StepSuccess"))
      /\ Plain(Only("StartFailure")) /\ Tells(Only("StartFailure"))
  BY DEF Plain, AtMostOne, Begun, Final, Tells, Only, Finals, Begins
<1>3. ASSUME NEW s \in Finals PROVE Plain(Only(s)) /\ ~ Begun(Only(s)) /\ Final(Only(s)) /\ Tells(Only(s))
  BY DEF Plain, AtMostOne, Begun, Final, Tells, Only, Finals, Begins
<1>4. Plain(Both("StartSuccess", "CompletionSuccess")) /\ Tells(Both("StartSuccess", "CompletionSuccess"))
  BY DEF Plain, AtMostOne, Tells, Final, Both, Finals, Begins
<1>5. Plain(Both("StartFailure", "CompletionFailure")) /\ Tells(Both("StartFailure", "CompletionFailure"))
  BY DEF Plain, AtMostOne, Tells, Final, Both, Finals, Begins
<1> QED
  BY <1>1, <1>2, <1>3, <1>4, <1>5

\* At the start nothing is reported.
LEMMA NewWrote ==
    ASSUME NEW room \in Nat, NEW i
    PROVE  Wrote(NewContext(room), i, {})
BY NewContextFacts, SendsNothing DEF Wrote

\* The first report of a handler ...
LEMMA FirstReport ==
    ASSUME NEW c, NEW d, NEW i \in Ids, NEW s \in Subservices, NEW next, NEW fits,
           Wrote(c, i, {}), Reports(c, d, s, i, next, fits)
    PROVE  \/ Wrote(d, i, Only(s)) /\ Went(c, d, s, i, next)
           \/ Wrote(d, i, {}) /\ Stopped(c, d, fits)
<1>1. CASE Went(c, d, s, i, next)
  <2>1. d.tm = Append(c.tm, [subservice |-> s, request_id |-> i]) /\ IsContext(d)
    BY <1>1 DEF Went, Took, Reports
  <2>2. Sends(Append(c.tm, [subservice |-> s, request_id |-> i]), i, {} \cup {s})
    BY SendsReport DEF Wrote, IsContext
  <2>3. {} \cup {s} = Only(s)
    BY DEF Only
  <2> QED
    BY <1>1, <2>1, <2>2, <2>3 DEF Wrote
<1>2. CASE Stopped(c, d, fits)
  BY <1>2 DEF Stopped, Wrote, Reports
<1> QED
  BY <1>1, <1>2 DEF Reports

\* ... and a second of another kind.
LEMMA SecondReport ==
    ASSUME NEW c, NEW d, NEW i \in Ids, NEW s, NEW t \in Subservices, s # t, NEW next, NEW fits,
           Wrote(c, i, Only(s)), Reports(c, d, t, i, next, fits)
    PROVE  \/ Wrote(d, i, Both(s, t)) /\ Went(c, d, t, i, next)
           \/ Wrote(d, i, Only(s)) /\ Stopped(c, d, fits)
<1>1. CASE Went(c, d, t, i, next)
  <2>1. d.tm = Append(c.tm, [subservice |-> t, request_id |-> i]) /\ IsContext(d)
    BY <1>1 DEF Went, Took, Reports
  <2>2. t \in Subservices \ Only(s)
    BY DEF Only
  <2>3. Sends(Append(c.tm, [subservice |-> t, request_id |-> i]), i, Only(s) \cup {t})
    BY <2>2, SendsReport DEF Wrote, IsContext
  <2>4. Only(s) \cup {t} = Both(s, t)
    BY DEF Only, Both
  <2> QED
    BY <1>1, <2>1, <2>3, <2>4 DEF Wrote
<1>2. CASE Stopped(c, d, fits)
  BY <1>2 DEF Stopped, Wrote, Reports
<1> QED
  BY <1>1, <1>2 DEF Reports

\* expect() leaves the reports alone.
LEMMA WroteExpect ==
    ASSUME NEW c, NEW i, NEW K, Wrote(c, i, K)
    PROVE  /\ Wrote(Expect(c), i, K) /\ Expect(c).token = c.token /\ Expect(c).full = c.full
           /\ Expect(c).result \in {"ok", "panic"} /\ (Expect(c).result = "ok" <=> c.result = "ok")
<1>1. IsContext(c)
  BY DEF Wrote
<1>2. IsContext(Expect(c)) /\ Expect(c).tm = c.tm
  BY <1>1, ExpectFacts
<1> QED
  BY <1>1, <1>2, ExpectFacts DEF Wrote

\* A report that must be sent.
LEMMA FirstExpected ==
    ASSUME NEW c, NEW d, NEW i \in Ids, NEW s \in Subservices, NEW next, NEW fits,
           Wrote(c, i, {}), Reports(c, d, s, i, next, fits)
    PROVE  \/ Wrote(Expect(d), i, Only(s)) /\ Expect(d).result = "ok" /\ Expect(d).token = Token(next, i)
           \/ Wrote(Expect(d), i, {}) /\ Expect(d).result = "panic"
<1>1. CASE Wrote(d, i, Only(s)) /\ Went(c, d, s, i, next)
  BY <1>1, WroteExpect DEF Went, Took
<1>2. CASE Wrote(d, i, {}) /\ Stopped(c, d, fits)
  BY <1>2, WroteExpect DEF Stopped
<1> QED
  BY <1>1, <1>2, FirstReport

\* A second report under expect().
LEMMA SecondExpected ==
    ASSUME NEW c, NEW d, NEW i \in Ids, NEW s, NEW t \in Subservices, s # t, NEW next, NEW fits,
           Wrote(c, i, Only(s)), Reports(c, d, t, i, next, fits)
    PROVE  \/ Wrote(Expect(d), i, Both(s, t)) /\ Expect(d).result = "ok"
           \/ Wrote(Expect(d), i, Only(s)) /\ Expect(d).result = "panic"
<1>1. CASE Wrote(d, i, Both(s, t)) /\ Went(c, d, t, i, next)
  BY <1>1, WroteExpect DEF Went, Took
<1>2. CASE Wrote(d, i, Only(s)) /\ Stopped(c, d, fits)
  BY <1>2, WroteExpect DEF Stopped
<1> QED
  BY <1>1, <1>2, SecondReport

\* A handler that has panicked sends nothing more.
LEMMA PanicStays ==
    ASSUME NEW c, c.result = "panic", NEW token, NEW n
    PROVE  StartFailure(c, token, n) = c /\ CompletionSuccess(c, token) = c /\ Expect(c) = c
           /\ CompletionFailure(c, token, n) = c
BY DEF StartFailure, CompletionSuccess, CompletionFailure, SendReport, Expect

\* A handler that refuses a telecommand reports its start failure.
LEMMA RefusedServed ==
    ASSUME NEW room \in Nat, NEW i \in Ids, NEW token, token.request_id = i, NEW n
    PROVE  Served(Expect(StartFailure(NewContext(room), token, n)), i, FALSE)
<1>1. PICK c, d : c = NewContext(room) /\ d = StartFailure(c, token, n)
  OBVIOUS
<1>2. Wrote(c, i, {}) /\ "StartFailure" \in Subservices
  BY <1>1, NewWrote DEF Subservices
<1>3. Reports(c, d, "StartFailure", i, "Completed", SourceBufferLargeEnough(FailLen(0, n)))
  BY <1>1, <1>2, FailureFacts DEF Wrote
<1>4. \/ Wrote(Expect(d), i, Only("StartFailure"))
      \/ Wrote(Expect(d), i, {}) /\ Expect(d).result = "panic"
  BY <1>2, <1>3, FirstExpected
<1> QED
  BY <1>1, <1>4, KindFacts DEF Served

\* The end of the handlers that complete what they have started.
LEMMA CompletionServed ==
    ASSUME NEW d, NEW i \in Ids, Wrote(d, i, Only("StartSuccess")), NEW token, token.request_id = i
    PROVE  /\ Served(CompletionSuccess(d, token), i, FALSE)
           /\ Served(Expect(CompletionSuccess(d, token)), i, FALSE)
<1>1. PICK e : e = CompletionSuccess(d, token)
  OBVIOUS
<1>2. "CompletionSuccess" \in Subservices /\ "StartSuccess" # "CompletionSuccess"
  BY DEF Subservices
<1>3. Reports(d, e, "CompletionSuccess", i, "Completed", TRUE)
  BY <1>1, SuccessFacts DEF Wrote
<1>4. \/ Wrote(e, i, Both("StartSuccess", "CompletionSuccess"))
      \/ Wrote(e, i, Only("StartSuccess")) /\ Stopped(d, e, TRUE)
  BY <1>2, <1>3, SecondReport
<1>5. Served(e, i, FALSE)
  BY <1>4, KindFacts DEF Served, Stopped
<1>6. \/ Wrote(Expect(e), i, Both("StartSuccess", "CompletionSuccess"))
      \/ Wrote(Expect(e), i, Only("StartSuccess")) /\ Expect(e).result = "panic"
  BY <1>2, <1>3, SecondExpected
<1>7. Served(Expect(e), i, FALSE)
  BY <1>6, KindFacts DEF Served
<1> QED
  BY <1>1, <1>5, <1>7

\* The parts of a token.
LEMMA TokenFields ==
    ASSUME NEW state, NEW i
    PROVE  Token(state, i).request_id = i /\ Token(state, i).state = state
BY DEF Token

\* A start is reported, or the handler has not started.
LEMMA StartFacts ==
    ASSUME NEW room \in Nat, NEW i \in Ids, NEW token, token.request_id = i
    PROVE  /\ StartsWith(StartSuccess(NewContext(room), token), i)
           /\ StartsWith(Expect(StartSuccess(NewContext(room), token)), i)
           /\ Expect(StartSuccess(NewContext(room), token)).result \in {"ok", "panic"}
<1>1. PICK c, d : c = NewContext(room) /\ d = StartSuccess(c, token)
  OBVIOUS
<1>2. Wrote(c, i, {}) /\ "StartSuccess" \in Subservices
  BY <1>1, NewWrote DEF Subservices
<1>3. Reports(c, d, "StartSuccess", i, "Started", TRUE)
  BY <1>1, <1>2, SuccessFacts DEF Wrote
<1>4. \/ Wrote(d, i, Only("StartSuccess")) /\ Went(c, d, "StartSuccess", i, "Started")
      \/ Wrote(d, i, {}) /\ Stopped(c, d, TRUE)
  BY <1>2, <1>3, FirstReport
<1>5. StartsWith(d, i)
  BY <1>4 DEF StartsWith, Went, Took, Stopped
<1>6. \/ /\ Wrote(Expect(d), i, Only("StartSuccess")) /\ Expect(d).result = "ok"
         /\ Expect(d).token = Token("Started", i)
      \/ Wrote(Expect(d), i, {}) /\ Expect(d).result = "panic"
  BY <1>2, <1>3, FirstExpected
<1>7. StartsWith(Expect(d), i) /\ Expect(d).result \in {"ok", "panic"}
  BY <1>6 DEF StartsWith
<1> QED
  BY <1>1, <1>5, <1>7

\* Start and completion in one handler.
LEMMA StartAndCompleteServed ==
    ASSUME NEW room \in Nat, NEW i \in Ids, NEW token, token.request_id = i
    PROVE  Served(StartAndComplete(NewContext(room), token), i, FALSE)
<1>1. PICK c, d : c = NewContext(room) /\ d = StartSuccess(c, token)
  OBVIOUS
<1>2. StartsWith(d, i)
  BY <1>1, StartFacts
<1>3. CASE d.result = "ok"
  <2>0. Wrote(d, i, Only("StartSuccess")) /\ d.token = Token("Started", i)
    BY <1>2, <1>3 DEF StartsWith
  <2>1. d.token.request_id = i
    BY SMTT(60), <2>0, TokenFields
  <2>2. StartAndComplete(c, token) = CompletionSuccess(d, d.token)
    BY <1>1, <1>3 DEF StartAndComplete
  <2> QED
    BY <1>1, <2>0, <2>1, <2>2, CompletionServed
<1>4. CASE d.result # "ok"
  <2>1. StartAndComplete(c, token) = d
    BY <1>1, <1>4 DEF StartAndComplete
  <2>2. Served(d, i, FALSE)
    BY <1>2, <1>4, KindFacts DEF StartsWith, Served
  <2> QED
    BY <1>1, <2>1, <2>2
<1> QED
  BY <1>3, <1>4

\* Packets other than verification reports.
LEMMA OtherWrote ==
    ASSUME NEW c, NEW i, NEW K, Wrote(c, i, K), NEW x \in Tms, DOMAIN x = {"subservice"}
    PROVE  /\ Wrote(SendTm(c, x), i, K) /\ SendTm(c, x).token = c.token
           /\ \/ SendTm(c, x).result = "ok" /\ SendTm(c, x).full = c.full
              \/ SendTm(c, x).result # "ok" /\ (SendTm(c, x).result = "panic" \/ SendTm(c, x).full)
<1>1. PICK d : d = SendTm(c, x)
  OBVIOUS
<1>2. IsContext(d) /\ d.token = c.token /\ (Took(c, d, x) \/ Stopped(c, d, TRUE))
  BY <1>1, SendTmFacts DEF Wrote
<1>3. CASE Took(c, d, x)
  <2>1. d.tm = Append(c.tm, x)
    BY <1>3 DEF Took
  <2>2. Sends(Append(c.tm, x), i, K)
    BY SendsOther DEF Wrote, IsContext
  <2> QED
    BY <1>1, <1>2, <1>3, <2>1, <2>2 DEF Wrote, Took
<1>4. CASE Stopped(c, d, TRUE)
  BY <1>1, <1>2, <1>4 DEF Wrote, Stopped
<1> QED
  BY <1>2, <1>3, <1>4

\* Replies to a ping and on a mode are telemetry without a request ID.
LEMMA OtherTmFacts ==
    ASSUME NEW name \in {"PingReply", "ModeReply"}
    PROVE  OtherTm(name) \in Tms /\ DOMAIN OtherTm(name) = {"subservice"}
<1>1. name \in TmNames
  BY DEF TmNames
<1> QED
  BY <1>1 DEF OtherTm, Tms

\* The ping of the test service.
LEMMA PingServed ==
    ASSUME NEW room \in Nat, NEW i \in Ids, NEW token, token.request_id = i
    PROVE  Served(Ping(NewContext(room), token), i, FALSE)
<1>1. PICK c, d, e : /\ c = NewContext(room) /\ d = StartSuccess(c, token)
                     /\ e = SendTm(d, OtherTm("PingReply"))
  OBVIOUS
<1>2. StartsWith(d, i)
  BY <1>1, StartFacts
<1>3. OtherTm("PingReply") \in Tms /\ DOMAIN OtherTm("PingReply") = {"subservice"}
  BY OtherTmFacts
<1>4. CASE d.result = "ok"
  <2>0. Wrote(d, i, Only("StartSuccess")) /\ d.token = Token("Started", i)
    BY <1>2, <1>4 DEF StartsWith
  <2>1. d.token.request_id = i
    BY SMTT(60), <2>0, TokenFields
  <2>2. Wrote(e, i, Only("StartSuccess"))
    BY <1>1, <1>3, <2>0, OtherWrote
  <2>3. Ping(c, token) = CompletionSuccess(e, d.token)
    BY <1>1, <1>4 DEF Ping
  <2> QED
    BY <1>1, <2>1, <2>2, <2>3, CompletionServed
<1>5. CASE d.result # "ok"
  <2>1. Ping(c, token) = e
    BY <1>1, <1>5 DEF Ping
  <2>2. Wrote(d, i, {}) /\ (d.result = "panic" \/ d.full)
    BY <1>2, <1>5 DEF StartsWith
  <2>3. Wrote(e, i, {})
    BY <1>1, <1>3, <2>2, OtherWrote
  <2>4. e.result = "panic" \/ e.full
    <3>1. CASE d.result = "panic"
      BY <1>1, <3>1 DEF SendTm
    <3>2. CASE d.full
      BY <1>1, <1>3, <2>2, <3>2, SendTmFacts DEF Wrote, Took, Stopped
    <3> QED
      BY <2>2, <3>1, <3>2
  <2> QED
    BY <1>1, <2>1, <2>3, <2>4, KindFacts DEF Served
<1> QED
  BY <1>4, <1>5

\* The test service serves what it takes, whatever the subservice.
LEMMA TestServed ==
    ASSUME NEW x \in AcceptedTcs, NEW room \in Nat
    PROVE  Served(HandleTestTc(NewContext(room), x.tc, x.token), RequestIdNew(x.tc), FALSE)
<1>1. x.token.request_id = RequestIdNew(x.tc) /\ RequestIdNew(x.tc) \in Ids
  BY AcceptedFields
<1>2. HandleTestTc(NewContext(room), x.tc, x.token) \in
         {Ping(NewContext(room), x.token), StartAndComplete(NewContext(room), x.token),
          Expect(StartFailure(NewContext(room), x.token, 1))}
  BY DEF HandleTestTc
<1>3. Served(Ping(NewContext(room), x.token), RequestIdNew(x.tc), FALSE)
  BY <1>1, PingServed
<1>4. Served(StartAndComplete(NewContext(room), x.token), RequestIdNew(x.tc), FALSE)
  BY <1>1, StartAndCompleteServed
<1>5. Served(Expect(StartFailure(NewContext(room), x.token, 1)), RequestIdNew(x.tc), FALSE)
  BY <1>1, RefusedServed
<1> QED
  BY <1>2, <1>3, <1>4, <1>5

\* The scheduling service does, but for the subservices that it does not
\* know.
LEMMA SchedServed ==
    ASSUME NEW x \in AcceptedTcs, NEW room \in Nat
    PROVE  Served(HandleSchedTc(NewContext(room), x.tc, x.token), RequestIdNew(x.tc),
                  x.tc.subservice \notin SchedSubservices)
<1>1. PICK i, c, s : i \in Ids /\ i = RequestIdNew(x.tc) /\ c = NewContext(room) /\ s = x.tc.subservice
  BY AcceptedFields
<1>2. x.token.request_id = i
  BY <1>1, AcceptedFields
<1>3. PICK d : d = Expect(StartSuccess(c, x.token))
  OBVIOUS
<1>4. StartsWith(d, i) /\ d.result \in {"ok", "panic"}
  BY <1>1, <1>2, <1>3, StartFacts
<1>5. ASSUME NEW e, NEW b, Served(e, i, FALSE) PROVE Served(e, i, b)
  BY <1>5 DEF Served
<1>6. CASE s \in {"Enable", "Disable"}
  <2>1. HandleSchedTc(c, x.tc, x.token) = StartAndComplete(c, x.token)
    BY <1>1, <1>6 DEF HandleSchedTc
  <2>2. Served(StartAndComplete(c, x.token), i, FALSE)
    BY <1>1, <1>2, StartAndCompleteServed
  <2> QED
    BY <1>1, <1>5, <2>1, <2>2
<1>7. Served(Expect(CompletionSuccess(d, d.token)), i, FALSE)
  <2>1. CASE d.result = "ok"
    <3>0. Wrote(d, i, Only("StartSuccess")) /\ d.token = Token("Started", i)
      BY <1>4, <2>1 DEF StartsWith
    <3>1. d.token.request_id = i
      BY SMTT(60), <3>0, TokenFields
    <3> QED
      BY <1>1, <3>0, <3>1, CompletionServed
  <2>2. CASE d.result = "panic"
    <3>1. Expect(CompletionSuccess(d, d.token)) = d
      BY <2>2, PanicStays
    <3>2. Wrote(d, i, {})
      BY <1>4, <2>2 DEF StartsWith
    <3> QED
      BY <2>2, <3>1, <3>2, KindFacts DEF Served
  <2> QED
    BY <1>4, <2>1, <2>2
<1>8. Served(Panic(d), i, FALSE)
  <2>1. ASSUME NEW K, Wrote(d, i, K) PROVE Wrote(Panic(d), i, K) /\ Panic(d).result = "panic"
    BY <2>1, PanicFacts DEF Wrote
  <2> QED
    BY <1>4, <2>1, KindFacts DEF StartsWith, Served
<1>9. CASE s = "Reset"
  <2>1. HandleSchedTc(c, x.tc, x.token) = Expect(CompletionSuccess(d, d.token))
    BY <1>1, <1>3, <1>9 DEF HandleSchedTc
  <2> QED
    BY <1>1, <1>5, <1>7, <2>1
<1>10. CASE s = "Insert"
  <2>1. HandleSchedTc(c, x.tc, x.token) \in {Expect(CompletionSuccess(d, d.token)), Panic(d)}
    BY <1>1, <1>3, <1>10 DEF HandleSchedTc, InsertActivity
  <2> QED
    BY <1>1, <1>5, <1>7, <1>8, <2>1
<1>11. CASE s \notin SchedSubservices
  <2>1. HandleSchedTc(c, x.tc, x.token) = c
    BY <1>1, <1>11 DEF HandleSchedTc, SchedSubservices
  <2> QED
    BY <1>1, <1>11, <2>1, NewWrote, KindFacts DEF Served
<1> QED
  BY <1>6, <1>9, <1>10, <1>11 DEF SchedSubservices

\* A service with targets has started what it routes, and serves all else.
LEMMA TargetedServed ==
    ASSUME NEW x \in AcceptedTcs, NEW room \in Nat, NEW service \in Targeted
    PROVE  LET c == HandleTargetedTc(NewContext(room), service, x.tc, x.token)
               i == RequestIdNew(x.tc)
           IN  IF IsRouted(service, x.tc) /\ c.result = "ok" THEN Started(c, i)
                                                            ELSE Served(c, i, FALSE)
<1>1. PICK i, n : i \in Ids /\ i = RequestIdNew(x.tc) /\ n = NewContext(room)
  BY AcceptedFields
<1>2. x.token.request_id = i /\ Wrote(n, i, {})
  BY <1>1, AcceptedFields, NewWrote
<1>3. PICK c, request : /\ c = HandleTargetedTc(n, service, x.tc, x.token)
                        /\ request = Convert(service, x.tc)
  OBVIOUS
<1>4. request.result \in {"todo", "NotEnoughAppData", "InvalidSubservice", "ok"}
  <2>1. {ConvertAction(x.tc).result, ConvertHk(x.tc).result, ConvertMode(x.tc).result}
           \subseteq {"todo", "NotEnoughAppData", "InvalidSubservice", "ok"}
    BY DEF ConvertAction, ConvertHk, ConvertMode, Refused, Request
  <2> QED
    BY <1>3, <2>1 DEF Convert, Targeted
<1>5. CASE request.result = "todo"
  <2>1. c = Panic(n) /\ ~ IsRouted(service, x.tc)
    BY <1>3, <1>5 DEF HandleTargetedTc, IsRouted
  <2>2. Wrote(c, i, {}) /\ c.result = "panic"
    BY <1>2, <2>1, PanicFacts DEF Wrote
  <2>3. Served(c, i, FALSE)
    BY <2>2, KindFacts DEF Served
  <2> QED
    BY <1>1, <1>3, <2>1, <2>3
<1>6. CASE request.result \in {"NotEnoughAppData", "InvalidSubservice"}
  <2>1. PICK f, d, m, e : /\ f = StartFailure(n, x.token, request.fail_data) /\ d = Expect(f)
                          /\ m = (IF request.result = "NotEnoughAppData" THEN 8 ELSE 1)
                          /\ e = CompletionFailure(d, x.token, m)
    OBVIOUS
  <2>2. c = Expect(e) /\ ~ IsRouted(service, x.tc)
    BY <1>3, <1>6, <2>1 DEF HandleTargetedTc, IsRouted, HandleConversionToRequestError
  <2>3. /\ "StartFailure" \in Subservices /\ "CompletionFailure" \in Subservices
        /\ "StartFailure" # "CompletionFailure"
    BY DEF Subservices
  <2>4. PICK fits : Reports(n, f, "StartFailure", i, "Completed", fits)
    BY <1>1, <1>2, <2>1, FailureFacts DEF Wrote
  <2>5. \/ Wrote(d, i, Only("StartFailure"))
        \/ Wrote(d, i, {}) /\ d.result = "panic"
    <3>1. \/ /\ Wrote(Expect(f), i, Only("StartFailure")) /\ Expect(f).result = "ok"
             /\ Expect(f).token = Token("Completed", i)
          \/ Wrote(Expect(f), i, {}) /\ Expect(f).result = "panic"
      BY <1>1, <1>2, <2>3, <2>4, FirstExpected
    <3> QED
      BY <2>1, <3>1
  <2>6. CASE Wrote(d, i, Only("StartFailure"))
    <3>1. Reports(d, e, "CompletionFailure", i, "Completed", SourceBufferLargeEnough(FailLen(0, m)))
      BY <1>1, <1>2, <2>1, <2>6, FailureFacts DEF Wrote
    <3>2. Wrote(Expect(e), i, Both("StartFailure", "CompletionFailure")) \/ Wrote(Expect(e), i, Only("StartFailure"))
      BY <1>1, <2>3, <2>6, <3>1, SecondExpected
    <3>3. Served(c, i, FALSE)
      BY <2>2, <3>2, KindFacts DEF Served
    <3> QED
      BY <1>1, <1>3, <2>2, <3>3
  <2>7. CASE Wrote(d, i, {}) /\ d.result = "panic"
    <3>0. e = d
      BY SMTT(60), <2>1, <2>7, PanicStays
    <3>1. c = d
      BY SMTT(60), <2>2, <2>7, <3>0, PanicStays
    <3>2. Served(c, i, FALSE)
      BY <2>7, <3>1, KindFacts DEF Served
    <3> QED
      BY <1>1, <1>3, <2>2, <3>2
  <2> QED
    BY <2>5, <2>6, <2>7
<1>7. CASE request.result = "ok" /\ ~ Routes(x.tc)
  <2>1. PICK e : e = CompletionFailure(n, x.token, TargetIdLen)
    OBVIOUS
  <2>2. c = Expect(e) /\ ~ IsRouted(service, x.tc)
    BY <1>3, <1>7, <2>1 DEF HandleTargetedTc, IsRouted, HandleErrorGeneric
  <2>3. "CompletionFailure" \in Subservices /\ "CompletionFailure" \in Finals
    BY DEF Subservices, Finals
  <2>4. Reports(n, e, "CompletionFailure", i, "Completed", SourceBufferLargeEnough(FailLen(0, TargetIdLen)))
    BY <1>1, <1>2, <2>1, FailureFacts DEF Wrote
  <2>5. Wrote(c, i, Only("CompletionFailure")) \/ (Wrote(c, i, {}) /\ c.result = "panic")
    BY <1>1, <1>2, <2>2, <2>3, <2>4, FirstExpected
  <2>6. Served(c, i, FALSE)
    BY <2>3, <2>5, KindFacts DEF Served
  <2> QED
    BY <1>1, <1>3, <2>2, <2>6
<1>8. CASE request.result = "ok" /\ Routes(x.tc)
  <2>1. c = Expect(StartSuccess(n, x.token))
    BY <1>3, <1>8 DEF HandleTargetedTc
  <2>2. StartsWith(c, i) /\ c.result \in {"ok", "panic"}
    BY <1>1, <1>2, <2>1, StartFacts
  <2>3. c.result = "ok" => Started(c, i)
    BY <2>2 DEF StartsWith, Started
  <2>4. c.result # "ok" => Served(c, i, FALSE)
    BY <2>2, KindFacts DEF StartsWith, Served
  <2>5. IsRouted(service, x.tc)
    BY <1>3, <1>8 DEF IsRouted
  <2> QED
    BY <1>1, <1>3, <2>3, <2>4, <2>5
<1> QED
  BY <1>4, <1>5, <1>6, <1>7, <1>8

\* The event service starts what it hands on, ...
LEMMA EventTcWrites ==
    ASSUME NEW x \in AcceptedTcs, NEW room \in Nat
    PROVE  LET c == HandleEventTc(NewContext(room), x.tc, x.token)
               i == RequestIdNew(x.tc)
           IN  Wrote(c, i, Only("StartSuccess")) \/ Wrote(c, i, {})
<1>1. PICK i, n : i \in Ids /\ i = RequestIdNew(x.tc) /\ n = NewContext(room)
  BY AcceptedFields
<1>2. x.token.request_id = i /\ Wrote(n, i, {})
  BY <1>1, AcceptedFields, NewWrote
<1>3. StartsWith(StartSuccess(n, x.token), i)
  BY <1>1, <1>2, StartFacts
<1> QED
  BY <1>1, <1>2, <1>3 DEF HandleEventTc, StartsWith

\* The event handler completes the request of the event service.
LEMMA EventRequestFinishes ==
    ASSUME NEW e, Head(e.requests) \in EventReqs, NEW room \in Nat
    PROVE  Finishes(HandleEventRequest(NewContext(room), e), Head(e.requests).token.request_id)
<1>1. PICK r, i, n : r = Head(e.requests) /\ i = r.token.request_id /\ n = NewContext(room)
  OBVIOUS
<1>2. i \in Ids /\ Wrote(n, i, {})
  BY <1>1, NewWrote DEF EventReqs, EventTokens
<1>3. HandleEventRequest(n, e) \in {Expect(CompletionSuccess(n, r.token)), Panic(n)}
  BY <1>1 DEF HandleEventRequest, Panic
<1>4. Finishes(Expect(CompletionSuccess(n, r.token)), i)
  <2>1. PICK d : d = CompletionSuccess(n, r.token)
    OBVIOUS
  <2>2. Reports(n, d, "CompletionSuccess", i, "Completed", TRUE)
    BY <1>1, <1>2, <2>1, SuccessFacts DEF Wrote
  <2>3. "CompletionSuccess" \in Subservices /\ "CompletionSuccess" \in Finals
    BY DEF Subservices, Finals
  <2>4. \/ /\ Wrote(Expect(d), i, Only("CompletionSuccess")) /\ Expect(d).result = "ok"
           /\ Expect(d).token = Token("Completed", i)
        \/ Wrote(Expect(d), i, {}) /\ Expect(d).result = "panic"
    BY <1>2, <2>2, <2>3, FirstExpected
  <2> QED
    BY <2>1, <2>3, <2>4, KindFacts DEF Finishes
<1>5. Finishes(Panic(n), i)
  <2>1. Wrote(Panic(n), i, {}) /\ Panic(n).result = "panic"
    BY <1>2, PanicFacts DEF Wrote
  <2> QED
    BY <2>1, KindFacts DEF Finishes
<1> QED
  BY <1>1, <1>3, <1>4, <1>5

\* A reply that ends a request is reported as such.
LEMMA FinalReplied ==
    ASSUME NEW c, NEW d, NEW i \in Ids, NEW s \in Finals, NEW next, NEW fits, NEW reply,
           Wrote(c, i, {}), Reports(c, d, s, i, next, fits), fits \/ TooLong(reply),
           reply.kind \notin Progress
    PROVE  Replied(d, i, reply) /\ Replied(Expect(d), i, reply)
<1>1. s \in Subservices
  BY DEF Finals, Subservices
<1>2. \/ Wrote(d, i, Only(s)) /\ Went(c, d, s, i, next)
      \/ Wrote(d, i, {}) /\ Stopped(c, d, fits)
  BY <1>1, FirstReport
<1>3. Replied(d, i, reply)
  BY <1>2, KindFacts DEF Replied, Went, Took, Stopped
<1>4. \/ /\ Wrote(Expect(d), i, Only(s)) /\ Expect(d).result = "ok"
         /\ Expect(d).token = Token(next, i)
      \/ Wrote(Expect(d), i, {}) /\ Expect(d).result = "panic"
  BY <1>1, FirstExpected
<1>5. Replied(Expect(d), i, reply)
  BY <1>4, KindFacts DEF Replied
<1> QED
  BY <1>3, <1>5

\* What the replies of an action target are reported as, ...
LEMMA ActionReplied ==
    ASSUME NEW room \in Nat, NEW i \in Ids, NEW token, token.request_id = i, NEW reply,
           reply.kind \in ActionReplies
    PROVE  Replied(HandleActionReply(NewContext(room), token, reply), i, reply)
<1>1. PICK n : n = NewContext(room)
  OBVIOUS
<1>2. Wrote(n, i, {}) /\ n.result = "ok"
  BY <1>1, NewWrote, NewContextFacts
<1>3. {"CompletionSuccess", "CompletionFailure", "StepFailure"} \subseteq Finals
  BY DEF Finals
<1>4. CASE reply.kind = "CompletionFailed"
  <2>1. PICK d, m : d = CompletionFailure(n, token, m) /\ m = ParamsLen(reply.params)
    OBVIOUS
  <2>2. HandleActionReply(n, token, reply) = d
    BY <1>4, <2>1 DEF HandleActionReply, HandleCompletionFailureWithGenericParams
  <2>3. Reports(n, d, "CompletionFailure", i, "Completed", SourceBufferLargeEnough(FailLen(0, m)))
    BY <1>2, <2>1, FailureFacts DEF Wrote
  <2>4. SourceBufferLargeEnough(FailLen(0, m)) \/ TooLong(reply)
    BY <1>4, <2>1 DEF TooLong
  <2>5. reply.kind \notin Progress
    BY <1>4 DEF Progress
  <2>6. Replied(d, i, reply)
    BY <1>2, <1>3, <2>3, <2>4, <2>5, FinalReplied
  <2> QED
    BY <1>1, <2>2, <2>6
<1>5. CASE reply.kind = "StepFailed"
  <2>1. PICK d, m : d = StepFailure(n, token, m) /\ m = ParamsLen(reply.params)
    OBVIOUS
  <2>2. HandleActionReply(n, token, reply) = d
    BY <1>5, <2>1 DEF HandleActionReply, HandleStepFailureWithGenericParams
  <2>3. Reports(n, d, "StepFailure", i, "Completed", SourceBufferLargeEnough(FailLen(StepLen, m)))
    BY <1>2, <2>1, FailureFacts DEF Wrote
  <2>4. SourceBufferLargeEnough(FailLen(StepLen, m)) \/ TooLong(reply)
    BY <1>5, <2>1 DEF TooLong
  <2>5. reply.kind \notin Progress
    BY <1>5 DEF Progress
  <2>6. Replied(d, i, reply)
    BY <1>2, <1>3, <2>3, <2>4, <2>5, FinalReplied
  <2> QED
    BY <1>1, <2>2, <2>6
<1>6. CASE reply.kind = "Completed"
  <2>1. PICK d : d = CompletionSuccess(n, token)
    OBVIOUS
  <2>2. HandleActionReply(n, token, reply) = d
    BY <1>6, <2>1 DEF HandleActionReply
  <2>3. Reports(n, d, "CompletionSuccess", i, "Completed", TRUE)
    BY <1>2, <2>1, SuccessFacts DEF Wrote
  <2>4. reply.kind \notin Progress
    BY <1>6 DEF Progress
  <2>5. Replied(d, i, reply)
    BY <1>2, <1>3, <2>3, <2>4, FinalReplied
  <2> QED
    BY <1>1, <2>2, <2>5
<1>7. CASE reply.kind = "StepSuccess"
  <2>1. PICK d : d = StepSuccess(n, token)
    OBVIOUS
  <2>2. HandleActionReply(n, token, reply) = d
    BY <1>7, <2>1 DEF HandleActionReply
  <2>3. Reports(n, d, "StepSuccess", i, "Started", TRUE) /\ "StepSuccess" \in Subservices
    BY <1>2, <2>1, SuccessFacts DEF Wrote, Subservices
  <2>4. \/ Wrote(d, i, Only("StepSuccess")) /\ Went(n, d, "StepSuccess", i, "Started")
        \/ Wrote(d, i, {}) /\ Stopped(n, d, TRUE)
    BY <1>2, <2>3, FirstReport
  <2>5. reply.kind \in Progress
    BY <1>7 DEF Progress
  <2>6. Replied(d, i, reply)
    BY <2>4, <2>5, KindFacts DEF Replied, Ends, Went, Took, Stopped
  <2> QED
    BY <1>1, <2>2, <2>6
<1>8. CASE reply.kind = "Received"
  <2>1. HandleActionReply(n, token, reply) = n
    BY <1>8 DEF HandleActionReply
  <2>2. reply.kind \in Progress
    BY <1>8 DEF Progress
  <2>3. Replied(n, i, reply)
    BY <1>2, <2>2, KindFacts DEF Replied, Ends
  <2> QED
    BY <1>1, <2>1, <2>3
<1> QED
  BY <1>4, <1>5, <1>6, <1>7, <1>8 DEF ActionReplies

\* ... those of a housekeeping target, ...
LEMMA HkReplied ==
    ASSUME NEW room \in Nat, NEW i \in Ids, NEW token, token.request_id = i, NEW reply,
           reply.kind \in HkReplies
    PROVE  Replied(HandleHkReply(NewContext(room), token, reply), i, reply)
<1>1. PICK n, d, e : /\ n = NewContext(room) /\ d = CompletionSuccess(n, token)
                     /\ e = CompletionFailure(n, token, 0)
  OBVIOUS
<1>2. Wrote(n, i, {})
  BY <1>1, NewWrote
<1>3. {"CompletionSuccess", "CompletionFailure"} \subseteq Finals
  BY DEF Finals
<1>4. reply.kind \notin Progress
  BY DEF HkReplies, Progress
<1>5. Reports(n, d, "CompletionSuccess", i, "Completed", TRUE)
  BY <1>1, <1>2, SuccessFacts DEF Wrote
<1>6. 0 \in 0..8
  BY SMTT(60)
<1>7. Reports(n, e, "CompletionFailure", i, "Completed", SourceBufferLargeEnough(FailLen(0, 0)))
  BY <1>1, <1>2, FailureFacts DEF Wrote
<1>8. Replied(Expect(d), i, reply)
  BY <1>2, <1>3, <1>4, <1>5, FinalReplied
<1>9. Replied(Expect(e), i, reply)
  BY <1>2, <1>3, <1>4, <1>6, <1>7, ShortFits, FinalReplied
<1> QED
  BY <1>1, <1>8, <1>9 DEF HandleHkReply

\* ... those of a mode target, ...
LEMMA ModeReplied ==
    ASSUME NEW room \in Nat, NEW i \in Ids, NEW token, token.request_id = i, NEW reply,
           reply.kind \in ModeReplies
    PROVE  Replied(HandleModeReply(NewContext(room), token, reply), i, reply)
<1>1. PICK n, sent : n = NewContext(room) /\ sent = SendTm(n, OtherTm("ModeReply"))
  OBVIOUS
<1>2. Wrote(n, i, {})
  BY <1>1, NewWrote
<1>3. {"CompletionSuccess", "CompletionFailure"} \subseteq Finals
  BY DEF Finals
<1>4. reply.kind \notin Progress
  BY DEF ModeReplies, Progress
<1>5. OtherTm("ModeReply") \in Tms /\ DOMAIN OtherTm("ModeReply") = {"subservice"}
  BY OtherTmFacts
<1>6. /\ Wrote(sent, i, {})
      /\ sent.result = "ok" \/ sent.result = "panic" \/ sent.full
  BY <1>1, <1>2, <1>5, OtherWrote
<1>7. CASE reply.kind = "ModeReply" /\ sent.result = "ok"
  <2>1. PICK d : d = CompletionSuccess(sent, token)
    OBVIOUS
  <2>2. HandleModeReply(n, token, reply) = d
    BY <1>1, <1>7, <2>1 DEF HandleModeReply
  <2>3. Reports(sent, d, "CompletionSuccess", i, "Completed", TRUE)
    BY <1>6, <2>1, SuccessFacts DEF Wrote
  <2>4. Replied(d, i, reply)
    BY <1>3, <1>4, <1>6, <2>3, FinalReplied
  <2> QED
    BY <1>1, <2>2, <2>4
<1>8. CASE reply.kind = "ModeReply" /\ sent.result # "ok"
  <2>1. HandleModeReply(n, token, reply) = sent
    BY <1>1, <1>8 DEF HandleModeReply
  <2>2. Replied(sent, i, reply)
    BY <1>6, <1>8, KindFacts DEF Replied
  <2> QED
    BY <1>1, <2>1, <2>2
<1>9. CASE reply.kind # "ModeReply"
  <2>1. PICK m, d : /\ m = (IF reply.kind = "CantReachMode" THEN 0 ELSE 2 * ModeAndSubmodeLen)
                    /\ d = CompletionFailure(n, token, m)
    OBVIOUS
  <2>2. HandleModeReply(n, token, reply) = d
    BY <1>1, <1>9, <2>1 DEF HandleModeReply
  <2>3. Reports(n, d, "CompletionFailure", i, "Completed", SourceBufferLargeEnough(FailLen(0, m)))
    BY <1>2, <2>1, FailureFacts DEF Wrote
  <2>4. 0 \in 0..8
    BY SMTT(60)
  <2>5. SourceBufferLargeEnough(FailLen(0, m)) \/ TooLong(reply)
    BY <1>9, <2>1, <2>4, ShortFits DEF TooLong, ModeReplies
  <2>6. Replied(d, i, reply)
    BY <1>2, <1>3, <1>4, <2>3, <2>5, FinalReplied
  <2> QED
    BY <1>1, <2>2, <2>6
<1> QED
  BY <1>7, <1>8, <1>9

\* ... and so those of any target.
LEMMA ReplyReplied ==
    ASSUME NEW room \in Nat, NEW i \in Ids, NEW service \in Targeted, NEW reply,
           reply.kind \in ReplyKinds[service]
    PROVE  Replied(HandleReply(NewContext(room), service, Token("Started", i), reply), i, reply)
<1>1. PICK token : token = Token("Started", i)
  OBVIOUS
<1>2. token.request_id = i /\ TokenIs(token, "Started")
  BY <1>1 DEF Token, TokenIs
<1>3. /\ ReplyKinds["Action"] = ActionReplies /\ ReplyKinds["Housekeeping"] = HkReplies
      /\ ReplyKinds["Mode"] = ModeReplies
  BY DEF ReplyKinds
<1>4. CASE service = "Action"
  <2>1. HandleReply(NewContext(room), service, token, reply) = HandleActionReply(NewContext(room), token, reply)
    BY <1>2, <1>4 DEF HandleReply
  <2> QED
    BY <1>1, <1>2, <1>3, <1>4, <2>1, ActionReplied
<1>5. CASE service = "Housekeeping"
  <2>1. HandleReply(NewContext(room), service, token, reply) = HandleHkReply(NewContext(room), token, reply)
    BY <1>2, <1>5 DEF HandleReply
  <2> QED
    BY <1>1, <1>2, <1>3, <1>5, <2>1, HkReplied
<1>6. CASE service = "Mode"
  <2>1. HandleReply(NewContext(room), service, token, reply) = HandleModeReply(NewContext(room), token, reply)
    BY <1>2, <1>6 DEF HandleReply
  <2> QED
    BY <1>1, <1>2, <1>3, <1>6, <2>1, ModeReplied
<1> QED
  BY <1>4, <1>5, <1>6 DEF Targeted

\* The distributor accepts what it hands on, and reports at most an
\* acceptance and a start failure.
LEMMA PollFacts ==
    ASSUME NEW h \in InMemoryTcs, NEW room \in Nat
    PROVE  LET c == PollTc(h, room)
               i == RequestIdNew(h.tc)
           IN  /\ i \in Ids /\ Sorts(c, i)
               /\ h.tc.service \in Routed /\ c.result = "ok" => Accepts(c, i)
<1>1. PICK i, n, c, a : /\ i = RequestIdNew(h.tc) /\ n = NewContext(room) /\ c = PollTc(h, room)
                        /\ a = Expect(AcceptanceSuccess(n, AddTc(h.tc)))
  OBVIOUS
<1>2. h.tc \in AllTcs
  BY DEF InMemoryTcs
<1>3. i \in Ids /\ Wrote(n, i, {}) /\ n.result = "ok"
  BY <1>1, <1>2, NewWrote, NewContextFacts DEF Ids
<1>4. "AcceptanceSuccess" \in Subservices /\ "StartFailure" \in Subservices /\ "AcceptanceSuccess" # "StartFailure"
  BY DEF Subservices
<1>5. \/ Accepts(a, i) /\ a.result = "ok"
      \/ Wrote(a, i, {}) /\ a.result = "panic"
  <2>1. PICK d : d = AcceptanceSuccess(n, AddTc(h.tc))
    OBVIOUS
  <2>2. Reports(n, d, "AcceptanceSuccess", i, "Accepted", TRUE)
    BY <1>1, <1>2, <2>1, AcceptedToken
  <2>3. \/ /\ Wrote(Expect(d), i, Only("AcceptanceSuccess")) /\ Expect(d).result = "ok"
           /\ Expect(d).token = Token("Accepted", i)
        \/ Wrote(Expect(d), i, {}) /\ Expect(d).result = "panic"
    BY <1>3, <1>4, <2>2, FirstExpected
  <2> QED
    BY <1>1, <2>1, <2>3 DEF Accepts
<1>6. PICK d : d = StartFailure(a, a.token, 1)
  OBVIOUS
<1>7. Sorts(d, i) /\ Sorts(Expect(d), i)
  <2>0. ASSUME NEW e, NEW K, Wrote(e, i, K) PROVE Wrote(Expect(e), i, K)
    BY <2>0, WroteExpect
  <2>1. CASE Accepts(a, i)
    <3>1. a.token = Token("Accepted", i) /\ Wrote(a, i, Only("AcceptanceSuccess"))
      BY <2>1 DEF Accepts
    <3>2. a.token.request_id = i
      BY SMTT(60), <3>1, TokenFields
    <3>3. PICK fits : Reports(a, d, "StartFailure", i, "Completed", fits)
      BY <1>3, <1>6, <3>1, <3>2, FailureFacts DEF Wrote
    <3>4. Wrote(d, i, Both("AcceptanceSuccess", "StartFailure")) \/ Wrote(d, i, Only("AcceptanceSuccess"))
      BY <1>3, <1>4, <3>1, <3>3, SecondReport
    <3> QED
      BY <2>0, <3>4 DEF Sorts
  <2>2. CASE Wrote(a, i, {}) /\ a.result = "panic"
    <3>1. d = a
      BY SMTT(60), <1>6, <2>2, PanicStays
    <3> QED
      BY <2>0, <2>2, <3>1 DEF Sorts
  <2> QED
    BY <1>5, <2>1, <2>2
<1>8. CASE c = Panic(n)
  <2>1. Wrote(c, i, {}) /\ c.result = "panic"
    BY <1>3, <1>8, PanicFacts DEF Wrote
  <2> QED
    BY <1>1, <1>3, <2>1 DEF Sorts
<1>9. CASE c = HandleTcGeneric(h.tc, room)
  <2>1. CASE h.tc.service \in Routed \cup {"Health"} /\ h.tc.service # "Invalid"
    <3>0. h.tc.service \notin {"Action", "Other"}
      BY <2>1 DEF Routed
    <3>1. c = a
      BY <1>1, <1>9, <2>1, <3>0 DEF HandleTcGeneric
    <3> QED
      BY <1>1, <1>3, <1>5, <3>1 DEF Sorts, Accepts
  <2>2. CASE ~ (h.tc.service \in Routed \cup {"Health"} /\ h.tc.service # "Invalid")
    <3>1. c \in {n, d, Expect(d)}
      <4>1. CASE h.tc.service = "Invalid"
        <5>1. h.tc.service \notin Routed \cup {"Health"} \cup {"Action", "Other"}
          BY <4>1 DEF Routed
        <5> QED
          BY <1>1, <1>9, <4>1, <5>1 DEF HandleTcGeneric
      <4>2. CASE h.tc.service # "Invalid" /\ h.tc.service \in {"Action", "Other"}
        BY <1>1, <1>6, <1>9, <2>2, <4>2 DEF HandleTcGeneric
      <4>3. CASE h.tc.service # "Invalid" /\ h.tc.service \notin {"Action", "Other"}
        BY <1>1, <1>6, <1>9, <2>2, <4>3 DEF HandleTcGeneric
      <4> QED
        BY <4>1, <4>2, <4>3
    <3>2. h.tc.service \notin Routed
      BY <2>2 DEF Routed
    <3> QED
      BY <1>1, <1>3, <1>7, <3>1, <3>2 DEF Sorts
  <2> QED
    BY <2>1, <2>2
<1> QED
  BY <1>1, <1>8, <1>9 DEF PollTc

-----------------------------------------------------------------------------
(* Counting.                                                               *)

\* The places with a given request are finitely many.
LEMMA NamedFinite ==
    ASSUME SetLaws, NEW S, NEW s \in Seq(S), NEW id
    PROVE  IsFiniteSet(Named(s, id)) /\ Cardinality(Named(s, id)) \in Nat
<1>1. DOMAIN s = 1..Len(s) /\ Len(s) \in Nat
  BY SeqDomain
<1>2. Named(s, id) \subseteq 1..Len(s)
  BY <1>1 DEF Named
<1>3. IsFiniteSet(1..Len(s))
  BY <1>1 DEF SetLaws, IntervalLaw
<1>4. IsFiniteSet(Named(s, id))
  BY <1>2, <1>3 DEF SetLaws, SubsetLaw
<1> QED
  BY <1>4 DEF SetLaws, NumberLaw

\* One more element counts one more.
LEMMA AddOne ==
    ASSUME SetLaws, NEW A, IsFiniteSet(A), NEW x, x \notin A
    PROVE  IsFiniteSet(A \cup {x}) /\ Grows(Cardinality(A \cup {x}), Cardinality(A), TRUE)
<1>1. IsFiniteSet(A \cup {x}) /\ Cardinality(A \cup {x}) = Cardinality(A) + 1
  BY DEF SetLaws, AddLaw
<1>2. Cardinality(A) \in Nat /\ Cardinality(A \cup {x}) \in Nat
  BY <1>1 DEF SetLaws, NumberLaw
<1> QED
  BY <1>1, <1>2 DEF Grows

\* The same set counts the same.
LEMMA SameCount ==
    ASSUME SetLaws, NEW A, IsFiniteSet(A)
    PROVE  Grows(Cardinality(A), Cardinality(A), FALSE)
BY DEF Grows, SetLaws, NumberLaw

\* A message that joins a queue counts for its own request.
LEMMA NamedAppend ==
    ASSUME SetLaws, NEW S, NEW s \in Seq(S), NEW x \in S, NEW id
    PROVE  Grows(Cardinality(Named(Append(s, x), id)), Cardinality(Named(s, id)),
                 x.token.request_id = id)
<1>1. /\ DOMAIN s = 1..Len(s) /\ Len(s) \in Nat /\ DOMAIN Append(s, x) = 1..(Len(s) + 1)
      /\ Append(s, x)[Len(s) + 1] = x /\ \A i \in 1..Len(s) : Append(s, x)[i] = s[i]
  BY SMTT(60)
<1>2. 1..(Len(s) + 1) = 1..Len(s) \cup {Len(s) + 1} /\ Len(s) + 1 \notin 1..Len(s)
  BY SMTT(60), <1>1
<1>3. IsFiniteSet(Named(s, id)) /\ Len(s) + 1 \notin Named(s, id)
  BY <1>1, <1>2, NamedFinite DEF Named
<1>4. CASE x.token.request_id = id
  <2>1. Named(Append(s, x), id) = Named(s, id) \cup {Len(s) + 1}
    BY <1>1, <1>2, <1>4 DEF Named
  <2> QED
    BY <1>3, <1>4, <2>1, AddOne DEF Grows
<1>5. CASE x.token.request_id # id
  <2>1. Named(Append(s, x), id) = Named(s, id)
    BY <1>1, <1>2, <1>5 DEF Named
  <2> QED
    BY <1>3, <1>5, <2>1, SameCount DEF Grows
<1> QED
  BY <1>4, <1>5

\* The rest moves up by one place.
LEMMA NamedTail ==
    ASSUME SetLaws, NEW S, NEW s \in Seq(S), s # << >>, NEW id
    PROVE  Grows(Cardinality(Named(s, id)), Cardinality(Named(Tail(s), id)),
                 Head(s).token.request_id = id)
<1>1. /\ DOMAIN s = 1..Len(s) /\ Len(s) \in Nat \ {0} /\ DOMAIN Tail(s) = 1..(Len(s) - 1)
      /\ Head(s) = s[1] /\ \A i \in 1..(Len(s) - 1) : Tail(s)[i] = s[i + 1]
  BY SMTT(60)
<1>2. PICK A, B : A = Named(s, id) \ {1} /\ B = Named(Tail(s), id)
  OBVIOUS
<1>3. IsFiniteSet(B) /\ IsFiniteSet(Named(s, id)) /\ IsFiniteSet(A)
  <2>1. Tail(s) \in Seq(S)
    BY TailFacts
  <2>2. IsFiniteSet(B)
    BY <1>2, <2>1, NamedFinite
  <2>3. IsFiniteSet(Named(s, id))
    BY NamedFinite
  <2> QED
    BY <1>2, <2>2, <2>3 DEF SetLaws, SubsetLaw
<1>4. /\ \A i \in B : i \in Nat /\ i + 1 \in A
      /\ \A j \in A : \E i \in B : j = i + 1
  <2>1. ASSUME NEW i \in B PROVE i \in Nat /\ i + 1 \in A
    <3>1. i \in 1..(Len(s) - 1) /\ Tail(s)[i].token.request_id = id
      BY <1>1, <1>2 DEF Named
    <3>2. i \in Nat /\ i + 1 \in 1..Len(s) /\ i + 1 # 1
      BY SMTT(60), <1>1, <3>1
    <3> QED
      BY <1>1, <1>2, <3>1, <3>2 DEF Named
  <2>2. ASSUME NEW j \in A PROVE \E i \in B : j = i + 1
    <3>1. j \in 1..Len(s) /\ j # 1 /\ s[j].token.request_id = id
      BY <1>1, <1>2 DEF Named
    <3>2. PICK i : i = j - 1
      OBVIOUS
    <3>3. i \in 1..(Len(s) - 1) /\ j = i + 1
      BY SMTT(60), <1>1, <3>1, <3>2
    <3> QED
      BY <1>1, <1>2, <3>1, <3>3 DEF Named
  <2> QED
    BY <2>1, <2>2
<1>5. PICK f : f = [i \in B |-> i + 1]
  OBVIOUS
<1>6. OneToOne(f, B, A)
  BY SMTT(60), <1>4, <1>5 DEF OneToOne
<1>7. Cardinality(A) = Cardinality(B)
  BY <1>3, <1>6 DEF SetLaws, ImageLaw
<1>8. Cardinality(A) \in Nat
  BY <1>3 DEF SetLaws, NumberLaw
<1>9. 1 \in Named(s, id) <=> Head(s).token.request_id = id
  <2>1. 1 \in 1..Len(s)
    BY SMTT(60), <1>1
  <2> QED
    BY <1>1, <2>1 DEF Named
<1>10. CASE Head(s).token.request_id = id
  <2>1. Named(s, id) = A \cup {1} /\ 1 \notin A
    BY <1>2, <1>9, <1>10
  <2> QED
    BY <1>2, <1>3, <1>7, <1>10, <2>1, AddOne DEF Grows
<1>11. CASE Head(s).token.request_id # id
  <2>1. Named(s, id) = A
    BY <1>2, <1>9, <1>11
  <2> QED
    BY <1>2, <1>7, <1>8, <1>11, <2>1 DEF Grows
<1> QED
  BY <1>10, <1>11

\* A column has as many places as numbers.
LEMMA ColumnCount ==
    ASSUME SetLaws, NEW k, NEW N, IsFiniteSet(N)
    PROVE  IsFiniteSet(Column(k, N)) /\ Cardinality(Column(k, N)) = Cardinality(N)
<1>1. PICK f : f = [i \in N |-> <<k, i>>]
  OBVIOUS
<1>2. OneToOne(f, N, Column(k, N))
  BY SMTT(60), <1>1 DEF Column, OneToOne
<1> QED
  BY <1>2 DEF SetLaws, ImageLaw

\* Those that wait are in the queue of k or beside it.
LEMMA WaitingSplit ==
    ASSUME SetLaws, NEW S, NEW q \in [Services -> Seq(S)], NEW k \in Services, NEW id,
           IsFiniteSet(Beside(q, k, id))
    PROVE  /\ IsFiniteSet(Waiting(q, id))
           /\ Cardinality(Waiting(q, id)) = Cardinality(Beside(q, k, id)) + Cardinality(Named(q[k], id))
           /\ Cardinality(Beside(q, k, id)) \in Nat /\ Cardinality(Named(q[k], id)) \in Nat
<1>1. PICK A, B : A = Beside(q, k, id) /\ B = Column(k, Named(q[k], id))
  OBVIOUS
<1>2. Waiting(q, id) = A \cup B
  <2>1. \A e : e \in Waiting(q, id) <=> \E s \in Services : e \in Column(s, Named(q[s], id))
    BY DEF Waiting, Column
  <2>2. \A e : e \in A <=> \E s \in Services \ {k} : e \in Column(s, Named(q[s], id))
    BY <1>1 DEF Beside, Column
  <2> QED
    BY <1>1, <2>1, <2>2
<1>3. A \cap B = {}
  <2>1. ASSUME NEW e \in A, e \in B PROVE FALSE
    <3>1. PICK s \in Services \ {k} : \E i : e = <<s, i>>
      BY <1>1 DEF Beside
    <3>2. \E i : e = <<k, i>>
      BY <1>1, <2>1 DEF Column
    <3> QED
      BY SMTT(60), <3>1, <3>2
  <2> QED
    BY <2>1
<1>4. IsFiniteSet(Named(q[k], id)) /\ Cardinality(Named(q[k], id)) \in Nat
  BY NamedFinite
<1>5. IsFiniteSet(B) /\ Cardinality(B) = Cardinality(Named(q[k], id))
  BY <1>1, <1>4, ColumnCount
<1>6. IsFiniteSet(A) /\ Cardinality(A) \in Nat
  BY <1>1 DEF SetLaws, NumberLaw
<1>7. IsFiniteSet(A \cup B) /\ Cardinality(A \cup B) = Cardinality(A) + Cardinality(B)
  BY <1>3, <1>5, <1>6 DEF SetLaws, UnionLaw
<1> QED
  BY <1>1, <1>2, <1>4, <1>5, <1>6, <1>7

\* Only the queue of k has changed.
LEMMA WaitingChange ==
    ASSUME SetLaws, NEW S, NEW q \in [Services -> Seq(S)], NEW k \in Services, NEW t \in Seq(S), NEW id,
           NEW b, IsFiniteSet(Waiting(q, id))
    PROVE  /\ IsFiniteSet(Waiting([q EXCEPT ![k] = t], id))
           /\ Grows(Cardinality(Named(t, id)), Cardinality(Named(q[k], id)), b)
                => Grows(Cardinality(Waiting([q EXCEPT ![k] = t], id)), Cardinality(Waiting(q, id)), b)
           /\ Grows(Cardinality(Named(q[k], id)), Cardinality(Named(t, id)), b)
                => Grows(Cardinality(Waiting(q, id)), Cardinality(Waiting([q EXCEPT ![k] = t], id)), b)
<1>1. PICK r : r = [q EXCEPT ![k] = t]
  OBVIOUS
<1>2. r \in [Services -> Seq(S)] /\ r[k] = t /\ \A s \in Services \ {k} : r[s] = q[s]
  BY <1>1
<1>3. Beside(r, k, id) = Beside(q, k, id)
  BY <1>2 DEF Beside
<1>4. Beside(q, k, id) \subseteq Waiting(q, id)
  <2>1. \A e : e \in Waiting(q, id) <=> \E s \in Services : e \in Column(s, Named(q[s], id))
    BY DEF Waiting, Column
  <2>2. \A e : e \in Beside(q, k, id) <=> \E s \in Services \ {k} : e \in Column(s, Named(q[s], id))
    BY DEF Beside, Column
  <2> QED
    BY <2>1, <2>2
<1>5. IsFiniteSet(Beside(q, k, id))
  BY <1>4 DEF SetLaws, SubsetLaw
<1>6. PICK m, u, v, x, y : /\ m = Cardinality(Beside(q, k, id)) /\ u = Cardinality(Named(q[k], id))
                           /\ v = Cardinality(Named(t, id)) /\ x = Cardinality(Waiting(q, id))
                           /\ y = Cardinality(Waiting(r, id))
  OBVIOUS
<1>7. x = m + u /\ m \in Nat /\ u \in Nat
  BY SMTT(60), <1>5, <1>6, WaitingSplit
<1>8. y = m + v /\ v \in Nat /\ IsFiniteSet(Waiting(r, id))
  <2>1. IsFiniteSet(Beside(r, k, id))
    BY <1>3, <1>5
  <2>2. /\ IsFiniteSet(Waiting(r, id))
        /\ Cardinality(Waiting(r, id)) = Cardinality(Beside(r, k, id)) + Cardinality(Named(r[k], id))
        /\ Cardinality(Named(r[k], id)) \in Nat
    BY <1>2, <2>1, WaitingSplit
  <2> QED
    BY <1>2, <1>3, <1>6, <2>2
<1>9. Grows(v, u, b) => Grows(y, x, b)
  BY SMTT(60), <1>7, <1>8 DEF Grows
<1>10. Grows(u, v, b) => Grows(x, y, b)
  BY SMTT(60), <1>7, <1>8 DEF Grows
<1> QED
  BY <1>1, <1>6, <1>8, <1>9, <1>10

\* The counters of reports move by what the handler has sent.
LEMMA PostedFacts ==
    ASSUME SetLaws, ReportsType, NEW tm, reports' = CountReports(tm), NEW i, NEW K, Sends(tm, i, K), AtMostOne(K)
    PROVE  ReportsType' /\ \A id \in Ids : Posted(id, i, K)
<1>1. ASSUME NEW id \in Ids, NEW s \in Subservices
      PROVE  Grows(reports'[id][s], reports[id][s], id = i /\ s \in K)
  <2>1. reports[id][s] \in Nat
    BY DEF ReportsType
  <2>2. reports'[id][s] = reports[id][s] + Cardinality(Sent(tm, s, id))
    BY DEF CountReports, Sent
  <2>3. Cardinality(Sent(tm, s, id)) = (IF id = i /\ s \in K THEN 1 ELSE 0)
    <3>1. IF id = i /\ s \in K THEN \E j : Sent(tm, s, id) = {j} ELSE Sent(tm, s, id) = {}
      BY DEF Sends
    <3>2. Cardinality({}) = 0 /\ \A j : Cardinality({j}) = 1
      BY DEF SetLaws, EmptyLaw, SingletonLaw
    <3> QED
      BY <3>1, <3>2
  <2>4. ASSUME NEW n \in Nat PROVE n + 1 \in Nat /\ n + 0 = n
    BY SMTT(60)
  <2> QED
    BY <2>1, <2>2, <2>3, <2>4 DEF Grows
<1>2. ReportsType'
  BY <1>1 DEF ReportsType, CountReports, Grows
<1>3. Finals \subseteq Subservices /\ Begins \subseteq Subservices /\ "AcceptanceSuccess" \in Subservices
  BY DEF Finals, Begins, Subservices
<1>4. ASSUME NEW id \in Ids PROVE Posted(id, i, K)
  <2>1. Grows(Completions(id)', Completions(id), id = i /\ K \cap Finals # {})
    <3>1. /\ Grows(reports'[id].CompletionSuccess, reports[id].CompletionSuccess, id = i /\ "CompletionSuccess" \in K)
          /\ Grows(reports'[id].CompletionFailure, reports[id].CompletionFailure, id = i /\ "CompletionFailure" \in K)
          /\ Grows(reports'[id].StepFailure, reports[id].StepFailure, id = i /\ "StepFailure" \in K)
      BY <1>1 DEF Subservices
    <3>2. /\ ~ ("CompletionSuccess" \in K /\ "CompletionFailure" \in K)
          /\ ~ ("CompletionSuccess" \in K /\ "StepFailure" \in K)
          /\ ~ ("StepFailure" \in K /\ "CompletionFailure" \in K)
          /\ (K \cap Finals # {} <=> "CompletionSuccess" \in K \/ "CompletionFailure" \in K \/ "StepFailure" \in K)
      BY SMTT(60) DEF AtMostOne, Finals
    <3>3. PICK a, b, c, d, e, f : /\ a = reports[id].CompletionSuccess /\ b = reports[id].CompletionFailure
                                  /\ c = reports[id].StepFailure
                                  /\ d = reports'[id].CompletionSuccess /\ e = reports'[id].CompletionFailure
                                  /\ f = reports'[id].StepFailure
      OBVIOUS
    <3>4. ASSUME NEW u \in BOOLEAN, NEW v \in BOOLEAN, NEW w \in BOOLEAN, NEW x \in BOOLEAN,
                 Grows(d, a, u), Grows(e, b, v), Grows(f, c, w), ~ (u /\ v), ~ (u /\ w), ~ (w /\ v),
                 x <=> u \/ v \/ w
          PROVE  Grows(d + e + f, a + b + c, x)
      BY SMTT(60), <3>4 DEF Grows
    <3>5. Grows(d + e + f, a + b + c, id = i /\ K \cap Finals # {})
      BY <3>1, <3>2, <3>3, <3>4
    <3> QED
      BY <3>3, <3>5 DEF Completions
  <2>2. Grows(Starts(id)', Starts(id), id = i /\ K \cap Begins # {})
    <3>1. /\ Grows(reports'[id].StartSuccess, reports[id].StartSuccess, id = i /\ "StartSuccess" \in K)
          /\ Grows(reports'[id].StartFailure, reports[id].StartFailure, id = i /\ "StartFailure" \in K)
      BY <1>1 DEF Subservices
    <3>2. /\ ~ ("StartSuccess" \in K /\ "StartFailure" \in K)
          /\ (K \cap Begins # {} <=> "StartSuccess" \in K \/ "StartFailure" \in K)
      BY SMTT(60) DEF AtMostOne, Begins
    <3>3. PICK a, b, d, e : /\ a = reports[id].StartSuccess /\ b = reports[id].StartFailure
                            /\ d = reports'[id].StartSuccess /\ e = reports'[id].StartFailure
      OBVIOUS
    <3>4. ASSUME NEW u \in BOOLEAN, NEW v \in BOOLEAN, NEW x \in BOOLEAN,
                 Grows(d, a, u), Grows(e, b, v), ~ (u /\ v), x <=> u \/ v
          PROVE  Grows(d + e, a + b, x)
      BY SMTT(60), <3>4 DEF Grows
    <3>5. Grows(d + e, a + b, id = i /\ K \cap Begins # {})
      BY <3>1, <3>2, <3>3, <3>4
    <3> QED
      BY <3>3, <3>5 DEF Starts
  <2> QED
    BY <1>1, <1>3, <2>1, <2>2 DEF Posted, Subservices, Final, Begun
<1> QED
  BY <1>2, <1>4

-----------------------------------------------------------------------------
(* What the steps of the program do to the blocks.                         *)

\* The block that the pool gives is free.
LEMMA LowestIsFree ==
    ASSUME SetLaws, Free # {}
    PROVE  LowestFree \in Addrs /\ pool[LowestFree] = NoTc
<1>1. Addrs \subseteq Nat
  BY SMTT(60), CommandingAssumption DEF Addrs
<1>2. Free \subseteq Nat
  BY <1>1 DEF Free
<1>3. \E a \in Free : \A b \in Free : a <= b
  BY <1>2 DEF SetLaws, LeastLaw
<1>4. LowestFree \in Free
  BY <1>3 DEF LowestFree
<1> QED
  BY <1>4 DEF Free

\* 0 is no address: it stands for a message without a block.
LEMMA AddrsFacts == 0 \notin Addrs /\ Addrs \subseteq 0..PoolSize /\ 0 \in 0..PoolSize
BY SMTT(60), CommandingAssumption DEF Addrs

\* What BlocksInv says of the lines and of the blocks given up.
LEMMA InvFacts ==
    ASSUME BlocksInv
    PROVE  /\ Lines \in [Places -> Seq(Kept)] /\ Owned(Lines, pool, leaked)
           /\ leaked \subseteq Addrs /\ leaked \ {0} = leaked
           /\ \A a \in Addrs : pool[a] = NoTc => a \notin leaked
<1>1. Lines \in [Places -> Seq(Kept)]
  BY LinesType DEF BlocksInv, TcTypes, Lines
<1>2. leaked \subseteq Addrs /\ \A a \in Addrs : pool[a] = NoTc => a \notin leaked
  BY DEF BlocksInv, Owned, GivenUp
<1> QED
  BY <1>1, <1>2, AddrsFacts DEF BlocksInv

\* A telecommand without a block reaches the queue to the TC source.
LEMMA Arrives ==
    ASSUME BlocksInv, NEW tc \in AllTcs
    PROVE  /\ Append(source, InMemory(tc, 0)) \in Seq(InMemoryTcs)
           /\ Owned(LinesOf(Append(source, InMemory(tc, 0)), queues), pool, leaked)
<1>1. PICK x : x = InMemory(tc, 0)
  OBVIOUS
<1>2. x \in InMemoryTcs /\ x \in Kept /\ x.addr = 0
  BY <1>1, AddrsFacts DEF InMemory, InMemoryTcs, Kept
<1>3. Append(source, x) \in Seq(InMemoryTcs)
  BY <1>2, AppendFacts DEF BlocksInv, TcTypes
<1>4. /\ LinesOf(Append(source, x), queues) = WithLine(Lines, "source", Append(Lines["source"], x))
      /\ "source" \in Places
  <2>1. LinesOf(Append(source, x), queues) = WithLine(Lines, "source", Append(source, x))
    BY SMTT(60), SourceLine DEF Lines
  <2>2. Lines["source"] = source /\ "source" \in Places
    BY SourceLine DEF Lines
  <2> QED
    BY <2>1, <2>2
<1>5. Owned(WithLine(Lines, "source", Append(Lines["source"], x)), pool, leaked \ {x.addr})
  BY <1>2, <1>4, InvFacts, OwnedPut
<1>6. leaked \ {x.addr} = leaked
  BY <1>2, InvFacts
<1> QED
  BY <1>1, <1>3, <1>4, <1>5, <1>6

\* A telecommand is stored, and its address reaches the queue.
LEMMA Stored ==
    ASSUME SetLaws, BlocksInv, NEW tc \in AllTcs, Free # {}
    PROVE  /\ Append(source, InMemory(tc, LowestFree)) \in Seq(InMemoryTcs)
           /\ [pool EXCEPT ![LowestFree] = tc] \in [Addrs -> AllTcs \cup {NoTc}]
           /\ Owned(LinesOf(Append(source, InMemory(tc, LowestFree)), queues),
                    [pool EXCEPT ![LowestFree] = tc], leaked)
<1>1. PICK a : a = LowestFree
  OBVIOUS
<1>2. a \in Addrs /\ pool[a] = NoTc /\ a \notin leaked
  BY <1>1, LowestIsFree, InvFacts
<1>3. PICK p : p = [pool EXCEPT ![a] = tc]
  OBVIOUS
<1>4. p \in [Addrs -> AllTcs \cup {NoTc}] /\ p[a] = tc /\ Owned(Lines, p, leaked \cup {a})
  <2>1. Lines \in [Places -> Seq(Kept)] /\ Owned(Lines, pool, leaked)
    BY InvFacts
  <2>2. pool \in [Addrs -> AllTcs \cup {NoTc}]
    BY DEF BlocksInv, TcTypes
  <2> QED
    BY <1>2, <1>3, <2>1, <2>2, OwnedAlloc
<1>5. PICK x : x = InMemory(tc, a)
  OBVIOUS
<1>6. x \in InMemoryTcs /\ x \in Kept /\ x.addr = a /\ x.tc = tc
  BY <1>2, <1>5, AddrsFacts DEF InMemory, InMemoryTcs, Kept
<1>7. Append(source, x) \in Seq(InMemoryTcs)
  BY <1>6, AppendFacts DEF BlocksInv, TcTypes
<1>8. /\ LinesOf(Append(source, x), queues) = WithLine(Lines, "source", Append(Lines["source"], x))
      /\ "source" \in Places
  <2>1. LinesOf(Append(source, x), queues) = WithLine(Lines, "source", Append(source, x))
    BY SMTT(60), SourceLine DEF Lines
  <2>2. Lines["source"] = source /\ "source" \in Places
    BY SourceLine DEF Lines
  <2> QED
    BY <2>1, <2>2
<1>9. Owned(WithLine(Lines, "source", Append(Lines["source"], x)), p, (leaked \cup {a}) \ {x.addr})
  <2>1. Lines \in [Places -> Seq(Kept)]
    BY InvFacts
  <2>2. x.addr \in leaked \cup {a} /\ p[x.addr] = x.tc
    BY <1>4, <1>6
  <2> QED
    BY <1>4, <1>6, <1>8, <2>1, <2>2, OwnedPut
<1>10. (leaked \cup {a}) \ {x.addr} = leaked
  BY <1>2, <1>6
<1> QED
  BY <1>1, <1>3, <1>4, <1>5, <1>7, <1>8, <1>9, <1>10

\* A telecommand is stored, and its address is lost.
LEMMA Leaks ==
    ASSUME SetLaws, BlocksInv, NEW tc \in AllTcs, Free # {}
    PROVE  /\ [pool EXCEPT ![LowestFree] = tc] \in [Addrs -> AllTcs \cup {NoTc}]
           /\ Owned(Lines, [pool EXCEPT ![LowestFree] = tc], leaked \cup {LowestFree})
<1>1. Lines \in [Places -> Seq(Kept)] /\ Owned(Lines, pool, leaked)
  BY InvFacts
<1>2. pool \in [Addrs -> AllTcs \cup {NoTc}]
  BY DEF BlocksInv, TcTypes
<1>3. LowestFree \in Addrs /\ pool[LowestFree] = NoTc
  BY LowestIsFree
<1> QED
  BY <1>1, <1>2, <1>3, OwnedAlloc

\* A service takes the next telecommand of its queue.
LEMMA TakenFacts ==
    ASSUME BlocksInv, NEW k \in Services, queues[k] # << >>
    PROVE  /\ [queues EXCEPT ![k] = Tail(@)] \in [Services -> Seq(AcceptedTcs)]
           /\ FreedBy(Head(queues[k])) \in [Addrs -> AllTcs \cup {NoTc}]
           /\ Owned(LinesOf(source, [queues EXCEPT ![k] = Tail(@)]), FreedBy(Head(queues[k])), leaked)
           /\ Head(queues[k]) \in AcceptedTcs
<1>1. queues[k] \in Seq(AcceptedTcs) /\ DOMAIN queues = Services
  BY DEF BlocksInv, TcTypes
<1>2. Tail(queues[k]) \in Seq(AcceptedTcs) /\ Head(queues[k]) \in AcceptedTcs
  BY <1>1, TailFacts
<1>3. [queues EXCEPT ![k] = Tail(@)] \in [Services -> Seq(AcceptedTcs)]
  BY <1>2 DEF BlocksInv, TcTypes
<1>4. LinesOf(source, [queues EXCEPT ![k] = Tail(@)]) = WithLine(Lines, k, Tail(queues[k]))
  <2>1. PICK t : t = Tail(queues[k])
    OBVIOUS
  <2>2. LinesOf(source, WithLine(queues, k, t)) = WithLine(Lines, k, t)
    BY SMTT(60), <1>1, QueueLine DEF Lines
  <2> QED
    BY <2>1, <2>2 DEF WithLine
<1>5. Lines[k] = queues[k] /\ k \in Places
  BY LineOfQueue DEF Lines
<1>6. PICK h : h = Head(queues[k])
  OBVIOUS
<1>7. Owned(LinesOf(source, [queues EXCEPT ![k] = Tail(@)]), pool, leaked \cup ({h.addr} \ {0}))
  <2>1. Lines \in [Places -> Seq(Kept)] /\ Owned(Lines, pool, leaked) /\ Lines[k] # << >>
    BY <1>5, InvFacts
  <2>2. Owned(WithLine(Lines, k, Tail(Lines[k])), pool, leaked \cup ({Head(Lines[k]).addr} \ {0}))
    BY <1>5, <2>1, OwnedTake
  <2> QED
    BY <1>4, <1>5, <1>6, <2>2
<1>8. CASE h.addr = 0
  BY <1>2, <1>3, <1>6, <1>7, <1>8 DEF FreedBy, BlocksInv, TcTypes
<1>9. CASE h.addr # 0
  <2>1. h.addr \notin leaked
    <3>1. 1 \in 1..Len(Lines[k]) /\ h = Lines[k][1]
      <4>1. Head(queues[k]) = queues[k][1] /\ Len(queues[k]) \in Nat /\ Len(queues[k]) >= 1
        BY <1>1, TailFacts
      <4> QED
        BY SMTT(60), <1>5, <1>6, <4>1
    <3> QED
      BY <1>5, <1>9, <3>1 DEF BlocksInv, Owned, Leading, LeadsTo
  <2>2. leaked \cup ({h.addr} \ {0}) = leaked \cup {h.addr} /\ (leaked \cup {h.addr}) \ {h.addr} = leaked
    BY <1>9, <2>1
  <2>3. /\ [pool EXCEPT ![h.addr] = NoTc] \in [Addrs -> AllTcs \cup {NoTc}]
        /\ Owned(LinesOf(source, [queues EXCEPT ![k] = Tail(@)]), [pool EXCEPT ![h.addr] = NoTc], leaked)
    <3>1. pool \in [Addrs -> AllTcs \cup {NoTc}]
      BY DEF BlocksInv, TcTypes
    <3>2. PICK L, a, g : /\ L = LinesOf(source, [queues EXCEPT ![k] = Tail(@)])
                         /\ a = h.addr /\ g = leaked \cup {h.addr}
      OBVIOUS
    <3>3. Owned(L, pool, g) /\ a \in g /\ g \ {a} = leaked
      BY <1>7, <2>2, <3>2
    <3>4. /\ [pool EXCEPT ![a] = NoTc] \in [Addrs -> AllTcs \cup {NoTc}]
          /\ Owned(L, [pool EXCEPT ![a] = NoTc], g \ {a})
      BY <3>1, <3>3, OwnedFree
    <3> QED
      BY <3>2, <3>3, <3>4
  <2> QED
    BY <1>2, <1>3, <1>6, <1>9, <2>3 DEF FreedBy
<1> QED
  BY <1>8, <1>9

\* An accepted telecommand, with a block that was given up or without one,
\* joins the queue of a service.
LEMMA QueuedFacts ==
    ASSUME NEW s, NEW q \in [Services -> Seq(AcceptedTcs)], NEW p, NEW g, NEW k \in Services,
           NEW x \in AcceptedTcs, LinesOf(s, q) \in [Places -> Seq(Kept)], Owned(LinesOf(s, q), p, g),
           x.addr = 0 \/ (x.addr \in g /\ p[x.addr] = x.tc)
    PROVE  /\ [q EXCEPT ![k] = Append(@, x)] \in [Services -> Seq(AcceptedTcs)]
           /\ Owned(LinesOf(s, [q EXCEPT ![k] = Append(@, x)]), p, g \ {x.addr})
<1>1. q[k] \in Seq(AcceptedTcs) /\ DOMAIN q = Services
  OBVIOUS
<1>2. Append(q[k], x) \in Seq(AcceptedTcs)
  BY <1>1, AppendFacts
<1>3. LinesOf(s, q)[k] = q[k] /\ k \in Places
  BY SMTT(60), LineOfQueue
<1>4. PICK t : t = Append(q[k], x)
  OBVIOUS
<1>5. LinesOf(s, WithLine(q, k, t)) = WithLine(LinesOf(s, q), k, t)
  BY SMTT(60), <1>1, QueueLine
<1>6. x \in Kept
  BY DEF Kept
<1>7. Owned(WithLine(LinesOf(s, q), k, Append(LinesOf(s, q)[k], x)), p, g \ {x.addr})
  BY <1>3, <1>6, OwnedPut
<1>8. WithLine(q, k, t) = [q EXCEPT ![k] = Append(@, x)]
  BY <1>4 DEF WithLine
<1> QED
  BY <1>2, <1>3, <1>4, <1>5, <1>7, <1>8

\* The distributor takes a telecommand, and gives it to no service or to one.
LEMMA DistributedFacts ==
    ASSUME BlocksInv, source # << >>
    PROVE  /\ Tail(source) \in Seq(InMemoryTcs) /\ Head(source) \in InMemoryTcs
           /\ Owned(LinesOf(Tail(source), queues), pool, leaked \cup ({Head(source).addr} \ {0}))
           /\ \A k \in Services :
                 LET x == AcceptedTc(Head(source).tc, Head(source).addr)
                     q == [queues EXCEPT ![k] = Append(@, x)]
                 IN  /\ q \in [Services -> Seq(AcceptedTcs)]
                     /\ Owned(LinesOf(Tail(source), q), pool, leaked)
<1>1. source \in Seq(InMemoryTcs) /\ queues \in [Services -> Seq(AcceptedTcs)]
  BY DEF BlocksInv, TcTypes
<1>2. /\ Tail(source) \in Seq(InMemoryTcs) /\ Head(source) \in InMemoryTcs
      /\ Head(source) = source[1] /\ Len(source) \in Nat /\ Len(source) >= 1
  BY <1>1, TailFacts
<1>3. PICK h, t : h = Head(source) /\ t = Tail(source)
  OBVIOUS
<1>4. LinesOf(t, queues) = WithLine(Lines, "source", t)
  BY SMTT(60), SourceLine DEF Lines
<1>5. Lines["source"] = source /\ "source" \in Places
  BY SourceLine DEF Lines
<1>6. Owned(LinesOf(t, queues), pool, leaked \cup ({h.addr} \ {0}))
  <2>1. Lines \in [Places -> Seq(Kept)] /\ Owned(Lines, pool, leaked) /\ Lines["source"] # << >>
    BY <1>5, InvFacts
  <2>2. Owned(WithLine(Lines, "source", Tail(Lines["source"])), pool,
              leaked \cup ({Head(Lines["source"]).addr} \ {0}))
    BY <1>5, <2>1, OwnedTake
  <2> QED
    BY <1>3, <1>4, <1>5, <2>2
<1>7. ASSUME NEW k \in Services
      PROVE  LET x == AcceptedTc(h.tc, h.addr)
                 q == [queues EXCEPT ![k] = Append(@, x)]
             IN  /\ q \in [Services -> Seq(AcceptedTcs)]
                 /\ Owned(LinesOf(t, q), pool, leaked)
  <2>1. PICK x : x = AcceptedTc(h.tc, h.addr)
    OBVIOUS
  <2>2. h.tc \in AllTcs /\ h.addr \in 0..PoolSize
    BY <1>2, <1>3 DEF InMemoryTcs
  <2>3. x \in AcceptedTcs
    BY SMTT(60), <2>1, <2>2 DEF AcceptedTcs
  <2>4. x.addr = h.addr /\ x.tc = h.tc
    BY <2>1 DEF AcceptedTc
  <2>5. PICK g : g = leaked \cup ({h.addr} \ {0})
    OBVIOUS
  <2>6. h.addr # 0 => h.addr \notin leaked /\ pool[h.addr] = h.tc
    <3>1. 1 \in 1..Len(Lines["source"]) /\ h = Lines["source"][1]
      BY SMTT(60), <1>2, <1>3, <1>5
    <3> QED
      BY <1>5, <3>1 DEF BlocksInv, Owned, Leading, LeadsTo
  <2>7. x.addr = 0 \/ (x.addr \in g /\ pool[x.addr] = x.tc)
    BY <2>4, <2>5, <2>6
  <2>8. g \ {x.addr} = leaked
    <3>1. CASE h.addr = 0
      BY <2>4, <2>5, <3>1, InvFacts
    <3>2. CASE h.addr # 0
      BY <2>4, <2>5, <2>6, <3>2
    <3> QED
      BY <3>1, <3>2
  <2>9. LinesOf(t, queues) \in [Places -> Seq(Kept)] /\ Owned(LinesOf(t, queues), pool, g)
    BY <1>1, <1>2, <1>3, <1>6, <2>5, LinesType
  <2>10. /\ [queues EXCEPT ![k] = Append(@, x)] \in [Services -> Seq(AcceptedTcs)]
         /\ Owned(LinesOf(t, [queues EXCEPT ![k] = Append(@, x)]), pool, g \ {x.addr})
    BY <1>1, <2>3, <2>7, <2>9, QueuedFacts
  <2> QED
    BY <2>1, <2>8, <2>10
<1> QED
  BY <1>2, <1>3, <1>6, <1>7

\* The action service gets a telecommand from elsewhere.
LEMMA CommandedFacts ==
    ASSUME BlocksInv, NEW tc \in AllTcs, NEW k \in Services
    PROVE  LET q == [queues EXCEPT ![k] = Append(@, AcceptedTc(tc, 0))]
           IN  /\ q \in [Services -> Seq(AcceptedTcs)]
               /\ Owned(LinesOf(source, q), pool, leaked)
<1>1. PICK x : x = AcceptedTc(tc, 0)
  OBVIOUS
<1>2. x \in AcceptedTcs /\ x.addr = 0
  BY SMTT(60), <1>1, AddrsFacts DEF AcceptedTcs, AcceptedTc
<1>3. queues \in [Services -> Seq(AcceptedTcs)]
  BY DEF BlocksInv, TcTypes
<1>4. LinesOf(source, queues) \in [Places -> Seq(Kept)] /\ Owned(LinesOf(source, queues), pool, leaked)
  BY InvFacts DEF Lines
<1>5. /\ [queues EXCEPT ![k] = Append(@, x)] \in [Services -> Seq(AcceptedTcs)]
      /\ Owned(LinesOf(source, [queues EXCEPT ![k] = Append(@, x)]), pool, leaked \ {x.addr})
  BY <1>2, <1>3, <1>4, QueuedFacts
<1> QED
  BY <1>1, <1>2, <1>5, InvFacts

\* The next telecommand of the plan.
LEMMA NextTc ==
    ASSUME plan \in Plans, tcs \in Nat, tcs < Len(plan)
    PROVE  plan[tcs + 1] \in Tcs /\ plan[tcs + 1] \in AllTcs /\ tcs + 1 \in Nat
<1>1. plan \in Seq(Tcs)
  BY CommandingAssumption
<1>2. plan[tcs + 1] \in Tcs /\ tcs + 1 \in Nat
  BY SMTT(60), <1>1
<1> QED
  BY <1>2 DEF AllTcs

\* A step that leaves the blocks and their messages alone.
LEMMA BlocksUnchanged ==
    ASSUME BlocksInv, UNCHANGED <<static, plan, source, pool, queues, leaked>>, tcs' \in Nat,
           sched' \in [enabled : BOOLEAN, entries : Seq(Entry)]
    PROVE  BlocksInv'
BY DEF BlocksInv, TcTypes, Lines

\* The TC server stores a telecommand, or fails at one of its steps.
LEMMA GroundBlocks ==
    ASSUME SetLaws, BlocksInv, Ground
    PROVE  BlocksInv'
<1>1. /\ plan \in Plans /\ tcs \in Nat /\ tcs < Len(plan) /\ tcs' = tcs + 1
      /\ SendPacket(plan[tcs + 1]) /\ UNCHANGED <<static, plan, queues, sched>>
  BY DEF BlocksInv, TcTypes, Ground
<1>2. PICK tc \in AllTcs : tc = plan[tcs + 1] /\ SendPacket(tc)
  BY <1>1, NextTc
<1>3. tcs' \in Nat
  BY <1>1, NextTc
<1>4. sched' \in [enabled : BOOLEAN, entries : Seq(Entry)]
  BY <1>1 DEF BlocksInv, TcTypes
<1>5. CASE UNCHANGED <<source, pool, leaked>>
  BY <1>1, <1>3, <1>4, <1>5, BlocksUnchanged
<1>6. CASE source' = Append(source, InMemory(tc, 0)) /\ UNCHANGED <<pool, leaked>>
  BY <1>1, <1>3, <1>6, Arrives DEF BlocksInv, TcTypes, Lines
<1>7. CASE /\ Free # {}
           /\ source' = Append(source, InMemory(tc, LowestFree))
           /\ pool' = [pool EXCEPT ![LowestFree] = tc]
           /\ UNCHANGED leaked
  BY <1>1, <1>3, <1>7, Stored DEF BlocksInv, TcTypes, Lines
<1>8. CASE /\ Free # {}
           /\ pool' = [pool EXCEPT ![LowestFree] = tc]
           /\ leaked' = leaked \cup {LowestFree}
           /\ UNCHANGED source
  BY <1>1, <1>3, <1>8, Leaks DEF BlocksInv, TcTypes, Lines
<1>9. static \in BOOLEAN
  BY DEF BlocksInv, TcTypes
<1> QED
  <2>1. CASE ~ static
    BY <1>2, <1>5, <1>6, <2>1 DEF SendPacket
  <2>2. CASE static /\ (Free = {} \/ "pool" \in dead)
    BY <1>2, <1>5, <2>2 DEF SendPacket
  <2>3. CASE static /\ Free # {} /\ dead \cap {"tmtc", "pool"} = {} /\ Len(source) < SourceLen
    BY <1>2, <1>7, <2>3 DEF SendPacket
  <2>4. CASE /\ static /\ Free # {} /\ "pool" \notin dead
             /\ ~ (dead \cap {"tmtc", "pool"} = {} /\ Len(source) < SourceLen)
    BY <1>2, <1>8, <2>4 DEF SendPacket
  <2> QED
    BY <1>9, <2>1, <2>2, <2>3, <2>4

\* The room of the telemetry sender is a number of packets.
LEMMA RoomsAreNumbers == Rooms \subseteq Nat /\ TmPerHandler \in Nat
BY SMTT(60) DEF Rooms, TmPerHandler

\* The distributor hands a message on with its block, or frees or loses the
\* block.
LEMMA DistributeBlocks ==
    ASSUME BlocksInv, Distribute
    PROVE  BlocksInv'
<1>1. /\ source # << >> /\ source' = Tail(source)
      /\ UNCHANGED <<static, plan, pool, sched, tcs>>
  BY DEF Distribute
<1> DEFINE Passed(c) ==
              IF Head(source).tc.service \in Routed /\ c.result = "ok" /\ "pus" \notin dead
              THEN /\ queues' = [queues EXCEPT ![Head(source).tc.service] =
                                    Append(@, TcAndToken(Head(source), c.token))]
                   /\ UNCHANGED leaked
              ELSE /\ leaked' = leaked \cup ({Head(source).addr} \ {0})
                   /\ UNCHANGED queues
<1>2. PICK room \in Rooms : Passed(PollTc(Head(source), room))
  BY DEF Distribute
<1>0. PICK c : c = PollTc(Head(source), room) /\ Passed(c)
  BY <1>2
<1>3. Head(source) \in InMemoryTcs
  BY <1>1, DistributedFacts
<1>4. PICK h : h = Head(source)
  OBVIOUS
<1>5. CASE h.tc.service \in Routed /\ c.result = "ok" /\ "pus" \notin dead
  <2>1. PICK k \in Services : k = h.tc.service
    BY <1>5 DEF Routed, Services, Direct, Targeted
  <2>2. h.tc \in AllTcs /\ room \in Nat
    BY <1>3, <1>4, RoomsAreNumbers DEF InMemoryTcs
  <2>3. c = Expect(AcceptanceSuccess(NewContext(room), AddTc(h.tc)))
    <3>1. c # Panic(NewContext(room))
      <4>1. Panic(NewContext(room)).result = "panic"
        BY SMTT(60) DEF Panic, NewContext
      <4> QED
        BY <1>5, <4>1
    <3>2. c = HandleTcGeneric(h.tc, room)
      BY <1>0, <1>4, <3>1 DEF PollTc
    <3>3. /\ h.tc.service # "Invalid" /\ h.tc.service \in Routed \cup {"Health"}
          /\ h.tc.service \notin {"Action", "Other"}
      BY <1>5 DEF Routed
    <3> QED
      BY <3>2, <3>3 DEF HandleTcGeneric
  <2>4. c.token = Token("Accepted", RequestIdNew(h.tc))
    BY <1>5, <2>2, <2>3, AcceptedToken
  <2>5. TcAndToken(h, c.token) = AcceptedTc(h.tc, h.addr)
    BY <2>4 DEF TcAndToken, AcceptedTc
  <2>6. queues' = [queues EXCEPT ![k] = Append(@, AcceptedTc(h.tc, h.addr))] /\ UNCHANGED leaked
    BY <1>0, <1>4, <1>5, <2>1, <2>5
  <2> QED
    BY <1>1, <1>4, <2>6, DistributedFacts DEF BlocksInv, TcTypes, Lines
<1>6. CASE ~ (h.tc.service \in Routed /\ c.result = "ok" /\ "pus" \notin dead)
  <2>1. leaked' = leaked \cup ({Head(source).addr} \ {0}) /\ UNCHANGED queues
    BY <1>0, <1>4, <1>6
  <2> QED
    BY <1>1, <2>1, DistributedFacts DEF BlocksInv, TcTypes, Lines
<1> QED
  BY <1>5, <1>6

\* With room for a packet the acceptance of an action command from inside
\* cannot fail.
LEMMA RoomForOne ==
    ASSUME NEW tc \in AllTcs, NEW c, c = AcceptanceSuccess(NewContext(TmPerHandler), AddTc(tc))
    PROVE  c.token = Token("Accepted", RequestIdNew(tc)) /\ c.result = "ok"
<1>1. PICK n, e, r : /\ n = NewContext(TmPerHandler) /\ r = AcceptanceSuccessReport(AddTc(tc))
                     /\ e = SendTm(n, r.tm)
  OBVIOUS
<1>2. /\ SourceBufferLargeEnough(r.len)
      /\ r.token = Token("Accepted", RequestIdNew(tc))
  BY SMTT(60), <1>1 DEF AcceptanceSuccessReport, SuccessNoStep, SuccessReport, Report,
     SourceBufferLargeEnough, SuccessLen, SourceDataBufLen, RequestIdLen, AddTc, Token
<1>3. n.result = "ok" /\ n.room # 0 /\ HasFields(n)
  BY SMTT(60), <1>1 DEF NewContext, TmPerHandler, HasFields
<1>4. e = [n EXCEPT !.tm = Append(@, r.tm), !.room = @ - 1, !.result = "ok"]
  BY <1>1, <1>3 DEF SendTm
<1>5. e.result = "ok" /\ HasFields(e)
  BY SMTT(60), <1>3, <1>4 DEF HasFields
<1>6. c = [e EXCEPT !.token = r.token]
  BY <1>1, <1>2, <1>3, <1>5 DEF AcceptanceSuccess, SendReport
<1> QED
  BY SMTT(60), <1>2, <1>5, <1>6 DEF HasFields

\* An action command from inside the program goes to its queue without a
\* block.
LEMMA CommandActionBlocks ==
    ASSUME BlocksInv, CommandAction
    PROVE  BlocksInv'
<1>1. /\ plan \in Plans /\ tcs \in Nat /\ tcs < Len(plan) /\ tcs' = tcs + 1
      /\ UNCHANGED <<static, plan, source, pool, sched, leaked>>
      /\ queues' = [queues EXCEPT !.Action = Append(@, TcAndToken(InMemory(plan[tcs + 1], 0),
                       AcceptanceSuccess(NewContext(TmPerHandler), AddTc(plan[tcs + 1])).token))]
  BY DEF BlocksInv, TcTypes, CommandAction
<1>2. tcs' \in Nat /\ plan[tcs + 1] \in AllTcs
  BY <1>1, NextTc
<1>3. PICK tc \in AllTcs : tc = plan[tcs + 1]
  BY <1>2
<1>4. PICK c : c = AcceptanceSuccess(NewContext(TmPerHandler), AddTc(tc))
  OBVIOUS
<1>5. c.token = Token("Accepted", RequestIdNew(tc))
  BY <1>4, RoomForOne
<1>6. TcAndToken(InMemory(tc, 0), c.token) = AcceptedTc(tc, 0)
  BY <1>5 DEF TcAndToken, InMemory, AcceptedTc
<1>7. queues' = [queues EXCEPT !["Action"] = Append(@, AcceptedTc(tc, 0))] /\ "Action" \in Services
  BY <1>1, <1>3, <1>4, <1>6 DEF Services, Targeted
<1>8. queues' \in [Services -> Seq(AcceptedTcs)] /\ Owned(LinesOf(source, queues'), pool, leaked)
  BY <1>7, CommandedFacts
<1> QED
  BY <1>1, <1>2, <1>8 DEF BlocksInv, TcTypes, Lines

\* Entries of the schedule.
LEMMA FirstIsDue ==
    ASSUME SetLaws, TcTypes, DueEntries # {}
    PROVE  FirstDue \in DOMAIN sched.entries /\ sched.entries[FirstDue].tc \in AllTcs
<1>1. sched.entries \in Seq(Entry)
  BY DEF TcTypes
<1>2. DOMAIN sched.entries \subseteq Nat /\ \A i \in DOMAIN sched.entries : sched.entries[i] \in Entry
  BY SMTT(60), <1>1
<1>3. DueEntries \subseteq Nat
  BY <1>2 DEF DueEntries
<1>4. \E i \in DueEntries : \A j \in DueEntries : i <= j
  BY <1>3 DEF SetLaws, LeastLaw
<1>5. FirstDue \in DueEntries
  BY <1>4 DEF FirstDue
<1>6. FirstDue \in DOMAIN sched.entries
  BY <1>5 DEF DueEntries
<1> QED
  BY <1>2, <1>6 DEF Entry

\* A schedule from which one entry is taken.
LEMMA CutFacts ==
    ASSUME NEW S, NEW s \in Seq(S), NEW i \in DOMAIN s
    PROVE  SubSeq(s, 1, i - 1) \o SubSeq(s, i + 1, Len(s)) \in Seq(S)
<1>1. Len(s) \in Nat /\ i \in 1..Len(s)
  BY SeqDomain
<1>2. \A j \in 1..Len(s) : s[j] \in S
  BY SeqDomain
<1>3. SubSeq(s, 1, i - 1) \in Seq(S)
  BY SMTT(60), <1>1, <1>2
<1>4. SubSeq(s, i + 1, Len(s)) \in Seq(S)
  BY SMTT(60), <1>1, <1>2
<1> QED
  BY SMTT(60), <1>3, <1>4

\* The scheduler releases a telecommand into the pool and to the TC source.
LEMMA ReleaseBlocks ==
    ASSUME SetLaws, BlocksInv, ReleaseTcs
    PROVE  BlocksInv'
<1>1. UNCHANGED <<static, plan, queues, tcs>>
  BY DEF ReleaseTcs
<1>2. tcs' \in Nat /\ static \in BOOLEAN /\ sched \in [enabled : BOOLEAN, entries : Seq(Entry)]
  BY <1>1 DEF BlocksInv, TcTypes
<1>3. CASE DueEntries = {}
  <2>1. UNCHANGED <<source, pool, sched, leaked>>
    BY <1>3 DEF ReleaseTcs
  <2> QED
    BY <1>1, <1>2, <2>1, BlocksUnchanged
<1>4. CASE DueEntries # {}
  <2>1. PICK tc \in AllTcs : tc = sched.entries[FirstDue].tc
    BY <1>4, FirstIsDue DEF BlocksInv
  <2>2. Release(tc) /\ sched' = [sched EXCEPT !.entries = WithoutEntry(FirstDue)]
    BY <1>4, <2>1 DEF ReleaseTcs
  <2>3. WithoutEntry(FirstDue) \in Seq(Entry)
    <3>1. sched.entries \in Seq(Entry) /\ FirstDue \in DOMAIN sched.entries
      BY <1>2, <1>4, FirstIsDue DEF BlocksInv
    <3> QED
      BY <3>1, CutFacts DEF WithoutEntry
  <2>4. sched' \in [enabled : BOOLEAN, entries : Seq(Entry)]
    BY SMTT(60), <1>2, <2>2, <2>3
  <2>5. CASE UNCHANGED <<source, pool, leaked>>
    BY <1>1, <1>2, <2>4, <2>5, BlocksUnchanged
  <2>6. CASE source' = Append(source, InMemory(tc, 0)) /\ UNCHANGED <<pool, leaked>>
    BY <1>1, <1>2, <2>4, <2>6, Arrives DEF BlocksInv, TcTypes, Lines
  <2>7. CASE /\ Free # {}
             /\ source' = Append(source, InMemory(tc, LowestFree))
             /\ pool' = [pool EXCEPT ![LowestFree] = tc]
             /\ UNCHANGED leaked
    BY <1>1, <1>2, <2>4, <2>7, Stored DEF BlocksInv, TcTypes, Lines
  <2>8. CASE /\ Free # {}
             /\ pool' = [pool EXCEPT ![LowestFree] = tc]
             /\ leaked' = leaked \cup {LowestFree}
             /\ UNCHANGED source
    BY <1>1, <1>2, <2>4, <2>8, Leaks DEF BlocksInv, TcTypes, Lines
  <2>9. CASE ~ sched.enabled
    BY <2>2, <2>5, <2>9 DEF Release
  <2>10. CASE sched.enabled /\ ~ static /\ "tmtc" \notin dead
    BY <2>2, <2>6, <2>10 DEF Release
  <2>11. CASE sched.enabled /\ ~ static /\ "tmtc" \in dead
    BY <2>2, <2>5, <2>11 DEF Release
  <2>12. CASE sched.enabled /\ static /\ Free = {}
    BY <2>2, <2>5, <2>12 DEF Release
  <2>13. CASE sched.enabled /\ static /\ Free # {} /\ "tmtc" \in dead
    BY <2>2, <2>8, <2>13 DEF Release
  <2>14. CASE sched.enabled /\ static /\ Free # {} /\ "tmtc" \notin dead
    BY <2>2, <2>7, <2>14 DEF Release
  <2> QED
    BY <1>2, <2>9, <2>10, <2>11, <2>12, <2>13, <2>14
<1> QED
  BY <1>3, <1>4

\* A service takes a telecommand; only the schedule changes besides.
LEMMA TakeBlocks ==
    ASSUME BlocksInv, NEW k \in Services, Take(k), UNCHANGED <<static, plan, source, leaked, tcs>>,
           sched' \in [enabled : BOOLEAN, entries : Seq(Entry)]
    PROVE  BlocksInv'
<1>1. /\ queues[k] # << >> /\ queues' = [queues EXCEPT ![k] = Tail(@)]
      /\ pool' = FreedBy(Head(queues[k]))
  BY DEF Take
<1> QED
  BY <1>1, TakenFacts DEF BlocksInv, TcTypes, Lines

\* What is inserted into the schedule is a telecommand.
LEMMA InsertedIsTc ==
    ASSUME NEW x \in AcceptedTcs, NEW room \in Nat, x.tc.subservice = "Insert",
           HandleSchedTc(NewContext(room), x.tc, x.token).result # "panic"
    PROVE  x.tc.inner \in AllTcs
<1>1. PICK c : c = Expect(StartSuccess(NewContext(room), x.token))
  OBVIOUS
<1>2. IsContext(c)
  <2>1. Reports(NewContext(room), StartSuccess(NewContext(room), x.token), "StartSuccess",
                RequestIdNew(x.tc), "Started", TRUE)
    BY AcceptedFields, NewContextFacts, SuccessFacts
  <2> QED
    BY <1>1, <2>1, ExpectedFacts DEF Expected
<1>3. HandleSchedTc(NewContext(room), x.tc, x.token) = InsertActivity(NewContext(room), x.tc, x.token)
  BY DEF HandleSchedTc
<1>4. x.tc.insertable
  BY <1>1, <1>2, <1>3, PanicFacts DEF InsertActivity
<1> QED
  BY <1>4, AcceptedFields, CommandingAssumption

\* The scheduling service changes the schedule and takes one message.
LEMMA SchedulingBlocks ==
    ASSUME BlocksInv, SchedulingService
    PROVE  BlocksInv'
<1>1. Take("Scheduling") /\ UNCHANGED <<static, plan, source, leaked, tcs>>
  BY DEF SchedulingService
<1>2. PICK room, x : /\ room \in Rooms
                     /\ x = Head(queues["Scheduling"])
                     /\ sched' = IF HandleSchedTc(NewContext(room), x.tc, x.token).result = "panic"
                                 THEN sched ELSE AfterSchedTc(x.tc)
  BY DEF SchedulingService
<1>3. "Scheduling" \in Services
  BY DEF Services, Direct
<1>4. x \in AcceptedTcs /\ room \in Nat
  BY <1>1, <1>2, <1>3, TakenFacts, RoomsAreNumbers DEF Take
<1>5. sched \in [enabled : BOOLEAN, entries : Seq(Entry)]
  BY DEF BlocksInv, TcTypes
<1>6. sched' \in [enabled : BOOLEAN, entries : Seq(Entry)]
  <2>1. CASE sched' = sched
    BY <1>5, <2>1
  <2>2. CASE sched' = AfterSchedTc(x.tc) /\ HandleSchedTc(NewContext(room), x.tc, x.token).result # "panic"
    <3>1. CASE x.tc.subservice = "Insert"
      <4>1. PICK e : e = [tc |-> x.tc.inner, due |-> FALSE]
        OBVIOUS
      <4>2. e \in Entry
        BY <1>4, <2>2, <3>1, <4>1, InsertedIsTc DEF Entry
      <4>3. Append(sched.entries, e) \in Seq(Entry)
        BY <1>5, <4>2, AppendFacts
      <4>4. sched' = [sched EXCEPT !.entries = Append(@, e)]
        BY <2>2, <3>1, <4>1 DEF AfterSchedTc
      <4> QED
        BY SMTT(60), <1>5, <4>3, <4>4
    <3>2. CASE x.tc.subservice # "Insert"
      <4>1. sched' \in {[sched EXCEPT !.enabled = TRUE], [sched EXCEPT !.enabled = FALSE],
                        [enabled |-> FALSE, entries |-> << >>], sched}
        BY <2>2, <3>2 DEF AfterSchedTc
      <4>2. [enabled |-> FALSE, entries |-> << >>] \in [enabled : BOOLEAN, entries : Seq(Entry)]
        BY SMTT(60)
      <4>3. ASSUME NEW b \in BOOLEAN
            PROVE  [sched EXCEPT !.enabled = b] \in [enabled : BOOLEAN, entries : Seq(Entry)]
        BY SMTT(60), <1>5
      <4> QED
        BY <1>5, <4>1, <4>2, <4>3
    <3> QED
      BY <3>1, <3>2
  <2> QED
    BY <1>2, <2>1, <2>2
<1> QED
  BY <1>1, <1>3, <1>6, TakeBlocks

\* A schedule with one entry changed.
LEMMA PutFacts ==
    ASSUME NEW S, NEW s \in Seq(S), NEW i \in DOMAIN s, NEW e \in S
    PROVE  [s EXCEPT ![i] = e] \in Seq(S)
BY SMTT(60)

\* Time passes.
LEMMA BecomeDueBlocks ==
    ASSUME BlocksInv, NEW i \in DOMAIN sched.entries, BecomeDue(i)
    PROVE  BlocksInv'
<1>1. /\ sched' = [sched EXCEPT !.entries[i].due = TRUE]
      /\ UNCHANGED <<static, plan, source, pool, queues, leaked, tcs>>
  BY DEF BecomeDue
<1>2. sched \in [enabled : BOOLEAN, entries : Seq(Entry)]
  BY DEF BlocksInv, TcTypes
<1>3. PICK s : s = sched.entries /\ s \in Seq(Entry)
  BY <1>2
<1>4. s[i] \in Entry /\ i \in DOMAIN s
  <2>1. DOMAIN s = 1..Len(s) /\ \A j \in 1..Len(s) : s[j] \in Entry
    BY <1>3, SeqDomain
  <2> QED
    BY <1>3, <2>1
<1>5. [s[i] EXCEPT !.due = TRUE] \in Entry
  <2>1. ASSUME NEW x \in Entry, NEW b \in BOOLEAN PROVE [x EXCEPT !.due = b] \in Entry
    BY SMTT(60) DEF Entry
  <2> QED
    BY <1>4, <2>1
<1>6. PICK e \in Entry : e = [s[i] EXCEPT !.due = TRUE]
  BY <1>5
<1>7. [s EXCEPT ![i] = e] \in Seq(Entry)
  BY <1>3, <1>4, <1>6, PutFacts
<1>8. sched' = [sched EXCEPT !.entries = [s EXCEPT ![i] = e]]
  BY <1>1, <1>3, <1>6
<1>9. sched' \in [enabled : BOOLEAN, entries : Seq(Entry)]
  BY SMTT(60), <1>2, <1>7, <1>8
<1>10. tcs' \in Nat
  BY <1>1 DEF BlocksInv, TcTypes
<1> QED
  BY <1>1, <1>9, <1>10, BlocksUnchanged

\* The other steps: they take a telecommand, or do not touch the messages.
LEMMA OtherBlocks ==
    ASSUME BlocksInv,
           \/ RaiseEvent \/ EventRequests \/ TryEventRouting \/ EventReport \/ TestService
           \/ EventService \/ (\E s \in Services : NothingQueued(s))
           \/ (\E s \in Targeted : TargetedService(s) \/ TargetedReply(s) \/ NoReply(s))
           \/ Check \/ TargetSteps \/ Expiry \/ UNCHANGED vars
    PROVE  BlocksInv'
<1>1. /\ plan \in Plans /\ tcs \in Nat /\ sched \in [enabled : BOOLEAN, entries : Seq(Entry)]
      /\ (tcs < Len(plan) => tcs + 1 \in Nat)
  BY NextTc DEF BlocksInv, TcTypes
<1>2. CASE UNCHANGED <<static, plan, source, pool, queues, leaked, tcs, sched>>
  BY <1>1, <1>2, BlocksUnchanged
<1>3. ASSUME NEW k \in Services, Take(k), UNCHANGED <<static, plan, source, leaked, tcs, sched>>
      PROVE  BlocksInv'
  BY <1>1, <1>3, TakeBlocks
<1>4. CASE RaiseEvent
  BY <1>1, <1>4, BlocksUnchanged DEF RaiseEvent
<1>5. CASE EventRequests
  BY <1>2, <1>5 DEF EventRequests
<1>6. CASE TryEventRouting
  BY <1>2, <1>6 DEF TryEventRouting
<1>7. CASE EventReport
  BY <1>2, <1>7 DEF EventReport
<1>8. CASE TestService
  BY <1>3, <1>8 DEF TestService, Services, Direct
<1>9. CASE EventService
  BY <1>3, <1>9 DEF EventService, Services, Direct
<1>10. CASE \E s \in Services : NothingQueued(s)
  BY <1>2, <1>10 DEF NothingQueued
<1>11. CASE \E s \in Targeted : TargetedService(s)
  BY <1>3, <1>11 DEF TargetedService, Services
<1>12. CASE \E s \in Targeted : TargetedReply(s) \/ NoReply(s)
  BY <1>2, <1>12 DEF TargetedReply, NoReply
<1>13. CASE Check
  BY <1>2, <1>13 DEF Check
<1>14. CASE TargetSteps
  BY <1>2, <1>14 DEF TargetSteps, TargetHandles
<1>15. CASE Expiry
  BY <1>2, <1>15 DEF Expiry, Expire
<1>16. CASE UNCHANGED vars
  BY <1>2, <1>16 DEF vars
<1> QED
  BY <1>4, <1>5, <1>6, <1>7, <1>8, <1>9, <1>10, <1>11, <1>12, <1>13, <1>14, <1>15, <1>16

\* At the start all blocks are free.
LEMMA InitBlocks ==
    ASSUME Init
    PROVE  BlocksInv
<1>1. TcTypes
  <2>1. \A S : << >> \in Seq(S)
    BY SMTT(60)
  <2>2. /\ static \in BOOLEAN /\ plan \in Plans /\ source \in Seq(InMemoryTcs)
        /\ queues \in [Services -> Seq(AcceptedTcs)]
        /\ pool \in [Addrs -> AllTcs \cup {NoTc}]
    BY <2>1 DEF Init, StaticMain, DynMain
  <2>3. tcs \in Nat
    BY SMTT(60) DEF Init
  <2>4. sched \in [enabled : BOOLEAN, entries : Seq(Entry)]
    BY <2>1 DEF Init
  <2> QED
    BY <2>2, <2>3, <2>4 DEF TcTypes
<1>2. Owned(Lines, pool, leaked)
  <2>1. \A k \in Places : Lines[k] = << >>
    BY DEF Init, Lines, LinesOf, Places
  <2>2. \A k \in Places : 1..Len(Lines[k]) = {}
    BY SMTT(60), <2>1
  <2>3. leaked = {} /\ \A a \in Addrs : pool[a] = NoTc
    BY DEF Init
  <2> QED
    BY <2>2, <2>3 DEF Owned, GivenUp, Leading, Apart, Found
<1> QED
  BY <1>1, <1>2 DEF BlocksInv

\* Every step keeps BlocksInv.
LEMMA StepBlocks ==
    ASSUME SetLaws, BlocksInv, [Next]_vars
    PROVE  BlocksInv'
<1>1. CASE Ground
  BY <1>1, GroundBlocks
<1>2. CASE CommandAction
  BY <1>2, CommandActionBlocks
<1>3. CASE Distribute
  BY <1>3, DistributeBlocks
<1>4. CASE ReleaseTcs
  BY <1>4, ReleaseBlocks
<1>5. CASE SchedulingService
  BY <1>5, SchedulingBlocks
<1>6. CASE \E i \in DOMAIN sched.entries : BecomeDue(i)
  BY <1>6, BecomeDueBlocks
<1> QED
  BY <1>1, <1>2, <1>3, <1>4, <1>5, <1>6, OtherBlocks DEF Next, PusThread

-----------------------------------------------------------------------------
(* What the ground was told about the reporting of events.                 *)

\* What the event service hands on has the ID of an event.
LEMMA RequestIsTyped ==
    ASSUME NEW enable \in BOOLEAN, NEW event \in EventIds, NEW state \in {"Accepted", "Started"},
           NEW id \in Ids
    PROVE  EventRequest(enable, Raw(event), Token(state, id)) \in EventReqs
<1>1. PICK r : r = EventRequest(enable, Raw(event), Token(state, id))
  OBVIOUS
<1>2. r = [enable |-> enable, raw |-> Raw(event), event |-> event, token |-> Token(state, id)]
  BY <1>1, EventRoundTrip DEF EventRequest
<1>3. Token(state, id) \in EventTokens
  BY DEF Token, EventTokens
<1>4. PICK raws : raws = {Raw(e) : e \in EventIds}
  OBVIOUS
<1>5. Raw(event) \in raws
  BY <1>4
<1>6. r \in [enable : BOOLEAN, raw : raws, event : EventIds, token : EventTokens]
  BY <1>2, <1>3, <1>5
<1>7. r.raw = Raw(r.event)
  BY <1>2
<1> QED
  BY <1>1, <1>4, <1>6, <1>7 DEF EventReqs

\* At the start the ground was told nothing.
LEMMA InitTold ==
    ASSUME Init
    PROVE  ToldInv
<1>1. plan \in Plans
  BY DEF Init
<1>2. PICK setup \in Setups[plan] : /\ ev = NewEventHandler(setup.calls, setup.backend)
                                    /\ log = NewLog(setup.calls)
  BY DEF Init
<1>3. setup.backend \in {"default", "heapless"}
  BY <1>1, CommandingAssumption
<1>4. << >> \in Seq(EventReqs) /\ 0 \in Nat
  BY SMTT(60)
<1>5. PICK l, q : ev = [inbox |-> << >>, listeners |-> l, queues |-> q, requests |-> << >>,
                        reporting |-> {}, backend |-> setup.backend]
  BY <1>2 DEF NewEventHandler
<1>6. EventType(ev)
  BY <1>3, <1>4, <1>5 DEF EventType
<1>7. LogType(log) /\ \A event \in Events : log.told[event] = "Nothing"
  BY <1>2, <1>4 DEF NewLog, LogType
<1>8. ev.reporting = {} /\ ev.backend \in {"default", "heapless"}
  BY <1>3, <1>5
<1>9. IsTold(ev, log.told)
  BY <1>7, <1>8 DEF IsTold, EventEnabled, ShouldReport
<1> QED
  BY <1>6, <1>7, <1>9 DEF ToldInv

\* A completed request: the map and the history say the same.
LEMMA RequestTold ==
    ASSUME NEW e, EventType(e), NEW r \in EventReqs, NEW t, IsTold(e, t),
           NEW f, f = (IF r.enable THEN EnableEventReporting(e, r.event)
                                   ELSE DisableEventReporting(e, r.event)),
           NEW u, u = [event \in Events |->
                          IF Raw(event) = r.raw
                          THEN IF r.enable THEN "Enabled" ELSE "Disabled" ELSE t[event]]
    PROVE  IsTold(f, u)
<1>1. /\ r.enable \in BOOLEAN /\ r.event \in EventIds /\ r.raw = Raw(r.event)
  BY DEF EventReqs
<1> SUFFICES ASSUME NEW event \in Events
             PROVE  EventEnabled(f, event) <=> ShouldReport(f, u, event)
  BY DEF IsTold
<1>2. Raw(event) = r.raw <=> event = r.event
  BY <1>1, EventsAreIds, EventRoundTrip
<1>3. EventEnabled(e, event) <=> ShouldReport(e, t, event)
  BY DEF IsTold
<1>4. CASE r.enable
  <2>1. f = [e EXCEPT !.reporting = IF e.backend = "default" THEN @ \ {r.event} ELSE @ \cup {r.event}]
    BY <1>4 DEF EnableEventReporting
  <2>2. /\ f.backend = e.backend
        /\ f.reporting = IF e.backend = "default" THEN e.reporting \ {r.event} ELSE e.reporting \cup {r.event}
    BY <2>1 DEF EventType
  <2>3. u[event] = IF event = r.event THEN "Enabled" ELSE t[event]
    BY <1>2, <1>4
  <2> QED
    BY <1>3, <2>2, <2>3 DEF EventEnabled, ShouldReport
<1>5. CASE ~ r.enable
  <2>1. f = [e EXCEPT !.reporting = IF e.backend = "default" THEN @ \cup {r.event} ELSE @ \ {r.event}]
    BY <1>5 DEF DisableEventReporting
  <2>2. /\ f.backend = e.backend
        /\ f.reporting = IF e.backend = "default" THEN e.reporting \cup {r.event} ELSE e.reporting \ {r.event}
    BY <2>1 DEF EventType
  <2>3. u[event] = IF event = r.event THEN "Disabled" ELSE t[event]
    BY <1>2, <1>5
  <2> QED
    BY <1>3, <2>2, <2>3 DEF EventEnabled, ShouldReport
<1> QED
  BY <1>1, <1>4, <1>5

\* The event handler takes the next request.
LEMMA NextRequest ==
    ASSUME EventType(ev), ev.requests # << >>
    PROVE  Head(ev.requests) \in EventReqs /\ Tail(ev.requests) \in Seq(EventReqs)
<1>1. ev.requests \in Seq(EventReqs)
  BY DEF EventType
<1> QED
  BY <1>1, TailFacts

\* The event handler has taken the first request.
LEMMA AfterRequestType ==
    ASSUME EventType(ev), ev.requests # << >>
    PROVE  EventType(AfterEventRequest(ev))
<1>1. PICK r, rest : r = Head(ev.requests) /\ rest = [ev EXCEPT !.requests = Tail(@)]
  OBVIOUS
<1>2. EventType(rest)
  BY <1>1, NextRequest DEF EventType
<1>3. AfterEventRequest(ev) \in {DisableEventReporting(rest, r.event),
                                 EnableEventReporting(rest, r.event), rest}
  BY <1>1 DEF AfterEventRequest
<1>4. ASSUME NEW x PROVE EventType([rest EXCEPT !.reporting = x])
  BY <1>2 DEF EventType
<1> QED
  BY <1>2, <1>3, <1>4 DEF DisableEventReporting, EnableEventReporting

\* It tells the ground what it has set, or panics.
LEMMA EventRequestsTold ==
    ASSUME ToldInv, EventRequests
    PROVE  ToldInv' /\ log'.taken = log.taken
<1>1. ev.requests # << >> /\ "pus" \notin dead
  BY DEF EventRequests, At
<1>2. PICK c : /\ c = HandleEventRequest(NewContext(EventRoom), ev)
               /\ ev' = AfterEventRequest(ev)
               /\ log' = IF c.result = "ok" THEN Told(Head(ev.requests)) ELSE log
               /\ dead' = IF c.result = "panic" THEN dead \cup {"pus"} ELSE dead
  BY DEF EventRequests, Effects
<1>3. PICK r : r = Head(ev.requests) /\ r \in EventReqs
  BY <1>1, NextRequest DEF ToldInv
<1>4. EventType(ev')
  BY <1>1, <1>2, AfterRequestType DEF ToldInv
<1>5. LogType(log') /\ log'.taken = log.taken
  BY <1>2 DEF ToldInv, LogType, Told
<1>6. EventRoom \in Nat
  BY SMTT(60) DEF EventRoom, TmPerHandler
<1>7. r.token.request_id \in Ids /\ r.enable \in BOOLEAN
  BY <1>3 DEF EventReqs, EventTokens
<1>8. c.result = "panic" \/ (c.result = "ok" /\ (r.enable => CanEnable(ev, r.event)))
  <2>1. CASE TokenIs(r.token, "Started") /\ (r.enable => CanEnable(ev, r.event))
    <3>1. c = Expect(CompletionSuccess(NewContext(EventRoom), r.token))
      BY <1>2, <1>3, <2>1 DEF HandleEventRequest
    <3>2. Reports(NewContext(EventRoom), CompletionSuccess(NewContext(EventRoom), r.token),
                  "CompletionSuccess", r.token.request_id, "Completed", TRUE)
      BY <1>6, <1>7, NewContextFacts, SuccessFacts
    <3>3. c.result \in {"ok", "panic"}
      BY <3>1, <3>2, ExpectFacts DEF Reports
    <3> QED
      BY <2>1, <3>3
  <2>2. CASE ~ (TokenIs(r.token, "Started") /\ (r.enable => CanEnable(ev, r.event)))
    <3>1. c = Panic(NewContext(EventRoom))
      BY <1>2, <1>3, <2>2 DEF HandleEventRequest, Panic
    <3> QED
      BY <1>6, <3>1, NewContextFacts, PanicFacts
  <2> QED
    BY <2>1, <2>2
<1>9. CASE c.result = "panic"
  BY <1>2, <1>4, <1>5, <1>9 DEF ToldInv
<1>10. CASE c.result = "ok" /\ (r.enable => CanEnable(ev, r.event))
  <2>1. PICK rest : rest = [ev EXCEPT !.requests = Tail(@)]
    OBVIOUS
  <2>2. EventType(rest)
    BY <1>1, <2>1, NextRequest DEF EventType, ToldInv
  <2>3. rest.reporting = ev.reporting /\ rest.backend = ev.backend
    BY <2>1 DEF EventType, ToldInv
  <2>4. IsTold(rest, log.told)
    BY <1>1, <2>3 DEF ToldInv, IsTold, EventEnabled, ShouldReport
  <2>5. ev' = IF r.enable THEN EnableEventReporting(rest, r.event) ELSE DisableEventReporting(rest, r.event)
    BY <1>2, <1>3, <1>7, <1>10, <2>1 DEF AfterEventRequest
  <2>6. log'.told = [event \in Events |->
                        IF Raw(event) = r.raw
                        THEN IF r.enable THEN "Enabled" ELSE "Disabled" ELSE log.told[event]]
    BY <1>2, <1>3, <1>10 DEF Told, ToldInv, LogType
  <2>7. IsTold(ev', log'.told)
    BY SMTT(60), <1>3, <2>2, <2>4, <2>5, <2>6, RequestTold
  <2> QED
    BY <1>4, <1>5, <2>7 DEF ToldInv
<1> QED
  BY <1>8, <1>9, <1>10

\* A step that leaves the map and what the ground was told alone.
LEMMA ToldUnchanged ==
    ASSUME ToldInv, EventType(ev'), LogType(log'), "pus" \notin dead' => "pus" \notin dead,
           ev'.reporting = ev.reporting, ev'.backend = ev.backend, log'.told = log.told
    PROVE  ToldInv'
BY DEF ToldInv, IsTold, EventEnabled, ShouldReport

\* A handler that has failed is still a handler.
LEMMA ErrorFacts ==
    ASSUME NEW c, IsContext(c)
    PROVE  IsContext([c EXCEPT !.result = "err"]) /\ [c EXCEPT !.result = "err"].result = "err"
BY SMTT(60) DEF IsContext, HasFields

\* The first packet of a handler is taken if the sender has room.
LEMMA FirstSent ==
    ASSUME NEW room \in Nat, NEW tm \in Tms, NEW d, d = SendTm(NewContext(room), tm)
    PROVE  /\ IsContext(d)
           /\ room = 0 => d.tm = << >> /\ d.result = "err"
           /\ room # 0 => d.tm = Append(<< >>, tm) /\ d.result = "ok"
<1>1. PICK n : n = NewContext(room)
  OBVIOUS
<1>2. IsContext(n) /\ n.tm = << >> /\ n.result = "ok" /\ n.room = room
  BY <1>1, NewContextFacts
<1>3. IsContext(d) /\ (Took(n, d, tm) \/ Stopped(n, d, TRUE))
  BY <1>1, <1>2, SendTmFacts
<1>4. CASE room = 0
  <2>1. d = [n EXCEPT !.result = "err", !.full = TRUE]
    BY <1>1, <1>2, <1>4 DEF SendTm
  <2>2. DOMAIN n = {"tm", "room", "token", "result", "full"}
    BY <1>2 DEF IsContext, HasFields
  <2>3. d.result = "err" /\ d.tm = n.tm
    BY SMTT(60), <2>1, <2>2
  <2> QED
    BY <1>2, <1>3, <1>4, <2>3
<1>5. CASE room # 0
  <2>1. d = [n EXCEPT !.tm = Append(@, tm), !.room = @ - 1, !.result = "ok"]
    BY <1>1, <1>2, <1>5 DEF SendTm
  <2> QED
    BY SMTT(60), <1>2, <1>3, <1>5, <2>1 DEF IsContext, HasFields
<1> QED
  BY <1>4, <1>5

\* The event handler handles a message of the event manager.
LEMMA HandledEvent ==
    ASSUME NEW event \in Events, NEW room \in Nat, NEW params, NEW c,
           HandlesEvent(c, room, event, params)
    PROVE  /\ c.tm \in Seq(Tms)
           /\ EventEnabled(ev, event) /\ EventTmFits(params) /\ room # 0 =>
                 Len(c.tm) = 1 /\ c.result # "panic"
           /\ EventEnabled(ev, event) /\ ~ (EventTmFits(params) /\ room # 0) =>
                 Len(c.tm) = 0 /\ c.result = "panic"
           /\ ~ EventEnabled(ev, event) => Len(c.tm) = 0 /\ c.result # "panic"
<1>0. c = Expect(GeneratePusEventTm(NewContext(room), ev, event, params))
  BY DEF HandlesEvent
<1>1. PICK n : n = NewContext(room)
  OBVIOUS
<1>2. IsContext(n) /\ n.tm = << >> /\ n.result = "ok"
  BY <1>1, NewContextFacts
<1>3. << >> \in Seq(Tms) /\ Len(<< >>) = 0
  BY SMTT(60)
<1>4. CASE ~ EventEnabled(ev, event)
  <2>1. c = Expect(n)
    BY <1>0, <1>1, <1>4 DEF GeneratePusEventTm
  <2>2. c = n
    BY <1>2, <2>1 DEF Expect
  <2> QED
    BY <1>2, <1>3, <1>4, <2>2
<1>5. CASE EventEnabled(ev, event) /\ ~ EventTmFits(params)
  <2>1. PICK d : d = [n EXCEPT !.result = "err"] /\ c = Expect(d)
    BY <1>0, <1>1, <1>5 DEF GeneratePusEventTm, ReportEvent
  <2>2. IsContext(d) /\ d.result = "err" /\ d.tm = << >>
    <3>1. IsContext([n EXCEPT !.result = "err"]) /\ [n EXCEPT !.result = "err"].result = "err"
      BY <1>2, ErrorFacts
    <3>2. d.tm = n.tm
      BY SMTT(60), <1>2, <2>1 DEF IsContext, HasFields
    <3> QED
      BY <1>2, <2>1, <3>1, <3>2
  <2>3. c.tm = d.tm /\ c.result \in {"ok", "panic"} /\ c.result # "ok"
    BY <2>1, <2>2, ExpectFacts
  <2> QED
    BY <1>3, <1>5, <2>2, <2>3
<1>6. CASE EventEnabled(ev, event) /\ EventTmFits(params)
  <2>1. PICK d : d = SendTm(NewContext(room), EventTm(event))
    OBVIOUS
  <2>2. c = Expect(d)
    BY <1>0, <1>6, <2>1 DEF GeneratePusEventTm, ReportEvent
  <2>3. EventTm(event) \in Tms
    <3>1. event.severity \in TmNames
      BY EventsAreIds DEF EventIds, TmNames
    <3> QED
      BY <3>1 DEF EventTm, Tms
  <2>4. /\ IsContext(d)
        /\ room = 0 => d.tm = << >> /\ d.result = "err"
        /\ room # 0 => d.tm = Append(<< >>, EventTm(event)) /\ d.result = "ok"
    BY <2>1, <2>3, FirstSent
  <2>5. /\ IsContext(c) /\ c.tm = d.tm /\ c.result \in {"ok", "panic"}
        /\ c.result = "ok" <=> d.result = "ok"
    BY <2>2, <2>4, ExpectFacts
  <2>6. Len(Append(<< >>, EventTm(event))) = 1
    BY SMTT(60)
  <2>7. c.tm \in Seq(Tms)
    BY <2>5 DEF IsContext
  <2>8. CASE room = 0
    BY <1>3, <1>6, <2>4, <2>5, <2>7, <2>8
  <2>9. CASE room # 0
    BY <1>6, <2>4, <2>5, <2>6, <2>7, <2>9
  <2> QED
    BY <2>8, <2>9
<1> QED
  BY <1>4, <1>5, <1>6

\* Of the events only the one that was handled is counted.
LEMMA TakenCounts ==
    ASSUME LogType(log), NEW c, c.tm \in Seq(Tms), NEW event \in Events
    PROVE  /\ LogType(TakenWith(c, event)) /\ TakenWith(c, event).told = log.told
           /\ \A other \in Events : other # event =>
                 TakenWith(c, event).taken[other] = log.taken[other]
           /\ TakenWith(c, event).reported[event] = log.reported[event] + Len(c.tm)
<1>1. PICK t, r : t = log.taken[event] + 1 /\ r = log.reported[event] + Len(c.tm)
  OBVIOUS
<1>2. t \in Nat /\ r \in Nat
  BY SMTT(60), <1>1 DEF LogType
<1>3. TakenWith(c, event) = [log EXCEPT !.taken = [log.taken EXCEPT ![event] = t],
                                        !.reported = [log.reported EXCEPT ![event] = r]]
  BY SMTT(60), <1>1 DEF TakenWith, LogType
<1>4. PICK f, g : f = [log.taken EXCEPT ![event] = t] /\ g = [log.reported EXCEPT ![event] = r]
  OBVIOUS
<1>5. /\ f \in [Events -> Nat] /\ g \in [Events -> Nat] /\ g[event] = r
      /\ \A other \in Events : other # event => f[other] = log.taken[other]
  BY <1>2, <1>4 DEF LogType
<1>6. TakenWith(c, event) = [log EXCEPT !.taken = f, !.reported = g]
  BY <1>3, <1>4
<1>7. /\ TakenWith(c, event).taken = f /\ TakenWith(c, event).reported = g
      /\ TakenWith(c, event).told = log.told /\ DOMAIN TakenWith(c, event) = DOMAIN log
  BY SMTT(60), <1>6 DEF LogType
<1> QED
  BY <1>1, <1>5, <1>7 DEF LogType

\* Events that the model does not count leave the counts alone.
LEMMA TakenElsewhere ==
    ASSUME LogType(log), NEW c, NEW event, event \notin Events
    PROVE  LogType(TakenWith(c, event)) /\ TakenWith(c, event).told = log.told
           /\ TakenWith(c, event).taken = log.taken
<1>1. PICK t, r : t = log.taken[event] + 1 /\ r = log.reported[event] + Len(c.tm)
  OBVIOUS
<1>2. TakenWith(c, event) = [log EXCEPT !.taken = [log.taken EXCEPT ![event] = t],
                                        !.reported = [log.reported EXCEPT ![event] = r]]
  BY SMTT(60), <1>1 DEF TakenWith, LogType
<1>3. ASSUME NEW h \in [Events -> Nat], NEW v PROVE [h EXCEPT ![event] = v] = h
  OBVIOUS
<1>4. TakenWith(c, event) = [log EXCEPT !.taken = log.taken, !.reported = log.reported]
  BY <1>2, <1>3 DEF LogType
<1>5. /\ TakenWith(c, event).taken = log.taken /\ TakenWith(c, event).reported = log.reported
      /\ TakenWith(c, event).told = log.told /\ DOMAIN TakenWith(c, event) = DOMAIN log
  BY SMTT(60), <1>4 DEF LogType
<1> QED
  BY <1>5 DEF LogType

\* An event is reported if its reports are on, or the thread panics because it
\* cannot be; with its reports off neither happens.
LEMMA EventReportTold ==
    ASSUME ToldInv, EventReport
    PROVE  ToldInv' /\ RightlySilent
<1>0. \A event \in Events : log.taken[event] \in Nat /\ log.reported[event] \in Nat
  BY DEF ToldInv, LogType
<1>1. "pus" \notin dead
  BY DEF EventReport, At
<1>2. CASE ev.queues[PusEventManagement] = << >>
  <2>1. UNCHANGED <<ev, log, dead>>
    BY <1>2 DEF EventReport, NoEffects
  <2>2. ASSUME NEW n \in Nat PROVE ~ (n > n)
    BY SMTT(60)
  <2> QED
    BY <1>0, <2>1, <2>2 DEF ToldInv, RightlySilent
<1>3. CASE ev.queues[PusEventManagement] # << >>
  <2>1. PICK m, c : /\ m = Head(ev.queues[PusEventManagement])
                    /\ c = Expect(GeneratePusEventTm(NewContext(EventRoom), ev, m.event, m.params))
                    /\ ev' = [ev EXCEPT !.queues[PusEventManagement] = Tail(@)]
                    /\ log' = TakenWith(c, m.event)
                    /\ dead' = IF c.result = "panic" THEN dead \cup {"pus"} ELSE dead
    BY <1>3 DEF EventReport, Effects, HandleEvent, AfterEvent
  <2>2. PICK q : ev' = [ev EXCEPT !.queues = q]
    BY <2>1
  <2>3. EventType(ev') /\ ev'.reporting = ev.reporting /\ ev'.backend = ev.backend
    BY SMTT(60), <2>2 DEF EventType, ToldInv
  <2>4. "pus" \notin dead' => "pus" \notin dead
    BY <1>1
  <2>5. EventRoom \in Nat
    BY SMTT(60) DEF EventRoom, TmPerHandler
  <2>6. CASE m.event \notin Events
    <3>1. LogType(log') /\ log'.told = log.told /\ log'.taken = log.taken
      BY <2>1, <2>6, TakenElsewhere DEF ToldInv
    <3>2. ToldInv'
      BY <2>3, <2>4, <3>1, ToldUnchanged
    <3>3. ASSUME NEW n \in Nat PROVE ~ (n > n)
      BY SMTT(60)
    <3> QED
      BY <1>0, <3>1, <3>2, <3>3 DEF RightlySilent
  <2>7. CASE m.event \in Events
    <3>1. PICK event \in Events : event = m.event
      BY <2>7
    <3>2. /\ c.tm \in Seq(Tms)
          /\ ReportsOn(event) /\ ReportPossible => Len(c.tm) = 1 /\ c.result # "panic"
          /\ ReportsOn(event) /\ ~ ReportPossible => Len(c.tm) = 0 /\ c.result = "panic"
          /\ ~ ReportsOn(event) => Len(c.tm) = 0 /\ c.result # "panic"
      <4>1. HandlesEvent(c, EventRoom, event, m.params)
        BY <2>1, <3>1 DEF HandlesEvent
      <4>2. EventEnabled(ev, event) <=> ReportsOn(event)
        BY <1>1 DEF ToldInv, IsTold, ShouldReport, ReportsOn
      <4>3. ReportPossible <=> EventTmFits(m.params) /\ EventRoom # 0
        <5>1. EventRoom # 0 <=> ~ static
          BY SMTT(60) DEF EventRoom, TmPerHandler
        <5> QED
          BY <2>1, <5>1 DEF ReportPossible
      <4> QED
        BY <2>5, <4>1, <4>2, <4>3, HandledEvent
    <3>3. /\ LogType(log') /\ log'.told = log.told
          /\ \A other \in Events : other # event => log'.taken[other] = log.taken[other]
          /\ log'.reported[event] = log.reported[event] + Len(c.tm)
      BY <2>1, <3>1, <3>2, TakenCounts DEF ToldInv
    <3>4. ToldInv'
      BY <2>3, <2>4, <3>3, ToldUnchanged
    <3>5. ASSUME NEW n \in Nat PROVE ~ (n > n)
      BY SMTT(60)
    <3>6. /\ log'.reported[event] =
                log.reported[event] + (IF ReportsOn(event) /\ ReportPossible THEN 1 ELSE 0)
          /\ dead' = IF ReportsOn(event) /\ ~ ReportPossible THEN dead \cup {"pus"} ELSE dead
      BY <2>1, <3>2, <3>3
    <3> QED
      BY <1>0, <3>3, <3>4, <3>5, <3>6 DEF RightlySilent
  <2> QED
    BY <2>6, <2>7
<1> QED
  BY <1>2, <1>3

\* The other steps leave the counts alone.  The event service hands on a request.
LEMMA EventServiceTold ==
    ASSUME BlocksInv, ToldInv, EventService
    PROVE  ToldInv' /\ log' = log
<1>1. queues["Event"] # << >> /\ "Event" \in Services /\ log' = log /\ "pus" \notin dead
  BY DEF EventService, Take, Services, Direct, At
<1>2. PICK room, x, c : /\ room \in Rooms
                        /\ x = Head(queues["Event"])
                        /\ c = HandleEventTc(NewContext(room), x.tc, x.token)
                        /\ ev' = AfterEventTc(ev, c, x.tc, x.token)
  BY DEF EventService
<1>3. x \in AcceptedTcs
  BY <1>1, <1>2, TakenFacts
<1>4. PICK i : i = RequestIdNew(x.tc)
  OBVIOUS
<1>5. x.tc \in AllTcs /\ x.token = Token("Accepted", i) /\ x.token.request_id = i /\ i \in Ids
  BY <1>3, <1>4, AcceptedFields
<1>6. EventType(ev') /\ ev'.reporting = ev.reporting /\ ev'.backend = ev.backend
  <2>1. CASE ~ IsEventRequest(x.tc)
    BY <1>2, <2>1 DEF AfterEventTc, ToldInv
  <2>2. CASE IsEventRequest(x.tc)
    <3>1. c = StartSuccess(NewContext(room), x.token)
      BY <1>2, <2>2 DEF HandleEventTc
    <3>2. Reports(NewContext(room), c, "StartSuccess", i, "Started", TRUE)
      BY <1>2, <1>5, <3>1, RoomsAreNumbers, NewContextFacts, SuccessFacts
    <3>3. c.result = "ok" => c.token = Token("Started", i)
      BY <3>2 DEF Reports, Went, Stopped
    <3>4. PICK state \in {"Accepted", "Started"} :
             (IF c.result = "ok" THEN c.token ELSE x.token) = Token(state, i)
      BY <1>5, <3>3
    <3>5. PICK event \in EventIds : x.tc.event = Raw(event)
      BY <1>5, CommandingAssumption
    <3>6. PICK r : r = EventRequest(x.tc.subservice = "EnableEvents", Raw(event), Token(state, i))
      OBVIOUS
    <3>7. r \in EventReqs
      BY <1>5, <3>6, RequestIsTyped
    <3>8. ev' = [ev EXCEPT !.requests = Append(@, r)]
      BY <1>2, <2>2, <3>4, <3>5, <3>6 DEF AfterEventTc
    <3>9. Append(ev.requests, r) \in Seq(EventReqs)
      BY <3>7, AppendFacts DEF ToldInv, EventType
    <3> QED
      BY SMTT(60), <3>8, <3>9 DEF ToldInv, EventType
  <2> QED
    BY <2>1, <2>2
<1> QED
  BY <1>1, <1>6, ToldUnchanged DEF ToldInv

\* The rest of the program leaves the reporting of events alone.
LEMMA OtherTold ==
    ASSUME BlocksInv, ToldInv, [Next]_vars, ~ EventRequests, ~ EventReport, ~ EventService
    PROVE  ToldInv' /\ log'.taken = log.taken
<1>1. "pus" \notin dead' => "pus" \notin dead
  <2>1. CASE dead \subseteq dead'
    BY <2>1
  <2>2. CASE \E c, thread : Effects(c, thread)
    BY <2>2 DEF Effects
  <2>3. CASE NoEffects
    BY <2>3 DEF NoEffects
  <2> QED
    BY <2>1, <2>2, <2>3 DEF vars, Next, Ground, CommandAction, RaiseEvent, Distribute, PusThread, TryEventRouting,
       ReleaseTcs, Release, TestService, SchedulingService, NothingQueued, TargetedService, TargetedReply,
       NoReply, Check, TargetSteps, TargetHandles, Expiry, Expire, BecomeDue
<1>2. CASE UNCHANGED <<ev, log>>
  BY <1>1, <1>2, ToldUnchanged DEF ToldInv
<1>3. CASE UNCHANGED log /\ \E event, params : ev' = Raised(event, params)
  <2>1. PICK q : ev' = [ev EXCEPT !.inbox = q]
    BY <1>3 DEF Raised
  <2>2. EventType(ev') /\ ev'.reporting = ev.reporting /\ ev'.backend = ev.backend
    BY SMTT(60), <2>1 DEF EventType, ToldInv
  <2> QED
    BY <1>1, <1>3, <2>2, ToldUnchanged DEF ToldInv
<1>4. CASE TryEventRouting
  <2>1. ev' = ev \/ \E q, r : ev' = [ev EXCEPT !.inbox = q, !.queues = r]
    BY <1>4 DEF TryEventRouting, TryEventHandling
  <2>2. ASSUME NEW q, NEW r, ev' = [ev EXCEPT !.inbox = q, !.queues = r]
        PROVE  EventType(ev') /\ ev'.reporting = ev.reporting /\ ev'.backend = ev.backend
    BY SMTT(60), <2>2 DEF EventType, ToldInv
  <2>3. EventType(ev') /\ ev'.reporting = ev.reporting /\ ev'.backend = ev.backend
    BY <2>1, <2>2 DEF ToldInv
  <2>4. log' = log \/ \E event : log' = RoutedTo(event)
    BY <1>4 DEF TryEventRouting
  <2>5. ASSUME NEW event PROVE LogType(RoutedTo(event)) /\ RoutedTo(event).told = log.told
                               /\ RoutedTo(event).taken = log.taken
    <3>1. PICK r, l : RoutedTo(event) = [log EXCEPT !.routed = r, !.lost = l]
      BY DEF RoutedTo, ToldInv, LogType
    <3> QED
      BY SMTT(60), <3>1 DEF LogType, ToldInv
  <2>6. LogType(log') /\ log'.told = log.told /\ log'.taken = log.taken
    BY <2>4, <2>5 DEF ToldInv
  <2> QED
    BY <1>1, <2>3, <2>6, ToldUnchanged
<1> QED
  BY <1>2, <1>3, <1>4 DEF vars, Next, Ground, CommandAction, RaiseEvent, Distribute, PusThread,
     ReleaseTcs, TestService, SchedulingService, NothingQueued, TargetedService, TargetedReply,
     NoReply, Check, TargetSteps, TargetHandles, Expiry, Expire, BecomeDue

\* Every step keeps ToldInv and is rightly silent.
LEMMA StepTold ==
    ASSUME BlocksInv, ToldInv, [Next]_vars
    PROVE  ToldInv' /\ RightlySilent
<1>1. ASSUME NEW n \in Nat PROVE ~ (n > n)
  BY SMTT(60)
<1>2. \A event \in Events : log.taken[event] \in Nat
  BY DEF ToldInv, LogType
<1>3. log'.taken = log.taken => RightlySilent
  BY <1>1, <1>2 DEF RightlySilent
<1>4. CASE EventRequests
  BY <1>3, <1>4, EventRequestsTold
<1>5. CASE EventReport
  BY <1>5, EventReportTold
<1>6. CASE EventService
  BY <1>3, <1>6, EventServiceTold
<1>7. CASE ~ EventRequests /\ ~ EventReport /\ ~ EventService
  BY <1>3, <1>7, OtherTold
<1> QED
  BY <1>4, <1>5, <1>6, <1>7

=============================================================================
