-------------------------- MODULE CommandingProofs --------------------------
(***************************************************************************)
(* What the commanding path keeps for every plan of telecommands, every    *)
(* size of the pool and of the queues, and every way in which the targets  *)
(* answer: the blocks of the TC pool belong to one message each            *)
(* (BlocksOwned), what the ground was told about the reporting of events   *)
(* is true (DisabledIsSilent), no telecommand ends or starts twice         *)
(* (EndsOnce), and none ends without a report but where the code gives up  *)
(* (NoSilentEnd).                                                          *)
(*                                                                         *)
(* The invariant for the reports balances, for each request ID, the        *)
(* reports that were sent with the telecommands and requests that are      *)
(* open.                                                                   *)
(***************************************************************************)
EXTENDS CommandingLemmas

\* As in CommandingLemmas, Zenon comes first.
USE ZenonT(60)

-----------------------------------------------------------------------------
(* The balance of a request.                                               *)

\* An end or a start failure that was sent is heard on the ground.
LEMMA TellsHeard ==
    ASSUME NEW id, NEW K, Posted(id, id, K), Tells(K)
    PROVE  Heard(id)
<1>1. ASSUME NEW n, NEW m, Grows(n, m, TRUE) PROVE n > m
  BY SMTT(60), <1>1 DEF Grows
<1>2. CASE Final(K)
  BY <1>1, <1>2 DEF Posted, Heard, Grows
<1>3. CASE "StartFailure" \in K
  BY <1>1, <1>3 DEF Posted, Heard, Grows
<1> QED
  BY <1>2, <1>3 DEF Tells

\* A service takes a telecommand: h if it hands it to the event handler, g if
\* there is one more active request.
LEMMA TakenSettles ==
    ASSUME NEW id, NEW i, NEW K, NEW h \in BOOLEAN, NEW g \in BOOLEAN,
           Balanced(id), Plain(K), Posted(id, i, K),
           Grows(Queued(id), Queued(id)', id = i),
           Grows(Handed(id)', Handed(id), h),
           Grows(Cardinality(ActiveIn(id))', Cardinality(ActiveIn(id)), g),
           h \/ g => id = i /\ ~ Final(K), ~ (h /\ g)
    PROVE  Balanced(id)' /\ (Shrinks(id) => id = i /\ ~ h /\ ~ g)
<1>1. PICK x \in BOOLEAN, y \in BOOLEAN, b \in BOOLEAN :
         x = (id = i /\ Final(K)) /\ y = (id = i /\ Begun(K)) /\ b = (id = i)
  OBVIOUS
<1>2. PICK C, S, A, Q, H, N, D, T, B, P, I, M :
         /\ C = Completions(id) /\ S = Starts(id) /\ A = reports[id].AcceptanceSuccess
         /\ Q = Queued(id) /\ H = Handed(id) /\ N = Cardinality(ActiveIn(id))
         /\ D = Completions(id)' /\ T = Starts(id)' /\ B = reports'[id].AcceptanceSuccess
         /\ P = Queued(id)' /\ I = Handed(id)' /\ M = Cardinality(ActiveIn(id))'
  OBVIOUS
<1>3. /\ Grows(D, C, x) /\ Grows(T, S, y) /\ Grows(B, A, FALSE) /\ Grows(Q, P, b)
      /\ Grows(I, H, h) /\ Grows(M, N, g) /\ Balance(C, S, A, Q, H, N)
  BY <1>1, <1>2 DEF Posted, Plain, Grows, Balanced
<1>4. (x => b) /\ (y => b) /\ (h \/ g => b /\ ~ x)
  BY <1>1
<1>5. Balance(D, T, B, P, I, M) /\ (P + I + M < Q + H + N => b /\ ~ h /\ ~ g)
  BY SMTT(60), <1>3, <1>4 DEF Balance, Grows
<1> QED
  BY <1>1, <1>2, <1>5 DEF Balanced, Shrinks, Open

\* The event handler completes a request (h), or a reply ends one (g).
LEMMA DoneSettles ==
    ASSUME NEW id, NEW i, NEW K, NEW h \in BOOLEAN, NEW g \in BOOLEAN,
           Balanced(id), Plain(K), ~ Begun(K), Posted(id, i, K), Queued(id)' = Queued(id),
           Grows(Handed(id), Handed(id)', h),
           Grows(Cardinality(ActiveIn(id)), Cardinality(ActiveIn(id))', g),
           id = i /\ Final(K) => h \/ g
    PROVE  Balanced(id)' /\ (Shrinks(id) => h \/ g)
<1>1. PICK x \in BOOLEAN : x = (id = i /\ Final(K))
  OBVIOUS
<1>2. PICK C, S, A, Q, H, N, D, T, B, P, I, M :
         /\ C = Completions(id) /\ S = Starts(id) /\ A = reports[id].AcceptanceSuccess
         /\ Q = Queued(id) /\ H = Handed(id) /\ N = Cardinality(ActiveIn(id))
         /\ D = Completions(id)' /\ T = Starts(id)' /\ B = reports'[id].AcceptanceSuccess
         /\ P = Queued(id)' /\ I = Handed(id)' /\ M = Cardinality(ActiveIn(id))'
  OBVIOUS
<1>3. /\ Grows(D, C, x) /\ Grows(T, S, FALSE) /\ Grows(B, A, FALSE) /\ P = Q
      /\ Grows(H, I, h) /\ Grows(N, M, g) /\ Balance(C, S, A, Q, H, N)
  BY <1>1, <1>2 DEF Posted, Plain, Grows, Balanced
<1>4. x => h \/ g
  BY <1>1
<1>5. Balance(D, T, B, P, I, M) /\ (P + I + M < Q + H + N => h \/ g)
  BY SMTT(60), <1>3, <1>4 DEF Balance, Grows
<1> QED
  BY <1>2, <1>5 DEF Balanced, Shrinks, Open

\* A telecommand is accepted, and given to a service (q) or not.
LEMMA AcceptedSettles ==
    ASSUME NEW id, NEW i, NEW K, NEW q \in BOOLEAN,
           Balanced(id), ~ Final(K), Posted(id, i, K),
           Grows(Queued(id)', Queued(id), id = i /\ q), Handed(id)' = Handed(id), ActiveIn(id)' = ActiveIn(id),
           q \/ Begun(K) => "AcceptanceSuccess" \in K, ~ (q /\ Begun(K))
    PROVE  Balanced(id)' /\ ~ Shrinks(id)
<1>1. PICK x \in BOOLEAN, y \in BOOLEAN, z \in BOOLEAN :
         /\ x = (id = i /\ q) /\ y = (id = i /\ Begun(K))
         /\ z = (id = i /\ "AcceptanceSuccess" \in K)
  OBVIOUS
<1>2. PICK C, S, A, Q, H, N, D, T, B, P, I, M :
         /\ C = Completions(id) /\ S = Starts(id) /\ A = reports[id].AcceptanceSuccess
         /\ Q = Queued(id) /\ H = Handed(id) /\ N = Cardinality(ActiveIn(id))
         /\ D = Completions(id)' /\ T = Starts(id)' /\ B = reports'[id].AcceptanceSuccess
         /\ P = Queued(id)' /\ I = Handed(id)' /\ M = Cardinality(ActiveIn(id))'
  OBVIOUS
<1>3. /\ Grows(D, C, FALSE) /\ Grows(T, S, y) /\ Grows(B, A, z) /\ Grows(P, Q, x)
      /\ I = H /\ M = N /\ Balance(C, S, A, Q, H, N)
  BY <1>1, <1>2 DEF Posted, Grows, Balanced
<1>4. (x \/ y => z) /\ ~ (x /\ y)
  BY <1>1
<1>5. Balance(D, T, B, P, I, M) /\ ~ (P + I + M < Q + H + N)
  BY SMTT(60), <1>3, <1>4 DEF Balance, Grows
<1> QED
  BY <1>2, <1>5 DEF Balanced, Shrinks, Open

\* The set of the services with targets is finite.
LEMMA TargetsFinite ==
    ASSUME SetLaws, NEW I, I \subseteq Targeted
    PROVE  IsFiniteSet(I)
<1>1. IsFiniteSet({"Action"}) /\ IsFiniteSet({"Housekeeping"}) /\ IsFiniteSet({"Mode"})
  BY DEF SetLaws, SingletonLaw
<1>2. "Housekeeping" \notin {"Action"} /\ "Mode" \notin {"Action"} \cup {"Housekeeping"}
  OBVIOUS
<1>3. IsFiniteSet({"Action"} \cup {"Housekeeping"} \cup {"Mode"})
  BY <1>1, <1>2 DEF SetLaws, AddLaw
<1>4. {"Action"} \cup {"Housekeeping"} \cup {"Mode"} = Targeted
  BY DEF Targeted
<1> QED
  BY <1>3, <1>4 DEF SetLaws, SubsetLaw

\* Nothing is reported and nothing moves, but requests may time out.
LEMMA IdleSettles ==
    ASSUME SetLaws, NEW id, Balanced(id), Completions(id)' = Completions(id), Starts(id)' = Starts(id),
           reports'[id].AcceptanceSuccess = reports[id].AcceptanceSuccess,
           Queued(id)' = Queued(id), Handed(id)' = Handed(id),
           ActiveIn(id)' \subseteq ActiveIn(id)
    PROVE  Balanced(id)' /\ (Shrinks(id) => ActiveIn(id)' # ActiveIn(id))
<1>1. IsFiniteSet(ActiveIn(id))
  <2>1. ActiveIn(id) \subseteq Targeted
    BY DEF ActiveIn
  <2> QED
    BY <2>1, TargetsFinite
<1>2. Cardinality(ActiveIn(id)') \in Nat /\ Cardinality(ActiveIn(id)') <= Cardinality(ActiveIn(id))
  BY <1>1 DEF SetLaws, SubsetLaw, NumberLaw
<1>3. ASSUME NEW C, NEW S, NEW A, NEW Q, NEW H, NEW N, Balance(C, S, A, Q, H, N), NEW M \in Nat, M <= N
      PROVE  Balance(C, S, A, Q, H, M) /\ (Q + H + M < Q + H + N => M # N)
  BY SMTT(60), <1>3 DEF Balance
<1>4. /\ Balance(Completions(id), Starts(id), reports[id].AcceptanceSuccess, Queued(id),
                 Handed(id), Cardinality(ActiveIn(id)'))
      /\ Queued(id) + Handed(id) + Cardinality(ActiveIn(id)') < Queued(id) + Handed(id) + Cardinality(ActiveIn(id))
            => Cardinality(ActiveIn(id)') # Cardinality(ActiveIn(id))
  BY <1>2, <1>3 DEF Balanced
<1> QED
  BY <1>4 DEF Balanced, Shrinks, Open

-----------------------------------------------------------------------------
(* The tables of active requests, and the effects of a handler.            *)

\* Request IDs are told apart by their raw form.
LEMMA RawsDistinct ==
    ASSUME NEW i \in Ids, NEW j \in Ids, RequestIdRaw(i) = RequestIdRaw(j)
    PROVE  i = j
<1>1. i \in RequestIds /\ j \in RequestIds
  BY CommandingAssumption DEF Ids
<1> QED
  BY SMTT(60), <1>1, RequestIdRoundTrip

\* A request is active in finitely many services.
LEMMA InFinite ==
    ASSUME SetLaws, NEW a, NEW id
    PROVE  IsFiniteSet(In(a, id))
<1>1. In(a, id) \subseteq Targeted
  BY DEF In
<1> QED
  BY <1>1, TargetsFinite

\* A request is counted once more when its entry is new ...
LEMMA InsertFacts ==
    ASSUME SetLaws, NEW a, ActiveType(a), NEW k \in Targeted, NEW i \in Ids, NEW r, "token" \in DOMAIN r,
           r.token = Token("Started", i), NEW b, Inserted(a, b, k, i, r)
    PROVE  /\ ActiveType(b)
           /\ \A id \in Ids : Grows(Cardinality(In(b, id)), Cardinality(In(a, id)), id = i /\ k \notin In(a, id))
<1>1. PICK m, raw : m = Insert(a[k], raw, r) /\ raw = RequestIdRaw(i)
  OBVIOUS
<1>2. DOMAIN m = DOMAIN a[k] \cup {raw} /\ m[raw] = r /\ \A x \in DOMAIN a[k] : x # raw => m[x] = a[k][x]
  BY <1>1 DEF Insert
<1>3. DOMAIN b = Targeted /\ b[k] = m /\ \A s \in Targeted : s # k => b[s] = a[s]
  BY <1>1 DEF ActiveType, Inserted
<1>4. ASSUME NEW x \in DOMAIN m PROVE HasStarted(x, m[x])
  <2>1. CASE x = raw
    BY <1>1, <1>2, <2>1 DEF HasStarted
  <2>2. CASE x # raw
    BY <1>2, <2>2 DEF ActiveType
  <2> QED
    BY <2>1, <2>2
<1>5. ActiveType(b)
  BY <1>3, <1>4 DEF ActiveType
<1>6. ASSUME NEW id \in Ids
      PROVE  Grows(Cardinality(In(b, id)), Cardinality(In(a, id)), id = i /\ k \notin In(a, id))
  <2>1. ASSUME NEW s \in Targeted, s # k PROVE s \in In(b, id) <=> s \in In(a, id)
    BY <1>3, <2>1 DEF In
  <2>2. k \in In(b, id) <=> k \in In(a, id) \/ id = i
    <3>1. k \in In(b, id) <=> RequestIdRaw(id) \in DOMAIN a[k] \cup {raw}
      BY <1>2, <1>3 DEF In
    <3>2. RequestIdRaw(id) = raw <=> id = i
      BY <1>1, RawsDistinct
    <3> QED
      BY <3>1, <3>2 DEF In
  <2>3. In(a, id) \subseteq Targeted /\ In(b, id) \subseteq Targeted /\ IsFiniteSet(In(a, id))
    BY InFinite DEF In
  <2>4. CASE id = i /\ k \notin In(a, id)
    <3>1. In(b, id) = In(a, id) \cup {k}
      BY <2>1, <2>2, <2>3, <2>4
    <3> QED
      BY <2>3, <2>4, <3>1, AddOne DEF Grows
  <2>5. CASE ~ (id = i /\ k \notin In(a, id))
    <3>0. ASSUME NEW s PROVE s \in In(b, id) <=> s \in In(a, id)
      <4>1. CASE s = k
        BY <2>2, <2>5, <4>1
      <4>2. CASE s # k
        BY <2>1, <2>3, <4>2
      <4> QED
        BY <4>1, <4>2
    <3>1. In(b, id) = In(a, id)
      BY <3>0
    <3> QED
      BY <2>3, <2>5, <3>1, SameCount DEF Grows
  <2> QED
    BY <2>4, <2>5
<1> QED
  BY <1>5, <1>6

\* ... and once less when its entry goes.
LEMMA RemoveFacts ==
    ASSUME SetLaws, NEW a, ActiveType(a), NEW k \in Targeted, NEW i \in Ids, RequestIdRaw(i) \in DOMAIN a[k],
           NEW b, Removed(a, b, k, i)
    PROVE  /\ ActiveType(b)
           /\ \A id \in Ids : Grows(Cardinality(In(a, id)), Cardinality(In(b, id)), id = i)
<1>1. PICK m, raw : m = Remove(a[k], {raw}) /\ raw = RequestIdRaw(i)
  OBVIOUS
<1>2. DOMAIN m = DOMAIN a[k] \ {raw} /\ \A x \in DOMAIN m : m[x] = a[k][x]
  BY <1>1 DEF Remove
<1>3. DOMAIN b = Targeted /\ b[k] = m /\ \A s \in Targeted : s # k => b[s] = a[s]
  BY <1>1 DEF ActiveType, Removed
<1>4. ActiveType(b)
  BY <1>2, <1>3 DEF ActiveType
<1>5. ASSUME NEW id \in Ids PROVE Grows(Cardinality(In(a, id)), Cardinality(In(b, id)), id = i)
  <2>1. ASSUME NEW s \in Targeted, s # k PROVE s \in In(b, id) <=> s \in In(a, id)
    BY <1>3, <2>1 DEF In
  <2>2. k \in In(b, id) <=> k \in In(a, id) /\ id # i
    <3>1. k \in In(b, id) <=> RequestIdRaw(id) \in DOMAIN a[k] \ {raw}
      BY <1>2, <1>3 DEF In
    <3>2. RequestIdRaw(id) = raw <=> id = i
      BY <1>1, RawsDistinct
    <3> QED
      BY <3>1, <3>2 DEF In
  <2>3. In(a, id) \subseteq Targeted /\ In(b, id) \subseteq Targeted /\ IsFiniteSet(In(b, id))
    BY InFinite DEF In
  <2>4. CASE id = i
    <3>1. k \in In(a, id)
      BY <2>4 DEF In
    <3>2. In(a, id) = In(b, id) \cup {k} /\ k \notin In(b, id)
      BY <2>1, <2>2, <2>3, <2>4, <3>1
    <3> QED
      BY <2>3, <2>4, <3>2, AddOne DEF Grows
  <2>5. CASE id # i
    <3>0. ASSUME NEW s PROVE s \in In(b, id) <=> s \in In(a, id)
      <4>1. CASE s = k
        BY <2>2, <2>5, <4>1
      <4>2. CASE s # k
        BY <2>1, <2>3, <4>2
      <4> QED
        BY <4>1, <4>2
    <3>1. In(b, id) = In(a, id)
      BY <3>0
    <3> QED
      BY <2>3, <2>5, <3>1, SameCount DEF Grows
  <2> QED
    BY <2>4, <2>5
<1> QED
  BY <1>4, <1>5

\* What the effects of a handler do to the counters ...
LEMMA EffectsPosted ==
    ASSUME SetLaws, CountTypes, NEW c, NEW thread, NEW i, NEW K, Sends(c.tm, i, K), AtMostOne(K), Effects(c, thread)
    PROVE  CountTypes' /\ \A id \in Ids : Posted(id, i, K)
<1>1. ReportsType' /\ \A id \in Ids : Posted(id, i, K)
  BY PostedFacts DEF CountTypes, Effects
<1>2. failed' \in Nat
  BY SMTT(60) DEF Effects, CountTypes
<1> QED
  BY <1>1, <1>2 DEF CountTypes

\* ... and that a handler which could not send a packet leaves a trace.
LEMMA EffectsShow ==
    ASSUME CountTypes, NEW c, NEW thread, Effects(c, thread), thread \notin dead, c.result = "panic" \/ c.full
    PROVE  dead' # dead \/ failed' # failed
<1>1. CASE c.result = "panic"
  BY <1>1 DEF Effects
<1>2. CASE c.full
  BY SMTT(60), <1>2 DEF Effects, CountTypes
<1> QED
  BY <1>1, <1>2

-----------------------------------------------------------------------------
(* What the steps do to the balance.                                       *)

\* A service takes a telecommand from its queue ...
LEMMA TakeCounts ==
    ASSUME SetLaws, BlocksInv, NEW k \in Services, Take(k), NEW id, IsFiniteSet(Waiting(queues, id))
    PROVE  /\ Head(queues[k]) \in AcceptedTcs
           /\ IsFiniteSet(Waiting(queues', id))
           /\ Grows(Queued(id), Queued(id)', id = RequestIdNew(Head(queues[k]).tc))
<1>1. queues \in [Services -> Seq(AcceptedTcs)] /\ queues[k] # << >> /\ queues[k] \in Seq(AcceptedTcs)
  BY DEF BlocksInv, TcTypes, Take
<1>2. PICK t, x : t = Tail(queues[k]) /\ x = Head(queues[k])
  OBVIOUS
<1>3. t \in Seq(AcceptedTcs) /\ x \in AcceptedTcs
  BY <1>1, <1>2, TailFacts
<1>4. queues' = [queues EXCEPT ![k] = t]
  BY <1>2 DEF Take
<1>5. Grows(Cardinality(Named(queues[k], id)), Cardinality(Named(t, id)), x.token.request_id = id)
  BY <1>1, <1>2, NamedTail
<1>6. /\ IsFiniteSet(Waiting([queues EXCEPT ![k] = t], id))
      /\ Grows(Cardinality(Waiting(queues, id)), Cardinality(Waiting([queues EXCEPT ![k] = t], id)),
               x.token.request_id = id)
  BY <1>1, <1>3, <1>5, WaitingChange
<1>7. x.token.request_id = RequestIdNew(x.tc)
  BY <1>3, AcceptedFields
<1>8. Queued(id) = Cardinality(Waiting(queues, id)) /\ Queued(id)' = Cardinality(Waiting(queues', id))
  BY DEF Queued, Waiting, Named
<1> QED
  BY <1>2, <1>3, <1>4, <1>6, <1>7, <1>8 DEF Grows

\* ... and the distributor puts one in.
LEMMA PutCounts ==
    ASSUME SetLaws, BlocksInv, NEW k \in Services, NEW x \in AcceptedTcs,
           queues' = [queues EXCEPT ![k] = Append(@, x)],
           NEW id, IsFiniteSet(Waiting(queues, id))
    PROVE  /\ IsFiniteSet(Waiting(queues', id))
           /\ Grows(Queued(id)', Queued(id), id = RequestIdNew(x.tc))
<1>1. queues \in [Services -> Seq(AcceptedTcs)] /\ queues[k] \in Seq(AcceptedTcs)
  BY DEF BlocksInv, TcTypes
<1>2. PICK t : t = Append(queues[k], x)
  OBVIOUS
<1>3. t \in Seq(AcceptedTcs)
  BY <1>1, <1>2, AppendFacts
<1>4. queues' = [queues EXCEPT ![k] = t]
  BY <1>2
<1>5. Grows(Cardinality(Named(t, id)), Cardinality(Named(queues[k], id)), x.token.request_id = id)
  BY <1>1, <1>2, NamedAppend
<1>6. /\ IsFiniteSet(Waiting([queues EXCEPT ![k] = t], id))
      /\ Grows(Cardinality(Waiting([queues EXCEPT ![k] = t], id)), Cardinality(Waiting(queues, id)),
               x.token.request_id = id)
  BY <1>1, <1>3, <1>5, WaitingChange
<1>7. x.token.request_id = RequestIdNew(x.tc)
  BY AcceptedFields
<1>8. Queued(id) = Cardinality(Waiting(queues, id)) /\ Queued(id)' = Cardinality(Waiting(queues', id))
  BY DEF Queued, Waiting, Named
<1> QED
  BY <1>4, <1>6, <1>7, <1>8 DEF Grows

\* Numbers of requests that a step does not touch.
LEMMA SameNumbers ==
    ASSUME NEW id, Balanced(id)
    PROVE  /\ ev'.requests = ev.requests =>
              Grows(Handed(id)', Handed(id), FALSE) /\ Grows(Handed(id), Handed(id)', FALSE)
           /\ active' = active => /\ Grows(Cardinality(ActiveIn(id))', Cardinality(ActiveIn(id)), FALSE)
                                  /\ Grows(Cardinality(ActiveIn(id)), Cardinality(ActiveIn(id))', FALSE)
<1>1. Handed(id) \in Nat /\ Cardinality(ActiveIn(id)) \in Nat
  BY DEF Balanced, Balance
<1>2. ev'.requests = ev.requests => Handed(id)' = Handed(id)
  BY DEF Handed
<1>3. active' = active => Cardinality(ActiveIn(id))' = Cardinality(ActiveIn(id))
  BY DEF ActiveIn
<1> QED
  BY <1>1, <1>2, <1>3 DEF Grows

\* Queues that a step does not touch.
LEMMA SameQueues ==
    ASSUME NEW id, queues' = queues, IsFiniteSet(Waiting(queues, id))
    PROVE  IsFiniteSet(Waiting(queues', id)) /\ Queued(id)' = Queued(id)
<1>1. Waiting(queues', id) = Waiting(queues, id)
  OBVIOUS
<1>2. Queued(id) = Cardinality(Waiting(queues, id)) /\ Queued(id)' = Cardinality(Waiting(queues', id))
  BY DEF Queued, Waiting, Named
<1> QED
  BY <1>1, <1>2

\* A service that is done with a telecommand.
LEMMA ServedKeeps ==
    ASSUME SetLaws, BlocksInv, ReportsInv, NEW k \in Services, Take(k), "pus" \notin dead, NEW c, NEW excuse,
           Served(c, RequestIdNew(Head(queues[k]).tc), excuse), Effects(c, "pus"),
           ev'.requests = ev.requests, active' = active,
           excuse => \A id \in Ids : Excused(id)
    PROVE  CountTypes' /\ \A id \in Ids : Keeps(id)
<1>1. PICK i : i = RequestIdNew(Head(queues[k]).tc)
  OBVIOUS
<1>2. PICK K : Wrote(c, i, K) /\ Plain(K) /\ (Tells(K) \/ c.result = "panic" \/ c.full \/ excuse)
  BY <1>1 DEF Served
<1>3. CountTypes' /\ \A id \in Ids : Posted(id, i, K)
  BY <1>2, EffectsPosted DEF ReportsInv, Plain, Wrote
<1>4. ASSUME NEW id \in Ids PROVE Keeps(id)
  <2>1. IsFiniteSet(Waiting(queues, id)) /\ Balanced(id) /\ Posted(id, i, K)
    BY <1>3 DEF ReportsInv, Accounted
  <2>2. IsFiniteSet(Waiting(queues', id)) /\ Grows(Queued(id), Queued(id)', id = i)
    BY <1>1, <2>1, TakeCounts
  <2>3. /\ Grows(Handed(id)', Handed(id), FALSE)
        /\ Grows(Cardinality(ActiveIn(id))', Cardinality(ActiveIn(id)), FALSE)
    BY <2>1, SameNumbers
  <2>4. Balanced(id)' /\ (Shrinks(id) => id = i)
    BY <1>2, <2>1, <2>2, <2>3, TakenSettles
  <2>5. ASSUME id = i, Tells(K) PROVE Heard(id)
    BY <2>1, <2>5, TellsHeard
  <2>6. ASSUME c.result = "panic" \/ c.full PROVE Excused(id)
    BY <2>6, EffectsShow DEF Excused, ReportsInv
  <2> QED
    BY <1>2, <2>2, <2>4, <2>5, <2>6 DEF Keeps, Accounted
<1> QED
  BY <1>3, <1>4

\* The test service ends each telecommand it takes with a report.
LEMMA TestKeeps ==
    ASSUME SetLaws, BlocksInv, ToldInv, ReportsInv, TestService
    PROVE  CountTypes' /\ MapTypes' /\ \A id \in Ids : Keeps(id)
<1>1. /\ "Test" \in Services /\ Take("Test") /\ "pus" \notin dead /\ UNCHANGED <<active, requests, replies>>
      /\ queues["Test"] # << >>
  BY DEF TestService, At, Services, Direct, Take
<1>2. PICK room, x, c : /\ room \in Rooms
                        /\ x = Head(queues["Test"]) /\ c = HandleTestTc(NewContext(room), x.tc, x.token)
                        /\ Effects(c, "pus")
                        /\ ev' = ev \/ ev' = Raised(TestEvent, NoParams)
  BY DEF TestService
<1>3. x \in AcceptedTcs /\ room \in Nat
  BY <1>1, <1>2, TakenFacts, RoomsAreNumbers
<1>4. Served(c, RequestIdNew(x.tc), FALSE)
  BY <1>2, <1>3, TestServed
<1>5. ev'.requests = ev.requests
  <2>1. PICK q : q = Append(ev.inbox, EventMessage(PusTestService, TestEvent, NoParams))
    OBVIOUS
  <2>2. [ev EXCEPT !.inbox = q].requests = ev.requests
    BY DEF ToldInv, EventType
  <2>3. Raised(TestEvent, NoParams) = [ev EXCEPT !.inbox = q]
    BY <2>1 DEF Raised
  <2> QED
    BY <1>2, <2>2, <2>3
<1>6. CountTypes' /\ \A id \in Ids : Keeps(id)
  BY <1>1, <1>2, <1>4, <1>5, ServedKeeps
<1> QED
  BY <1>1, <1>6 DEF ReportsInv, MapTypes

\* So does the scheduling service, but for the subservices that it does not
\* know.
LEMMA SchedulingKeeps ==
    ASSUME SetLaws, BlocksInv, ReportsInv, SchedulingService
    PROVE  CountTypes' /\ MapTypes' /\ \A id \in Ids : Keeps(id)
<1>1. /\ "Scheduling" \in Services /\ Take("Scheduling") /\ "pus" \notin dead
      /\ UNCHANGED <<active, requests, replies, ev>> /\ queues["Scheduling"] # << >>
  BY DEF SchedulingService, At, Services, Direct, Take
<1>2. PICK room, x, c : /\ room \in Rooms
                        /\ x = Head(queues["Scheduling"])
                        /\ c = HandleSchedTc(NewContext(room), x.tc, x.token)
                        /\ Effects(c, "pus")
  BY DEF SchedulingService
<1>3. x \in AcceptedTcs /\ room \in Nat
  BY <1>1, <1>2, TakenFacts, RoomsAreNumbers
<1>4. Served(c, RequestIdNew(x.tc), x.tc.subservice \notin SchedSubservices)
  BY <1>2, <1>3, SchedServed
<1>5. queues'["Scheduling"] = Tail(queues["Scheduling"])
  BY <1>1 DEF Take, BlocksInv, TcTypes
<1>6. x.tc.subservice \notin SchedSubservices => \A id \in Ids : Excused(id)
  BY <1>1, <1>2, <1>5 DEF Excused, SchedSubservices
<1>7. CountTypes' /\ \A id \in Ids : Keeps(id)
  BY <1>1, <1>2, <1>4, <1>6, ServedKeeps
<1> QED
  BY <1>1, <1>7 DEF ReportsInv, MapTypes

\* The messages to the targets and from them.
LEMMA RequestPut ==
    ASSUME NEW q, RequestsType(q), NEW t \in Targets, NEW f \in {"composite", "mode"}, NEW l \in Seq(Reqs)
    PROVE  RequestsType([q EXCEPT ![t][f] = l])
<1>1. q[t] \in [composite : Seq(Reqs), mode : Seq(Reqs)]
  BY DEF RequestsType
<1>2. [q[t] EXCEPT ![f] = l] \in [composite : Seq(Reqs), mode : Seq(Reqs)]
  BY SMTT(60), <1>1
<1>3. PICK m : m = [q[t] EXCEPT ![f] = l]
  OBVIOUS
<1>4. [q EXCEPT ![t][f] = l] = [q EXCEPT ![t] = m]
  BY <1>3
<1> QED
  BY <1>2, <1>3, <1>4 DEF RequestsType

\* The requests that wait for a target.
LEMMA RequestLine ==
    ASSUME NEW q, RequestsType(q), NEW t \in Targets, NEW f \in {"composite", "mode"}
    PROVE  q[t][f] \in Seq(Reqs)
<1>1. q[t] \in [composite : Seq(Reqs), mode : Seq(Reqs)]
  BY DEF RequestsType
<1> QED
  BY SMTT(60), <1>1

\* A target answers with the ID of the request.
LEMMA AnsweredFacts ==
    ASSUME NEW s \in Targeted, NEW id \in Raws, NEW request, request.id = id, NEW answer \in Answers[s]
    PROVE  Answered(request, answer) \in Seq(RepliesOf(s))
<1>1. answer \in Seq([kind : ReplyKinds[s], params : Params])
  BY CommandingAssumption
<1>2. DOMAIN answer = 1..Len(answer) /\ Len(answer) \in Nat
  BY <1>1, SeqDomain
<1>3. ASSUME NEW i \in DOMAIN answer
      PROVE  [id |-> request.id, kind |-> answer[i].kind, params |-> answer[i].params] \in RepliesOf(s)
  <2>1. answer[i] \in [kind : ReplyKinds[s], params : Params]
    BY <1>1, <1>2, SeqDomain
  <2> QED
    BY <2>1 DEF RepliesOf
<1>4. Answered(request, answer) \in [1..Len(answer) -> RepliesOf(s)]
  BY <1>2, <1>3 DEF Answered
<1> QED
  BY SMTT(60), <1>2, <1>4

\* The targets keep the types of requests and replies.
LEMMA TargetHandlesKeeps ==
    ASSUME MapTypes, TargetSteps
    PROVE  MapTypes'
<1>1. PICK t \in Targets, f \in {"composite", "mode"} : TargetHandles(t, f)
  BY DEF TargetSteps
<1>2. PICK l, request, answer : /\ l = requests[t][f] /\ l # << >> /\ request = Head(l)
                                /\ requests' = [requests EXCEPT ![t][f] = Tail(l)]
                                /\ answer \in Answers[request.service]
                                /\ replies' = [replies EXCEPT ![request.service] =
                                                  @ \o Answered(request, answer)]
                                /\ active' = active
  BY <1>1 DEF TargetHandles
<1>3. l \in Seq(Reqs)
  BY <1>2, RequestLine DEF MapTypes
<1>4. request \in Reqs /\ Tail(l) \in Seq(Reqs)
  BY <1>2, <1>3, TailFacts
<1>5. RequestsType(requests')
  BY <1>2, <1>4, RequestPut DEF MapTypes
<1>6. PICK s \in Targeted : s = request.service
  BY <1>4 DEF Reqs
<1>7. Answered(request, answer) \in Seq(RepliesOf(s)) /\ replies[s] \in Seq(RepliesOf(s))
  <2>1. request.id \in Raws
    BY <1>4 DEF Reqs
  <2> QED
    BY <1>2, <1>6, <2>1, AnsweredFacts DEF MapTypes, RepliesType
<1>8. PICK m : m = replies[s] \o Answered(request, answer)
  OBVIOUS
<1>9. m \in Seq(RepliesOf(s))
  BY SMTT(60), <1>7, <1>8
<1>10. replies' = [replies EXCEPT ![s] = m]
  BY <1>2, <1>6, <1>8
<1>11. RepliesType(replies')
  BY <1>9, <1>10 DEF MapTypes, RepliesType
<1> QED
  BY <1>2, <1>5, <1>11 DEF MapTypes

\* A service with targets makes a telecommand an active request, or reports
\* its end.
LEMMA TargetedKeeps ==
    ASSUME SetLaws, BlocksInv, ReportsInv, NEW service \in Targeted, TargetedService(service)
    PROVE  CountTypes' /\ MapTypes' /\ \A id \in Ids : Keeps(id)
<1>1. /\ service \in Services /\ Take(service) /\ "pus" \notin dead /\ queues[service] # << >>
      /\ UNCHANGED <<replies, ev>>
  BY DEF TargetedService, At, Services, Take
<1>2. PICK room, x, c, raw :
         /\ room \in Rooms
         /\ x = Head(queues[service]) /\ raw = RequestIdRaw(RequestIdNew(x.tc))
         /\ c = HandleTargetedTc(NewContext(room), service, x.tc, x.token)
         /\ IF IsRouted(service, x.tc)
            THEN requests' = [requests EXCEPT ![x.tc.target][QueueOf(service)] =
                                 Append(@, [service |-> service, id |-> raw])]
            ELSE requests' = requests
         /\ active' = IF IsRouted(service, x.tc) /\ c.result = "ok"
                      THEN [active EXCEPT ![service] =
                               Insert(@, raw, ActiveRequest(x.tc.target, c.token))]
                      ELSE active
         /\ Effects(c, "pus")
  BY DEF TargetedService
<1>3. x \in AcceptedTcs /\ room \in Nat
  BY <1>1, <1>2, TakenFacts, RoomsAreNumbers
<1>4. PICK i \in Ids : i = RequestIdNew(x.tc)
  BY <1>3, AcceptedFields
<1>5. RequestsType(requests')
  <2>1. CASE ~ IsRouted(service, x.tc)
    BY <1>2, <2>1 DEF ReportsInv, MapTypes
  <2>2. CASE IsRouted(service, x.tc)
    <3>1. PICK t \in Targets, f \in {"composite", "mode"} : t = x.tc.target /\ f = QueueOf(service)
      BY <2>2 DEF IsRouted, Routes, QueueOf
    <3>2. [service |-> service, id |-> raw] \in Reqs
      BY <1>2, <1>4 DEF Reqs, Raws
    <3>3. PICK l : l = Append(requests[t][f], [service |-> service, id |-> raw])
      OBVIOUS
    <3>4. l \in Seq(Reqs)
      BY <3>2, <3>3, RequestLine, AppendFacts DEF ReportsInv, MapTypes
    <3>5. requests' = [requests EXCEPT ![t][f] = l]
      BY <1>2, <2>2, <3>1, <3>3
    <3> QED
      BY <3>4, <3>5, RequestPut DEF ReportsInv, MapTypes
  <2> QED
    BY <2>1, <2>2
<1>6. IF IsRouted(service, x.tc) /\ c.result = "ok" THEN Started(c, i) ELSE Served(c, i, FALSE)
  BY <1>2, <1>3, <1>4, TargetedServed
<1>7. CASE ~ (IsRouted(service, x.tc) /\ c.result = "ok")
  <2>1. active' = active /\ Served(c, i, FALSE)
    BY <1>2, <1>6, <1>7
  <2>2. CountTypes' /\ \A id \in Ids : Keeps(id)
    BY <1>1, <1>2, <1>4, <2>1, ServedKeeps
  <2> QED
    BY <1>1, <1>5, <2>1, <2>2 DEF ReportsInv, MapTypes
<1>8. CASE IsRouted(service, x.tc) /\ c.result = "ok"
  <2>1. PICK r, K : r = ActiveRequest(x.tc.target, c.token) /\ K = Only("StartSuccess")
    OBVIOUS
  <2>2. Wrote(c, i, K) /\ c.token = Token("Started", i)
    BY <1>6, <1>8, <2>1 DEF Started
  <2>3. "token" \in DOMAIN r /\ r.token = Token("Started", i)
    BY <2>1, <2>2 DEF ActiveRequest
  <2>4. Inserted(active, active', service, i, r)
    BY <1>2, <1>4, <1>8, <2>1 DEF Inserted
  <2>5. /\ ActiveType(active')
        /\ \A id \in Ids : Grows(Cardinality(In(active', id)), Cardinality(In(active, id)),
                                 id = i /\ service \notin In(active, id))
    BY <2>3, <2>4, InsertFacts DEF ReportsInv, MapTypes
  <2>6. Plain(K) /\ ~ Final(K)
    BY <2>1, KindFacts
  <2>7. CountTypes' /\ \A id \in Ids : Posted(id, i, K)
    BY <1>2, <2>2, <2>6, EffectsPosted DEF ReportsInv, Plain, Wrote
  <2>8. ASSUME NEW id \in Ids PROVE Keeps(id)
    <3>1. IsFiniteSet(Waiting(queues, id)) /\ Balanced(id) /\ Posted(id, i, K)
      BY <2>7 DEF ReportsInv, Accounted
    <3>2. IsFiniteSet(Waiting(queues', id)) /\ Grows(Queued(id), Queued(id)', id = i)
      BY <1>1, <1>2, <1>4, <3>1, TakeCounts
    <3>3. Grows(Handed(id)', Handed(id), FALSE)
      BY <1>1, <3>1, SameNumbers
    <3>4. PICK g \in BOOLEAN : g = (id = i /\ service \notin ActiveIn(id))
      OBVIOUS
    <3>5. Grows(Cardinality(ActiveIn(id))', Cardinality(ActiveIn(id)), g)
      BY <2>5, <3>4 DEF ActiveIn, In
    <3>6. Balanced(id)' /\ (Shrinks(id) => id = i /\ ~ g)
      BY <2>6, <3>1, <3>2, <3>3, <3>4, <3>5, TakenSettles
    <3>7. ASSUME id = i, service \in ActiveIn(id) PROVE Excused(id)
      <4>1. queues'[service] = Tail(queues[service])
        BY <1>1 DEF Take, BlocksInv, TcTypes
      <4>2. Head(queues[service]).token.request_id = id
        BY <1>2, <1>3, <1>4, <3>7, AcceptedFields
      <4> QED
        BY <1>1, <3>7, <4>1, <4>2 DEF Excused
    <3> QED
      BY <3>2, <3>4, <3>6, <3>7 DEF Keeps, Accounted
  <2> QED
    BY <1>1, <1>5, <2>5, <2>7, <2>8 DEF ReportsInv, MapTypes
<1> QED
  BY <1>7, <1>8

\* The event service hands a request to the event handler ...
LEMMA EventKeeps ==
    ASSUME SetLaws, BlocksInv, ToldInv, ReportsInv, EventService
    PROVE  CountTypes' /\ MapTypes' /\ \A id \in Ids : Keeps(id)
<1>1. /\ "Event" \in Services /\ Take("Event") /\ "pus" \notin dead
      /\ UNCHANGED <<active, requests, replies>> /\ queues["Event"] # << >>
  BY DEF EventService, At, Services, Direct, Take
<1>2. PICK room, x, c : /\ room \in Rooms
                        /\ x = Head(queues["Event"])
                        /\ c = HandleEventTc(NewContext(room), x.tc, x.token)
                        /\ ev' = AfterEventTc(ev, c, x.tc, x.token)
                        /\ Effects(c, "pus")
  BY DEF EventService
<1>3. x \in AcceptedTcs /\ room \in Nat
  BY <1>1, <1>2, TakenFacts, RoomsAreNumbers
<1>4. PICK i \in Ids : i = RequestIdNew(x.tc) /\ x.token.request_id = i
  BY <1>3, AcceptedFields
<1>5. PICK K : Wrote(c, i, K) /\ Plain(K) /\ ~ Final(K)
  BY <1>2, <1>3, <1>4, EventTcWrites, KindFacts
<1>6. CountTypes' /\ \A id \in Ids : Posted(id, i, K)
  BY <1>2, <1>5, EffectsPosted DEF ReportsInv, Plain, Wrote
<1>7. PICK asks \in BOOLEAN : asks = IsEventRequest(x.tc)
  BY DEF IsEventRequest
<1>8. ASSUME asks PROVE \E r : ev'.requests = Append(ev.requests, r) /\ r.token.request_id = i
  <2>1. StartsWith(c, i)
    BY <1>2, <1>3, <1>4, <1>7, <1>8, StartFacts DEF HandleEventTc
  <2>2. c.result = "ok" => c.token.request_id = i
    <3>1. c.result = "ok" => c.token = Token("Started", i)
      BY <2>1 DEF StartsWith
    <3> QED
      BY SMTT(60), <3>1, TokenFields
  <2>3. PICK t, e, raw : /\ t = (IF c.result = "ok" THEN c.token ELSE x.token)
                         /\ e = (x.tc.subservice = "EnableEvents") /\ raw = x.tc.event
    OBVIOUS
  <2>4. PICK r : r = EventRequest(e, raw, t)
    OBVIOUS
  <2>5. r.token.request_id = i
    BY <1>4, <2>2, <2>3, <2>4 DEF EventRequest
  <2>6. ev' = [ev EXCEPT !.requests = Append(@, r)]
    BY <1>2, <1>7, <1>8, <2>3, <2>4 DEF AfterEventTc
  <2>7. ev'.requests = Append(ev.requests, r)
    BY <2>6 DEF ToldInv, EventType
  <2> QED
    BY <2>5, <2>7
<1>9. ASSUME NEW id \in Ids PROVE Keeps(id)
  <2>1. IsFiniteSet(Waiting(queues, id)) /\ Balanced(id) /\ Posted(id, i, K)
    BY <1>6 DEF ReportsInv, Accounted
  <2>2. IsFiniteSet(Waiting(queues', id)) /\ Grows(Queued(id), Queued(id)', id = i)
    BY <1>1, <1>2, <1>4, <2>1, TakeCounts
  <2>3. Grows(Cardinality(ActiveIn(id))', Cardinality(ActiveIn(id)), FALSE)
    BY <1>1, <2>1, SameNumbers
  <2>4. CASE asks
    <3>1. PICK r : ev'.requests = Append(ev.requests, r) /\ r.token.request_id = i
      BY <1>8, <2>4
    <3>2. PICK S : S = EventReqs \cup {r}
      OBVIOUS
    <3>3. ev.requests \in Seq(EventReqs)
      BY DEF ToldInv, EventType
    <3>4. ev.requests \in Seq(S)
      BY SMTT(60), <3>2, <3>3
    <3>5. Grows(Cardinality(Named(Append(ev.requests, r), id)), Cardinality(Named(ev.requests, id)),
                r.token.request_id = id)
      BY <3>2, <3>4, NamedAppend
    <3>6. PICK h \in BOOLEAN : h = (id = i)
      OBVIOUS
    <3>7. Grows(Handed(id)', Handed(id), h)
      BY <3>1, <3>5, <3>6 DEF Handed, Named, Grows
    <3>8. Balanced(id)' /\ (Shrinks(id) => id = i /\ ~ h /\ ~ FALSE)
      BY <1>5, <2>1, <2>2, <2>3, <3>6, <3>7, TakenSettles
    <3> QED
      BY <2>2, <3>6, <3>8 DEF Keeps, Accounted
  <2>5. CASE ~ asks
    <3>1. ev' = ev
      BY <1>2, <1>7, <2>5 DEF AfterEventTc
    <3>2. Grows(Handed(id)', Handed(id), FALSE)
      BY <2>1, <3>1, SameNumbers
    <3>3. Balanced(id)' /\ (Shrinks(id) => id = i /\ ~ FALSE /\ ~ FALSE)
      BY <1>5, <2>1, <2>2, <2>3, <3>2, TakenSettles
    <3>4. queues'["Event"] = Tail(queues["Event"])
      BY <1>1 DEF Take, BlocksInv, TcTypes
    <3>5. Excused(id)
      BY <1>1, <1>2, <1>7, <2>5, <3>4 DEF Excused
    <3> QED
      BY <2>2, <3>3, <3>5 DEF Keeps, Accounted
  <2> QED
    BY <2>4, <2>5
<1> QED
  BY <1>1, <1>6, <1>9 DEF ReportsInv, MapTypes

\* The event handler takes one request.
LEMMA AfterRequestTail ==
    ASSUME EventType(ev), ev.requests # << >>
    PROVE  AfterEventRequest(ev).requests = Tail(ev.requests)
<1>1. PICK r, rest : r = Head(ev.requests) /\ rest = [ev EXCEPT !.requests = Tail(@)]
  OBVIOUS
<1>2. EventType(rest) /\ rest.requests = Tail(ev.requests)
  BY <1>1, NextRequest DEF EventType
<1>3. AfterEventRequest(ev) \in {DisableEventReporting(rest, r.event),
                                 EnableEventReporting(rest, r.event), rest}
  BY <1>1 DEF AfterEventRequest
<1>4. ASSUME NEW x PROVE [rest EXCEPT !.reporting = x].requests = rest.requests
  BY <1>2 DEF EventType
<1> QED
  BY <1>2, <1>3, <1>4 DEF DisableEventReporting, EnableEventReporting

\* ... which completes it.
LEMMA EventRequestsKeeps ==
    ASSUME SetLaws, ToldInv, ReportsInv, EventRequests
    PROVE  CountTypes' /\ MapTypes' /\ \A id \in Ids : Keeps(id)
<1>1. ev.requests # << >> /\ "pus" \notin dead /\ UNCHANGED <<queues, active, requests, replies>>
  BY DEF EventRequests, At
<1>2. PICK c : /\ c = HandleEventRequest(NewContext(EventRoom), ev)
               /\ ev' = AfterEventRequest(ev)
               /\ Effects(c, "pus")
  BY DEF EventRequests
<1>3. Head(ev.requests) \in EventReqs /\ ev.requests \in Seq(EventReqs)
  BY <1>1, NextRequest DEF ToldInv, EventType
<1>4. PICK i : i = Head(ev.requests).token.request_id
  OBVIOUS
<1>5. EventRoom \in Nat
  BY SMTT(60) DEF EventRoom, TmPerHandler
<1>6. Finishes(c, i)
  BY <1>2, <1>3, <1>4, <1>5, EventRequestFinishes
<1>7. PICK K : Wrote(c, i, K) /\ Plain(K) /\ ~ Begun(K) /\ (Final(K) \/ c.result = "panic")
  BY <1>6 DEF Finishes
<1>8. CountTypes' /\ \A id \in Ids : Posted(id, i, K)
  BY <1>2, <1>7, EffectsPosted DEF ReportsInv, Plain, Wrote
<1>9. ev'.requests = Tail(ev.requests)
  BY <1>1, <1>2, AfterRequestTail DEF ToldInv
<1>10. ASSUME NEW id \in Ids PROVE Keeps(id)
  <2>1. IsFiniteSet(Waiting(queues, id)) /\ Balanced(id) /\ Posted(id, i, K)
    BY <1>8 DEF ReportsInv, Accounted
  <2>2. IsFiniteSet(Waiting(queues', id)) /\ Queued(id)' = Queued(id)
    BY <1>1, <2>1, SameQueues
  <2>3. Grows(Cardinality(ActiveIn(id)), Cardinality(ActiveIn(id))', FALSE)
    BY <1>1, <2>1, SameNumbers
  <2>4. Grows(Cardinality(Named(ev.requests, id)), Cardinality(Named(Tail(ev.requests), id)),
              Head(ev.requests).token.request_id = id)
    BY <1>1, <1>3, NamedTail
  <2>5. PICK h \in BOOLEAN : h = (id = i)
    OBVIOUS
  <2>6. Grows(Handed(id), Handed(id)', h)
    BY <1>4, <1>9, <2>4, <2>5 DEF Handed, Named, Grows
  <2>7. Balanced(id)' /\ (Shrinks(id) => h \/ FALSE)
    BY <1>7, <2>1, <2>2, <2>3, <2>5, <2>6, DoneSettles
  <2>8. ASSUME id = i, Final(K) PROVE Heard(id)
    BY <2>1, <2>8, TellsHeard DEF Tells
  <2>9. ASSUME c.result = "panic" PROVE Excused(id)
    BY <1>1, <1>2, <2>9, EffectsShow DEF Excused, ReportsInv
  <2> QED
    BY <1>7, <2>2, <2>5, <2>7, <2>8, <2>9 DEF Keeps, Accounted
<1> QED
  BY <1>1, <1>8, <1>10 DEF ReportsInv, MapTypes

\* A step that reports nothing and in which nothing moves.
LEMMA QuietKeeps ==
    ASSUME SetLaws, CountTypes, NEW id \in Ids, Accounted(id), reports' = reports, queues' = queues,
           ev'.requests = ev.requests, ActiveIn(id)' = ActiveIn(id)
    PROVE  Keeps(id)
<1>1. IsFiniteSet(Waiting(queues, id)) /\ Balanced(id)
  BY DEF Accounted
<1>2. IsFiniteSet(Waiting(queues', id)) /\ Queued(id)' = Queued(id)
  BY <1>1, SameQueues
<1>3. Handed(id)' = Handed(id)
  BY DEF Handed
<1>4. Completions(id)' = Completions(id) /\ Starts(id)' = Starts(id)
  BY DEF Completions, Starts
<1>5. Balanced(id)' /\ (Shrinks(id) => ActiveIn(id)' # ActiveIn(id))
  BY <1>1, <1>2, <1>3, <1>4, IdleSettles
<1> QED
  BY <1>2, <1>5 DEF Keeps, Accounted

\* The reply of a target.
LEMMA ReplyKeeps ==
    ASSUME SetLaws, ReportsInv, NEW service \in Targeted, TargetedReply(service)
    PROVE  CountTypes' /\ MapTypes' /\ \A id \in Ids : Keeps(id)
<1>1. /\ "pus" \notin dead /\ replies[service] # << >> /\ replies' = [replies EXCEPT ![service] = Tail(@)]
      /\ queues' = queues /\ requests' = requests /\ ev' = ev
  BY DEF TargetedReply, At
<1>2. replies[service] \in Seq(RepliesOf(service)) /\ DOMAIN replies = Targeted
  BY DEF ReportsInv, MapTypes, RepliesType
<1>3. PICK reply, rest : reply = Head(replies[service]) /\ rest = Tail(replies[service])
  OBVIOUS
<1>4. reply \in RepliesOf(service) /\ rest \in Seq(RepliesOf(service))
  BY <1>1, <1>2, <1>3, TailFacts
<1>5. replies' = [replies EXCEPT ![service] = rest]
  BY <1>1, <1>3
<1>6. RepliesType(replies') /\ replies'[service] = rest
  BY <1>2, <1>4, <1>5 DEF RepliesType, ReportsInv, MapTypes
<1>7. reply.id \in Raws /\ reply.kind \in ReplyKinds[service]
  BY <1>4 DEF RepliesOf
<1>8. CASE reply.id \notin DOMAIN active[service]
  <2>1. reports' = reports /\ failed' = failed /\ active' = active
    BY <1>3, <1>8 DEF TargetedReply, NoEffects
  <2>2. CountTypes' /\ MapTypes'
    BY <1>1, <1>6, <2>1 DEF ReportsInv, MapTypes, CountTypes, ReportsType
  <2>3. ASSUME NEW id \in Ids PROVE Keeps(id)
    BY <1>1, <2>1, QuietKeeps DEF ReportsInv, ActiveIn
  <2> QED
    BY <2>2, <2>3
<1>9. CASE reply.id \in DOMAIN active[service]
  <2>1. PICK room, c :
           /\ room \in Rooms
           /\ c = HandleReply(NewContext(room), service, active[service][reply.id].token, reply)
           /\ active' = [active EXCEPT ![service] = AfterReply(@, reply.id, c, reply)]
           /\ Effects(c, "pus")
    BY <1>3, <1>9 DEF TargetedReply
  <2>2. HasStarted(reply.id, active[service][reply.id])
    BY <1>9 DEF ReportsInv, MapTypes, ActiveType
  <2>3. PICK i \in Ids : reply.id = RequestIdRaw(i) /\ active[service][reply.id].token = Token("Started", i)
    BY <2>2 DEF HasStarted
  <2>4. room \in Nat
    BY <2>1, RoomsAreNumbers
  <2>5. Replied(c, i, reply)
    BY <1>7, <2>1, <2>3, <2>4, ReplyReplied
  <2>6. PICK K : /\ Wrote(c, i, K) /\ Plain(K) /\ ~ Begun(K)
                 /\ Final(K) => c.result = "ok" /\ reply.kind \notin Progress
                 /\ Ends(c, reply) => Final(K) \/ c.result = "panic" \/ c.full \/ TooLong(reply)
    BY <2>5 DEF Replied
  <2>7. CountTypes' /\ \A id \in Ids : Posted(id, i, K)
    BY <2>1, <2>6, EffectsPosted DEF ReportsInv, Plain, Wrote
  <2>8. ASSUME NEW id \in Ids
        PROVE  /\ IsFiniteSet(Waiting(queues', id)) /\ Queued(id)' = Queued(id)
               /\ Balanced(id) /\ Posted(id, i, K) /\ Grows(Handed(id), Handed(id)', FALSE)
    <3>1. IsFiniteSet(Waiting(queues, id)) /\ Balanced(id) /\ Posted(id, i, K)
      BY <2>7 DEF ReportsInv, Accounted
    <3> QED
      BY <1>1, <3>1, SameQueues, SameNumbers
  <2>9. CASE Ends(c, reply) /\ c.result # "panic"
    <3>1. Removed(active, active', service, i)
      BY <2>1, <2>3, <2>9 DEF Removed, AfterReply
    <3>2. /\ ActiveType(active')
          /\ \A id \in Ids : Grows(Cardinality(In(active, id)), Cardinality(In(active', id)), id = i)
      BY <1>9, <2>3, <3>1, RemoveFacts DEF ReportsInv, MapTypes
    <3>3. ASSUME NEW id \in Ids PROVE Keeps(id)
      <4>1. PICK g \in BOOLEAN : g = (id = i)
        OBVIOUS
      <4>2. Grows(Cardinality(ActiveIn(id)), Cardinality(ActiveIn(id))', g)
        BY <3>2, <4>1 DEF ActiveIn, In, Grows
      <4>3. Balanced(id)' /\ (Shrinks(id) => FALSE \/ g)
        BY <2>6, <2>8, <4>1, <4>2, DoneSettles
      <4>4. ASSUME id = i, Final(K) PROVE Heard(id)
        BY <2>8, <4>4, TellsHeard DEF Tells
      <4>5. ASSUME c.full PROVE Excused(id)
        BY <1>1, <2>1, <4>5, EffectsShow DEF Excused, ReportsInv
      <4>6. ASSUME id = i, TooLong(reply) PROVE Excused(id)
        <5>1. service \in ActiveIn(id)
          BY <1>9, <2>3, <4>6 DEF ActiveIn
        <5> QED
          BY <1>1, <1>3, <1>6, <4>6, <5>1 DEF Excused
      <4> QED
        BY <2>6, <2>8, <2>9, <4>1, <4>3, <4>4, <4>5, <4>6 DEF Keeps, Accounted
    <3> QED
      BY <1>1, <1>6, <2>7, <3>2, <3>3 DEF ReportsInv, MapTypes
  <2>10. CASE ~ (Ends(c, reply) /\ c.result # "panic")
    <3>1. ~ Final(K)
      BY <2>6, <2>10 DEF Ends
    <3>2. DOMAIN active' = Targeted /\ \A s \in Targeted : active'[s] = active[s]
      BY <2>1, <2>10 DEF AfterReply, ReportsInv, MapTypes, ActiveType
    <3>4. ActiveType(active')
      BY <3>2 DEF ReportsInv, MapTypes, ActiveType
    <3>3. ASSUME NEW id \in Ids PROVE Keeps(id)
      <4>0. ActiveIn(id)' = ActiveIn(id)
        BY <3>2 DEF ActiveIn
      <4>1. Grows(Cardinality(ActiveIn(id)), Cardinality(ActiveIn(id))', FALSE)
        BY <2>8, <4>0 DEF Balanced, Balance, Grows
      <4>2. Balanced(id)' /\ (Shrinks(id) => FALSE \/ FALSE)
        BY <2>6, <2>8, <3>1, <4>1, DoneSettles
      <4> QED
        BY <2>8, <4>2 DEF Keeps, Accounted
    <3> QED
      BY <1>1, <1>6, <2>7, <3>3, <3>4 DEF ReportsInv, MapTypes
  <2> QED
    BY <2>9, <2>10
<1> QED
  BY <1>8, <1>9

\* The distributor accepts a telecommand, or does not.
LEMMA AcceptKinds ==
    /\ AtMostOne({}) /\ ~ Final({}) /\ ~ Begun({})
    /\ AtMostOne(Only("AcceptanceSuccess")) /\ ~ Final(Only("AcceptanceSuccess"))
    /\ ~ Begun(Only("AcceptanceSuccess")) /\ "AcceptanceSuccess" \in Only("AcceptanceSuccess")
    /\ AtMostOne(Both("AcceptanceSuccess", "StartFailure")) /\ ~ Final(Both("AcceptanceSuccess", "StartFailure"))
    /\ "AcceptanceSuccess" \in Both("AcceptanceSuccess", "StartFailure")
<1>1. AtMostOne({}) /\ ~ Final({}) /\ ~ Begun({})
  BY KindFacts DEF Plain
<1>2. /\ AtMostOne(Only("AcceptanceSuccess")) /\ ~ Final(Only("AcceptanceSuccess"))
      /\ ~ Begun(Only("AcceptanceSuccess")) /\ "AcceptanceSuccess" \in Only("AcceptanceSuccess")
  BY SMTT(60) DEF AtMostOne, Begun, Final, Only, Finals, Begins
<1>3. /\ AtMostOne(Both("AcceptanceSuccess", "StartFailure")) /\ ~ Final(Both("AcceptanceSuccess", "StartFailure"))
      /\ "AcceptanceSuccess" \in Both("AcceptanceSuccess", "StartFailure")
  BY SMTT(60) DEF AtMostOne, Begun, Final, Both, Finals, Begins
<1> QED
  BY <1>1, <1>2, <1>3

\* A telecommand with the request i is put into a queue if q.
LEMMA AcceptedKeeps ==
    ASSUME SetLaws, ReportsInv, NEW c, NEW thread, NEW i, NEW K, NEW q \in BOOLEAN, Sends(c.tm, i, K), AtMostOne(K),
           ~ Final(K), q \/ Begun(K) => "AcceptanceSuccess" \in K, ~ (q /\ Begun(K)), Effects(c, thread),
           ev'.requests = ev.requests, UNCHANGED <<active, requests, replies>>,
           \A id \in Ids : /\ IsFiniteSet(Waiting(queues', id))
                           /\ Grows(Queued(id)', Queued(id), id = i /\ q)
    PROVE  CountTypes' /\ MapTypes' /\ \A id \in Ids : Keeps(id)
<1>1. CountTypes' /\ \A id \in Ids : Posted(id, i, K)
  BY EffectsPosted DEF ReportsInv
<1>2. ASSUME NEW id \in Ids PROVE Keeps(id)
  <2>1. Balanced(id) /\ Posted(id, i, K)
    BY <1>1 DEF ReportsInv, Accounted
  <2>2. Handed(id)' = Handed(id) /\ ActiveIn(id)' = ActiveIn(id)
    BY DEF Handed, ActiveIn
  <2>3. Balanced(id)' /\ ~ Shrinks(id)
    BY <2>1, <2>2, AcceptedSettles
  <2> QED
    BY <2>3 DEF Keeps, Accounted
<1> QED
  BY <1>1, <1>2 DEF ReportsInv, MapTypes

\* The distributor: a telecommand in a queue was accepted.
LEMMA DistributeKeeps ==
    ASSUME SetLaws, BlocksInv, ReportsInv, Distribute
    PROVE  CountTypes' /\ MapTypes' /\ \A id \in Ids : Keeps(id)
<1>1. source # << >> /\ ev' = ev /\ UNCHANGED <<active, requests, replies>>
  BY DEF Distribute
<1>2. PICK room, h, c :
         /\ room \in Rooms
         /\ h = Head(source) /\ c = PollTc(h, room) /\ Effects(c, "tmtc")
         /\ IF h.tc.service \in Routed /\ c.result = "ok" /\ "pus" \notin dead
            THEN queues' = [queues EXCEPT ![h.tc.service] = Append(@, TcAndToken(h, c.token))]
            ELSE queues' = queues
  BY DEF Distribute
<1>3. h \in InMemoryTcs /\ room \in Nat
  BY <1>1, <1>2, DistributedFacts, RoomsAreNumbers
<1>4. PICK i : i = RequestIdNew(h.tc)
  OBVIOUS
<1>5. i \in Ids /\ Sorts(c, i) /\ (h.tc.service \in Routed /\ c.result = "ok" => Accepts(c, i))
  BY <1>2, <1>3, <1>4, PollFacts
<1>6. CASE h.tc.service \in Routed /\ c.result = "ok" /\ "pus" \notin dead
  <2>1. PICK k \in Services : k = h.tc.service
    BY <1>6 DEF Routed, Services, Direct, Targeted
  <2>2. h.tc \in AllTcs /\ h.addr \in 0..PoolSize
    BY <1>3 DEF InMemoryTcs
  <2>3. PICK x : x = AcceptedTc(h.tc, h.addr)
    OBVIOUS
  <2>4. x \in AcceptedTcs /\ x.tc = h.tc
    BY SMTT(60), <2>2, <2>3 DEF AcceptedTcs, AcceptedTc
  <2>5. c.token = Token("Accepted", i) /\ Wrote(c, i, Only("AcceptanceSuccess"))
    BY <1>5, <1>6 DEF Accepts
  <2>6. TcAndToken(h, c.token) = x
    BY <1>4, <2>3, <2>5 DEF TcAndToken, AcceptedTc
  <2>7. queues' = [queues EXCEPT ![k] = Append(@, x)]
    BY <1>2, <1>6, <2>1, <2>6
  <2>8. ASSUME NEW id \in Ids
        PROVE  IsFiniteSet(Waiting(queues', id)) /\ Grows(Queued(id)', Queued(id), id = i /\ TRUE)
    <3>1. IsFiniteSet(Waiting(queues, id))
      BY DEF ReportsInv, Accounted
    <3>2. IsFiniteSet(Waiting(queues', id)) /\ Grows(Queued(id)', Queued(id), id = RequestIdNew(x.tc))
      BY <2>4, <2>7, <3>1, PutCounts
    <3> QED
      BY <1>4, <2>4, <3>2 DEF Grows
  <2> QED
    BY <1>1, <1>2, <2>5, <2>8, AcceptKinds, AcceptedKeeps DEF Wrote
<1>7. CASE ~ (h.tc.service \in Routed /\ c.result = "ok" /\ "pus" \notin dead)
  <2>1. queues' = queues
    BY <1>2, <1>7
  <2>2. PICK K : Wrote(c, i, K) /\ AtMostOne(K) /\ ~ Final(K) /\ (Begun(K) => "AcceptanceSuccess" \in K)
    BY <1>5, AcceptKinds DEF Sorts
  <2>3. ASSUME NEW id \in Ids
        PROVE  IsFiniteSet(Waiting(queues', id)) /\ Grows(Queued(id)', Queued(id), id = i /\ FALSE)
    <3>1. IsFiniteSet(Waiting(queues, id)) /\ Queued(id) \in Nat
      BY DEF ReportsInv, Accounted, Balanced, Balance
    <3>2. IsFiniteSet(Waiting(queues', id)) /\ Queued(id)' = Queued(id)
      BY <2>1, <3>1, SameQueues
    <3> QED
      BY <3>1, <3>2 DEF Grows
  <2> QED
    BY <1>1, <1>2, <2>2, <2>3, AcceptedKeeps DEF Wrote
<1> QED
  BY <1>6, <1>7

\* So was an action command from inside the program.
LEMMA CommandActionKeeps ==
    ASSUME SetLaws, BlocksInv, ReportsInv, CommandAction
    PROVE  CountTypes' /\ MapTypes' /\ \A id \in Ids : Keeps(id)
<1>1. plan \in Plans /\ tcs \in Nat /\ tcs < Len(plan) /\ ev' = ev /\ UNCHANGED <<active, requests, replies>>
  BY DEF BlocksInv, TcTypes, CommandAction
<1>2. PICK tc, c : /\ tc = plan[tcs + 1] /\ c = AcceptanceSuccess(NewContext(TmPerHandler), AddTc(tc))
                   /\ Effects(c, "tmtc")
                   /\ queues' = [queues EXCEPT !.Action = Append(@, TcAndToken(InMemory(tc, 0), c.token))]
  BY DEF CommandAction
<1>3. tc \in AllTcs
  BY <1>1, <1>2, NextTc
<1>4. PICK i : i = RequestIdNew(tc)
  OBVIOUS
<1>5. c.token = Token("Accepted", i) /\ c.result = "ok" /\ i \in Ids
  BY <1>2, <1>3, <1>4, RoomForOne DEF Ids
<1>6. Wrote(c, i, Only("AcceptanceSuccess"))
  <2>1. PICK n : n = NewContext(TmPerHandler)
    OBVIOUS
  <2>2. Wrote(n, i, {})
    BY <2>1, RoomsAreNumbers, NewWrote
  <2>3. Reports(n, c, "AcceptanceSuccess", i, "Accepted", TRUE)
    BY <1>2, <1>3, <1>4, <2>1, RoomsAreNumbers, AcceptedToken
  <2>4. "AcceptanceSuccess" \in Subservices
    BY DEF Subservices
  <2>5. \/ Wrote(c, i, Only("AcceptanceSuccess")) /\ Went(n, c, "AcceptanceSuccess", i, "Accepted")
        \/ Wrote(c, i, {}) /\ Stopped(n, c, TRUE)
    BY <1>5, <2>2, <2>3, <2>4, FirstReport
  <2> QED
    BY <1>5, <2>5 DEF Stopped
<1>7. PICK x : x = AcceptedTc(tc, 0)
  OBVIOUS
<1>8. x \in AcceptedTcs /\ x.tc = tc
  BY SMTT(60), <1>3, <1>7, AddrsFacts DEF AcceptedTcs, AcceptedTc
<1>9. TcAndToken(InMemory(tc, 0), c.token) = x
  BY <1>4, <1>5, <1>7 DEF TcAndToken, InMemory, AcceptedTc
<1>10. queues' = [queues EXCEPT !["Action"] = Append(@, x)] /\ "Action" \in Services
  BY <1>2, <1>9 DEF Services, Targeted
<1>11. ASSUME NEW id \in Ids
       PROVE  IsFiniteSet(Waiting(queues', id)) /\ Grows(Queued(id)', Queued(id), id = i /\ TRUE)
  <2>1. IsFiniteSet(Waiting(queues, id))
    BY DEF ReportsInv, Accounted
  <2>2. IsFiniteSet(Waiting(queues', id)) /\ Grows(Queued(id)', Queued(id), id = RequestIdNew(x.tc))
    BY <1>8, <1>10, <2>1, PutCounts
  <2> QED
    BY <1>4, <1>8, <2>2 DEF Grows
<1> QED
  BY <1>1, <1>2, <1>6, <1>11, AcceptKinds, AcceptedKeeps DEF Wrote

\* The event handler sends an event report or nothing.
LEMMA EventTmOnly ==
    ASSUME NEW room \in Nat, NEW event, NEW params
    PROVE  Expect(GeneratePusEventTm(NewContext(room), ev, event, params)).tm \in {<< >>, Append(<< >>, EventTm(event))}
<1>1. PICK n, t : n = NewContext(room) /\ t = EventTm(event)
  OBVIOUS
<1>2. HasFields(n) /\ n.tm = << >> /\ n.result = "ok"
  BY <1>1, NewContextFacts DEF IsContext
<1>3. PICK d : d = GeneratePusEventTm(n, ev, event, params)
  OBVIOUS
<1>4. d \in {n, [n EXCEPT !.result = "err"], SendTm(n, t)}
  BY <1>1, <1>3 DEF GeneratePusEventTm, ReportEvent
<1>5. HasFields(d) /\ (d.tm = << >> \/ d.tm = Append(<< >>, t))
  <2>1. CASE d = n
    BY <1>2, <2>1
  <2>2. CASE d = [n EXCEPT !.result = "err"]
    BY <1>2, <2>2 DEF HasFields
  <2>3. CASE d = SendTm(n, t) /\ n.room = 0
    <3>1. d = [n EXCEPT !.result = "err", !.full = TRUE]
      BY <1>2, <2>3 DEF SendTm
    <3> QED
      BY SMTT(60), <1>2, <3>1 DEF HasFields
  <2>4. CASE d = SendTm(n, t) /\ n.room # 0
    <3>1. PICK u, k : u = Append(n.tm, t) /\ k = n.room - 1
      OBVIOUS
    <3>2. d = [n EXCEPT !.tm = u, !.room = k, !.result = "ok"]
      BY <1>2, <2>4, <3>1 DEF SendTm
    <3>3. HasFields(d) /\ d.tm = u
      BY SMTT(60), <1>2, <3>2 DEF HasFields
    <3> QED
      BY <1>2, <3>1, <3>3
  <2> QED
    BY <1>4, <2>1, <2>2, <2>3, <2>4
<1>6. Expect(d).tm = d.tm
  BY <1>5 DEF Expect, HasFields
<1> QED
  BY <1>1, <1>3, <1>5, <1>6

\* The report of an event is no report on a request.
LEMMA EventReportKeeps ==
    ASSUME SetLaws, ToldInv, ReportsInv, EventReport
    PROVE  CountTypes' /\ MapTypes' /\ \A id \in Ids : Keeps(id)
<1>1. queues' = queues /\ UNCHANGED <<active, requests, replies>>
  BY DEF EventReport
<1>2. CASE ev.queues[PusEventManagement] = << >>
  <2>1. reports' = reports /\ failed' = failed /\ ev' = ev
    BY <1>2 DEF EventReport, NoEffects
  <2>2. CountTypes' /\ MapTypes'
    BY <1>1, <2>1 DEF ReportsInv, MapTypes, CountTypes, ReportsType
  <2>3. ASSUME NEW id \in Ids PROVE Keeps(id)
    BY <1>1, <2>1, QuietKeeps DEF ReportsInv, ActiveIn
  <2> QED
    BY <2>2, <2>3
<1>3. CASE ev.queues[PusEventManagement] # << >>
  <2>1. PICK c, m : /\ m = Head(ev.queues[PusEventManagement])
                    /\ c = Expect(GeneratePusEventTm(NewContext(EventRoom), ev, m.event, m.params))
                    /\ ev' = AfterEvent(ev) /\ Effects(c, "pus")
    BY <1>3 DEF EventReport, HandleEvent
  <2>2. EventRoom \in Nat
    BY SMTT(60) DEF EventRoom, TmPerHandler
  <2>3. PICK t, i : t = EventTm(m.event) /\ i = 0
    OBVIOUS
  <2>4. c.tm = << >> \/ c.tm = Append(<< >>, t)
    <3>1. Expect(GeneratePusEventTm(NewContext(EventRoom), ev, m.event, m.params)).tm
             \in {<< >>, Append(<< >>, EventTm(m.event))}
      BY <2>2, EventTmOnly
    <3> QED
      BY <2>1, <2>3, <3>1
  <2>5. Sends(<< >>, i, {})
    BY SendsNothing
  <2>6. Sends(Append(<< >>, t), i, {})
    <3>1. DOMAIN t = {"subservice"}
      BY <2>3 DEF EventTm
    <3>2. PICK S : S = {t}
      OBVIOUS
    <3>3. << >> \in Seq(S) /\ t \in S
      BY SMTT(60), <3>2
    <3> QED
      BY <2>5, <3>1, <3>3, SendsOther
  <2>7. Sends(c.tm, i, {})
    BY <2>4, <2>5, <2>6
  <2>8. ev'.requests = ev.requests
    <3>1. PICK q : ev' = [ev EXCEPT !.queues = q]
      BY <2>1 DEF AfterEvent
    <3> QED
      BY <3>1 DEF ToldInv, EventType
  <2>9. ASSUME NEW id \in Ids
        PROVE  IsFiniteSet(Waiting(queues', id)) /\ Grows(Queued(id)', Queued(id), id = i /\ FALSE)
    <3>1. IsFiniteSet(Waiting(queues, id)) /\ Queued(id) \in Nat
      BY DEF ReportsInv, Accounted, Balanced, Balance
    <3>2. IsFiniteSet(Waiting(queues', id)) /\ Queued(id)' = Queued(id)
      BY <1>1, <3>1, SameQueues
    <3> QED
      BY <3>1, <3>2 DEF Grows
  <2> QED
    BY <1>1, <2>1, <2>7, <2>8, <2>9, AcceptKinds, AcceptedKeeps
<1> QED
  BY <1>2, <1>3

\* Requests that have timed out are removed.
LEMMA CheckKeeps ==
    ASSUME SetLaws, ReportsInv, Check
    PROVE  CountTypes' /\ MapTypes' /\ \A id \in Ids : Keeps(id)
<1>1. /\ Stages[pus.stage] = "check" /\ queues' = queues /\ requests' = requests /\ replies' = replies
      /\ ev' = ev /\ reports' = reports /\ failed' = failed
      /\ active' = active \/ active' = [s \in Targeted |-> Remove(active[s], TimedOut(active[s]))]
  BY DEF Check, At, NoEffects, CheckForRequestTimeouts
<1>2. CountTypes'
  BY <1>1 DEF ReportsInv, CountTypes, ReportsType
<1>3. CASE active' = active
  <2>1. ASSUME NEW id \in Ids PROVE Keeps(id)
    BY <1>1, <1>3, QuietKeeps DEF ReportsInv, ActiveIn
  <2> QED
    BY <1>1, <1>2, <1>3, <2>1 DEF ReportsInv, MapTypes
<1>4. CASE active' = [s \in Targeted |-> Remove(active[s], TimedOut(active[s]))]
  <2>1. ASSUME NEW s \in Targeted
        PROVE  /\ DOMAIN active'[s] = DOMAIN active[s] \ TimedOut(active[s])
               /\ \A raw \in DOMAIN active'[s] : active'[s][raw] = active[s][raw]
    BY <1>4 DEF Remove
  <2>2. ActiveType(active')
    BY <1>4, <2>1 DEF ReportsInv, MapTypes, ActiveType
  <2>3. ASSUME NEW id \in Ids PROVE Keeps(id)
    <3>1. IsFiniteSet(Waiting(queues, id)) /\ Balanced(id)
      BY DEF ReportsInv, Accounted
    <3>2. IsFiniteSet(Waiting(queues', id)) /\ Queued(id)' = Queued(id)
      BY <1>1, <3>1, SameQueues
    <3>3. Handed(id)' = Handed(id) /\ Completions(id)' = Completions(id) /\ Starts(id)' = Starts(id)
      BY <1>1 DEF Handed, Completions, Starts
    <3>4. ActiveIn(id)' \subseteq ActiveIn(id)
      BY <2>1 DEF ActiveIn
    <3>5. Balanced(id)' /\ (Shrinks(id) => ActiveIn(id)' # ActiveIn(id))
      BY <1>1, <3>1, <3>2, <3>3, <3>4, IdleSettles
    <3>6. ASSUME ActiveIn(id)' # ActiveIn(id) PROVE Excused(id)
      <4>1. PICK s \in ActiveIn(id) : s \notin ActiveIn(id)'
        BY <3>4, <3>6
      <4>2. RequestIdRaw(id) \in TimedOut(active[s])
        BY <2>1, <4>1 DEF ActiveIn
      <4>3. active[s][RequestIdRaw(id)].timed_out
        BY <4>2 DEF TimedOut
      <4> QED
        BY <1>1, <4>1, <4>3 DEF Excused
    <3> QED
      BY <3>2, <3>5, <3>6 DEF Keeps, Accounted
  <2> QED
    BY <1>1, <1>2, <2>2, <2>3 DEF ReportsInv, MapTypes
<1> QED
  BY <1>1, <1>3, <1>4

\* A request gets old.
LEMMA ExpireKeeps ==
    ASSUME SetLaws, ReportsInv, Expiry
    PROVE  CountTypes' /\ MapTypes' /\ \A id \in Ids : Keeps(id)
<1>1. PICK s \in Targeted : \E x \in DOMAIN active[s] : Expire(s, x)
  BY DEF Expiry
<1>2. PICK raw \in DOMAIN active[s] : Expire(s, raw)
  BY <1>1
<1>3. /\ active' = [active EXCEPT ![s][raw].timed_out = TRUE] /\ queues' = queues /\ requests' = requests
      /\ replies' = replies /\ ev' = ev /\ reports' = reports /\ failed' = failed
  BY <1>2 DEF Expire, NoEffects
<1>4. PICK r, m : r = [active[s][raw] EXCEPT !.timed_out = TRUE] /\ m = [active[s] EXCEPT ![raw] = r]
  OBVIOUS
<1>5. active' = [active EXCEPT ![s] = m]
  BY <1>3, <1>4
<1>6. DOMAIN active' = Targeted /\ active'[s] = m /\ \A k \in Targeted : k # s => active'[k] = active[k]
  BY <1>5 DEF ReportsInv, MapTypes, ActiveType
<1>7. DOMAIN m = DOMAIN active[s] /\ m[raw] = r /\ \A x \in DOMAIN m : x # raw => m[x] = active[s][x]
  BY <1>4
<1>8. HasStarted(raw, active[s][raw])
  BY DEF ReportsInv, MapTypes, ActiveType
<1>9. HasStarted(raw, r)
  BY <1>4, <1>8 DEF HasStarted
<1>10. ASSUME NEW x \in DOMAIN m PROVE HasStarted(x, m[x])
  BY <1>7, <1>9 DEF ReportsInv, MapTypes, ActiveType
<1>11. ActiveType(active')
  BY <1>6, <1>10 DEF ReportsInv, MapTypes, ActiveType
<1>12. \A k \in Targeted : DOMAIN active'[k] = DOMAIN active[k]
  BY <1>6, <1>7
<1>13. ASSUME NEW id \in Ids PROVE Keeps(id)
  <2>1. ActiveIn(id)' = ActiveIn(id)
    BY <1>12 DEF ActiveIn
  <2> QED
    BY <1>3, <2>1, QuietKeeps DEF ReportsInv
<1> QED
  BY <1>3, <1>11, <1>13 DEF ReportsInv, MapTypes, CountTypes, ReportsType

\* The steps that report nothing and leave the telecommands where they are.
LEMMA OtherKeeps ==
    ASSUME SetLaws, ToldInv, ReportsInv,
           \/ Ground \/ RaiseEvent \/ TryEventRouting \/ ReleaseTcs \/ TargetSteps \/ UNCHANGED vars
           \/ \E s \in Services : NothingQueued(s)
           \/ \E s \in Targeted : NoReply(s)
           \/ \E i \in DOMAIN sched.entries : BecomeDue(i)
    PROVE  CountTypes' /\ MapTypes' /\ \A id \in Ids : Keeps(id)
<1>1. reports' = reports /\ failed' = failed /\ queues' = queues /\ active' = active
  BY DEF vars, Ground, RaiseEvent, TryEventRouting, ReleaseTcs, Release, TargetSteps, TargetHandles, NothingQueued,
     NoReply, BecomeDue, NoEffects
<1>2. ev'.requests = ev.requests
  <2>1. CASE ev' = ev
    BY <2>1
  <2>2. CASE RaiseEvent
    <3>1. PICK q : ev' = [ev EXCEPT !.inbox = q]
      BY <2>2 DEF RaiseEvent, Raised
    <3> QED
      BY <3>1 DEF ToldInv, EventType
  <2>3. CASE TryEventRouting
    <3>1. ev' = ev \/ \E q, r : ev' = [ev EXCEPT !.inbox = q, !.queues = r]
      BY <2>3 DEF TryEventRouting, TryEventHandling
    <3>2. ASSUME NEW q, NEW r, ev' = [ev EXCEPT !.inbox = q, !.queues = r] PROVE ev'.requests = ev.requests
      BY SMTT(60), <3>2 DEF ToldInv, EventType
    <3> QED
      BY <3>1, <3>2
  <2> QED
    BY <2>1, <2>2, <2>3 DEF vars, Ground, ReleaseTcs, TargetSteps, TargetHandles, NothingQueued, NoReply, BecomeDue
<1>3. MapTypes'
  <2>1. CASE requests' = requests /\ replies' = replies
    BY <1>1, <2>1 DEF ReportsInv, MapTypes
  <2>2. CASE TargetSteps
    BY <2>2, TargetHandlesKeeps DEF ReportsInv
  <2> QED
    BY <2>1, <2>2 DEF vars, Ground, RaiseEvent, TryEventRouting, ReleaseTcs, NothingQueued, NoReply, BecomeDue
<1>4. CountTypes'
  BY <1>1 DEF ReportsInv, CountTypes, ReportsType
<1>5. ASSUME NEW id \in Ids PROVE Keeps(id)
  BY <1>1, <1>2, QuietKeeps DEF ReportsInv, ActiveIn
<1> QED
  BY <1>3, <1>4, <1>5

\* Every step keeps the balance, and what is no longer open was heard of or
\* is excused.
LEMMA StepKeeps ==
    ASSUME SetLaws, BlocksInv, ToldInv, ReportsInv, [Next]_vars
    PROVE  ReportsInv' /\ \A id \in Ids : Shrinks(id) => Heard(id) \/ Excused(id)
<1>1. CountTypes' /\ MapTypes' /\ \A id \in Ids : Keeps(id)
  <2>1. CASE CommandAction
    BY <2>1, CommandActionKeeps
  <2>2. CASE Distribute
    BY <2>2, DistributeKeeps
  <2>3. CASE EventRequests
    BY <2>3, EventRequestsKeeps
  <2>4. CASE EventReport
    BY <2>4, EventReportKeeps
  <2>5. CASE TestService
    BY <2>5, TestKeeps
  <2>6. CASE EventService
    BY <2>6, EventKeeps
  <2>7. CASE SchedulingService
    BY <2>7, SchedulingKeeps
  <2>8. CASE \E s \in Targeted : TargetedService(s)
    BY <2>8, TargetedKeeps
  <2>9. CASE \E s \in Targeted : TargetedReply(s)
    BY <2>9, ReplyKeeps
  <2>10. CASE Check
    BY <2>10, CheckKeeps
  <2>11. CASE Expiry
    BY <2>11, ExpireKeeps
  <2> QED
    BY <2>1, <2>2, <2>3, <2>4, <2>5, <2>6, <2>7, <2>8, <2>9, <2>10, <2>11, OtherKeeps DEF Next, PusThread
<1> QED
  BY <1>1 DEF ReportsInv, Keeps

\* At the start nothing is reported and nothing is open.
LEMMA InitReports ==
    ASSUME SetLaws, Init
    PROVE  ReportsInv
<1>1. 0 \in Nat /\ \A S : << >> \in Seq(S)
  BY SMTT(60)
<1>2. CountTypes
  BY <1>1 DEF Init, CountTypes, ReportsType
<1>3. DOMAIN active = Targeted /\ \A s \in Targeted : active[s] = << >>
  BY DEF Init
<1>4. DOMAIN << >> = {}
  BY SMTT(60)
<1>5. ActiveType(active)
  BY <1>3, <1>4 DEF ActiveType
<1>6. RequestsType(requests) /\ RepliesType(replies)
  BY <1>1 DEF Init, RequestsType, RepliesType
<1>7. ev.requests = << >>
  <2>1. PICK setup : ev = NewEventHandler(setup.calls, setup.backend)
    BY DEF Init
  <2> QED
    BY <2>1 DEF NewEventHandler
<1>8. ASSUME NEW id \in Ids PROVE Accounted(id)
  <2>1. Waiting(queues, id) = {}
    <3>1. \A s \in Services : queues[s] = << >>
      BY DEF Init
    <3> QED
      BY <1>4, <3>1 DEF Waiting, Named
  <2>2. ActiveIn(id) = {}
    BY <1>3, <1>4 DEF ActiveIn
  <2>3. Named(ev.requests, id) = {}
    BY <1>4, <1>7 DEF Named
  <2>4. IsFiniteSet(Waiting(queues, id)) /\ Cardinality({}) = 0
    BY <2>1 DEF SetLaws, EmptyLaw
  <2>5. Queued(id) = 0 /\ Handed(id) = 0 /\ Cardinality(ActiveIn(id)) = 0
    BY <2>1, <2>2, <2>3, <2>4 DEF Queued, Handed, Waiting, Named
  <2>6. \A s \in Subservices : reports[id][s] = 0
    BY DEF Init
  <2>7. /\ reports[id].AcceptanceSuccess = 0 /\ reports[id].CompletionSuccess = 0
        /\ reports[id].CompletionFailure = 0 /\ reports[id].StepFailure = 0
        /\ reports[id].StartSuccess = 0 /\ reports[id].StartFailure = 0
    BY <2>6 DEF Subservices
  <2>8. 0 + 0 + 0 = 0 /\ 0 + 0 = 0 /\ 0 <= 0
    BY SMTT(60)
  <2>9. Completions(id) = 0 /\ Starts(id) = 0
    BY <2>7, <2>8 DEF Completions, Starts
  <2>10. Balance(0, 0, 0, 0, 0, 0)
    BY SMTT(60) DEF Balance
  <2>11. Balanced(id)
    BY <2>5, <2>7, <2>9, <2>10 DEF Balanced
  <2> QED
    BY <2>4, <2>11 DEF Accounted
<1> QED
  BY <1>2, <1>5, <1>6, <1>8 DEF ReportsInv, MapTypes

\* The balance is what EndsOnce says.
LEMMA ReportsMean ==
    ASSUME BlocksInv, ReportsInv
    PROVE  EndsOnce
<1>1. ASSUME NEW s \in Services, NEW i \in DOMAIN queues[s]
      PROVE  queues[s][i].token = Token("Accepted", RequestIdNew(queues[s][i].tc))
  <2>1. queues[s] \in Seq(AcceptedTcs)
    BY DEF BlocksInv, TcTypes
  <2>2. queues[s][i] \in AcceptedTcs
    BY <2>1, SeqDomain
  <2> QED
    BY <2>2, AcceptedFields
<1>2. ASSUME NEW s \in Targeted, NEW raw \in DOMAIN active[s]
      PROVE  raw \in RawIds /\ active[s][raw].token = Token("Started", RequestIdFrom(raw))
  <2>1. HasStarted(raw, active[s][raw])
    BY DEF ReportsInv, MapTypes, ActiveType
  <2>2. PICK id \in Ids : raw = RequestIdRaw(id) /\ active[s][raw].token = Token("Started", id)
    BY <2>1 DEF HasStarted
  <2>3. id \in RequestIds
    BY CommandingAssumption DEF Ids
  <2>4. RequestIdRaw(id) \in RawIds /\ RequestIdFrom(RequestIdRaw(id)) = id
    <3>1. RequestIdRaw(id) \in RawIds
      BY <2>3 DEF RawIds
    <3>2. RequestIdFrom(RequestIdRaw(id)) = id
      BY SMTT(60), <2>3, RequestIdRoundTrip
    <3> QED
      BY <3>1, <3>2
  <2> QED
    BY <2>2, <2>4
<1>3. ASSUME NEW id \in Ids
      PROVE  /\ Completions(id) + Open(id) <= reports[id].AcceptanceSuccess
             /\ Starts(id) + Queued(id) <= reports[id].AcceptanceSuccess
  BY DEF ReportsInv, Accounted, Balanced, Balance, Open
<1> QED
  BY <1>1, <1>2, <1>3 DEF EndsOnce, TokensRight

\* BlocksInv is what BlocksOwned says, in numbers of holders.
LEMMA OwnedMeans ==
    ASSUME SetLaws, BlocksInv
    PROVE  BlocksOwned
<1>1. Lines \in [Places -> Seq(Kept)]
  BY LinesType DEF BlocksInv, TcTypes, Lines
<1>2. ASSUME NEW message \in Messages, message.addr # 0
      PROVE  pool[message.addr] = message.tc
  <2>1. \E k \in Places : \E i \in 1..Len(Lines[k]) : Lines[k][i] = message
    <3>1. CASE \E i \in DOMAIN source : message = source[i]
      <4>1. DOMAIN source = 1..Len(source)
        BY SeqDomain DEF BlocksInv, TcTypes
      <4>2. Lines["source"] = source /\ "source" \in Places
        BY SourceLine DEF Lines
      <4> QED
        BY <3>1, <4>1, <4>2
    <3>2. CASE \E k \in Services : \E i \in DOMAIN queues[k] : message = queues[k][i]
      <4>1. PICK k \in Services : \E i \in DOMAIN queues[k] : message = queues[k][i]
        BY <3>2
      <4>2. queues[k] \in Seq(AcceptedTcs) /\ DOMAIN queues = Services
        BY DEF BlocksInv, TcTypes
      <4>3. DOMAIN queues[k] = 1..Len(queues[k])
        BY <4>2, SeqDomain
      <4>4. Lines[k] = queues[k] /\ k \in Places
        BY LineOfQueue DEF Lines
      <4> QED
        BY <4>1, <4>3, <4>4
    <3> QED
      BY <1>2, <3>1, <3>2 DEF Messages
  <2> QED
    BY <1>2, <2>1 DEF BlocksInv, Owned, Leading, LeadsTo
<1>3. ASSUME NEW a \in Addrs
      PROVE  Cardinality(Holders(a)) = (IF pool[a] # NoTc /\ a \notin leaked THEN 1 ELSE 0)
  <2>1. a # 0
    BY SMTT(60), CommandingAssumption DEF Addrs
  <2>2. CASE pool[a] # NoTc /\ a \notin leaked
    <3>1. PICK k \in Places : \E i \in 1..Len(Lines[k]) : Lines[k][i].addr = a
      BY <2>2 DEF BlocksInv, Owned, Found, HasMessage
    <3>2. PICK i \in 1..Len(Lines[k]) : Lines[k][i].addr = a
      BY <3>1
    <3>3. ASSUME NEW m \in Places, NEW j \in 1..Len(Lines[m]), Lines[m][j].addr = a
          PROVE  m = k /\ j = i
      <4>1. Clash(Lines, m, j, k, i)
        BY <2>1, <3>2, <3>3 DEF Clash
      <4> QED
        BY <4>1 DEF BlocksInv, Owned, Apart
    <3>4. ASSUME NEW e \in Holders(a) PROVE e = <<k, i>>
      <4>1. \E m \in Places : \E j \in 1..Len(Lines[m]) : e = <<m, j>> /\ Lines[m][j].addr = a
        BY HoldersInLines DEF BlocksInv
      <4> QED
        BY <3>3, <4>1
    <3>5. <<k, i>> \in Holders(a)
      BY <3>2, HoldersInLines DEF BlocksInv
    <3>6. Holders(a) = {<<k, i>>}
      BY <3>4, <3>5
    <3> QED
      BY <2>2, <3>6 DEF SetLaws, SingletonLaw
  <2>3. CASE ~ (pool[a] # NoTc /\ a \notin leaked)
    <3>1. ASSUME NEW k \in Places, NEW i \in 1..Len(Lines[k]), Lines[k][i].addr = a
          PROVE  FALSE
      <4>1. LeadsTo(a, Lines[k][i].tc, pool, leaked)
        BY <2>1, <3>1 DEF BlocksInv, Owned, Leading
      <4>2. Lines[k][i] \in Kept
        <5>1. Lines[k] \in Seq(Kept)
          BY <1>1
        <5> QED
          BY <5>1, SeqDomain
      <4> QED
        BY <2>3, <4>1, <4>2, KeptFields, CommandingAssumption DEF LeadsTo
    <3>2. Holders(a) = {}
      BY <3>1, HoldersInLines DEF BlocksInv
    <3> QED
      BY <2>3, <3>2 DEF SetLaws, EmptyLaw
  <2> QED
    BY <2>2, <2>3
<1> QED
  BY <1>2, <1>3 DEF BlocksOwned

-----------------------------------------------------------------------------
(* The theorems.                                                           *)

INSTANCE FiniteSetTheorems

\* The facts on finite sets and natural numbers that the proofs use.
LEMMA SetLawsHold == SetLaws
<1>1. EmptyLaw /\ SingletonLaw
  BY FS_EmptySet, FS_Singleton DEF EmptyLaw, SingletonLaw
<1>2. IntervalLaw
  <2>1. ASSUME NEW n \in Nat PROVE 1 \in Int /\ n \in Int
    BY SMTT(60)
  <2> QED
    BY <2>1, FS_Interval DEF IntervalLaw
<1>3. NumberLaw /\ SubsetLaw
  BY FS_CardinalityType, FS_Subset DEF NumberLaw, SubsetLaw
<1>4. AddLaw
  BY FS_AddElement DEF AddLaw
<1>5. UnionLaw
  <2>1. ASSUME NEW A, NEW B, IsFiniteSet(A), IsFiniteSet(B), A \cap B = {}
        PROVE  IsFiniteSet(A \cup B) /\ Cardinality(A \cup B) = Cardinality(A) + Cardinality(B)
    <3>1. /\ IsFiniteSet(A \cup B)
          /\ Cardinality(A \cup B) = Cardinality(A) + Cardinality(B) - Cardinality(A \cap B)
      BY <2>1, FS_Union
    <3>2. Cardinality(A) \in Nat /\ Cardinality(B) \in Nat /\ Cardinality(A \cap B) = 0
      BY <2>1, FS_CardinalityType, FS_EmptySet
    <3>3. ASSUME NEW m \in Nat, NEW n \in Nat PROVE m + n - 0 = m + n
      BY SMTT(60)
    <3> QED
      BY <3>1, <3>2, <3>3
  <2> QED
    BY <2>1 DEF UnionLaw
<1>6. ImageLaw
  <2>1. ASSUME NEW f, NEW A, NEW B, OneToOne(f, A, B), IsFiniteSet(A)
        PROVE  IsFiniteSet(B) /\ Cardinality(B) = Cardinality(A)
    <3>1. f \in Bijection(A, B)
      BY SMTT(60), <2>1 DEF OneToOne, Bijection, Injection, Surjection, IsInjective
    <3>2. ExistsBijection(A, B)
      BY <3>1 DEF ExistsBijection
    <3> QED
      BY <2>1, <3>2, FS_Bijection
  <2> QED
    BY <2>1 DEF ImageLaw
<1>7. LeastLaw
  <2>1. ASSUME NEW T, T \subseteq Nat, T # {}
        PROVE  \E m \in T : \A k \in T : m <= k
    <3>1. PICK m \in T : \A y \in T : ~ (<<y, m>> \in OpToRel(<, Nat))
      BY <2>1, WFMin, NatLessThanWellFounded
    <3>2. ASSUME NEW k \in T PROVE m <= k
      <4>1. <<k, m>> \notin OpToRel(<, Nat)
        BY <3>1
      <4> QED
        BY SMTT(60), <2>1, <4>1 DEF OpToRel
    <3> QED
      BY <3>2
  <2> QED
    BY <2>1 DEF LeastLaw
<1> QED
  BY <1>1, <1>2, <1>3, <1>4, <1>5, <1>6, <1>7 DEF SetLaws

\* For all plans, pools and answers the blocks of the TC pool are owned as
\* BlocksOwned says: no block is freed while a message has its address, none is
\* given to two messages, and none is lost except where the address could not
\* be sent or the distributor has no service for the telecommand.
THEOREM BlocksAreOwned == Spec => []BlocksOwned
<1>1. Init => BlocksInv
  BY InitBlocks
<1>2. BlocksInv /\ [Next]_vars => BlocksInv'
  BY SetLawsHold, StepBlocks
<1>3. BlocksInv => BlocksOwned
  BY SetLawsHold, OwnedMeans
<1> QED
  BY <1>1, <1>2, <1>3, PTL DEF Spec

\* For all plans, set-ups and widths of event IDs, with both maps: when the
\* event handler takes an event it is reported exactly once if its reports are
\* on and the report is possible, the thread panics if they are on and it is
\* not, and if they are off there is neither a report nor a panic.
THEOREM ToldIsTrue == Spec => DisabledIsSilent
<1>1. Init => BlocksInv /\ ToldInv
  BY InitBlocks, InitTold
<1>2. ASSUME BlocksInv, ToldInv, [Next]_vars PROVE BlocksInv' /\ ToldInv' /\ RightlySilent
  BY <1>2, SetLawsHold, StepBlocks, StepTold
<1>3. RightlySilent =>
         [\A event \in Events :
             log'.taken[event] > log.taken[event] =>
                 /\ log'.reported[event] =
                       log.reported[event] + (IF ReportsOn(event) /\ ReportPossible THEN 1 ELSE 0)
                 /\ dead' = IF ReportsOn(event) /\ ~ ReportPossible
                            THEN dead \cup {"pus"} ELSE dead]_vars
  BY DEF RightlySilent
<1> QED
  BY <1>1, <1>2, <1>3, PTL DEF Spec, DisabledIsSilent

\* For all plans, pools, targets and answers: the completion reports and the
\* start reports of a request ID, with the telecommands and requests of this ID
\* that are still open, are never more than its acceptances, and every token
\* that is kept is the one of its own request.
THEOREM TelecommandsEndOnce == Spec => []EndsOnce
<1>1. Init => BlocksInv /\ ToldInv /\ ReportsInv
  BY InitBlocks, InitTold, InitReports, SetLawsHold
<1>2. ASSUME BlocksInv, ToldInv, ReportsInv, [Next]_vars
      PROVE  BlocksInv' /\ ToldInv' /\ ReportsInv'
  BY <1>2, SetLawsHold, StepBlocks, StepTold, StepKeeps
<1>3. BlocksInv /\ ReportsInv => EndsOnce
  BY ReportsMean
<1> QED
  BY <1>1, <1>2, <1>3, PTL DEF Spec

\* For all plans, pools, targets and answers: a telecommand or a request that is
\* no longer open was reported in the same step as completed, failed or refused,
\* except in the cases that Excused lists, where the code gives up.
THEOREM EndsAreReported == Spec => NoSilentEnd
<1>1. Init => BlocksInv /\ ToldInv /\ ReportsInv
  BY InitBlocks, InitTold, InitReports, SetLawsHold
<1> DEFINE Noticed == \A id \in Ids : Shrinks(id) => Heard(id) \/ Excused(id)
<1>2. ASSUME BlocksInv, ToldInv, ReportsInv, [Next]_vars
      PROVE  BlocksInv' /\ ToldInv' /\ ReportsInv' /\ Noticed
  BY <1>2, SetLawsHold, StepBlocks, StepTold, StepKeeps
<1>3. Noticed =>
         [\A id \in Ids : Open(id)' < Open(id) =>
             \/ Completions(id)' > Completions(id)
             \/ reports'[id].StartFailure > reports[id].StartFailure
             \/ Excused(id)]_vars
  BY DEF Shrinks, Heard
<1> QED
  BY <1>1, <1>2, <1>3, PTL DEF Spec, NoSilentEnd

=============================================================================
