------------------------ MODULE CommandingInvariants ------------------------
(***************************************************************************)
(* The vocabulary of the proofs about Commanding: the inductive invariants *)
(* for the blocks of the TC pool (BlocksInv), for what the ground was told *)
(* about events (ToldInv) and for the reports on telecommands              *)
(* (ReportsInv), and the names for what handlers and steps do that their   *)
(* lemmas use.                                                             *)
(***************************************************************************)
EXTENDS Commanding

-----------------------------------------------------------------------------
(* The facts on sets that the lemmas need.  They are theorems of the       *)
(* library, and the lemmas have them as an assumption: a module with all   *)
(* theorems of the library in sight is slow to check.                      *)

\* f maps A to B one to one.
OneToOne(f, A, B) ==
    /\ f \in [A -> B]
    /\ \A x, y \in A : f[x] = f[y] => x = y
    /\ \A b \in B : \E x \in A : f[x] = b

EmptyLaw == IsFiniteSet({}) /\ Cardinality({}) = 0

SingletonLaw == \A x : IsFiniteSet({x}) /\ Cardinality({x}) = 1

IntervalLaw == \A n \in Nat : IsFiniteSet(1..n)

NumberLaw == \A A : IsFiniteSet(A) => Cardinality(A) \in Nat

SubsetLaw ==
    \A A, B : IsFiniteSet(A) /\ B \subseteq A => IsFiniteSet(B) /\ Cardinality(B) <= Cardinality(A)

AddLaw ==
    \A A, x : IsFiniteSet(A) /\ x \notin A =>
        IsFiniteSet(A \cup {x}) /\ Cardinality(A \cup {x}) = Cardinality(A) + 1

UnionLaw ==
    \A A, B : IsFiniteSet(A) /\ IsFiniteSet(B) /\ A \cap B = {} =>
        IsFiniteSet(A \cup B) /\ Cardinality(A \cup B) = Cardinality(A) + Cardinality(B)

ImageLaw ==
    \A f, A, B : OneToOne(f, A, B) /\ IsFiniteSet(A) => IsFiniteSet(B) /\ Cardinality(B) = Cardinality(A)

LeastLaw == \A T : T \subseteq Nat /\ T # {} => \E m \in T : \A k \in T : m <= k

SetLaws ==
    EmptyLaw /\ SingletonLaw /\ IntervalLaw /\ NumberLaw /\ SubsetLaw /\ AddLaw /\ UnionLaw
    /\ ImageLaw /\ LeastLaw

-----------------------------------------------------------------------------
(* The blocks of the TC pool.  Messages with an address stand in lines:    *)
(* the queue to the TC source, and the queues of the services.             *)

\* What is in the queue to the TC source ...
InMemoryTcs == [tc : AllTcs, addr : 0..PoolSize]

\* ... and in the queue of a service: with the token that the distributor got.
AcceptedTc(tc, addr) ==
    [tc |-> tc, addr |-> addr, token |-> Token("Accepted", RequestIdNew(tc))]

AcceptedTcs == {AcceptedTc(tc, addr) : tc \in AllTcs, addr \in 0..PoolSize}

Kept == InMemoryTcs \cup AcceptedTcs

Places == {"source"} \cup Services

LinesOf(s, q) == [k \in Places |-> IF k = "source" THEN s ELSE q[k]]

Lines == LinesOf(source, queues)

\* One of the lines has changed.
WithLine(L, k, line) == [L EXCEPT ![k] = line]

\* Blocks in g are given up: they are in use, and no message has their address.
GivenUp(p, g) == \A a \in g : a \in Addrs /\ p[a] # NoTc

\* The address a leads to the telecommand tc in the pool p.
LeadsTo(a, tc, p, g) == a \in Addrs /\ a \notin g /\ p[a] = tc

Leading(L, p, g) ==
    \A k \in Places : \A i \in 1..Len(L[k]) :
        L[k][i].addr = 0 \/ LeadsTo(L[k][i].addr, L[k][i].tc, p, g)

\* No two messages have the same address.
Clash(L, k, i, m, j) == L[k][i].addr = L[m][j].addr /\ L[k][i].addr # 0

Apart(L) ==
    \A k, m \in Places : \A i \in 1..Len(L[k]), j \in 1..Len(L[m]) :
        Clash(L, k, i, m, j) => k = m /\ i = j

HasMessage(L, a) == \E k \in Places : \E i \in 1..Len(L[k]) : L[k][i].addr = a

Found(L, p, g) == \A a \in Addrs : p[a] # NoTc /\ a \notin g => HasMessage(L, a)

\* Each block of the pool p belongs to one message of the lines L, is given up
\* (it is in g), or is free.
Owned(L, p, g) == GivenUp(p, g) /\ Leading(L, p, g) /\ Apart(L) /\ Found(L, p, g)

\* Types of the variables that the blocks depend on.
Entry == [tc : AllTcs, due : BOOLEAN]

TcTypes ==
    /\ static \in BOOLEAN
    /\ plan \in Plans
    /\ tcs \in Nat
    /\ source \in Seq(InMemoryTcs)
    /\ queues \in [Services -> Seq(AcceptedTcs)]
    /\ pool \in [Addrs -> AllTcs \cup {NoTc}]
    /\ sched \in [enabled : BOOLEAN, entries : Seq(Entry)]

\* The inductive invariant for the blocks.
BlocksInv == TcTypes /\ Owned(Lines, pool, leaked)

-----------------------------------------------------------------------------
(* The context of a handler: what it has sent, and what sending may do to  *)
(* it.                                                                     *)

TmNames == {"PingReply", "ModeReply"} \cup {Severities[i] : i \in 1..4}

Tms == [subservice : Subservices, request_id : Ids] \cup [subservice : TmNames]

HasFields(c) == DOMAIN c = {"tm", "room", "token", "result", "full"}

IsContext(c) ==
    /\ HasFields(c)
    /\ c.tm \in Seq(Tms) /\ c.room \in Nat /\ c.result \in {"ok", "err", "panic"}
    /\ c.full \in BOOLEAN

\* The telemetry sender takes a packet, ...
Took(c, d, tm) ==
    c.result # "panic" /\ d.tm = Append(c.tm, tm) /\ d.result = "ok" /\ d.full = c.full

\* ... or there is no packet, which has a cause: the handler has panicked, the
\* sender is full, or a report does not fit its buffer.
Stopped(c, d, fits) ==
    /\ d.tm = c.tm /\ d.token = c.token /\ d.result # "ok" /\ (c.full => d.full)
    /\ d.result = "panic" \/ d.full \/ ~ fits

\* A report of the request i was sent, and the handler has the next token.
Went(c, d, s, i, next) ==
    Took(c, d, [subservice |-> s, request_id |-> i]) /\ d.token = Token(next, i)

\* What a report of the request i does to a context.
Reports(c, d, s, i, next, fits) ==
    IsContext(d) /\ (Went(c, d, s, i, next) \/ Stopped(c, d, fits))

\* What expect() makes of a report: without the packet the handler panics.
Expected(c, d, s, i, next) ==
    IsContext(d) /\ (Went(c, d, s, i, next) \/ (d.tm = c.tm /\ d.result = "panic"))

-----------------------------------------------------------------------------
(* Request IDs as numbers, and what the ground was told about events.      *)

HasParts(n, A, B, x, y, z) == n % B = z /\ (n \div B) % A = y /\ n \div (A * B) = x

\* What the event service hands to the event handler.
EventTokens == [state : {"Accepted", "Started"}, request_id : Ids]

EventReqs ==
    {r \in [enable : BOOLEAN, raw : {Raw(event) : event \in EventIds}, event : EventIds,
            token : EventTokens] : r.raw = Raw(r.event)}

EventType(e) ==
    /\ DOMAIN e = {"inbox", "listeners", "queues", "requests", "reporting", "backend"}
    /\ e.requests \in Seq(EventReqs)
    /\ e.backend \in {"default", "heapless"}

LogType(l) ==
    /\ DOMAIN l = {"routed", "lost", "taken", "reported", "told", "copies"}
    /\ l.taken \in [Events -> Nat] /\ l.reported \in [Events -> Nat]

\* The reports that are on, as ReportsOn says, are enabled in the map, and no
\* others.
ShouldReport(e, t, event) == t[event] = "Enabled" \/ (t[event] = "Nothing" /\ e.backend = "default")

IsTold(e, t) == \A event \in Events : EventEnabled(e, event) <=> ShouldReport(e, t, event)

\* The inductive invariant for the reporting of events.
ToldInv == EventType(ev) /\ LogType(log) /\ ("pus" \notin dead => IsTold(ev, log.told))

\* c is what the event handler makes of a context with this room.
HandlesEvent(c, room, event, params) ==
    c = Expect(GeneratePusEventTm(NewContext(room), ev, event, params))

\* What DisabledIsSilent says of a step.
RightlySilent ==
    \A event \in Events : log'.taken[event] > log.taken[event] =>
        /\ log'.reported[event] =
              log.reported[event] + (IF ReportsOn(event) /\ ReportPossible THEN 1 ELSE 0)
        /\ dead' = IF ReportsOn(event) /\ ~ ReportPossible THEN dead \cup {"pus"} ELSE dead

-----------------------------------------------------------------------------
(* Counting.                                                               *)

\* n is m, and one more if b.
Grows(n, m, b) == n \in Nat /\ m \in Nat /\ n = (IF b THEN m + 1 ELSE m)

\* The places of a sequence with a token of the request id.
Named(s, id) == {i \in DOMAIN s : s[i].token.request_id = id}

\* The places of the queues q with a token of the request id, and those of
\* them that are not in the queue of k.
Waiting(q, id) == UNION {{<<s, i>> : i \in Named(q[s], id)} : s \in Services}

Beside(q, k, id) == UNION {{<<s, i>> : i \in Named(q[s], id)} : s \in Services \ {k}}

Column(k, N) == {<<k, i>> : i \in N}

-----------------------------------------------------------------------------
(* The reports that a handler has sent.                                    *)

Sent(tm, s, id) == {i \in DOMAIN tm : tm[i] = [subservice |-> s, request_id |-> id]}

\* The handler has sent one report of each kind in K on the request i, and no
\* other report.
Sends(tm, i, K) ==
    \A id \in Ids, s \in Subservices :
        IF id = i /\ s \in K THEN \E j : Sent(tm, s, id) = {j} ELSE Sent(tm, s, id) = {}

Finals == {"CompletionSuccess", "CompletionFailure", "StepFailure"}

Begins == {"StartSuccess", "StartFailure"}

Begun(K) == K \cap Begins # {}

Final(K) == K \cap Finals # {}

AtMostOne(K) == (\A s, t \in K \cap Finals : s = t) /\ (\A s, t \in K \cap Begins : s = t)

ReportsType == reports \in [Ids -> [Subservices -> Nat]]

\* What one report of each kind in K on the request i adds for the request id.
Posted(id, i, K) ==
    /\ Grows(Completions(id)', Completions(id), id = i /\ Final(K))
    /\ Grows(Starts(id)', Starts(id), id = i /\ Begun(K))
    /\ Grows(reports'[id].AcceptanceSuccess, reports[id].AcceptanceSuccess,
             id = i /\ "AcceptanceSuccess" \in K)
    /\ Grows(reports'[id].StartFailure, reports[id].StartFailure, id = i /\ "StartFailure" \in K)

Only(s) == {s}

Both(s, t) == {s, t}

\* At most one start and one end, and no acceptance.
Plain(K) == AtMostOne(K) /\ "AcceptanceSuccess" \notin K

\* The ground learns that the request has come to an end.
Tells(K) == Final(K) \/ "StartFailure" \in K

\* The reports that a handler has written so far.
Wrote(c, i, K) == IsContext(c) /\ Sends(c.tm, i, K)

\* A handler has reported at most one start and one end, and an end or a start
\* failure unless it has an excuse.
Served(c, i, excuse) ==
    \E K : Wrote(c, i, K) /\ Plain(K) /\ (Tells(K) \/ c.result = "panic" \/ c.full \/ excuse)

\* The start of a handler, with or without expect().
StartsWith(d, i) ==
    \/ Wrote(d, i, Only("StartSuccess")) /\ d.result = "ok" /\ d.token = Token("Started", i)
    \/ Wrote(d, i, {}) /\ d.result # "ok" /\ (d.result = "panic" \/ d.full)

SchedSubservices == {"Enable", "Disable", "Reset", "Insert"}

\* A request was started.
Started(c, i) == Wrote(c, i, Only("StartSuccess")) /\ c.token = Token("Started", i)

\* ... and the event handler completes it.
Finishes(c, i) ==
    \E K : Wrote(c, i, K) /\ Plain(K) /\ ~ Begun(K) /\ (Final(K) \/ c.result = "panic")

\* What a reply makes of an active request: an end is reported only when its
\* entry is removed, and its entry is removed without one only for a cause.
Replied(c, i, reply) ==
    \E K : /\ Wrote(c, i, K) /\ Plain(K) /\ ~ Begun(K)
           /\ Final(K) => c.result = "ok" /\ reply.kind \notin Progress
           /\ Ends(c, reply) => Final(K) \/ c.result = "panic" \/ c.full \/ TooLong(reply)

\* The distributor accepts a telecommand, or accepts and refuses it.
Accepts(c, i) == Wrote(c, i, Only("AcceptanceSuccess")) /\ c.token = Token("Accepted", i)

Sorts(c, i) ==
    \/ Wrote(c, i, {}) \/ Wrote(c, i, Only("AcceptanceSuccess"))
    \/ Wrote(c, i, Both("AcceptanceSuccess", "StartFailure"))

-----------------------------------------------------------------------------
(* The balance of a request, and the invariant for the reports.            *)

Balance(C, S, A, Q, H, N) ==
    /\ C \in Nat /\ S \in Nat /\ A \in Nat /\ Q \in Nat /\ H \in Nat /\ N \in Nat
    /\ C + (Q + H + N) <= A /\ S + Q <= A

Balanced(id) ==
    Balance(Completions(id), Starts(id), reports[id].AcceptanceSuccess,
            Queued(id), Handed(id), Cardinality(ActiveIn(id)))

Heard(id) ==
    \/ Completions(id)' > Completions(id)
    \/ reports'[id].StartFailure > reports[id].StartFailure

Shrinks(id) == Open(id)' < Open(id)

Raws == {RequestIdRaw(id) : id \in Ids}

In(a, id) == {s \in Targeted : RequestIdRaw(id) \in DOMAIN a[s]}

\* An active request has the raw ID and the token of a request that was started.
HasStarted(raw, r) ==
    "token" \in DOMAIN r /\ \E id \in Ids : raw = RequestIdRaw(id) /\ r.token = Token("Started", id)

ActiveType(a) ==
    /\ DOMAIN a = Targeted
    /\ \A s \in Targeted : \A raw \in DOMAIN a[s] : HasStarted(raw, a[s][raw])

Reqs == [service : Targeted, id : Raws]

RequestsType(q) == q \in [Targets -> [composite : Seq(Reqs), mode : Seq(Reqs)]]

RepliesOf(s) == [id : Raws, kind : ReplyKinds[s], params : Params]

RepliesType(r) == DOMAIN r = Targeted /\ \A s \in Targeted : r[s] \in Seq(RepliesOf(s))

MapTypes == ActiveType(active) /\ RequestsType(requests) /\ RepliesType(replies)

CountTypes == ReportsType /\ failed \in Nat

Accounted(id) == IsFiniteSet(Waiting(queues, id)) /\ Balanced(id)

ReportsInv == MapTypes /\ CountTypes /\ \A id \in Ids : Accounted(id)

\* The request i is inserted into the map of a service, or removed from it.
Inserted(a, b, k, i, r) == b = [a EXCEPT ![k] = Insert(@, RequestIdRaw(i), r)]

Removed(a, b, k, i) == b = [a EXCEPT ![k] = Remove(@, {RequestIdRaw(i)})]

Keeps(id) == Accounted(id)' /\ (Shrinks(id) => Heard(id) \/ Excused(id))

=============================================================================
