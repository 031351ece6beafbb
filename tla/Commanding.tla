----------------------------- MODULE Commanding -----------------------------
(***************************************************************************)
(* The commanding path of the example: the TC source and the PUS           *)
(* distributor in the tmtc-udp thread, the PUS stack with the test, event, *)
(* scheduling, action, housekeeping and mode services and the event        *)
(* handling in the PUS thread, and the components that requests are routed *)
(* to.  Every service reports on its telecommands through a reporter of    *)
(* module Verification; what events do is in module EventManagement.       *)
(*                                                                         *)
(* In the static build telecommands are kept in the shared TC pool and     *)
(* the telemetry sender may be full; in the dynamic build a telecommand is *)
(* carried by its message and sending telemetry never fails.               *)
(***************************************************************************)
EXTENDS EventManagement

CONSTANTS
    Plans,          \* bound: the sequences of telecommands that the ground sends
    NoTc,           \* no telecommand
    Targets,        \* the components that requests are routed to
    GoneTargets,    \* those of them whose thread has ended
    PoolSize,       \* blocks of the shared TC pool
    SourceLen,      \* length of the queue to the TC source in the static build
    Answers,        \* the sequences of replies of a target, by service
    RequestLen,     \* length of the request queues of a target
    Setups,         \* what is done to the event handling before it runs, by plan
    MaxLoops,       \* rounds of the PUS stack in one cycle, 500 in the code
    MaxTmFailures   \* bound: handlers in which a telemetry packet is refused

\* The services a telecommand may name.
Standard == {"Test", "Event", "Housekeeping", "Scheduling", "Action", "Other"}

Custom == {"Mode", "Health"}

Direct == {"Test", "Event", "Scheduling"}

Targeted == {"Action", "Housekeeping", "Mode"}

Services == Direct \cup Targeted

Tcs == UNION {{p[i] : i \in DOMAIN p} : p \in Plans}

\* The replies of a target to each of the targeted services.  The enum of the
\* action service is not exhaustive: "Received" is any variant yet to come.
ActionReplies == {"Completed", "StepSuccess", "CompletionFailed", "StepFailed", "Received"}

HkReplies == {"Ack", "Failed"}

ModeReplies == {"ModeReply", "CantReachMode", "WrongMode"}

ReplyKinds == [Action |-> ActionReplies, Housekeeping |-> HkReplies, Mode |-> ModeReplies]

Params == [kind : {"None", "Heapless", "Vec", "String", "Store"}, len : Nat]

\* The telecommands inside the scheduling requests.
InnerTcs == {tc.inner : tc \in {t \in Tcs : t.inner # NoTc}}

AllTcs == Tcs \cup InnerTcs

ASSUME CommandingAssumption ==
    /\ GoneTargets \subseteq Targets
    /\ {PoolSize, SourceLen, RequestLen, MaxLoops} \subseteq Nat \ {0}
    /\ MaxTmFailures \in Nat
    /\ NoTc \notin AllTcs
    /\ \A tc \in AllTcs :
          /\ tc.service \in Standard \cup Custom \cup {"Unknown", "Invalid", "Raise"}
          /\ RequestIdNew(tc) \in RequestIds
          /\ \E event \in EventIds : tc.event = Raw(event)
          /\ tc.subservice = "Insert" /\ tc.insertable => tc.inner \in AllTcs
    /\ \A p \in Plans :
          /\ p \in Seq(Tcs)
          /\ \A setup \in Setups[p] : setup.backend \in {"default", "heapless"}
    /\ \A s \in Targeted : Answers[s] \subseteq Seq([kind : ReplyKinds[s], params : Params])

\* The request IDs that occur.
Ids == {RequestIdNew(tc) : tc \in AllTcs}

\* The events that occur.
TestEvent == EventFrom(0)

Events == {TestEvent} \cup {EventFrom(tc.event) : tc \in Tcs}

VARIABLES
    static,     \* the build
    plan,       \* the telecommands that the ground sends
    source,     \* queue to the TC source
    pool,       \* the shared TC pool
    queues,     \* queues of the services
    active,     \* active request maps of the targeted services
    requests,   \* request queues of the targets
    replies,    \* reply queues of the targeted services
    sched,      \* the scheduler of the scheduling service
    ev,         \* the event handling
    pus,        \* the PUS thread
    dead,       \* threads that have panicked, and "pool" once the lock of the
                \* TC pool is poisoned
    log,        \* history: what became of the events, and how many copies of
                \* each the event handler has subscribed to
    leaked,     \* history: blocks that no message refers to any more
    reports,    \* history: number of verification reports per request ID
    tcs,        \* number of telecommands sent by the ground
    failed      \* number of handlers in which a telemetry packet was refused

vars == <<static, plan, source, pool, queues, active, requests, replies, sched,
          ev, log, pus, dead, leaked, reports, tcs, failed>>

\* The blocks of the TC pool, here a single subpool; StaticPool has the whole
\* pool and how an address leads to a block.
Addrs == 1..PoolSize

\* find_empty: the first of these.
Free == {a \in Addrs : pool[a] = NoTc}

LowestFree == CHOOSE a \in Free : \A b \in Free : a <= b

\* A telecommand in memory: its pool address, or the packet itself.
InMemory(tc, addr) == [tc |-> tc, addr |-> addr]

TcAndToken(message, token) ==
    [tc |-> message.tc, addr |-> message.addr, token |-> token]

\* Mutant: the PUS stack does not poll the mode service.
Stages_NoMode ==
    <<"events", "event_tm", "release", "Test", "Scheduling", "Event",
      "Action", "Action_reply", "Housekeeping", "Housekeeping_reply", "check">>

\* A cycle of the PUS thread.
Stages ==
    <<"events", "event_tm", "release", "Test", "Scheduling", "Event",
      "Action", "Action_reply", "Housekeeping", "Housekeeping_reply", "Mode", "Mode_reply", "check">>

FirstService == 4

QueueOf(service) == IF service = "Mode" THEN "mode" ELSE "composite"

\* The subscriptions of a component that an event matches, except those made
\* again and then removed as duplicates.
Matches(key, event) == key \in {Single(event), Group(event.group_id), All}

Copies(calls, id, event) ==
    LET same(i, j) == calls[i].op = "subscribe" /\ calls[i].key = calls[j].key /\ calls[i].id = id
    IN  Cardinality({i \in DOMAIN calls :
            /\ same(i, i) /\ Matches(calls[i].key, event)
            /\ ~ \E h \in 1..(i - 1), j \in (i + 1)..Len(calls) :
                  /\ same(h, i)
                  /\ calls[j].op = "remove_duplicates" /\ calls[j].key = calls[i].key})

NewLog(calls) ==
    LET none == [event \in Events |-> 0]
    IN  [routed |-> none, lost |-> none, taken |-> none, reported |-> none,
         told |-> [event \in Events |-> "Nothing"],
         copies |-> [event \in Events |->
                        Copies(ExampleCalls \o calls, PusEventManagement, event)]]

NewCycle(stage) == [stage |-> stage, nothing_to_do |-> TRUE, loops |-> 0]

\* static_tmtc_pool_main starts the PUS thread with the event handling ...
StaticMain == static = TRUE /\ pus = NewCycle(1)

\* ... and dyn_tmtc_pool_main with the PUS stack.
DynMain == static = FALSE /\ pus = NewCycle(3)

Init ==
    /\ StaticMain \/ DynMain
    /\ plan \in Plans
    /\ source = << >>
    /\ pool = [a \in Addrs |-> NoTc]
    /\ queues = [s \in Services |-> << >>]
    /\ active = [s \in Targeted |-> << >>]
    /\ requests = [t \in Targets |-> [composite |-> << >>, mode |-> << >>]]
    /\ replies = [s \in Targeted |-> << >>]
    /\ sched = [enabled |-> TRUE, entries |-> << >>]
    /\ \E setup \in Setups[plan] :
          /\ ev = NewEventHandler(setup.calls, setup.backend)
          /\ log = NewLog(setup.calls)
    /\ dead = {}
    /\ leaked = {}
    /\ reports = [id \in Ids |-> [s \in Subservices |-> 0]]
    /\ tcs = 0
    /\ failed = 0
-----------------------------------------------------------------------------
(***************************************************************************)
(* What a handler does to the rest of the program once its context c is    *)
(* known.  The telemetry sender of the static build may run full at any    *)
(* packet of a handler.  Threads that have panicked leave their queues     *)
(* behind, which nobody reads any more.                                    *)
(***************************************************************************)
TmPerHandler == 3

Rooms == IF static /\ failed < MaxTmFailures THEN 0..TmPerHandler ELSE {TmPerHandler}

CountReports(tm) ==
    [id \in Ids |-> [s \in Subservices |-> reports[id][s]
        + Cardinality({i \in DOMAIN tm : tm[i] = [subservice |-> s, request_id |-> id]})]]

Effects(c, thread) ==
    /\ reports' = CountReports(c.tm)
    /\ failed' = failed + (IF c.full THEN 1 ELSE 0)
    /\ dead' = IF c.result = "panic" THEN dead \cup {thread} ELSE dead

NoEffects == UNCHANGED <<reports, failed, dead>>

OtherTm(name) == [subservice |-> name]

Panic(c) == [c EXCEPT !.result = "panic"]
-----------------------------------------------------------------------------
(***************************************************************************)
(* Telecommands reach the TC source from the servers of the ground link.   *)
(* PacketSenderWithSharedPool stores a packet before it tries to send the  *)
(* address: when the queue is full, or its receiver has ended, the block   *)
(* stays in use.                                                           *)
(***************************************************************************)
SendPacket(tc) ==
    CASE ~ static ->
            /\ source' = IF "tmtc" \in dead THEN source ELSE Append(source, InMemory(tc, 0))
            /\ UNCHANGED <<pool, leaked>>
      [] static /\ (Free = {} \/ "pool" \in dead) ->
            UNCHANGED <<source, pool, leaked>>
      [] static /\ Free # {} /\ dead \cap {"tmtc", "pool"} = {} /\ Len(source) < SourceLen ->
            /\ source' = Append(source, InMemory(tc, LowestFree))
            /\ pool' = [pool EXCEPT ![LowestFree] = tc]
            /\ UNCHANGED leaked
      [] OTHER ->
            /\ pool' = [pool EXCEPT ![LowestFree] = tc]
            /\ leaked' = leaked \cup {LowestFree}
            /\ UNCHANGED source

Ground ==
    /\ tcs < Len(plan)
    /\ plan[tcs + 1].service # "Raise"
    /\ tcs' = tcs + 1
    /\ SendPacket(plan[tcs + 1])
    /\ NoEffects
    /\ UNCHANGED <<static, plan, queues, active, requests, replies, sched, ev, log, pus>>

\* The services that the distributor has a queue for.  A telecommand for the
\* action service is refused as not implemented, and one for the health
\* service is accepted and dropped.
Routed == {"Test", "Event", "Housekeeping", "Scheduling", "Mode"}

HandleTcGeneric(tc, room) ==
    LET accepted == Expect(AcceptanceSuccess(NewContext(room), AddTc(tc)))
    IN  CASE tc.service = "Invalid" -> NewContext(room)
          [] tc.service \in Routed \cup {"Health"} -> accepted
          [] tc.service \in {"Action", "Other"} ->
                StartFailure(accepted, accepted.token, 1)
          [] OTHER -> Expect(StartFailure(accepted, accepted.token, 1))

PollTc(message, room) ==
    IF message.addr # 0 /\ "pool" \in dead THEN Panic(NewContext(room))
                                           ELSE HandleTcGeneric(message.tc, room)

\* One telecommand is distributed in a cycle of the tmtc-udp thread.  The queues
\* of the services end with the PUS thread.
Distribute ==
    /\ "tmtc" \notin dead
    /\ source # << >>
    /\ source' = Tail(source)
    /\ \E room \in Rooms :
       \E c \in {PollTc(Head(source), room)} :
          LET tc == Head(source).tc
          IN  /\ Effects(c, "tmtc")
              /\ IF tc.service \in Routed /\ c.result = "ok" /\ "pus" \notin dead
                 THEN /\ queues' = [queues EXCEPT ![tc.service] =
                                       Append(@, TcAndToken(Head(source), c.token))]
                      /\ UNCHANGED leaked
                 ELSE /\ leaked' = leaked \cup ({Head(source).addr} \ {0})
                      /\ UNCHANGED queues
    /\ UNCHANGED <<static, plan, pool, active, requests, replies, sched, ev, log, pus, tcs>>

\* No component of the example sends to the queue of the action service.  A
\* component that holds its sender, like the tests of the service, could.
CommandAction ==
    /\ tcs < Len(plan)
    /\ plan[tcs + 1].service = "Action"
    /\ ~ static
    /\ "pus" \notin dead
    /\ tcs' = tcs + 1
    /\ \E tc \in {plan[tcs + 1]} :
       \E c \in {AcceptanceSuccess(NewContext(TmPerHandler), AddTc(tc))} :
          /\ Effects(c, "tmtc")
          /\ queues' = [queues EXCEPT !.Action =
                           Append(@, TcAndToken(InMemory(tc, 0), c.token))]
    /\ UNCHANGED <<static, plan, source, pool, active, requests, replies, sched, ev, log,
                   pus, leaked>>
-----------------------------------------------------------------------------
(***************************************************************************)
(* The PUS thread.  A cycle handles the events, releases the scheduled     *)
(* telecommands that are due and then polls the services in rounds, until  *)
(* a round had nothing to do.  In the dynamic build the event handling is  *)
(* the end of the cycle.                                                   *)
(***************************************************************************)
At(stage) == "pus" \notin dead /\ Stages[pus.stage] = stage

MoveOn(handled) ==
    pus' = [pus EXCEPT !.stage = @ + 1, !.nothing_to_do = @ /\ ~ handled]

\* What the history says after an event was routed, after the event handler
\* took one, and after it completed a request.
RoutedTo(event) ==
    LET over == log.copies[event] + Len(ev.queues[PusEventManagement]) - ListenerLen
    IN  [log EXCEPT !.routed[event] = @ + 1, !.lost[event] = @ + (IF over > 0 THEN over ELSE 0)]

TakenWith(c, event) ==
    [log EXCEPT !.taken[event] = @ + 1, !.reported[event] = @ + Len(c.tm)]

Told(request) ==
    [log EXCEPT !.told = [event \in Events |->
        IF Raw(event) = request.raw
        THEN IF request.enable THEN "Enabled" ELSE "Disabled" ELSE @[event]]]

\* The event handler of the static build is given the bare queue of the TM
\* addresses for its sender, which refuses every packet that is not in a pool.
EventRoom == IF static THEN 0 ELSE TmPerHandler

\* The requests of the event service are all handled first.
EventRequests ==
    /\ At("events")
    /\ ev.requests # << >>
    /\ \E room \in {EventRoom} :
       \E c \in {HandleEventRequest(NewContext(room), ev)} :
          /\ ev' = AfterEventRequest(ev)
          /\ log' = IF c.result = "ok" THEN Told(Head(ev.requests)) ELSE log
          /\ Effects(c, "pus")
    /\ UNCHANGED <<static, plan, source, pool, queues, active, requests, replies, sched,
                   pus, leaked, tcs>>

TryEventRouting ==
    /\ At("events")
    /\ ev.requests = << >>
    /\ ev' = TryEventHandling(ev)
    /\ log' = IF ev.inbox = << >> THEN log ELSE RoutedTo(Head(ev.inbox).event)
    /\ pus' = NewCycle(2)
    /\ NoEffects
    /\ UNCHANGED <<static, plan, source, pool, queues, active, requests, replies, sched,
                   leaked, tcs>>

\* The loop ends with the events that wait.
EventReport ==
    /\ At("event_tm")
    /\ IF ev.queues[PusEventManagement] = << >>
       THEN MoveOn(FALSE) /\ NoEffects /\ UNCHANGED <<ev, log>>
       ELSE \E room \in {EventRoom} :
            \E c \in {HandleEvent(NewContext(room), ev)} :
               /\ ev' = AfterEvent(ev)
               /\ log' = TakenWith(c, Head(ev.queues[PusEventManagement]).event)
               /\ Effects(c, "pus")
               /\ UNCHANGED pus
    /\ UNCHANGED <<static, plan, source, pool, queues, active, requests, replies, sched,
                   leaked, tcs>>

\* The first scheduled telecommand that is due, in release order.
DueEntries == {i \in DOMAIN sched.entries : sched.entries[i].due}

FirstDue == CHOOSE i \in DueEntries : \A j \in DueEntries : i <= j

WithoutEntry(i) ==
    SubSeq(sched.entries, 1, i - 1) \o SubSeq(sched.entries, i + 1, Len(sched.entries))

\* TcReleaser::release.  Sending to the TC source blocks while its queue is
\* full.  The thread panics when the TC source has ended, and when the TC pool
\* is full; it then still holds the lock of the pool.
Release(tc) ==
    CASE ~ sched.enabled -> NoEffects /\ UNCHANGED <<source, pool, leaked>>
      [] sched.enabled /\ ~ static /\ "tmtc" \notin dead ->
            /\ source' = Append(source, InMemory(tc, 0))
            /\ NoEffects
            /\ UNCHANGED <<pool, leaked>>
      [] sched.enabled /\ ~ static /\ "tmtc" \in dead ->
            /\ dead' = dead \cup {"pus"}
            /\ UNCHANGED <<source, pool, leaked, reports, failed>>
      [] sched.enabled /\ static /\ Free = {} ->
            /\ dead' = dead \cup {"pus", "pool"}
            /\ UNCHANGED <<source, pool, leaked, reports, failed>>
      [] sched.enabled /\ static /\ Free # {} /\ "tmtc" \in dead ->
            /\ dead' = dead \cup {"pus"}
            /\ pool' = [pool EXCEPT ![LowestFree] = tc]
            /\ leaked' = leaked \cup {LowestFree}
            /\ UNCHANGED <<source, reports, failed>>
      [] OTHER ->
            /\ Len(source) < SourceLen
            /\ source' = Append(source, InMemory(tc, LowestFree))
            /\ pool' = [pool EXCEPT ![LowestFree] = tc]
            /\ NoEffects
            /\ UNCHANGED leaked

ReleaseTcs ==
    /\ At("release")
    /\ IF DueEntries = {}
       THEN /\ MoveOn(FALSE)
            /\ NoEffects
            /\ UNCHANGED <<source, pool, sched, leaked>>
       ELSE /\ Release(sched.entries[FirstDue].tc)
            /\ sched' = [sched EXCEPT !.entries = WithoutEntry(FirstDue)]
            /\ UNCHANGED pus
    /\ UNCHANGED <<static, plan, queues, active, requests, replies, ev, log, tcs>>

\* The telecommand is read without a guard.
FreedBy_NoGuard(message) == pool

\* A service takes the next telecommand of its queue.  The guard of the pool
\* frees its block.
FreedBy(message) ==
    IF message.addr = 0 THEN pool ELSE [pool EXCEPT ![message.addr] = NoTc]

Take(service) ==
    /\ queues[service] # << >>
    /\ queues' = [queues EXCEPT ![service] = Tail(@)]
    /\ pool' = FreedBy(Head(queues[service]))

NothingQueued(service) ==
    /\ At(service)
    /\ queues[service] = << >>
    /\ MoveOn(FALSE)
    /\ NoEffects
    /\ UNCHANGED <<static, plan, source, pool, queues, active, requests, replies, sched,
                   ev, log, leaked, tcs>>
-----------------------------------------------------------------------------
\* The test service: a ping, and a test event of the example.  The event
\* queue is emptied by this same thread, and sending to it blocks.
Ping(c, token) ==
    LET started == StartSuccess(c, token)
        replied == SendTm(started, OtherTm("PingReply"))
    IN  IF started.result = "ok" THEN CompletionSuccess(replied, started.token)
                                 ELSE replied

StartAndComplete(c, token) ==
    LET started == StartSuccess(c, token)
    IN  IF started.result = "ok" THEN CompletionSuccess(started, started.token)
                                 ELSE started

HandleTestTc(c, tc, token) ==
    CASE tc.subservice = "Ping" -> Ping(c, token)
      [] tc.subservice = "TestEvent" -> StartAndComplete(c, token)
      [] OTHER -> Expect(StartFailure(c, token, 1))

Raised(event, params) ==
    [ev EXCEPT !.inbox = Append(@, EventMessage(PusTestService, event, params))]

TestService ==
    /\ At("Test")
    /\ Take("Test")
    /\ \E room \in Rooms, message \in {Head(queues.Test)} :
       \E c \in {HandleTestTc(NewContext(room), message.tc, message.token)} :
          /\ IF message.tc.subservice = "TestEvent"
             THEN /\ Len(ev.inbox) < EventLen
                  /\ ev' = Raised(TestEvent, NoParams)
             ELSE UNCHANGED ev
          /\ Effects(c, "pus")
    /\ MoveOn(TRUE)
    /\ UNCHANGED <<static, plan, source, active, requests, replies, sched, log, leaked, tcs>>

\* In the example only the test service raises events.  A component that holds
\* the sender, like the tests of the event handler, waits for room as well.
RaiseEvent ==
    /\ tcs < Len(plan)
    /\ plan[tcs + 1].service = "Raise"
    /\ tcs' = tcs + 1
    /\ Len(ev.inbox) < EventLen
    /\ ev' = Raised(EventFrom(plan[tcs + 1].event), plan[tcs + 1].params)
    /\ NoEffects
    /\ UNCHANGED <<static, plan, source, pool, queues, active, requests, replies, sched,
                   log, pus, leaked>>

EventService ==
    /\ At("Event")
    /\ Take("Event")
    /\ \E room \in Rooms, message \in {Head(queues.Event)} :
       \E c \in {HandleEventTc(NewContext(room), message.tc, message.token)} :
          /\ ev' = AfterEventTc(ev, c, message.tc, message.token)
          /\ Effects(c, "pus")
          /\ MoveOn(EventTcHandled(message.tc))
    /\ UNCHANGED <<static, plan, source, active, requests, replies, sched, log, leaked, tcs>>
-----------------------------------------------------------------------------
\* The scheduling service.  Reset and insertion panic where enabling and
\* disabling log an error; a subservice that is not implemented is dropped.
InsertActivity(c, tc, token) ==
    LET started == Expect(StartSuccess(c, token))
    IN  IF tc.insertable THEN Expect(CompletionSuccess(started, started.token))
                         ELSE Panic(started)

HandleSchedTc(c, tc, token) ==
    CASE tc.subservice \in {"Enable", "Disable"} -> StartAndComplete(c, token)
      [] tc.subservice = "Reset" ->
            LET started == Expect(StartSuccess(c, token))
            IN  Expect(CompletionSuccess(started, started.token))
      [] tc.subservice = "Insert" -> InsertActivity(c, tc, token)
      [] OTHER -> c

AfterSchedTc(tc) ==
    CASE tc.subservice = "Enable" -> [sched EXCEPT !.enabled = TRUE]
      [] tc.subservice = "Disable" -> [sched EXCEPT !.enabled = FALSE]
      [] tc.subservice = "Reset" -> [enabled |-> FALSE, entries |-> << >>]
      [] tc.subservice = "Insert" ->
            [sched EXCEPT !.entries = Append(@, [tc |-> tc.inner, due |-> FALSE])]
      [] OTHER -> sched

\* Without a started token, enabling and disabling return an error.
SchedHandled(c, tc) ==
    tc.subservice \in {"Enable", "Disable"} => c.token.state \in {"Started", "Completed"}

SchedulingService ==
    /\ At("Scheduling")
    /\ Take("Scheduling")
    /\ \E room \in Rooms, message \in {Head(queues.Scheduling)} :
       \E c \in {HandleSchedTc(NewContext(room), message.tc, message.token)} :
          /\ sched' = IF c.result = "panic" THEN sched ELSE AfterSchedTc(message.tc)
          /\ Effects(c, "pus")
          /\ MoveOn(SchedHandled(c, message.tc))
    /\ UNCHANGED <<static, plan, source, active, requests, replies, ev, log, leaked, tcs>>
-----------------------------------------------------------------------------
(***************************************************************************)
(* The targeted services.  A converter turns a telecommand into a request, *)
(* or reports a start failure and returns an error, for which the generic  *)
(* service then reports a completion failure as well.                      *)
(***************************************************************************)
Request == [result |-> "ok", fail_data |-> 0]

Refused(error, fail_data) == [result |-> error, fail_data |-> fail_data]

ConvertAction(tc) ==
    CASE tc.len < 8 -> Refused("NotEnoughAppData", 0)
      [] tc.len >= 8 /\ tc.subservice # "Action" -> Refused("InvalidSubservice", 0)
      [] OTHER -> Request

HkUnfinished == {"ReportStructures", "HkPacket"}

HkIntervals == {"ModifyInterval"}

HkGeneration == {"Enable", "Disable", "OneShot"}

ConvertHk(tc) ==
    CASE tc.len < 8 -> Refused("NotEnoughAppData", 4)
      [] tc.len >= 8 /\ tc.subservice \in HkUnfinished -> Refused("todo", 0)
      [] tc.len \in 8..11 /\ tc.subservice \in HkIntervals ->
            Refused("NotEnoughAppData", 0)
      [] tc.len >= 8 /\ tc.subservice \notin HkUnfinished \cup HkIntervals \cup HkGeneration ->
            Refused("InvalidSubservice", 1)
      [] OTHER -> Request

ModeAndSubmodeLen == 6

ConvertMode(tc) ==
    CASE tc.len < 4 -> Refused("NotEnoughAppData", 0)
      [] tc.len >= 4 /\ tc.subservice \notin {"SetMode", "ReadMode", "Announce"} ->
            Refused("InvalidSubservice", 0)
      [] tc.len \in 4..(4 + ModeAndSubmodeLen - 1) /\ tc.subservice = "SetMode" ->
            Refused("NotEnoughAppData", 0)
      [] OTHER -> Request

Convert(service, tc) ==
    CASE service = "Action" -> ConvertAction(tc)
      [] service = "Housekeeping" -> ConvertHk(tc)
      [] service = "Mode" -> ConvertMode(tc)

HandleConversionToRequestError(c, token, error) ==
    Expect(CompletionFailure(c, token, IF error = "NotEnoughAppData" THEN 8 ELSE 1))

TargetIdLen == 8

\* A routing error is logged only.
HandleErrorGeneric_LogOnly(c, token) == c

HandleErrorGeneric(c, token) == Expect(CompletionFailure(c, token, TargetIdLen))

Routes(tc) == tc.target \in Targets \ GoneTargets

HandleTargetedTc(c, service, tc, token) ==
    LET request == Convert(service, tc)
        refused == Expect(StartFailure(c, token, request.fail_data))
    IN  CASE request.result = "todo" -> Panic(c)
          [] request.result \in {"NotEnoughAppData", "InvalidSubservice"} ->
                HandleConversionToRequestError(refused, token, request.result)
          [] request.result = "ok" /\ ~ Routes(tc) -> HandleErrorGeneric(c, token)
          [] OTHER -> Expect(StartSuccess(c, token))

IsRouted(service, tc) == Convert(service, tc).result = "ok" /\ Routes(tc)

ActiveRequest(target, token) ==
    [target |-> target, token |-> token, timed_out |-> FALSE]

\* An active request with the same ID is overwritten.
Insert(map, raw, request) ==
    [r \in DOMAIN map \cup {raw} |-> IF r = raw THEN request ELSE map[r]]

Remove(map, raws) == [r \in DOMAIN map \ raws |-> map[r]]

\* The router blocks while the request queue of the target is full.
TargetedService(service) ==
    /\ At(service)
    /\ Take(service)
    /\ \E room \in Rooms, message \in {Head(queues[service])} :
       \E c \in {HandleTargetedTc(NewContext(room), service, message.tc, message.token)} :
          LET target == message.tc.target
              queue == QueueOf(service)
              raw == RequestIdRaw(RequestIdNew(message.tc))
          IN  /\ IF IsRouted(service, message.tc)
                 THEN /\ Len(requests[target][queue]) < RequestLen
                      /\ requests' = [requests EXCEPT ![target][queue] =
                                         Append(@, [service |-> service, id |-> raw])]
                 ELSE UNCHANGED requests
              /\ active' = IF IsRouted(service, message.tc) /\ c.result = "ok"
                           THEN [active EXCEPT ![service] =
                                    Insert(@, raw, ActiveRequest(target, c.token))]
                           ELSE active
              /\ Effects(c, "pus")
              /\ MoveOn(IsRouted(service, message.tc))
    /\ UNCHANGED <<static, plan, source, replies, sched, ev, log, leaked, tcs>>
-----------------------------------------------------------------------------
\* What a reply does to the context, by the handler of its service.  Its
\* entry is removed when this returns an error, and unless the reply is one
\* of progress.
Progress == {"StepSuccess", "Received"}

HandleActionReply(c, token, reply) ==
    CASE reply.kind = "CompletionFailed" ->
            HandleCompletionFailureWithGenericParams(c, token, reply.params)
      [] reply.kind = "StepFailed" ->
            HandleStepFailureWithGenericParams(c, token, reply.params)
      [] reply.kind = "Completed" -> CompletionSuccess(c, token)
      [] reply.kind = "StepSuccess" -> StepSuccess(c, token)
      [] OTHER -> c

HandleHkReply(c, token, reply) ==
    Expect(IF reply.kind = "Ack" THEN CompletionSuccess(c, token)
                                 ELSE CompletionFailure(c, token, 0))

\* The modes that were expected and reached do not fit the source data buffer.
HandleModeReply(c, token, reply) ==
    LET sent == SendTm(c, OtherTm("ModeReply"))
    IN  CASE reply.kind = "ModeReply" ->
                IF sent.result = "ok" THEN CompletionSuccess(sent, token) ELSE sent
          [] reply.kind = "CantReachMode" -> CompletionFailure(c, token, 0)
          [] OTHER -> CompletionFailure(c, token, 2 * ModeAndSubmodeLen)

HandleReply(c, service, token, reply) ==
    CASE ~ TokenIs(token, "Started") -> Panic(c)
      [] TokenIs(token, "Started") /\ service = "Action" ->
            HandleActionReply(c, token, reply)
      [] TokenIs(token, "Started") /\ service = "Housekeeping" ->
            HandleHkReply(c, token, reply)
      [] OTHER -> HandleModeReply(c, token, reply)

Ends(c, reply) == c.result = "err" \/ reply.kind \notin Progress

\* The entry is removed only after an error.
AfterReply_OnlyErrors(map, raw, c, reply) ==
    IF c.result = "err" THEN Remove(map, {raw}) ELSE map

AfterReply(map, raw, c, reply) ==
    IF Ends(c, reply) /\ c.result # "panic" THEN Remove(map, {raw}) ELSE map

ReplyHandled(c) == c.result = "ok"

ReplyStage(service) ==
    CASE service = "Action" -> "Action_reply"
      [] service = "Housekeeping" -> "Housekeeping_reply"
      [] service = "Mode" -> "Mode_reply"

TargetedReply(service) ==
    /\ At(ReplyStage(service))
    /\ replies[service] # << >>
    /\ replies' = [replies EXCEPT ![service] = Tail(@)]
    /\ \E room \in Rooms, reply \in {Head(replies[service])} :
          IF reply.id \notin DOMAIN active[service]
          THEN NoEffects /\ MoveOn(TRUE) /\ UNCHANGED active
          ELSE \E c \in {HandleReply(NewContext(room), service,
                                     active[service][reply.id].token, reply)} :
                  /\ active' = [active EXCEPT ![service] =
                                   AfterReply(@, reply.id, c, reply)]
                  /\ Effects(c, "pus")
                  /\ MoveOn(ReplyHandled(c))
    /\ UNCHANGED <<static, plan, source, pool, queues, requests, sched, ev, log, leaked, tcs>>

NoReply(service) ==
    /\ At(ReplyStage(service))
    /\ replies[service] = << >>
    /\ MoveOn(FALSE)
    /\ NoEffects
    /\ UNCHANGED <<static, plan, source, pool, queues, active, requests, replies, sched,
                   ev, log, leaked, tcs>>

TimedOut(map) == {r \in DOMAIN map : map[r].timed_out}

\* A request that has timed out is removed, and nothing is reported.
CheckForRequestTimeouts ==
    active' = [s \in Targeted |-> Remove(active[s], TimedOut(active[s]))]

\* The end of a round.
Check ==
    /\ At("check")
    /\ IF pus.nothing_to_do
       THEN /\ CheckForRequestTimeouts
            /\ pus' = [pus EXCEPT !.stage = 1]
       ELSE /\ UNCHANGED active
            /\ pus' = IF pus.loops + 1 >= MaxLoops
                      THEN [pus EXCEPT !.stage = 1]
                      ELSE [stage |-> FirstService, nothing_to_do |-> TRUE, loops |-> pus.loops + 1]
    /\ NoEffects
    /\ UNCHANGED <<static, plan, source, pool, queues, requests, replies, sched, ev, log,
                   leaked, tcs>>
-----------------------------------------------------------------------------
(***************************************************************************)
(* The rest of the program and of the world: a target takes a request and  *)
(* answers it in any of several ways, or not at all; a request gets old;   *)
(* the release time of a scheduled telecommand is reached.                 *)
(***************************************************************************)
Answered(request, answer) ==
    [i \in DOMAIN answer |->
        [id |-> request.id, kind |-> answer[i].kind, params |-> answer[i].params]]

TargetHandles(target, queue) ==
    /\ requests[target][queue] # << >>
    /\ requests' = [requests EXCEPT ![target][queue] = Tail(@)]
    /\ LET request == Head(requests[target][queue])
       IN  \E answer \in Answers[request.service] :
              replies' = [replies EXCEPT ![request.service] =
                             @ \o Answered(request, answer)]
    /\ NoEffects
    /\ UNCHANGED <<static, plan, source, pool, queues, active, sched, ev, log, pus,
                   leaked, tcs>>

Expire(service, raw) ==
    /\ raw \in DOMAIN active[service]
    /\ ~ active[service][raw].timed_out
    /\ active' = [active EXCEPT ![service][raw].timed_out = TRUE]
    /\ NoEffects
    /\ UNCHANGED <<static, plan, source, pool, queues, requests, replies, sched,
                   ev, log, pus, leaked, tcs>>

BecomeDue(i) ==
    /\ i \in DOMAIN sched.entries
    /\ ~ sched.entries[i].due
    /\ sched' = [sched EXCEPT !.entries[i].due = TRUE]
    /\ NoEffects
    /\ UNCHANGED <<static, plan, source, pool, queues, active, requests, replies,
                   ev, log, pus, leaked, tcs>>

PusThread ==
    \/ EventRequests
    \/ TryEventRouting
    \/ EventReport
    \/ ReleaseTcs
    \/ TestService
    \/ EventService
    \/ SchedulingService
    \/ \E s \in Services : NothingQueued(s)
    \/ \E s \in Targeted : TargetedService(s)
    \/ \E s \in Targeted : TargetedReply(s)
    \/ \E s \in Targeted : NoReply(s)
    \/ Check

TargetSteps == \E t \in Targets, q \in {"composite", "mode"} : TargetHandles(t, q)

Expiry == \E s \in Targeted : \E raw \in DOMAIN active[s] : Expire(s, raw)

Next ==
    \/ Ground
    \/ CommandAction
    \/ RaiseEvent
    \/ Distribute
    \/ PusThread
    \/ TargetSteps
    \/ Expiry
    \/ \E i \in DOMAIN sched.entries : BecomeDue(i)

\* The threads are periodic and take their steps for ever; a target that is
\* still running takes its requests, and the clock goes on.
Spec ==
    /\ Init
    /\ [][Next]_vars
    /\ WF_vars(Distribute)
    /\ WF_vars(PusThread)
    /\ WF_vars(TargetSteps)
    /\ WF_vars(Expiry)
-----------------------------------------------------------------------------
Messages == {source[i] : i \in DOMAIN source}
                \cup UNION {{queues[s][i] : i \in DOMAIN queues[s]} : s \in Services}

\* The places that hold a telecommand of the TC pool.
Holders(a) ==
    {<<"source", i>> : i \in {j \in DOMAIN source : source[j].addr = a}}
        \cup UNION {{<<s, i>> : i \in {j \in DOMAIN queues[s] : queues[s][j].addr = a}}
                        : s \in Services}

\* Telecommands with a request ID that their service has not taken yet.
Queued(id) ==
    Cardinality(UNION {{<<s, i>> : i \in {j \in DOMAIN queues[s] :
                                             queues[s][j].token.request_id = id}}
                           : s \in Services})

ActiveIn(id) == {s \in Targeted : RequestIdRaw(id) \in DOMAIN active[s]}

\* Requests that the event handler has still to complete.
Handed(id) ==
    Cardinality({i \in DOMAIN ev.requests : ev.requests[i].token.request_id = id})

Open(id) == Queued(id) + Handed(id) + Cardinality(ActiveIn(id))

Completions(id) ==
    reports[id].CompletionSuccess + reports[id].CompletionFailure + reports[id].StepFailure

Starts(id) == reports[id].StartSuccess + reports[id].StartFailure

\* The blocks of the TC pool: what a message of the TC source or of a service
\* refers to is in the pool, holds that telecommand and belongs to no other
\* message; and a block that no message refers to is one whose address could
\* not be sent, or whose telecommand the distributor gave to no service.
BlocksOwned ==
    /\ \A message \in Messages :
          message.addr # 0 => pool[message.addr] = message.tc
    /\ \A a \in Addrs :
          Cardinality(Holders(a)) = (IF pool[a] # NoTc /\ a \notin leaked THEN 1 ELSE 0)

\* The token that a telecommand or an active request is kept with is the one
\* of its own request ID and of the stage that it has reached.
TokensRight ==
    /\ \A s \in Services : \A i \in DOMAIN queues[s] :
          queues[s][i].token = Token("Accepted", RequestIdNew(queues[s][i].tc))
    /\ \A s \in Targeted : \A raw \in DOMAIN active[s] :
          raw \in RawIds /\ active[s][raw].token = Token("Started", RequestIdFrom(raw))

\* No telecommand ends twice, and none ends while it is still being worked on:
\* the completion reports of a request ID and the telecommands and requests
\* with this ID that are open are together no more than its acceptances.
\* Likewise for the start of execution.  The tokens, which are copied freely,
\* always name the request that they stand for.
EndsOnce ==
    /\ TokensRight
    /\ \A id \in Ids :
          /\ Completions(id) + Open(id) <= reports[id].AcceptanceSuccess
          /\ Starts(id) + Queued(id) <= reports[id].AcceptanceSuccess

\* A report that was not sent although the telemetry sender had room.
TooLong(reply) ==
    \/ reply.kind = "WrongMode"
    \/ reply.kind = "StepFailed" /\ ~ SourceBufferLargeEnough(FailLen(StepLen, ParamsLen(reply.params)))
    \/ reply.kind = "CompletionFailed" /\ ~ SourceBufferLargeEnough(FailLen(0, ParamsLen(reply.params)))

Excused(id) ==
    \/ dead' # dead
    \/ failed' # failed
    \/ Stages[pus.stage] = "check" /\ \E s \in ActiveIn(id) :
          active[s][RequestIdRaw(id)].timed_out
    \/ \E s \in ActiveIn(id) :
          \/ /\ replies[s] # << >> /\ replies'[s] = Tail(replies[s])
             /\ TooLong(Head(replies[s]))
          \/ /\ queues[s] # << >> /\ queues'[s] = Tail(queues[s])
             /\ Head(queues[s]).token.request_id = id
    \/ /\ queues.Scheduling # << >> /\ queues'.Scheduling = Tail(queues.Scheduling)
       /\ Head(queues.Scheduling).tc.subservice \notin {"Enable", "Disable", "Reset", "Insert"}
    \/ /\ queues.Event # << >> /\ queues'.Event = Tail(queues.Event)
       /\ ~ IsEventRequest(Head(queues.Event).tc)

\* Nothing ends in silence: when a telecommand or a request is no longer open
\* the ground has got a completion report or a start failure for it in the
\* same step, except where the code gives up: a panic, a full telemetry
\* sender, a request that timed out, a failure report that is too long for the
\* buffer of the reporter, an active request overwritten by one of the same
\* ID, a subservice that the scheduling service does not know, and one that
\* is no request, or has no event ID, of the event service.
NoSilentEnd ==
    [][\A id \in Ids : Open(id)' < Open(id) =>
           \/ Completions(id)' > Completions(id)
           \/ reports'[id].StartFailure > reports[id].StartFailure
           \/ Excused(id)]_vars

\* The PUS thread waits for itself: the test service sends an event to a full
\* queue, which only the event handling of this thread empties.
WaitsForItself ==
    /\ At("Test")
    /\ queues.Test # << >>
    /\ Head(queues.Test).tc.subservice = "TestEvent"
    /\ Len(ev.inbox) = EventLen

\* Every telecommand that was accepted is done at some time: it leaves its
\* queue, and its request is answered or times out, unless a thread has
\* panicked or the PUS thread waits for itself.
RequestsEnd ==
    []<>((\A id \in Ids : Open(id) = 0) \/ dead # {} \/ WaitsForItself)

\* No event is lost without a cause: of every event that the manager has
\* routed, the event handler has taken, or still has waiting, as many messages
\* as it has subscriptions that match, except those for which its queue had no
\* room.  (try_event_handling, the listener map and the bounded senders.)
EventsAccounted ==
    \A event \in Events :
        LET waiting == {i \in DOMAIN ev.queues[PusEventManagement] :
                           ev.queues[PusEventManagement][i].event = event}
        IN  log.routed[event] * log.copies[event]
                = log.taken[event] + Cardinality(waiting) + log.lost[event]

\* The reports of an event are on as long as the ground has done nothing about
\* them, or since the completion of a request to enable them was reported; with
\* the heapless map only in the second case, as it keeps the enabled events
\* where its documentation says the disabled ones.
ReportsOn(event) ==
    log.told[event] = "Enabled" \/ (log.told[event] = "Nothing" /\ ev.backend = "default")

\* The next event can be reported: the report fits the buffer, and the build is
\* not the static one, whose sender refuses all reports of the event handler.
ReportPossible == ~ static /\ EventTmFits(Head(ev.queues[PusEventManagement]).params)

\* What the ground was told holds when the event handler takes an event: with
\* its reports on it is reported once, or else the thread panics, if the report
\* is not possible; with its reports off there is neither a report nor a panic.
DisabledIsSilent ==
    [][\A event \in Events : log'.taken[event] > log.taken[event] =>
          /\ log'.reported[event] =
                log.reported[event] + (IF ReportsOn(event) /\ ReportPossible THEN 1 ELSE 0)
          /\ dead' = IF ReportsOn(event) /\ ~ ReportPossible THEN dead \cup {"pus"} ELSE dead]_vars
=============================================================================
