-------------------------- MODULE EventManagement ---------------------------
(***************************************************************************)
(* Events as operators on the state of the event handling: event IDs       *)
(* (satrs/src/events.rs), the event manager with its maps of listeners and *)
(* senders (event_man.rs), the PUS 5 event reports and the map of events   *)
(* for which they are disabled (pus/event.rs, pus/event_man.rs), and the   *)
(* event handler of the example (events.rs).                               *)
(*                                                                         *)
(* The state is a record: `inbox' is the queue to the manager, `queues'    *)
(* are those of the listeners that have a sender, `requests' the one from  *)
(* the event service to the event handler, and `reporting' the set that    *)
(* the backend `backend' of the reporting map keeps.                       *)
(***************************************************************************)
EXTENDS Verification, FiniteSets, TLC

CONSTANTS
    GroupBits,      \* widths of the parts of an event ID after the severity:
    UniqueBits,     \* 14 and 16, or 6 and 8, in the code
    EventLen,       \* length of the queue to the event manager
    ListenerLen,    \* length of the queues of the listeners
    MapLen          \* size of the heapless reporting map

ASSUME EventAssumption ==
    /\ {GroupBits, UniqueBits} \subseteq Nat
    /\ {EventLen, ListenerLen, MapLen} \subseteq Nat \ {0}

\* What is used of powers of two.
ASSUME EventPowers ==
    /\ {2^GroupBits, 2^UniqueBits} \subseteq Nat \ {0}
    /\ 2^(GroupBits + UniqueBits) = 2^GroupBits * 2^UniqueBits

Severities == <<"Info", "Low", "Medium", "High">>

SeverityCode(severity) == CHOOSE i \in 0..3 : Severities[i + 1] = severity

\* Severity::try_from: the code masks two bits and unwraps.
SeverityFrom(code) == Severities[code + 1]

MaxGroupId == 2^GroupBits - 1

EventIds ==
    [severity : {Severities[i] : i \in 1..4}, group_id : 0..MaxGroupId,
     unique_id : 0..(2^UniqueBits - 1)]

\* new_checked; new panics where this is not an event.
NewChecked(severity, group_id, unique_id) ==
    IF group_id > MaxGroupId THEN << >>
    ELSE <<[severity |-> severity, group_id |-> group_id, unique_id |-> unique_id]>>

Raw(event) ==
    SeverityCode(event.severity) * 2^(GroupBits + UniqueBits)
        + event.group_id * 2^UniqueBits + event.unique_id

EventFrom(raw) ==
    NewChecked(SeverityFrom((raw \div 2^(GroupBits + UniqueBits)) % 4),
               (raw \div 2^UniqueBits) % 2^GroupBits, raw % 2^UniqueBits)[1]

\* try_from of an event type with a fixed severity.
TypedFrom(severity, raw) ==
    IF EventFrom(raw).severity # severity THEN << >> ELSE <<EventFrom(raw)>>

\* Raw values and event IDs are the same thing, and the typed conversion
\* accepts a raw value for exactly one severity.
ASSUME EventIdsAssumption ==
    \A event \in EventIds :
        /\ EventFrom(Raw(event)) = event
        /\ \A s \in {Severities[i] : i \in 1..4} :
              (TypedFrom(s, Raw(event)) # << >>) <=> s = event.severity
-----------------------------------------------------------------------------
(* The event manager.  A component is a number; params are their kind and  *)
(* their length.                                                           *)

EventMessage(sender_id, event, params) ==
    [sender_id |-> sender_id, event |-> event, params |-> params]

NoParams == [kind |-> "None", len |-> 0]

Single(event) == <<"Single", Raw(event)>>

Group(group_id) == <<"Group", group_id>>

All == <<"All">>

NewEventManager ==
    [listeners |-> [key \in {} |-> << >>], queues |-> [id \in {} |-> << >>]]

ContainsListener(ev, key) == key \in DOMAIN ev.listeners

AddListener(ev, key, id) ==
    [ev EXCEPT !.listeners =
        IF ContainsListener(ev, key) THEN [@ EXCEPT ![key] = Append(@, id)]
                                     ELSE key :> <<id>> @@ @]

\* Vec::dedup: of equal neighbours the first stays.
Dedup(ids) ==
    LET first == SelectSeq([i \in DOMAIN ids |-> i], LAMBDA i : i = 1 \/ ids[i] # ids[i - 1])
    IN  [i \in DOMAIN first |-> ids[first[i]]]

\* The list is sorted before equal neighbours are removed.
RemoveDuplicates(ev, key) ==
    IF ContainsListener(ev, key)
    THEN [ev EXCEPT !.listeners[key] = Dedup(SortSeq(@, <))]
    ELSE ev

\* The first sender for an ID stays.
AddSender(ev, id) ==
    IF id \in DOMAIN ev.queues THEN ev ELSE [ev EXCEPT !.queues = id :> << >> @@ @]

GetListenerIds(ev, key) == IF ContainsListener(ev, key) THEN ev.listeners[key] ELSE << >>

\* Mutant: the bounded sender overwrites what waits in a full queue.
SendEvent_Overwrite(queues, id, message) ==
    IF id \notin DOMAIN queues THEN queues
    ELSE [queues EXCEPT ![id] =
             IF Len(@) < ListenerLen THEN Append(@, message) ELSE <<message>>]

\* send of a bounded sender, and the error handler of the example, which logs
\* that an ID has no sender or that a queue is full.
SendEvent(queues, id, message) ==
    IF id \in DOMAIN queues /\ Len(queues[id]) < ListenerLen
    THEN [queues EXCEPT ![id] = Append(@, message)]
    ELSE queues

\* The queues after the message was sent to the listeners of a key, one by one.
SendToListeners(queues, ids, message) ==
    LET after[n \in 0..Len(ids)] ==
            IF n = 0 THEN queues ELSE SendEvent(after[n - 1], ids[n], message)
    IN  after[Len(ids)]

\* try_event_handling takes one event.
TryEventHandling(ev) ==
    LET message == Head(ev.inbox)
        ids(key) == GetListenerIds(ev, key)
        single == SendToListeners(ev.queues, ids(Single(message.event)), message)
        group == SendToListeners(single, ids(Group(message.event.group_id)), message)
    IN  IF ev.inbox = << >> THEN ev
        ELSE [ev EXCEPT !.inbox = Tail(@), !.queues = SendToListeners(group, ids(All), message)]

\* The calls that set a manager up: a subscription, a sender, or the removal
\* of duplicate subscriptions.
SetUp(ev, call) ==
    CASE call.op = "subscribe" -> AddListener(ev, call.key, call.id)
      [] call.op = "add_sender" -> AddSender(ev, call.id)
      [] call.op = "remove_duplicates" -> RemoveDuplicates(ev, call.key)

PusEventManagement == 1

PusTestService == 2

\* PusEventHandler::new, in an EventHandler on which other components have
\* made some calls.
ExampleCalls ==
    <<[op |-> "subscribe", key |-> All, id |-> PusEventManagement],
      [op |-> "add_sender", key |-> All, id |-> PusEventManagement]>>

NewEventHandler(calls, backend) ==
    LET all == ExampleCalls \o calls
        after[n \in 0..Len(all)] ==
            IF n = 0 THEN NewEventManager ELSE SetUp(after[n - 1], all[n])
        manager == after[Len(all)]
    IN  [inbox |-> << >>, listeners |-> manager.listeners, queues |-> manager.queues,
         requests |-> << >>, reporting |-> {}, backend |-> backend]
-----------------------------------------------------------------------------
(* Event telemetry *)

\* Mutant: the severity of the event is not compared.
EventEnabled_AnySeverity(ev, event) ==
    LET same == {e \in ev.reporting : e.group_id = event.group_id /\ e.unique_id = event.unique_id}
    IN  (ev.backend = "default") <=> (same = {})

\* event_enabled of the default map, which keeps the disabled events, and of
\* the heapless one, which keeps the events that were enabled.
EventEnabled(ev, event) ==
    IF ev.backend = "default" THEN event \notin ev.reporting ELSE event \in ev.reporting

\* The heapless map has room for MapLen events.
CanEnable(ev, event) ==
    ev.backend = "heapless" =>
        event \in ev.reporting \/ Cardinality(ev.reporting) < MapLen

EnableEventReporting(ev, event) ==
    [ev EXCEPT !.reporting =
        IF ev.backend = "default" THEN @ \ {event} ELSE @ \cup {event}]

DisableEventReporting(ev, event) ==
    [ev EXCEPT !.reporting =
        IF ev.backend = "default" THEN @ \cup {event} ELSE @ \ {event}]

EventIdSize == 4

\* The buffer of the event reporter of the example, and that for parameters.
SourceDataBuf == 128

SmallDataBuf == 64

\* The parameters in the report: all of the small buffer for heapless ones,
\* and none for an address of a pool.
ReportedLen(params) ==
    CASE params.kind = "Heapless" -> SmallDataBuf
      [] params.kind \in {"Vec", "String"} -> params.len
      [] params.kind \in {"None", "Store"} -> 0

\* generate_generic_event_tm of the report creator.
EventTmFits(params) == EventIdSize + ReportedLen(params) <= SourceDataBuf

EventTm(event) == [subservice |-> event.severity]

\* event_info and its likes of the reporter create the packet and send it.
ReportEvent(c, event, params) ==
    IF EventTmFits(params) THEN SendTm(c, EventTm(event)) ELSE [c EXCEPT !.result = "err"]

GeneratePusEventTm(c, ev, event, params) ==
    IF EventEnabled(ev, event) THEN ReportEvent(c, event, params) ELSE c
-----------------------------------------------------------------------------
(* The event service and the event handler of the example *)

EventRequest(enable, raw, token) ==
    [enable |-> enable, raw |-> raw, event |-> EventFrom(raw), token |-> token]

IsEventRequest(tc) == tc.subservice \in {"EnableEvents", "DisableEvents"} /\ tc.len >= EventIdSize

\* poll_and_handle_next_tc of the service: what it reports ...
HandleEventTc(c, tc, token) == IF IsEventRequest(tc) THEN StartSuccess(c, token) ELSE c

\* ... and what it hands to the event handler, with the token of the start
\* report, or the accepted one if that could not be sent.
AfterEventTc(ev, c, tc, token) ==
    IF IsEventRequest(tc)
    THEN [ev EXCEPT !.requests = Append(@,
             EventRequest(tc.subservice = "EnableEvents", tc.event,
                          IF c.result = "ok" THEN c.token ELSE token))]
    ELSE ev

\* Without app data, or for a subservice that is not one of these, the
\* service returns an error or the telecommand to the example, which logs it.
EventTcHandled(tc) ==
    tc.subservice # "Report" /\ (tc.subservice \in {"EnableEvents", "DisableEvents"} => IsEventRequest(tc))

\* One turn of handle_event_requests: the map, and the completion report.
AfterEventRequest(ev) ==
    LET request == Head(ev.requests)
        rest == [ev EXCEPT !.requests = Tail(@)]
    IN  CASE ~ request.enable -> DisableEventReporting(rest, request.event)
          [] request.enable /\ CanEnable(ev, request.event) ->
                EnableEventReporting(rest, request.event)
          [] OTHER -> rest

HandleEventRequest(c, ev) ==
    LET request == Head(ev.requests)
    IN  IF TokenIs(request.token, "Started") /\ (request.enable => CanEnable(ev, request.event))
        THEN Expect(CompletionSuccess(c, request.token))
        ELSE [c EXCEPT !.result = "panic"]

\* One turn of generate_pus_event_tm.
HandleEvent(c, ev) ==
    LET message == Head(ev.queues[PusEventManagement])
    IN  Expect(GeneratePusEventTm(c, ev, message.event, message.params))

AfterEvent(ev) == [ev EXCEPT !.queues[PusEventManagement] = Tail(@)]
=============================================================================
