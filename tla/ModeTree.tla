------------------------------ MODULE ModeTree ------------------------------
(***************************************************************************)
(* A tree of mode handlers on the messaging interfaces of satrs/src/mode.rs*)
(* and request.rs, as satrs/tests/mode_tree.rs builds it: a mode service,  *)
(* an assembly below it, and devices below both.  Every node runs in a     *)
(* thread of its own, as the handlers of the example do; one that panics   *)
(* takes its receivers and senders with it.                                *)
(*                                                                         *)
(* tree.orders is what the service sends, tree.heard the replies that it   *)
(* has taken, and tree.announced the announcements, which the code prints. *)
(***************************************************************************)
EXTENDS Messaging, FiniteSets

LOCAL INSTANCE SequencesExt

TreeDevices == {"dev1", "dev2"}

TreeNodes == TreeDevices \cup {"assy", "pus"}

\* The channels, which are all bounded.
RequestsTo == [dev1 |-> "to_dev1", dev2 |-> "to_dev2", assy |-> "to_assy"]

RepliesTo == [assy |-> "assy_rx", pus |-> "pus_rx"]

TreeChannels == {"to_dev1", "to_dev2", "to_assy", "assy_rx", "pus_rx"}

ASSUME TreeAssumption == TreeChannels \subseteq DOMAIN Capacity

VARIABLE tree

PusNode ==
    FoldLeft(LAMBDA node, n : AddTarget(node, n, RequestsTo[n]),
             NewSenderAndReceiver("pus", RepliesTo.pus), <<"assy", "dev1", "dev2">>)

DeviceNode(d) ==
    AddTarget(AddTarget(NewSenderAndReceiver(d, RequestsTo[d]), "assy", RepliesTo.assy),
              "pus", RepliesTo.pus)

AssemblyNode ==
    AddReplyTarget(
        FoldLeft(LAMBDA node, d : AddRequestTarget(node, d, RequestsTo[d]),
                 NewRequestAndReply("assy", RequestsTo.assy, RepliesTo.assy), <<"dev1", "dev2">>),
        "pus", RepliesTo.pus)

NewTree(orders) ==
    [orders |-> orders, given |-> 0, chans |-> [c \in TreeChannels |-> << >>],
     mode |-> [n \in TreeDevices \cup {"assy"} |-> "Off"], target |-> << >>,
     assy_pc |-> "requests", dead |-> {}, heard |-> << >>, announced |-> << >>]

Alive(n) == n \notin tree.dead

\* The channels whose receiver exists, and those that a sender exists for.
TreeOpen ==
    {RequestsTo[n] : n \in TreeNodes \ (tree.dead \cup {"pus"})}
        \cup {RepliesTo[n] : n \in {"assy", "pus"} \ tree.dead}

TreeSenders ==
    LET targets(n) ==
          CASE n = "pus" -> Range(PusNode.message_sender_map)
            [] n = "assy" -> Range(AssemblyNode.request_sender_map)
                                 \cup Range(AssemblyNode.reply_sender_map)
            [] OTHER -> Range(DeviceNode(n).message_sender_map)
    IN  UNION {targets(n) : n \in TreeNodes \ tree.dead}

Panicked(t, n) == [t EXCEPT !.dead = @ \cup {n}]

\* The result of a send that is unwrapped.
Unwrap(t, n, sent) ==
    IF sent.result = "Ok" THEN [t EXCEPT !.chans = sent.chans] ELSE Panicked(t, n)

Announced(t, n, request) ==
    [t EXCEPT !.announced = Append(@, [node |-> n, request_id |-> request.requestor_info.request_id])]
-----------------------------------------------------------------------------
(* The mode service *)

PusOrder ==
    /\ Alive("pus") /\ tree.given < Len(tree.orders)
    /\ LET order == tree.orders[tree.given + 1]
           sent == SendModeRequest(PusNode, tree.chans, TreeOpen, tree.given, order.to,
                                   ModeRequest(order.kind, order.mode))
       IN  tree' = IF sent.result = "Ok"
                   THEN [tree EXCEPT !.chans = sent.chans, !.given = @ + 1]
                   ELSE Panicked(tree, "pus")

\* The service polls its replies when it likes.
PusHear ==
    /\ Alive("pus")
    /\ LET received == TryRecvMessage(PusNode, tree.chans, TreeSenders)
       IN  /\ received.result = "Some"
           /\ tree' = [tree EXCEPT !.chans = received.chans, !.heard = @ \o received.message]
-----------------------------------------------------------------------------
(* TestDevice *)

DeviceReply(t, d, requestor_info) ==
    Unwrap(t, d, ReplyOfHandler(DeviceNode(d), t.chans, TreeOpen, requestor_info,
                                ModeReply(t.mode[d])))

\* handle_mode_request with the methods of the device.
DeviceHandles(t, d, request) ==
    CASE request.message.kind = "SetMode" ->
           DeviceReply([t EXCEPT !.mode[d] = request.message.mode], d, request.requestor_info)
      [] request.message.kind = "ReadMode" -> DeviceReply(t, d, request.requestor_info)
      [] request.message.kind \in {"AnnounceMode", "AnnounceModeRecursive"} ->
           Announced(t, d, request)
      [] request.message.kind = "ModeInfo" -> t

DeviceRun(d) ==
    /\ Alive(d)
    /\ LET received == TryRecvMessage(DeviceNode(d), tree.chans, TreeSenders)
           taken == [tree EXCEPT !.chans = received.chans]
       IN  /\ received.result # "None"
           /\ tree' = IF received.result = "Some"
                      THEN DeviceHandles(taken, d, received.message[1])
                      ELSE Panicked(tree, d)
-----------------------------------------------------------------------------
(* TestAssembly *)

\* Mutant: the forwarded announcement has no request ID.
Forward_NoId(request) ==
    GenericMessage(MessageMetadata(0, AssemblyNode.local_channel_id),
                   ModeRequest(request.message.kind, request.message.mode))

\* An announcement goes on with the ID of the request, and with the assembly
\* as its sender.
Forward(request) ==
    GenericMessage(MessageMetadata(request.requestor_info.request_id, AssemblyNode.local_channel_id),
                   ModeRequest(request.message.kind, request.message.mode))

\* announce_mode: to one child after the other, in the order of the hash map,
\* until a queue is full.
AnnounceMode(t, request, children) ==
    FoldLeft(LAMBDA u, d :
                 IF "assy" \in u.dead THEN u
                 ELSE Unwrap(u, "assy", Send(u.chans, TreeOpen,
                                             AssemblyNode.request_sender_map[d], Forward(request))),
             Announced(t, "assy", request), children)

\* A mode command is kept and not carried out.
AssemblyHandles(t, request, children) ==
    CASE request.message.kind = "SetMode" ->
           [t EXCEPT !.target = <<request.requestor_info, request.message.mode>>]
      [] request.message.kind = "ReadMode" ->
           Unwrap(t, "assy", ReplyOfInterface(AssemblyNode, t.chans, TreeOpen,
                                              request.requestor_info, ModeReply(t.mode.assy)))
      [] request.message.kind \in {"AnnounceMode", "AnnounceModeRecursive"} ->
           AnnounceMode(t, request, children)
      [] request.message.kind = "ModeInfo" -> Panicked(t, "assy")

\* The first half of run: check_mode_requests.
CheckModeRequests(children) ==
    /\ Alive("assy") /\ tree.assy_pc = "requests"
    /\ LET received == TryRecvModeRequest(AssemblyNode, tree.chans, TreeSenders)
           taken == [tree EXCEPT !.chans = received.chans, !.assy_pc = "replies"]
       IN  tree' = CASE received.result = "None" -> taken
                     [] received.result = "Some" ->
                          AssemblyHandles(taken, received.message[1], children)
                     [] OTHER -> Panicked(tree, "assy")

\* The second half: check_mode_replies, which prints a reply.
CheckModeReplies ==
    /\ Alive("assy") /\ tree.assy_pc = "replies"
    /\ LET received == TryRecvModeReply(AssemblyNode, tree.chans, TreeSenders)
       IN  tree' = IF received.result = "TxDisconnected" THEN Panicked(tree, "assy")
                   ELSE [tree EXCEPT !.chans = received.chans, !.assy_pc = "requests"]
-----------------------------------------------------------------------------
TreeNext ==
    \/ PusOrder \/ PusHear
    \/ \E d \in TreeDevices : DeviceRun(d)
    \/ \E children \in {<<"dev1", "dev2">>, <<"dev2", "dev1">>} : CheckModeRequests(children)
    \/ CheckModeReplies
-----------------------------------------------------------------------------
(* Properties *)

Order(id) == tree.orders[id + 1]

\* The replies for the service, taken or not.
AllReplies == tree.heard \o tree.chans[RepliesTo.pus]

RepliesWith(id) ==
    {i \in DOMAIN AllReplies : AllReplies[i].requestor_info.request_id = id}

\* The requests with an ID that wait for a node, and what it has announced.
Waiting(n, id) ==
    Cardinality({i \in DOMAIN tree.chans[RequestsTo[n]] :
                    tree.chans[RequestsTo[n]][i].requestor_info.request_id = id})

Announcements(n, id) ==
    Cardinality({i \in DOMAIN tree.announced : tree.announced[i] = [node |-> n, request_id |-> id]})

\* The mode that a node has after the orders up to an ID: an assembly stays
\* as it is.
ModeAfter(n, id) ==
    LET set == {i \in 0..id : n # "assy" /\ Order(i).to = n /\ Order(i).kind = "SetMode"}
    IN  IF set = {} THEN "Off" ELSE Order(CHOOSE i \in set : \A j \in set : j <= i).mode

\* A mode command or question is answered at most once, by its target, with
\* the mode that follows from the orders up to it; and if the target is alive
\* and has taken it, it is answered (an assembly does not answer commands).
RepliedRight(id) ==
    /\ Cardinality(RepliesWith(id)) <= 1
    /\ \A i \in RepliesWith(id) :
          /\ Order(id).kind \in {"SetMode", "ReadMode"}
          /\ AllReplies[i].requestor_info.sender_id = Order(id).to
          /\ AllReplies[i].message = ModeReply(ModeAfter(Order(id).to, id))
    /\ /\ Order(id).kind \in (IF Order(id).to = "assy" THEN {"ReadMode"} ELSE {"SetMode", "ReadMode"})
       /\ Alive(Order(id).to) /\ Waiting(Order(id).to, id) = 0
       => RepliesWith(id) # {}

\* An announcement reaches every node below its target once.
AnnouncedRight(id) ==
    LET order == Order(id)
        asked == order.kind \in {"AnnounceMode", "AnnounceModeRecursive"}
        below == IF order.to = "assy" THEN TreeDevices ELSE {}
        taken == Alive(order.to) /\ Waiting(order.to, id) = 0
    IN  /\ \A n \in DOMAIN RequestsTo :
              /\ Announcements(n, id) + Waiting(n, id) <= 1
              /\ Announcements(n, id) = 1 => asked /\ n \in {order.to} \cup below
        /\ asked /\ taken =>
              /\ Announcements(order.to, id) = 1
              /\ \A n \in below : Alive(n) => Announcements(n, id) + Waiting(n, id) = 1

\* Whatever the order in which the nodes run, and whichever of them has been
\* ended by a full queue, replies and announcements match the requests: the
\* sender and the ID in the metadata, which the interfaces rewrite on every
\* hop, are all that leads a reply back.
TreeAnswers ==
    \A id \in 0..(tree.given - 1) : RepliedRight(id) /\ AnnouncedRight(id)
=============================================================================
