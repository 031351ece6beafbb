----------------------------- MODULE Messaging ------------------------------
(***************************************************************************)
(* Messages between components (satrs/src/request.rs, mode.rs, power.rs):  *)
(* the metadata, the channels of the standard library as the code uses     *)
(* them, the maps from component IDs to senders, and the interfaces made   *)
(* of a map and a receiver.  chans holds what is in each channel, open the *)
(* channels whose receiver still exists.                                   *)
(***************************************************************************)
EXTENDS Naturals, Sequences, TLC

CONSTANTS
    Capacity        \* the bounded channels and their size

ASSUME MessagingAssumption == \A c \in DOMAIN Capacity : Capacity[c] \in Nat \ {0}

MessageMetadata(request_id, sender_id) ==
    [request_id |-> request_id, sender_id |-> sender_id]

GenericMessage(requestor_info, message) ==
    [requestor_info |-> requestor_info, message |-> message]

IsFull(chans, c) == c \in DOMAIN Capacity /\ Len(chans[c]) >= Capacity[c]

Pushed(chans, c, message) == [chans EXCEPT ![c] = Append(@, message)]

\* send of MessageSender, for both kinds of senders: never blocks.
Send(chans, open, c, message) ==
    CASE c \notin open -> [result |-> "RxDisconnected", chans |-> chans]
      [] c \in open /\ IsFull(chans, c) -> [result |-> "QueueFull", chans |-> chans]
      [] OTHER -> [result |-> "Ok", chans |-> Pushed(chans, c, message)]
-----------------------------------------------------------------------------
(* MessageSenderMap and MessageSenderAndReceiver *)

NoTargets == [target \in {} |-> ""]

AddMessageTarget(map, target_id, c) == target_id :> c @@ map

SendMessage(map, chans, open, requestor_info, target_id, message) ==
    IF target_id \in DOMAIN map
    THEN Send(chans, open, map[target_id], GenericMessage(requestor_info, message))
    ELSE [result |-> "TargetDoesNotExist", chans |-> chans]

NewSenderAndReceiver(local_channel_id, receiver) ==
    [local_channel_id |-> local_channel_id, message_sender_map |-> NoTargets,
     message_receiver |-> receiver]

AddTarget(interface, target_id, c) ==
    [interface EXCEPT !.message_sender_map = AddMessageTarget(@, target_id, c)]

\* send_mode_request of a ModeRequestorInterface.
SendModeRequest(interface, chans, open, request_id, target_id, request) ==
    SendMessage(interface.message_sender_map, chans, open,
                MessageMetadata(request_id, interface.local_channel_id), target_id, request)

\* RequestAndReplySenderAndReceiver, the interface of a node in the middle.
NewRequestAndReply(local_channel_id, request_receiver, reply_receiver) ==
    [local_channel_id |-> local_channel_id, request_sender_map |-> NoTargets,
     reply_receiver |-> reply_receiver, request_receiver |-> request_receiver,
     reply_sender_map |-> NoTargets]

AddRequestTarget(interface, target_id, c) ==
    [interface EXCEPT !.request_sender_map = AddMessageTarget(@, target_id, c)]

AddReplyTarget(interface, target_id, c) ==
    [interface EXCEPT !.reply_sender_map = AddMessageTarget(@, target_id, c)]

\* send_mode_reply of a map: the sender of the request is the target, the ID
\* is that of the request, and the sender is the node that replies.
SendReply(map, chans, open, local_channel_id, requestor_info, reply) ==
    SendMessage(map, chans, open,
                MessageMetadata(requestor_info.request_id, local_channel_id),
                requestor_info.sender_id, reply)

\* send_mode_reply of a ModeRequestHandlerInterface ...
ReplyOfHandler(interface, chans, open, requestor_info, reply) ==
    SendReply(interface.message_sender_map, chans, open, interface.local_channel_id,
              requestor_info, reply)

\* ... and of a ModeInterface.
ReplyOfInterface(interface, chans, open, requestor_info, reply) ==
    SendReply(interface.reply_sender_map, chans, open, interface.local_channel_id,
              requestor_info, reply)

\* try_recv of MessageReceiver.  senders are the channels that a sender is
\* left for: an empty one without a sender is an error.
TryRecv(chans, senders, c) ==
    CASE chans[c] # << >> ->
           [result |-> "Some", message |-> <<Head(chans[c])>>, chans |-> [chans EXCEPT ![c] = Tail(@)]]
      [] chans[c] = << >> /\ c \in senders ->
           [result |-> "None", message |-> << >>, chans |-> chans]
      [] OTHER -> [result |-> "TxDisconnected", message |-> << >>, chans |-> chans]

\* try_recv_mode_request and try_recv_mode_reply of the interfaces.
TryRecvMessage(interface, chans, senders) ==
    TryRecv(chans, senders, interface.message_receiver)

TryRecvModeRequest(interface, chans, senders) ==
    TryRecv(chans, senders, interface.request_receiver)

TryRecvModeReply(interface, chans, senders) ==
    TryRecv(chans, senders, interface.reply_receiver)
-----------------------------------------------------------------------------
(* Power switching *)

SwitchRequest(switch_id, target_state) ==
    [switch_id |-> switch_id, target_state |-> target_state]

\* send_switch_on_cmd and send_switch_off_cmd of a bounded sender.
SendSwitchCmd(chans, open, c, requestor_info, switch_id, target_state) ==
    Send(chans, open, c, GenericMessage(requestor_info, SwitchRequest(switch_id, target_state)))

\* SwitchState::from of a binary state.
SwitchStateFrom(state) == IF state = "Off" THEN "Off" ELSE "On"

\* SwitchMapWrapper::from_binary_switch_map_ref
FromBinarySwitchMap(switch_map) ==
    [switch \in DOMAIN switch_map |-> SwitchStateFrom(switch_map[switch])]

\* switch_state of PowerSwitchHelper.
SwitchState(switch_set, switch_id) ==
    CASE ~ switch_set.valid -> "SwitchSetInvalid"
      [] switch_set.valid /\ switch_id \notin DOMAIN switch_set.switch_map -> "SwitchIdNotInMap"
      [] OTHER -> switch_set.switch_map[switch_id]

SwitchInfoError(state) == state \in {"SwitchSetInvalid", "SwitchIdNotInMap"}
-----------------------------------------------------------------------------
(* Modes *)

DeviceModes == {"Off", "On", "Normal"}

\* OtherMode stands for the numbers that are no mode of a device.
Modes == DeviceModes \cup {"OtherMode"}

ModeRequestKinds == {"SetMode", "ReadMode", "AnnounceMode", "AnnounceModeRecursive", "ModeInfo"}

ModeRequest(kind, mode) == [kind |-> kind, mode |-> mode]

ModeReply(mode) == [kind |-> "ModeReply", mode |-> mode]
=============================================================================
