------------------------------ MODULE Devices -------------------------------
(***************************************************************************)
(* The device handlers of the example application and what they talk to:   *)
(* the magnetometer handler in the AOCS thread (satrs-example/src/acs/     *)
(* mgm.rs), the power unit handler in the EPS thread (eps/pcdu.rs), the    *)
(* switch set and the switch requests between them (eps/mod.rs), the       *)
(* simulator client (interface/sim_client_udp.rs) and the simulator behind *)
(* two lossy UDP directions.  Commands come from the PUS thread, from a    *)
(* component above the devices that uses the messaging interfaces of the   *)
(* library, from a holder of the switch helper, and from a second client   *)
(* of the simulator, in the order of a plan and at any time.               *)
(***************************************************************************)
EXTENDS MiniSim, Messaging, FiniteSets

CONSTANTS
    Plans,          \* the build, the commands, and whether the link has faults
    MaxLost,        \* bound: the datagrams that get lost
    MaxLate,        \* bound: the sensor replies that come after their time-out
    MaxInfo         \* bound: the switch info requests on their way at a time

Channels == {"mgm_comp", "mgm_mode", "pcdu_comp", "pcdu_mode", "switch"}

ASSUME DevicesAssumption ==
    /\ {MaxLost, MaxLate} \subseteq Nat
    /\ MaxInfo \in Nat \ {0}
    /\ Channels \subseteq DOMAIN Capacity

NoMode == "NoMode"

\* The receive buffer before the first reply, and what the dummy fills in.
Zeros == "Zeros"

Devs == {"mgm", "pcdu"}

Thread == [mgm |-> "aocs", pcdu |-> "eps"]

CompOf == [mgm |-> "mgm_comp", pcdu |-> "pcdu_comp"]

ModeOf == [mgm |-> "mgm_mode", pcdu |-> "pcdu_mode"]

VARIABLES
    plan,           \* the plan of this behaviour
    given,          \* the first so many commands of the plan have been given
    link,           \* what the devices are connected to
    chans,          \* the channels to the handlers
    dev,            \* where each handler is in its cycle, and its mode
    mgm,            \* ModeHelpers of the magnetometer, and its receive buffer
    mgm_set,        \* the shared data set of the magnetometer
    switch_set,     \* the shared switch set
    net,            \* everything between the handlers and the simulator
    sender,         \* the client the simulator answers
    sim,            \* the models of the simulator
    dead,           \* the threads that have panicked
    answers,        \* history: the replies sent to the PUS thread
    unsent,         \* history: the commands whose message was refused
    late,           \* the sensor replies that have missed their time-out
    missed,         \* history: some transfer has timed out
    lost            \* history: the datagrams lost so far

sim_vars == <<net, sender, sim, lost>>
data_vars == <<mgm_set, late, missed>>
vars == <<plan, given, link, chans, dev, mgm, switch_set, dead, answers, unsent,
          sim_vars, data_vars>>

Commands == plan.commands

\* The receivers a thread owns are gone once it has panicked.
Open == {c \in Channels :
            /\ c \in {CompOf.mgm, ModeOf.mgm} => "aocs" \notin dead
            /\ c \in {CompOf.pcdu, ModeOf.pcdu, "switch"} => "eps" \notin dead}

HasParent == \E i \in DOMAIN Commands : Commands[i].from = "parent"

\* The channels that no sender is left for: the router of the PUS thread has
\* the senders of the requests, a parent those of the mode requests, and the
\* main thread keeps the one that it starts the power unit with.
SendersGone(c) ==
    /\ "pus" \in dead
    /\ \/ c \in {CompOf.mgm, CompOf.pcdu}
       \/ c = ModeOf.mgm /\ ~ HasParent

Running(d) == link \in {"sim", "dummy"} /\ Thread[d] \notin dead

NewHelpers == [target |-> NoMode, requestor |-> MessageMetadata(0, "none"),
               transition_state |-> "Idle", rx |-> Zeros]

NewNet == [requests |-> << >>, up |-> << >>, sim_in |-> << >>, sim_out |-> << >>,
           down |-> << >>, mgm_rx |-> << >>, pcdu_rx |-> << >>]

StartPcdu == GenericMessage(MessageMetadata(0, "none"), ModeRequest("SetMode", "Normal"))

Init ==
    /\ plan \in Plans
    /\ given = 0
    /\ link = "none"
    /\ chans = [c \in Channels |-> IF c = ModeOf.pcdu THEN <<StartPcdu>> ELSE << >>]
    /\ dev = [d \in Devs |-> [pc |-> "comp", mode |-> "Off"]]
    /\ mgm = NewHelpers
    /\ mgm_set = [valid |-> FALSE, sample |-> Zeros]
    /\ switch_set = [valid |-> FALSE, switch_map |-> << >>]
    /\ net = NewNet
    /\ sender = "obsw"
    /\ sim = NewSim
    /\ dead = {}
    /\ answers = << >>
    /\ unsent = {}
    /\ late = 0 /\ missed = FALSE /\ lost = 0

\* create_sim_client: without a pong in time the devices are dummies, and an
\* answer that the request was invalid ends the program.
CreateSimClient(reply) ==
    /\ link = "none"
    /\ link' = CASE reply = "Pong" -> "sim"
                 [] reply = "InvalidRequest" -> "panicked"
                 [] OTHER -> "dummy"
    /\ UNCHANGED <<plan, given, chans, dev, mgm, switch_set, dead, answers, unsent,
                   sim_vars, data_vars>>
-----------------------------------------------------------------------------
(* What is commanded *)

Parent == AddTarget(AddTarget(NewSenderAndReceiver("parent", "parent_replies"),
                              "mgm", ModeOf.mgm), "pcdu", ModeOf.pcdu)

\* The PUS thread waits for room, the others are refused.
SendCommand(k, command) ==
    LET info == MessageMetadata(k, command.from)
    IN  CASE command.from = "parent" ->
               SendModeRequest(Parent, chans, Open, k, command.to, command.message)
          [] command.from = "helper" ->
               SendSwitchCmd(chans, Open, "switch", info, command.message.switch_id,
                             command.message.target_state)
          [] OTHER ->
               Send(chans, Open, command.to, GenericMessage(info, command.message))

Datagrams(from, messages) ==
    [i \in DOMAIN messages |-> [from |-> from, message |-> messages[i]]]

Command ==
    /\ link \in {"sim", "dummy"}
    /\ given < Len(Commands)
    /\ given' = given + 1
    /\ LET command == Commands[given + 1]
       IN  \/ /\ command.from \in {"pus", "parent", "helper"}
              /\ command.from = "pus" =>
                    "pus" \notin dead /\ ~ (command.to \in Open /\ IsFull(chans, command.to))
              /\ \E sending \in {SendCommand(given + 1, command)} :
                    /\ chans' = sending.chans
                    /\ unsent' = IF sending.result = "Ok" THEN unsent
                                 ELSE unsent \cup {given + 1}
              /\ UNCHANGED <<dead, net>>
           \/ /\ command.from = "other"
              /\ net' = [net EXCEPT !.up = @ \o Datagrams("other", command.messages)]
              /\ UNCHANGED <<chans, unsent, dead>>
           \/ /\ command.from = "panic"
              /\ dead' = dead \cup {"pus"}
              /\ UNCHANGED <<chans, unsent, net>>
    /\ UNCHANGED <<plan, link, dev, mgm, switch_set, answers, sender, sim, lost, data_vars>>
-----------------------------------------------------------------------------
(* Requests, as both handlers take them *)

PusListens == "pus" \notin dead

\* A reply to the mode or the housekeeping service.
Answer(requestor, kind, mode) ==
    Append(answers, [id |-> requestor.request_id, kind |-> kind, mode |-> mode])

\* The one-shot report of a set the device has.  Its telemetry is sent
\* directly, which the sender of the static build refuses.
OneShot(d, set_id) == d = "pcdu" => set_id = 0

CanReport == plan.build = "dynamic" /\ PusListens

HandleCompositeRequest(d) ==
    /\ Running(d) /\ dev[d].pc = "comp"
    /\ chans[CompOf[d]] # << >>
    /\ chans' = [chans EXCEPT ![CompOf[d]] = Tail(@)]
    /\ LET msg == Head(chans[CompOf[d]])
           request == msg.message
       IN  \/ /\ \/ request.kind = "Action"
                 \/ request.kind = "OneShot" /\ ~ OneShot(d, request.set_id)
              /\ UNCHANGED <<answers, dead>>
           \/ /\ request.kind = "OneShot" /\ OneShot(d, request.set_id) /\ CanReport
              /\ answers' = Answer(msg.requestor_info, "HkAck", NoMode)
              /\ UNCHANGED dead
           \/ /\ \/ request.kind = "OneShot" /\ OneShot(d, request.set_id) /\ ~ CanReport
                 \/ request.kind = "Periodic"
              /\ dead' = dead \cup {Thread[d]}
              /\ UNCHANGED answers
    /\ UNCHANGED <<plan, given, link, dev, mgm, switch_set, unsent, sim_vars, data_vars>>

\* A handler goes on at the end of a queue.  Without a sender the end never
\* comes, since the loops take only an empty queue for it.
QueueDone(c) == chans[c] = << >> /\ ~ SendersGone(c)

AtModes(d) ==
    /\ Running(d)
    /\ \/ dev[d].pc = "mode"
       \/ dev[d].pc = "comp" /\ QueueDone(CompOf[d])

ModesDone(d) == AtModes(d) /\ QueueDone(ModeOf[d])

\* handle_mode_reached: only the mode service is told.  Sending fails when it
\* is gone, which is an error of the caller.
ModeReached(requestor, mode) ==
    answers' = IF requestor.sender_id = "pus" /\ PusListens
               THEN Answer(requestor, "ModeReply", mode) ELSE answers

ReachedFails(requestor) == requestor.sender_id = "pus" /\ ~ PusListens

\* send_mode_reply answers the mode service, whoever has asked.
SendModeReply(requestor, mode) ==
    answers' = IF PusListens THEN Answer(requestor, "ModeReply", mode) ELSE answers

\* The mode is the new one at once, before the device has power.
MgmStartTransition(requestor, mode) ==
    /\ dev' = [dev EXCEPT !.mgm = [pc |-> "mode", mode |-> mode]]
    /\ \/ /\ mode = "Off"
          /\ mgm_set' = [mgm_set EXCEPT !.valid = FALSE]
          /\ mgm' = [mgm EXCEPT !.target = NoMode]
          /\ ModeReached(requestor, mode)
       \/ /\ mode \in {"On", "Normal"}
          /\ mgm' = [mgm EXCEPT !.transition_state = "Idle", !.requestor = requestor,
                                !.target = mode]
          /\ UNCHANGED <<mgm_set, answers>>
       \/ /\ mode = "OtherMode"
          /\ UNCHANGED <<mgm, mgm_set, answers>>
    /\ UNCHANGED switch_set

PcduStartTransition(requestor, mode) ==
    /\ dev' = [dev EXCEPT !.pcdu = [pc |-> "mode", mode |-> mode]]
    /\ switch_set' = IF mode = "Off" THEN [switch_set EXCEPT !.valid = FALSE] ELSE switch_set
    /\ ModeReached(requestor, mode)
    /\ UNCHANGED <<mgm, mgm_set>>

StartTransition(d, requestor, mode) ==
    \/ d = "mgm" /\ MgmStartTransition(requestor, mode)
    \/ d = "pcdu" /\ PcduStartTransition(requestor, mode)

\* handle_mode_request of ModeRequestHandler, with announce_mode and
\* handle_mode_info of the handlers, which change nothing.
HandleModeRequest(d) ==
    /\ AtModes(d)
    /\ chans[ModeOf[d]] # << >>
    /\ chans' = [chans EXCEPT ![ModeOf[d]] = Tail(@)]
    /\ LET msg == Head(chans[ModeOf[d]])
       IN  \/ /\ msg.message.kind = "SetMode"
              /\ StartTransition(d, msg.requestor_info, msg.message.mode)
           \/ /\ msg.message.kind = "ReadMode"
              /\ SendModeReply(msg.requestor_info, dev[d].mode)
              /\ dev' = [dev EXCEPT ![d].pc = "mode"]
              /\ UNCHANGED <<mgm, mgm_set, switch_set>>
           \/ /\ msg.message.kind \in ModeRequestKinds \ {"SetMode", "ReadMode"}
              /\ dev' = [dev EXCEPT ![d].pc = "mode"]
              /\ UNCHANGED <<mgm, mgm_set, switch_set, answers>>
    /\ UNCHANGED <<plan, given, link, dead, unsent, late, missed, sim_vars>>
-----------------------------------------------------------------------------
(* The magnetometer handler *)

AfterTransition(mode) == IF mode = "Normal" THEN "poll" ELSE "comp"

\* The command to switch the device on is sent once.
SwitchOnCmd ==
    IF mgm.transition_state = "Idle"
    THEN SendSwitchCmd(chans, Open, "switch", MessageMetadata(0, "mgm"), "Mgm", "On")
    ELSE [result |-> "Ok", chans |-> chans]

\* Mutant: the mode, which start_transition has set, is not set again.
ReachedMode_Kept == dev.mgm.mode

ReachedMode == mgm.target

HandleModeTransition ==
    \E switching \in {SwitchOnCmd} :
        /\ chans' = switching.chans
        /\ unsent' = IF switching.result = "Ok" THEN unsent ELSE unsent \cup {0}
        /\ LET state == SwitchState(switch_set, "Mgm")
           IN  \/ /\ \/ SwitchInfoError(state)
                     \/ state = "On" /\ ReachedFails(mgm.requestor)
                  /\ dead' = dead \cup {"aocs"}
                  /\ UNCHANGED <<dev, mgm, answers>>
               \/ /\ state = "On" /\ ~ ReachedFails(mgm.requestor)
                  /\ dev' = [dev EXCEPT !.mgm.pc = AfterTransition(ReachedMode),
                                        !.mgm.mode = ReachedMode]
                  /\ ModeReached(mgm.requestor, ReachedMode)
                  /\ mgm' = [mgm EXCEPT !.target = NoMode, !.transition_state = "Idle"]
                  /\ UNCHANGED dead
               \/ /\ state \in {"Off", "Unknown", "Faulty"}
                  /\ mgm' = [mgm EXCEPT !.transition_state = "PowerSwitching"]
                  /\ dev' = [dev EXCEPT !.mgm.pc = AfterTransition(dev.mgm.mode)]
                  /\ UNCHANGED <<answers, dead>>

MgmTransition ==
    /\ ModesDone("mgm")
    /\ \/ /\ mgm.target # NoMode
          /\ HandleModeTransition
       \/ /\ mgm.target = NoMode
          /\ dev' = [dev EXCEPT !.mgm.pc = AfterTransition(dev.mgm.mode)]
          /\ UNCHANGED <<chans, mgm, answers, unsent, dead>>
    /\ UNCHANGED <<plan, given, link, switch_set, sim_vars, data_vars>>

\* poll_sensor takes whatever is in the receive buffer for a measurement.
Measured(sample) ==
    /\ mgm_set' = [valid |-> TRUE, sample |-> sample]
    /\ mgm' = [mgm EXCEPT !.rx = sample]
    /\ dev' = [dev EXCEPT !.mgm.pc = "comp"]

\* SpiDummyInterface::transfer
PollDummy ==
    /\ Running("mgm") /\ dev.mgm.pc = "poll" /\ link = "dummy"
    /\ Measured(Zeros)
    /\ UNCHANGED <<plan, given, link, chans, switch_set, dead, answers, unsent, late,
                   missed, sim_vars>>

\* SpiSimInterface::transfer: the request, and the reply within its time.
PollRequest ==
    /\ Running("mgm") /\ dev.mgm.pc = "poll" /\ link = "sim"
    /\ net' = IF "client" \in dead THEN net
              ELSE [net EXCEPT !.requests = Append(@, RequestSensorData)]
    /\ dev' = [dev EXCEPT !.mgm.pc = "wait"]
    /\ UNCHANGED <<plan, given, link, chans, mgm, switch_set, dead, answers, unsent,
                   sender, sim, lost, data_vars>>

PollReply ==
    /\ Running("mgm") /\ dev.mgm.pc = "wait"
    /\ net.mgm_rx # << >>
    /\ net' = [net EXCEPT !.mgm_rx = Tail(@)]
    /\ LET reply == Head(net.mgm_rx)
       IN  \/ /\ IsMgmReply(reply)
              /\ Measured(reply.payload[2])
              /\ UNCHANGED dead
           \/ /\ ~ IsMgmReply(reply)
              /\ dead' = dead \cup {"aocs"}
              /\ UNCHANGED <<mgm_set, mgm, dev>>
    /\ UNCHANGED <<plan, given, link, chans, switch_set, answers, unsent, late, missed,
                   sender, sim, lost>>

\* The requests and replies of the magnetometer that are on their way.
Count(messages, P(_)) == Len(SelectSeq(messages, P))

SensorMessages ==
    LET request(message) == message = RequestSensorData
        datagram(packet) == packet.message = RequestSensorData
    IN  Count(net.requests, request) + Count(net.up, datagram) + Count(net.sim_in, request)
        + Count(net.sim_out, IsMgmReply) + Count(net.down, IsMgmReply)
        + Count(net.mgm_rx, IsMgmReply)

\* The time-out.  The reply, if there is one, is read by the next transfer.
PollTimeout ==
    /\ Running("mgm") /\ dev.mgm.pc = "wait"
    /\ net.mgm_rx = << >>
    /\ SensorMessages > late => plan.faulty /\ late < MaxLate
    /\ late' = IF SensorMessages > late THEN late + 1 ELSE late
    /\ missed' = TRUE
    /\ Measured(mgm.rx)
    /\ UNCHANGED <<plan, given, link, chans, switch_set, dead, answers, unsent, sim_vars>>

MgmPoll == PollDummy \/ PollRequest \/ PollReply \/ PollTimeout
-----------------------------------------------------------------------------
(* The power unit handler *)

\* send of the serial interfaces, up to the dummy's own switch map, for which
\* the map of the simulator stands.  Without the client there is no receiver.
SerialSend(request) ==
    \/ /\ link = "sim" /\ "client" \notin dead
       /\ net' = [net EXCEPT !.requests = Append(@, request)]
       /\ UNCHANGED <<sim, dead>>
    \/ /\ link = "sim" /\ "client" \in dead
       /\ dead' = dead \cup {"eps"}
       /\ UNCHANGED <<sim, net>>
    \/ /\ link = "dummy"
       /\ net' = IF request = RequestSwitchInfo
                 THEN [net EXCEPT !.pcdu_rx = Append(@, SwitchInfo(sim.switcher_map))] ELSE net
       /\ sim' = IF request = RequestSwitchInfo THEN sim
                 ELSE [sim EXCEPT !.switcher_map[request.payload[2]] = request.payload[3]]
       /\ UNCHANGED dead

AtSwitches == ModesDone("pcdu") \/ (Running("pcdu") /\ dev.pcdu.pc = "switch")

HandleSwitchRequest ==
    /\ AtSwitches
    /\ chans.switch # << >>
    /\ dev' = [dev EXCEPT !.pcdu.pc = "switch"]
    /\ chans' = [chans EXCEPT !.switch = Tail(@)]
    /\ LET request == Head(chans.switch).message
       IN  \/ /\ request.switch_id \in Switches
              /\ SerialSend(SwitchDevice(request.switch_id, request.target_state))
           \/ /\ request.switch_id \notin Switches
              /\ dead' = dead \cup {"eps"}
              /\ UNCHANGED <<sim, net>>
    /\ UNCHANGED <<plan, given, link, mgm, switch_set, answers, unsent, sender, lost,
                   data_vars>>

\* Mutant: the switches are polled in normal mode alone.
Polls_NormalOnly(mode) == mode = "Normal"

Polls(mode) == mode \in {"Normal", "On"}

\* The switch info requests and replies on their way to the handler.
InfoMessages ==
    LET request(message) == message = RequestSwitchInfo
        datagram(packet) == packet.message = RequestSwitchInfo
    IN  Count(net.requests, request) + Count(net.up, datagram) + Count(net.sim_in, request)
        + sim.info + Count(net.sim_out, IsPcduReply) + Count(net.down, IsPcduReply)

\* The end of the switch requests, and the periodic commands.
HandlePeriodicCommands ==
    /\ AtSwitches
    /\ chans.switch = << >>
    /\ dev' = [dev EXCEPT !.pcdu.pc = "replies"]
    /\ \/ /\ Polls(dev.pcdu.mode)
          /\ "client" \in dead \/ InfoMessages < MaxInfo
          /\ SerialSend(RequestSwitchInfo)
       \/ /\ ~ Polls(dev.pcdu.mode)
          /\ UNCHANGED <<sim, net, dead>>
    /\ UNCHANGED <<plan, given, link, chans, mgm, switch_set, answers, unsent, sender, lost,
                   data_vars>>

\* poll_and_handle_replies, in any mode.  It runs twice in a cycle; the
\* replies that the second call finds are those that come before RepliesDone.
HandleReply ==
    /\ Running("pcdu") /\ dev.pcdu.pc = "replies"
    /\ net.pcdu_rx # << >>
    /\ net' = [net EXCEPT !.pcdu_rx = Tail(@)]
    /\ switch_set' = [valid |-> TRUE,
                      switch_map |-> FromBinarySwitchMap(Head(net.pcdu_rx).payload[2])]
    /\ UNCHANGED <<plan, given, link, chans, dev, mgm, dead, answers, unsent, sender, sim,
                   lost, data_vars>>

RepliesDone ==
    /\ Running("pcdu") /\ dev.pcdu.pc = "replies"
    /\ net.pcdu_rx = << >>
    /\ dev' = [dev EXCEPT !.pcdu.pc = "comp"]
    /\ UNCHANGED <<plan, given, link, chans, mgm, switch_set, dead, answers, unsent,
                   sim_vars, data_vars>>
-----------------------------------------------------------------------------
(* The client of the simulator, and the simulator *)

\* The replies of a component, which the client hands to its recipient.
RepliesOf(component) ==
    LET of(reply) == reply.target = component IN SelectSeq(net.down, of)

\* A recipient that is gone ends the client.
RecipientGone ==
    \/ RepliesOf("MgmLis3Mdl") # << >> /\ "aocs" \in dead
    \/ RepliesOf("Pcdu") # << >> /\ "eps" \in dead

\* SimClientUdp::operation: all requests, then all replies.
ClientOperation ==
    /\ link = "sim" /\ "client" \notin dead
    /\ net.requests # << >> \/ net.down # << >>
    /\ net' = [net EXCEPT
                 !.requests = << >>,
                 !.up = @ \o Datagrams("obsw", net.requests),
                 !.down = << >>,
                 !.mgm_rx = IF "aocs" \in dead THEN @ ELSE @ \o RepliesOf("MgmLis3Mdl"),
                 !.pcdu_rx = IF "eps" \in dead THEN @ ELSE @ \o RepliesOf("Pcdu")]
    /\ dead' = IF RecipientGone THEN dead \cup {"client"} ELSE dead
    /\ UNCHANGED <<plan, given, link, chans, dev, mgm, switch_set, answers, unsent, sender,
                   sim, lost, data_vars>>

\* One round of SimUdpServer::run.
ServerRound ==
    /\ net.up # << >> \/ net.sim_out # << >>
    /\ sender' = LastSender(sender, net.up)
    /\ net' = [net EXCEPT
                 !.up = SubSeq(@, Taken(@) + 1, Len(@)),
                 !.sim_in = @ \o ProcessRequests(net.up),
                 !.sim_out = << >>,
                 !.down = IF sender' = "obsw" THEN @ \o ProcessReplies(net.sim_out) ELSE @]
    /\ UNCHANGED <<plan, given, link, chans, dev, mgm, switch_set, dead, answers, unsent,
                   sim, lost, data_vars>>

\* What the simulator does next: a request, or an event that was scheduled.
SimTurn(next, replies) ==
    /\ sim' = next
    /\ net' = [net EXCEPT !.sim_out = @ \o replies]
    /\ UNCHANGED <<plan, given, link, chans, dev, mgm, switch_set, dead, answers, unsent,
                   sender, lost, data_vars>>

SimRequest ==
    /\ net.sim_in # << >>
    /\ sim' = HandleSimRequest(sim, Head(net.sim_in))
    /\ net' = [net EXCEPT !.sim_in = Tail(@),
                          !.sim_out = @ \o SimReplies(sim, Head(net.sim_in))]
    /\ UNCHANGED <<plan, given, link, chans, dev, mgm, switch_set, dead, answers, unsent,
                   sender, lost, data_vars>>

SendSwitchInfo ==
    /\ sim.info > 0
    /\ SimTurn([sim EXCEPT !.info = @ - 1], <<SwitchInfo(sim.switcher_map)>>)

SendHousekeepingData ==
    /\ sim.hk > 0
    /\ SimTurn([sim EXCEPT !.hk = @ - 1], <<MgtHk(sim.torquing)>>)

EndOfTorque ==
    /\ sim.clear > 0
    /\ SimTurn(ClearTorque(sim), << >>)

ScheduledEvent == SendSwitchInfo \/ SendHousekeepingData \/ EndOfTorque

\* A datagram that does not arrive, or that could not be sent.
Lose ==
    /\ plan.faulty /\ lost < MaxLost
    /\ lost' = lost + 1
    /\ \/ \E i \in DOMAIN net.up : net' = [net EXCEPT !.up = RemoveAt(@, i)]
       \/ \E i \in DOMAIN net.down : net' = [net EXCEPT !.down = RemoveAt(@, i)]
    /\ UNCHANGED <<plan, given, link, chans, dev, mgm, switch_set, dead, answers, unsent,
                   sender, sim, data_vars>>
-----------------------------------------------------------------------------
AocsThread ==
    \/ HandleCompositeRequest("mgm") \/ HandleModeRequest("mgm")
    \/ MgmTransition \/ MgmPoll

EpsThread ==
    \/ HandleCompositeRequest("pcdu") \/ HandleModeRequest("pcdu")
    \/ HandleSwitchRequest
    \/ HandlePeriodicCommands \/ HandleReply \/ RepliesDone

PingReplies == {"Pong", "InvalidRequest", "OtherComponent", "Timeout"}

Next ==
    \/ \E reply \in PingReplies : CreateSimClient(reply)
    \/ Command
    \/ AocsThread \/ EpsThread
    \/ ClientOperation \/ ServerRound
    \/ SimRequest \/ ScheduledEvent \/ Lose

\* Every thread runs its loop for ever, and the simulator runs every event at
\* its time.
Fairness ==
    /\ WF_vars(AocsThread) /\ WF_vars(EpsThread)
    /\ WF_vars(ClientOperation) /\ WF_vars(ServerRound)
    /\ WF_vars(SimRequest) /\ WF_vars(ScheduledEvent)

Spec == Init /\ [][Next]_vars /\ Fairness
-----------------------------------------------------------------------------
(* Properties *)

\* The command k of the plan is a mode command to the device d.
SetsMode(k, d) ==
    /\ Commands[k].from \in {"pus", "parent"}
    /\ Commands[k].to \in {d, ModeOf[d]}
    /\ Commands[k].message.kind = "SetMode"

\* The handler of the device has taken the command.
Received(k, d) ==
    /\ k <= given /\ k \notin unsent
    /\ \A i \in DOMAIN chans[ModeOf[d]] :
          chans[ModeOf[d]][i].requestor_info.request_id # k

\* The only commands that stay without an answer: one that a later command
\* replaces before its mode is reached, and one for a mode that the
\* magnetometer does not have, which leaves the target alone and so replaces
\* no other command.
Superseded(k, d) ==
    /\ d = "mgm"
    /\ \/ Commands[k].message.mode = "OtherMode"
       \/ \E j \in (k + 1)..given :
             SetsMode(j, d) /\ Received(j, d) /\ Commands[j].message.mode # "OtherMode"

\* Every mode command of the mode service is answered at most once and with
\* the mode it asks for; and one that a running handler has taken is answered,
\* is being carried out, or is superseded.  This is about mode_helpers, which
\* holds one requestor while the mode requests keep coming.
AnswersRight ==
    \A d \in Devs : \A k \in 1..given :
        Commands[k].from = "pus" /\ SetsMode(k, d) =>
            LET own == {i \in DOMAIN answers : answers[i].id = k}
            IN  /\ Cardinality(own) <= 1
                /\ \A i \in own : answers[i].mode = Commands[k].message.mode
                /\ Received(k, d) /\ dead \cap {"pus", Thread[d]} = {} =>
                      \/ own # {}
                      \/ d = "mgm" /\ mgm.target # NoMode /\ mgm.requestor.request_id = k
                      \/ Superseded(k, d)

\* Nobody but the flight software uses the magnetometer or its switch, and
\* nobody switches it off.
Undisturbed ==
    \A k \in DOMAIN Commands :
        /\ Commands[k].from = "helper" => Commands[k].message # SwitchRequest("Mgm", "Off")
        /\ Commands[k].from = "other" =>
              Range(Commands[k].messages) \cap {RequestSensorData, SwitchDevice("Mgm", "Off")} = {}

\* A handler that is off shows no valid data; and when a device of the
\* simulator has reached its normal mode and no transfer has timed out, the
\* valid data were measured by a device that had power: the switch command,
\* the switch info and the sensor request travel through four threads.
DataValidity ==
    /\ dev.mgm.mode = "Off" => ~ mgm_set.valid
    /\ /\ link = "sim" /\ Undisturbed /\ ~ missed
       /\ dev.mgm.mode = "Normal" /\ mgm.target = NoMode /\ dev.mgm.pc = "comp"
       => mgm_set.valid /\ mgm_set.sample \in {"Sine", "MgtField"}

\* All threads run, the power unit is polled, and no message of the switching
\* is lost or refused.
Healthy ==
    /\ dead = {} /\ lost = 0 /\ unsent = {}
    /\ dev.pcdu.mode \in {"On", "Normal"} /\ Undisturbed

\* In a healthy system every mode transition of the magnetometer comes to an
\* end, although handle_mode_transition sends the switch command only once.
TransitionEnds == <>[]Healthy => (mgm.target # NoMode ~> mgm.target = NoMode)
=============================================================================
