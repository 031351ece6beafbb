------------------------------ MODULE MiniSim -------------------------------
(***************************************************************************)
(* The mini simulator (satrs-minisim) as operators on its state: the power *)
(* unit, the magnetometer and the magnetorquer, the controller that gives  *)
(* them the requests, and the UDP server in front of it.  A message is its *)
(* target component and its payload; the JSON text is left out, except     *)
(* that a payload or a datagram may be one that does not parse.            *)
(***************************************************************************)
EXTENDS Naturals, Sequences, SequencesExt

CONSTANTS
    MaxNumReplies   \* max_num_replies of the UDP server

ASSUME SimAssumption == MaxNumReplies \in Nat \ {0}

Switches == {"Mgm", "Mgt"}

AllOff == [switch \in Switches |-> "Off"]

\* SimRequest::new and SimReply::new.
SimMessage(target, payload) == [target |-> target, payload |-> payload]

RequestSwitchInfo == SimMessage("Pcdu", <<"RequestSwitchInfo">>)

SwitchDevice(switch, state) == SimMessage("Pcdu", <<"SwitchDevice", switch, state>>)

RequestSensorData == SimMessage("MgmLis3Mdl", <<"RequestSensorData">>)

Pong == SimMessage("SimCtrl", <<"Pong">>)

InvalidRequest == SimMessage("SimCtrl", <<"InvalidRequest">>)

SwitchInfo(switch_map) == SimMessage("Pcdu", <<"SwitchInfo", switch_map>>)

\* The reply names the component that the code gives it, the magnetometer.
MgtHk(torquing) == SimMessage("MgmLis3Mdl", <<"Hk", torquing>>)

\* MgmLis3MdlReply::new: all ones from a device that is off.
MgmReply(sample) == SimMessage("MgmLis3Mdl", <<"Sensor", sample>>)

\* from_sim_message of the two replies the flight software reads.
IsMgmReply(reply) == reply.target = "MgmLis3Mdl" /\ reply.payload[1] = "Sensor"

IsPcduReply(reply) == reply.target = "Pcdu" /\ reply.payload[1] = "SwitchInfo"

\* Whether from_sim_message of the request type of a component succeeds.
Payloads ==
    [SimCtrl |-> {"Ping"}, MgmLis3Mdl |-> {"RequestSensorData"},
     Mgt |-> {"ApplyTorque", "RequestHk"}, Pcdu |-> {"RequestSwitchInfo", "SwitchDevice"}]

IsValid(request) == request.payload[1] \in Payloads[request.target]
-----------------------------------------------------------------------------
(* The models.  info, hk and clear count the events that the scheduler of  *)
(* the simulation still has to run.                                        *)

NewSim ==
    [switcher_map |-> AllOff, mgm |-> "Off", external |-> FALSE,
     mgt |-> "Off", torquing |-> FALSE, info |-> 0, hk |-> 0, clear |-> 0]

\* calculate_current_mgm_tuple, and the raw values MgmLis3MdlReply makes of it.
Sample(sim) ==
    IF sim.mgm = "Off" THEN "AllOnes" ELSE IF sim.external THEN "MgtField" ELSE "Sine"

\* The field of the magnetorquer stays with the magnetometer for good.
GenerateMagneticField(sim) ==
    IF sim.mgt = "On" /\ sim.torquing THEN [sim EXCEPT !.external = TRUE] ELSE sim

\* The scheduler refuses to clear the torque at no later time: then it stays.
ApplyTorque(sim, duration) ==
    GenerateMagneticField([sim EXCEPT !.torquing = TRUE,
                                      !.clear = IF duration > 0 THEN @ + 1 ELSE @])

ClearTorque(sim) ==
    GenerateMagneticField([sim EXCEPT !.torquing = FALSE, !.clear = @ - 1])

RequestHousekeepingData(sim) ==
    IF sim.mgt = "On" THEN [sim EXCEPT !.hk = @ + 1] ELSE sim

\* Mutant: the map of the power unit changes and the magnetometer is not told.
SwitchTo_MapOnly(sim, switch, state) ==
    LET switched == [sim EXCEPT !.switcher_map[switch] = state]
    IN  IF switch = "Mgm" THEN switched
        ELSE GenerateMagneticField([switched EXCEPT !.mgt = state])

\* PcduModel::switch_device and the switch_device of the device behind it.
SwitchTo(sim, switch, state) ==
    LET switched == [sim EXCEPT !.switcher_map[switch] = state]
    IN  IF switch = "Mgm" THEN [switched EXCEPT !.mgm = state]
        ELSE GenerateMagneticField([switched EXCEPT !.mgt = state])

HandlePcduRequest(sim, request) ==
    IF request.payload[1] = "RequestSwitchInfo"
    THEN [sim EXCEPT !.info = @ + 1]
    ELSE SwitchTo(sim, request.payload[2], request.payload[3])

HandleMgtRequest(sim, request) ==
    IF request.payload[1] = "ApplyTorque" THEN ApplyTorque(sim, request.payload[2])
    ELSE RequestHousekeepingData(sim)

\* One turn of SimController::handle_sim_requests: the models after it ...
HandleSimRequest(sim, request) ==
    CASE ~ IsValid(request) -> sim
      [] request.target = "Pcdu" -> HandlePcduRequest(sim, request)
      [] request.target = "Mgt" -> HandleMgtRequest(sim, request)
      [] OTHER -> sim

\* ... and what is sent back at once.
SimReplies(sim, request) ==
    CASE ~ IsValid(request) -> <<InvalidRequest>>
      [] request.target = "SimCtrl" -> <<Pong>>
      [] request.target = "MgmLis3Mdl" -> <<MgmReply(Sample(sim))>>
      [] OTHER -> << >>
-----------------------------------------------------------------------------
(* SimUdpServer.  A datagram to it is a request and who sent it.           *)

Unparsable == SimMessage("SimCtrl", <<"Unparsable">>)

\* How many datagrams process_requests takes: it returns at the first one
\* that is not a request.
Taken(datagrams) ==
    LET bad == {i \in DOMAIN datagrams : datagrams[i].message = Unparsable}
    IN  IF bad = {} THEN Len(datagrams) ELSE CHOOSE i \in bad : \A j \in bad : i <= j

ProcessRequests(datagrams) ==
    LET good(datagram) == datagram.message # Unparsable
        taken == SelectSeq(SubSeq(datagrams, 1, Taken(datagrams)), good)
    IN  [i \in DOMAIN taken |-> taken[i].message]

\* All replies go to the client that sent something last.
LastSender(sender, datagrams) ==
    IF datagrams = << >> THEN sender ELSE datagrams[Taken(datagrams)].from

\* process_replies drops the oldest reply of a full queue.
ProcessReplies(replies) ==
    SubSeq(replies, 1 + (IF Len(replies) > MaxNumReplies
                         THEN Len(replies) - MaxNumReplies ELSE 0), Len(replies))
=============================================================================
