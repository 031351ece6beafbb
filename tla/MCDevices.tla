----------------------------- MODULE MCDevices ------------------------------
(***************************************************************************)
(* The device handlers with one plan for each kind of command and each     *)
(* meeting of commands, at the smallest queues in which they meet; or, in  *)
(* other behaviours, the mode tree, while the devices have not started.    *)
(***************************************************************************)
EXTENDS Devices, ModeTree

MCCapacity ==
    [mgm_comp |-> 2, mgm_mode |-> 2, pcdu_comp |-> 2, pcdu_mode |-> 2, switch |-> 1,
     to_dev1 |-> 2, to_dev2 |-> 1, to_assy |-> 2, assy_rx |-> 1, pus_rx |-> 2]

Pus(channel, message) == [from |-> "pus", to |-> channel, message |-> message]

PusMode(d, mode) == Pus(ModeOf[d], ModeRequest("SetMode", mode))

PusAsk(d, kind) == Pus(ModeOf[d], ModeRequest(kind, NoMode))

Hk(d, kind, set_id) == Pus(CompOf[d], [kind |-> kind, set_id |-> set_id])

FromParent(target_id, kind, mode) ==
    [from |-> "parent", to |-> target_id, message |-> ModeRequest(kind, mode)]

Helper(switch_id, state) ==
    [from |-> "helper", to |-> "switch", message |-> SwitchRequest(switch_id, state)]

Others(messages) == [from |-> "other", to |-> "sim", messages |-> messages]

Torque(duration) == SimMessage("Mgt", <<"ApplyTorque", duration>>)

TorqueHk == SimMessage("Mgt", <<"RequestHk">>)

Ping == SimMessage("SimCtrl", <<"Ping">>)

PusPanic == [from |-> "panic", to |-> "pus", message |-> ModeRequest("None", NoMode)]

CommandLists ==
    { <<PusMode("mgm", "Normal"), PusMode("mgm", "Off")>>,
      <<PusMode("mgm", "On"), PusMode("mgm", "Normal")>>,
      <<PusMode("mgm", "Normal"), PusMode("mgm", "OtherMode")>>,
      <<PusMode("mgm", "Normal"), PusMode("pcdu", "Off")>>,
      <<PusMode("pcdu", "On"), PusMode("mgm", "Normal")>>,
      <<PusMode("pcdu", "Off"), PusMode("pcdu", "Normal"), PusAsk("pcdu", "ReadMode")>>,
      <<Hk("mgm", "OneShot", 0), Hk("pcdu", "OneShot", 0), Hk("pcdu", "OneShot", 1)>>,
      <<Hk("mgm", "Action", 0), Hk("mgm", "Periodic", 0), Hk("pcdu", "Periodic", 0)>>,
      <<FromParent("mgm", "SetMode", "On"), FromParent("mgm", "ReadMode", NoMode)>>,
      <<FromParent("pcdu", "ModeInfo", NoMode), FromParent("str", "SetMode", "On")>>,
      <<PusMode("mgm", "Normal"), FromParent("mgm", "SetMode", "On")>>,
      <<PusAsk("mgm", "AnnounceMode"), PusAsk("mgm", "ReadMode"), PusPanic>>,
      <<PusMode("mgm", "Normal"), PusPanic>>,
      <<Helper("Mgt", "On"), PusMode("mgm", "On")>>,
      <<PusMode("mgm", "Normal"), Helper("Mgm", "Off")>>,
      <<Helper("Heater", "On"), PusMode("mgm", "Normal")>>,
      <<Others(<<SwitchDevice("Mgt", "On"), Torque(1)>>), PusMode("mgm", "Normal")>>,
      <<Others(<<SwitchDevice("Mgt", "On"), Torque(0), TorqueHk>>), PusMode("mgm", "Normal")>>,
      <<Others(<<Unparsable, Ping, Ping>>), Others(<<SimMessage("Pcdu", <<"Ping">>), Ping>>)>>,
      <<Others(<<RequestSensorData>>), PusMode("mgm", "Normal")>> }

Plan(build, list, faulty) == [build |-> build, commands |-> list, faulty |-> faulty]

MCPlans ==
    { Plan("dynamic", list, FALSE) : list \in CommandLists }
    \cup { Plan("static", <<Hk("mgm", "OneShot", 0), PusMode("mgm", "On")>>, FALSE),
           Plan("static", <<PusMode("mgm", "Normal"), Hk("pcdu", "OneShot", 0)>>, FALSE),
           Plan("dynamic", <<PusMode("mgm", "Normal")>>, TRUE) }
-----------------------------------------------------------------------------
(* The mode tree *)

Ordered(to, kind, mode) == [to |-> to, kind |-> kind, mode |-> mode]

TreePlans ==
    { <<Ordered("dev1", "SetMode", "On"), Ordered("assy", "AnnounceModeRecursive", "Off"),
        Ordered("dev1", "SetMode", "Normal"), Ordered("dev1", "ReadMode", "Off")>>,
      <<Ordered("assy", "SetMode", "On"), Ordered("assy", "ReadMode", "Off"),
        Ordered("dev2", "AnnounceMode", "Off"), Ordered("assy", "AnnounceMode", "Off")>>,
      <<Ordered("dev2", "SetMode", "On"), Ordered("dev1", "SetMode", "Normal"),
        Ordered("assy", "ReadMode", "Off"), Ordered("dev2", "ReadMode", "Off")>>,
      <<Ordered("assy", "AnnounceMode", "Off"), Ordered("assy", "AnnounceModeRecursive", "Off"),
        Ordered("dev1", "ModeInfo", "Off"), Ordered("assy", "ModeInfo", "Off")>> }

ASSUME TreePlansAssumption ==
    TreePlans \subseteq Seq([to : DOMAIN RequestsTo, kind : ModeRequestKinds, mode : Modes])

NoTree == NewTree(<< >>)

MCInit ==
    \/ Init /\ tree = NoTree
    \/ Init /\ plan = (CHOOSE p \in Plans : TRUE) /\ tree \in {NewTree(orders) : orders \in TreePlans}

MCNext ==
    \/ Next /\ tree = NoTree /\ UNCHANGED tree
    \/ TreeNext /\ tree.orders # << >> /\ UNCHANGED vars

MCSpec == MCInit /\ [][MCNext]_<<vars, tree>> /\ Fairness
=============================================================================
