---------------------------- MODULE MCCommanding ----------------------------
(***************************************************************************)
(* Commanding for TLC: telecommands of every service, in the plans that    *)
(* let them meet, two targets of which one has ended, a pool and queues    *)
(* that run full, and events that components subscribe to more than once.  *)
(***************************************************************************)
EXTENDS Commanding

Tc(service, subservice, psc, len, target) ==
    [service |-> service, subservice |-> subservice, version |-> 0, packet_id |-> 1,
     psc |-> psc, len |-> len, target |-> target, insertable |-> TRUE, inner |-> NoTc,
     event |-> 0, params |-> NoParams]

MCPing == Tc("Test", "Ping", 0, 0, "mgm")
MCEvent == Tc("Test", "TestEvent", 1, 0, "mgm")
MCTestBad == Tc("Test", "Bad", 1, 0, "mgm")

MCHk == Tc("Housekeeping", "OneShot", 0, 8, "mgm")
MCHkShort == Tc("Housekeeping", "OneShot", 1, 7, "mgm")
MCHkInterval == Tc("Housekeeping", "ModifyInterval", 1, 11, "mgm")
MCHkStructures == Tc("Housekeeping", "ReportStructures", 1, 8, "mgm")
MCHkBad == Tc("Housekeeping", "Create", 1, 8, "mgm")
MCHkGone == Tc("Housekeeping", "Enable", 1, 8, "pcdu")

MCMode == Tc("Mode", "SetMode", 0, 10, "mgm")
MCMode2 == Tc("Mode", "ReadMode", 1, 4, "mgm")
MCModeShort == Tc("Mode", "SetMode", 1, 9, "mgm")
MCModeNowhere == Tc("Mode", "Announce", 1, 4, "none")

MCAction == Tc("Action", "Action", 0, 8, "mgm")
MCAction2 == [Tc("Action", "Action", 0, 8, "mgm") EXCEPT !.version = 1]
MCActionShort == Tc("Action", "Action", 1, 7, "mgm")
MCActionBad == Tc("Action", "Bad", 1, 8, "mgm")

MCEnable == Tc("Scheduling", "Enable", 1, 0, "mgm")
MCDisable == Tc("Scheduling", "Disable", 1, 0, "mgm")
MCReset == Tc("Scheduling", "Reset", 1, 0, "mgm")
MCInsert == [Tc("Scheduling", "Insert", 1, 0, "mgm") EXCEPT !.inner = MCHk]
MCInsertLate == [Tc("Scheduling", "Insert", 1, 0, "mgm") EXCEPT !.insertable = FALSE]
MCSchedBad == Tc("Scheduling", "Bad", 0, 0, "mgm")

MCOther == Tc("Other", "Any", 1, 0, "mgm")
MCUnknown == Tc("Unknown", "Any", 1, 0, "mgm")
MCInvalid == Tc("Invalid", "Any", 1, 0, "mgm")
MCHealth == Tc("Health", "Any", 1, 0, "mgm")

MCEventTc(subservice, psc, event) == [Tc("Event", subservice, psc, 4, "mgm") EXCEPT !.event = event]
MCDisableTest == MCEventTc("DisableEvents", 0, 0)
MCEnableTest == MCEventTc("EnableEvents", 1, 0)
MCDisableLow == MCEventTc("DisableEvents", 0, 4)
MCEnableLow == MCEventTc("EnableEvents", 1, 4)
MCEnableOther == MCEventTc("EnableEvents", 0, 2)
MCEventShort == [MCDisableTest EXCEPT !.len = 3]
MCEventReport == MCEventTc("Report", 1, 0)
MCEventList == MCEventTc("List", 1, 0)

MCRaise(event, kind, len) ==
    [Tc("Raise", "Any", 0, 0, "mgm") EXCEPT !.event = event,
                                            !.params = [kind |-> kind, len |-> len]]
MCRaiseLow == MCRaise(4, "None", 0)
MCRaiseTest == MCRaise(0, "Heapless", 4)

MCEventPlans ==
    {<<MCDisableLow, MCRaiseLow, MCRaiseTest>>, <<MCEnableLow, MCRaiseLow, MCDisableLow, MCRaiseLow>>,
     <<MCRaiseLow, MCRaiseTest, MCRaise(2, "Store", 8)>>,
     <<MCRaise(0, "String", 124), MCRaise(0, "Vec", 125)>>,
     <<MCEnableTest, MCEnableLow, MCEnableOther>>}

MCCalls ==
    {<< >>,
     <<[op |-> "subscribe", key |-> All, id |-> 1], [op |-> "remove_duplicates", key |-> All, id |-> 1],
       [op |-> "remove_duplicates", key |-> Group(1), id |-> 1],
       [op |-> "subscribe", key |-> Single(EventFrom(4)), id |-> 1],
       [op |-> "subscribe", key |-> Group(0), id |-> 1],
       [op |-> "add_sender", key |-> All, id |-> 1]>>,
     <<[op |-> "subscribe", key |-> Group(0), id |-> 3], [op |-> "subscribe", key |-> Group(0), id |-> 3],
       [op |-> "subscribe", key |-> All, id |-> 4], [op |-> "subscribe", key |-> Group(0), id |-> 1],
       [op |-> "add_sender", key |-> All, id |-> 3]>>}

MCPlans ==
    MCEventPlans \cup
    {<<MCEvent, MCPing, MCEvent, MCEvent>>, <<MCTestBad, MCHk>>,
     <<MCHk, MCHk, MCHkShort>>, <<MCHkGone, MCHk, MCMode>>,
     <<MCHkInterval, MCHkBad, MCHkStructures>>, <<MCMode, MCMode2>>,
     <<MCMode, MCMode>>, <<MCModeShort, MCModeNowhere>>, <<MCAction, MCAction2>>,
     <<MCAction, MCAction>>, <<MCActionShort, MCActionBad>>,
     <<MCInsert, MCDisable, MCEnable>>, <<MCInsert, MCReset>>,
     <<MCInsert, MCInsert>>, <<MCInsertLate>>, <<MCSchedBad, MCInsert>>,
     <<MCOther, MCUnknown, MCPing>>, <<MCInvalid, MCInsert, MCHealth>>,
     <<MCDisableTest, MCEvent, MCEnableTest, MCEvent>>, <<MCEventShort, MCEventReport, MCEventList>>}

MCSetups ==
    [p \in MCPlans |-> IF p \in MCEventPlans
                       THEN [calls : MCCalls, backend : {"default", "heapless"}]
                       ELSE {[calls |-> << >>, backend |-> "default"]}]

MCNoParams == [kind |-> "None", len |-> 0]

MCReply(kind) == [kind |-> kind, params |-> MCNoParams]

MCFailed(kind, params, len) == [kind |-> kind, params |-> [kind |-> params, len |-> len]]

MCAnswers ==
    [Action |-> {<< >>, <<MCReply("Received"), MCReply("StepSuccess"), MCReply("Completed")>>,
                 <<MCReply("Completed"), MCReply("StepSuccess")>>,
                 <<MCFailed("StepFailed", "Heapless", 7)>>, <<MCFailed("StepFailed", "Vec", 8)>>,
                 <<MCFailed("CompletionFailed", "Store", 10)>>,
                 <<MCFailed("CompletionFailed", "String", 10)>>},
     Housekeeping |-> {<< >>, <<MCReply("Ack")>>, <<MCReply("Failed"), MCReply("Ack")>>},
     Mode |-> {<< >>, <<MCReply("ModeReply")>>, <<MCReply("CantReachMode")>>,
               <<MCReply("WrongMode"), MCReply("ModeReply")>>}]
=============================================================================
