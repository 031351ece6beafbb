----------------------------- MODULE MCPlatform -----------------------------
(***************************************************************************)
(* The programs at the edge of the library: the TCP server, the periodic   *)
(* executor, the memory pool without heap, and the examples for the two    *)
(* boards.  They do not interact; a behaviour is that of one of them, with *)
(* one of its plans, and the others have nothing to do in it.              *)
(***************************************************************************)
EXTENDS TcpServer, DiscoF3, NucleoH7, HeaplessUser, Executor

CONSTANT Servers    \* the kinds of TCP server whose plans are checked

vars == <<tcp, disco, nucleo, executor, user>>

MCPackets == {"a", "b", "s", "x", "big"}

MCPacketLen == [a |-> 3, b |-> 4, s |-> 3, x |-> 4, big |-> 8]

MCValidIds == {"a", "b", "big"}

MCBrokenIds == {"x"}

MCTelecommands == [a |-> "Ping", b |-> "Blink", s |-> "Unknown", x |-> "WrongApid"]

MCData == {"s1", "s2", "s3", "m1", "m2", "l1", "x1"}

MCLenOf == [s1 |-> 1, s2 |-> 1, s3 |-> 1, m1 |-> 2, m2 |-> 2, l1 |-> 3, x1 |-> 4]

MCGrowth == << <<2, 1>>, <<1, 2>>, <<1, 4>> >>
-----------------------------------------------------------------------------
(* Plans of the TCP server *)

Misread(validity, size) == [validity |-> validity, size |-> size]

TcpPlan(server, clients) ==
    [server |-> server, clients |-> clients, tms |-> << >>, room |-> 9,
     misread |-> Misread("Skip", 3), decodes |-> FALSE, fault |-> "none", stop |-> FALSE]

TcpPlans ==
    { TcpPlan(SpacepacketsServer, << <<"a", "b", "a">> >>),
      TcpPlan(SpacepacketsServer, << <<"a", "s", "b">> >>),
      [TcpPlan(SpacepacketsServer, << <<"a", "x", "b", "a">> >>) EXCEPT !.misread = Misread("Invalid", 0)],
      [TcpPlan(SpacepacketsServer, << <<"a", "b", "b">> >>) EXCEPT !.misread = Misread("Valid", 4)],
      TcpPlan(SpacepacketsServer, << <<"a", "big", "a">>, <<"b">> >>),
      [TcpPlan(SpacepacketsServer, << <<"a", "b">>, <<"b">> >>) EXCEPT !.room = 1],
      [TcpPlan(SpacepacketsServer, << <<"a">>, <<"b">> >>) EXCEPT !.fault = "accept"],
      [TcpPlan(SpacepacketsServer, << <<"a">>, <<"b">> >>) EXCEPT !.fault = "read"],
      [TcpPlan(SpacepacketsServer, << <<"a">>, <<"b">> >>) EXCEPT !.fault = "write", !.tms = <<4, 6>>],
      [TcpPlan(SpacepacketsServer, << <<"a">>, <<"b">> >>) EXCEPT !.stop = TRUE, !.tms = <<4>>],
      [TcpPlan(SpacepacketsServer, << <<"a">> >>) EXCEPT !.tms = <<7>>],
      TcpPlan(InCobsServer, << <<"a", "a", "b">> >>),
      [TcpPlan(InCobsServer, << <<"a", "b">> >>) EXCEPT !.decodes = TRUE],
      [TcpPlan(InCobsServer, << <<"a", "a">>, <<"b">> >>) EXCEPT !.room = 1],
      [TcpPlan(InCobsServer, << <<"a">> >>) EXCEPT !.tms = <<4, 6>>] }

AllServers == {SpacepacketsServer, InCobsServer}

SpacepacketsOnly == {SpacepacketsServer}

NoTcp == NewServer(TcpPlan(SpacepacketsServer, << >>))
-----------------------------------------------------------------------------
(* Plans of the two boards.  Of a frame, the line may cut off the end or   *)
(* the beginning.                                                          *)

Cut(p, n) == SubSeq(Frame(p), 1, n)

Rest(p, n) == SubSeq(Frame(p), n, Len(Frame(p)))

DiscoPlans ==
    [decodes : BOOLEAN,
     chunks : { <<Frame("a"), Frame("b"), Frame("a")>>,
                <<Frame("b"), Rest("s", 2), Frame("x"), Frame("a")>>,
                <<Frame("a"), Cut("b", 4), Rest("b", 5), Cut("a", 3)>>,
                <<Frame("b"), Cut("b", 4), Cut("a", 3), <<Zero>>, Rest("b", 7), Rest("a", 5)>>,
                <<Rest("a", 2) \o Encoded("b"), Cut("a", 3)>>,
                <<Frame("a"), Frame("a") \o Frame("b")>> }]

NoDisco == NewDisco([decodes |-> FALSE, chunks |-> << >>])

From(client, data) == [i \in DOMAIN data |-> [client |-> client, data |-> data[i]]]

NucleoPlan(datagrams) == [datagrams |-> datagrams, dhcp |-> << >>, links |-> 0]

NucleoPlans ==
    { NucleoPlan(From("c1", <<"s1", "s2", "s3", "m1">>) \o From("c2", <<"m2">>)),
      NucleoPlan(From("c1", <<"m1", "m2", "l1", "s1", "s2">>)),
      NucleoPlan(From("c1", <<"x1", "s1", "l1", "m1", "s2">>)),
      [NucleoPlan(From("c1", <<"x1", "s1", Truncated>>))
          EXCEPT !.dhcp = <<"Configured", "Deconfigured", "ConfiguredWithRouter">>, !.links = 2] }

NoNucleo == [NewBoard(NucleoPlan(<< >>)) EXCEPT !.udp.is_open = TRUE]
-----------------------------------------------------------------------------
(* Plans of the executor *)

ExecutorPlan(multi, tasks) ==
    [multi |-> multi, tasks |-> tasks, freq |-> TRUE, terminator |-> FALSE]

ExecutorPlans ==
    { ExecutorPlan(FALSE, <<OneShot>>),
      [ExecutorPlan(FALSE, <<Cycles(3)>>) EXCEPT !.freq = FALSE, !.terminator = TRUE],
      ExecutorPlan(FALSE, <<Cycles(0)>>),
      [ExecutorPlan(FALSE, <<[Infinite EXCEPT !.fails = 3]>>) EXCEPT !.terminator = TRUE],
      [ExecutorPlan(TRUE, <<OneShot, Cycles(2), Cycles(3)>>) EXCEPT !.terminator = TRUE],
      [ExecutorPlan(TRUE, <<OneShot, OneShot>>) EXCEPT !.freq = FALSE],
      [ExecutorPlan(TRUE, <<OneShot, Cycles(2)>>) EXCEPT !.freq = FALSE],
      ExecutorPlan(TRUE, <<Cycles(3), [Cycles(3) EXCEPT !.fails = 2]>>),
      [ExecutorPlan(TRUE, <<Cycles(1), [Infinite EXCEPT !.fails = 5], Cycles(0)>>)
          EXCEPT !.terminator = TRUE] }

NoExecutor == [NewExecutor(ExecutorPlan(TRUE, << >>)) EXCEPT !.pc = "ended"]
-----------------------------------------------------------------------------
(* Plans of the user of a pool *)

UserPlans ==
    [spill : BOOLEAN, data : {{"s1", "s2", "m1", "m2"}},
     growth : { << <<2, 1>>, <<1, 2>>, <<1, 2>> >>, << <<1, 2>>, <<2, 1>> >>,
                << <<1, 1>>, <<1, 4>>, <<1, 2>>, <<1, 2>> >> }]

ASSUME UserPlansAssumption == UserPlans \subseteq UserPlan

NoUser == NewUser([spill |-> FALSE, data |-> {}, growth |-> << >>])
-----------------------------------------------------------------------------
Init ==
    \/ /\ tcp \in {NewServer(plan) : plan \in {p \in TcpPlans : p.server \in Servers}}
       /\ disco = NoDisco /\ nucleo = NoNucleo /\ executor = NoExecutor /\ user = NoUser
    \/ /\ disco \in {NewDisco(plan) : plan \in DiscoPlans}
       /\ tcp = NoTcp /\ nucleo = NoNucleo /\ executor = NoExecutor /\ user = NoUser
    \/ /\ nucleo \in {NewBoard(plan) : plan \in NucleoPlans}
       /\ tcp = NoTcp /\ disco = NoDisco /\ executor = NoExecutor /\ user = NoUser
    \/ /\ executor \in {NewExecutor(plan) : plan \in ExecutorPlans}
       /\ tcp = NoTcp /\ disco = NoDisco /\ nucleo = NoNucleo /\ user = NoUser
    \/ /\ user \in {NewUser(plan) : plan \in UserPlans}
       /\ tcp = NoTcp /\ disco = NoDisco /\ nucleo = NoNucleo /\ executor = NoExecutor

Next ==
    \/ TcpNext /\ UNCHANGED <<disco, nucleo, executor, user>>
    \/ DiscoNext /\ UNCHANGED <<tcp, nucleo, executor, user>>
    \/ NucleoNext /\ UNCHANGED <<tcp, disco, executor, user>>
    \/ ExecutorNext /\ UNCHANGED <<tcp, disco, nucleo, user>>
    \/ UserNext /\ UNCHANGED <<tcp, disco, nucleo, executor>>

Spec == Init /\ [][Next]_vars /\ TcpFairness /\ DiscoFairness /\ NucleoFairness
=============================================================================
