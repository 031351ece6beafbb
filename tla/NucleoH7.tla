------------------------------ MODULE NucleoH7 ------------------------------
(***************************************************************************)
(* The example for the STM32H7 board: telecommands come in as UDP          *)
(* datagrams, the UDP task puts them into a memory pool without heap and   *)
(* sends their addresses to the TC source task.  The two tasks run one at  *)
(* a time, and the Ethernet interrupt is kept out while the UDP task holds *)
(* the sockets.  The LEDs of the board are left out.                       *)
(*                                                                         *)
(* nucleo.plan is what comes from outside: the datagrams, each a client    *)
(* and a datum (or Truncated, which the socket cannot return), the events  *)
(* of DHCP, and the changes of the Ethernet link.                          *)
(***************************************************************************)
EXTENDS HeaplessPool

CONSTANTS
    Growth,             \* number and size of the blocks of the three subpools
    ChannelDepth,       \* TC_SOURCE_CHANNEL_DEPTH
    ReadBufLen,         \* the buffer of the TC source task
    RxDatagrams         \* datagrams the socket holds

Truncated == "truncated"

\* The subpools are declared from the smallest blocks to the largest.
ASSUME NucleoAssumption ==
    /\ {ChannelDepth, ReadBufLen, RxDatagrams} \subseteq Nat \ {0}
    /\ MAX_NUM_SUBPOOLS = 3 /\ Len(Growth) = 3
    /\ \A i \in 1..3 : Growth[i] \in (Nat \ {0}) \X (Nat \ {0})
    /\ \A i, j \in 1..3 : i < j => Growth[i][2] <= Growth[j][2]
    /\ Truncated \notin Data

VARIABLE nucleo

\* The pool at the end of init.
SharedPool ==
    Grow(Grow(Grow(NewPool(TRUE), Growth[1][1], Growth[1][2]),
              Growth[2][1], Growth[2][2]), Growth[3][1], Growth[3][2])

\* Net::new and UdpNet::new: a fixed address until DHCP has found one, and a
\* socket that is not yet bound.
NewNet == [ip_addrs |-> "static", default_route |-> FALSE]

NewUdp == [is_open |-> FALSE, socket |-> << >>, last_client |-> "none"]

\* init.  taken, received, lost and leaked are history: the data that reached
\* the UDP task, what the TC source task has read, the data dropped before it,
\* and the addresses of the blocks nobody will free.
NewBoard(plan) ==
    [plan |-> plan, task |-> "waiting", net |-> NewNet, udp |-> NewUdp,
     eth_link_up |-> FALSE, phy_up |-> FALSE, shared_pool |-> SharedPool, tc_source |-> << >>,
     taken |-> {}, received |-> << >>, lost |-> {}, leaked |-> {}]
-----------------------------------------------------------------------------
(* The network *)

\* Net::poll in eth_isr: a frame of the client is given to the socket, if it is
\* bound and has room and the interface has an address.
EthIsrFrame ==
    /\ nucleo.task = "waiting" /\ nucleo.plan.datagrams # << >>
    /\ LET datagram == Head(nucleo.plan.datagrams)
           taken == /\ nucleo.udp.is_open /\ nucleo.net.ip_addrs # "none"
                    /\ Len(nucleo.udp.socket) < RxDatagrams
       IN  nucleo' = [nucleo EXCEPT !.plan.datagrams = Tail(@),
                                    !.udp.socket = IF taken THEN Append(@, datagram) ELSE @,
                                    !.lost = IF taken THEN @ ELSE @ \cup {datagram.data}]

\* poll_dhcp in eth_isr.
EthIsrDhcp ==
    /\ nucleo.task = "waiting" /\ nucleo.plan.dhcp # << >>
    /\ LET event == Head(nucleo.plan.dhcp)
       IN  nucleo' = [nucleo EXCEPT !.plan.dhcp = Tail(@),
                                    !.net.ip_addrs = IF event = "Deconfigured" THEN "none" ELSE "dhcp",
                                    !.net.default_route = event = "ConfiguredWithRouter"]

EthIsr == EthIsrFrame \/ EthIsrDhcp

\* The cable is plugged in or pulled.
LinkChanges ==
    /\ nucleo.plan.links > 0
    /\ nucleo' = [nucleo EXCEPT !.plan.links = @ - 1, !.phy_up = ~ @]

EthLinkCheck ==
    /\ nucleo.task = "waiting" /\ nucleo.eth_link_up # nucleo.phy_up
    /\ nucleo' = [nucleo EXCEPT !.eth_link_up = nucleo.phy_up]
-----------------------------------------------------------------------------
(* The UDP task *)

\* Mutant: the task is done once the socket is bound.
UdpPoll_Once ==
    /\ nucleo.task = "waiting" /\ ~ nucleo.udp.is_open
    /\ nucleo' = [nucleo EXCEPT !.task = "udp", !.udp.is_open = TRUE]

\* udp_task takes its locks; UdpNet::poll binds the socket.
UdpPoll ==
    /\ nucleo.task = "waiting" /\ (~ nucleo.udp.is_open \/ nucleo.udp.socket # << >>)
    /\ nucleo' = [nucleo EXCEPT !.task = "udp", !.udp.is_open = TRUE]

\* try_send of the channel to the TC source task.  An address is kept with
\* the datum that it was made for.
AfterTrySend(n, a, d) ==
    IF Len(n.tc_source) < ChannelDepth
    THEN [n EXCEPT !.tc_source = Append(@, <<a, d>>)]
    ELSE [n EXCEPT !.leaked = @ \cup {a}, !.lost = @ \cup {d}]

\* One turn of the loop in UdpNet::poll for a datagram.  A slice out of
\* bounds would be a panic.
UdpRecv ==
    /\ nucleo.task = "udp" /\ nucleo.udp.socket # << >>
    /\ LET datagram == Head(nucleo.udp.socket)
           d == datagram.data
           n == [nucleo EXCEPT !.udp.socket = Tail(@), !.udp.last_client = datagram.client,
                               !.taken = @ \cup {d}]
       IN  \/ /\ d = Truncated
              /\ nucleo' = [nucleo EXCEPT !.udp.socket = Tail(@)]
           \/ /\ d # Truncated /\ Reserve(nucleo.shared_pool, LenOf[d]) = {}
              /\ nucleo' = [n EXCEPT !.lost = @ \cup {d}]
           \/ /\ d # Truncated
              /\ \E b \in Reserve(nucleo.shared_pool, LenOf[d]) :
                    nucleo' =
                        IF CanWrite(nucleo.shared_pool, b, LenOf[d])
                        THEN AfterTrySend([n EXCEPT !.shared_pool = PoolAdd(@, b, d)], Encode(b), d)
                        ELSE [nucleo EXCEPT !.task = "panic"]

\* The socket is exhausted: the task releases its locks and waits.
UdpExhausted ==
    /\ nucleo.task = "udp" /\ nucleo.udp.socket = << >>
    /\ nucleo' = [nucleo EXCEPT !.task = "waiting"]
-----------------------------------------------------------------------------
(* The TC source task *)

\* It reads a telecommand and deletes it; what it cannot read stays.
TcSource ==
    /\ nucleo.task = "waiting" /\ nucleo.tc_source # << >>
    /\ LET a == Head(nucleo.tc_source)[1]
           d == Head(nucleo.tc_source)[2]
           n == [nucleo EXCEPT !.tc_source = Tail(@)]
           intact == PoolRead(nucleo.shared_pool, a) = Stored(nucleo.shared_pool, Decode(a), d)
       IN  nucleo' =
               IF CanRead(nucleo.shared_pool, a, ReadBufLen)
               THEN [n EXCEPT !.received = Append(@, IF intact THEN d ELSE "broken"),
                              !.shared_pool = PoolDelete(@, a)]
               ELSE [n EXCEPT !.leaked = @ \cup {a}, !.lost = @ \cup {d}]
-----------------------------------------------------------------------------
NucleoNext ==
    \/ EthIsr \/ LinkChanges \/ EthLinkCheck
    \/ UdpPoll \/ UdpRecv \/ UdpExhausted \/ TcSource

\* The tasks run when they are due.
NucleoFairness ==
    /\ WF_nucleo(UdpPoll) /\ WF_nucleo(UdpRecv) /\ WF_nucleo(UdpExhausted)
    /\ WF_nucleo(EthLinkCheck) /\ SF_nucleo(TcSource)
-----------------------------------------------------------------------------
\* The addresses of the blocks in use.
InUse == {Encode(b) : b \in {c \in Blocks(nucleo.shared_pool) :
                                nucleo.shared_pool.sizes[c] # STORE_FREE}}

\* The addresses in the channel to the TC source task are those of the blocks
\* in use, apart from the ones that were given up, one address for each block,
\* and each block holds the datagram for which its address was made.  Of the
\* datagrams none is lost but for want of a block, of room in the channel, or
\* of room in the buffer of the task, and the rest are read whole.
PoolKept ==
    LET entries == nucleo.tc_source
        pool == nucleo.shared_pool
        on_the_way == {entries[i][2] : i \in DOMAIN entries}
        read == {nucleo.received[i] : i \in DOMAIN nucleo.received}
    IN  /\ \A i, j \in DOMAIN entries : i # j => entries[i][1] # entries[j][1]
        /\ InUse = {entries[i][1] : i \in DOMAIN entries} \cup nucleo.leaked
        /\ \A i \in DOMAIN entries :
              /\ entries[i][1] \notin nucleo.leaked
              /\ LenOfData(pool, entries[i][1]) = LenOf[entries[i][2]]
              /\ PoolRead(pool, entries[i][1]) =
                    Stored(pool, Decode(entries[i][1]), entries[i][2])
        /\ nucleo.taken \subseteq on_the_way \cup read \cup nucleo.lost
        /\ read \subseteq nucleo.taken \ (on_the_way \cup nucleo.lost)

\* The board always gets back to the state in which
\* all datagrams have been read, the blocks that were not given up are free,
\* and the link is what the link check last saw.
DatagramsRead ==
    []<>(/\ nucleo.udp.socket = << >> /\ nucleo.tc_source = << >>
         /\ InUse = nucleo.leaked /\ nucleo.eth_link_up = nucleo.phy_up)
=============================================================================
