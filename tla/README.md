# Specifications of sat-rs

This directory holds TLA+ specifications of sat-rs, an on-board software
framework in Rust, of its example application (`satrs-example`), its mini
simulator (`satrs-minisim`) and its two embedded examples. The specifications
are written from the source; paths below are relative to `src/`. `PROJECT.json`
lists the model-checking runs, maps definitions to source lines and records
hazards and findings.

Contents: [the system](#the-system), [modules](#modules), [runs](#runs),
[bounds](#bounds), [fairness](#fairness), [proofs](#proofs),
[what the models show about the code](#what-the-models-show-about-the-code),
[not modelled](#not-modelled).

## The system

| part | source | what makes it hard |
|---|---|---|
| memory pools | `satrs/src/pool.rs` | addresses packed into bytes, spilling, guards that delete on drop, growth while in use |
| TC scheduler (PUS 11) | `satrs/src/pus/scheduler.rs` | map and pool must agree, a releaser that may keep blocks, read errors half-way, clock steps |
| TM path | `satrs-example/src/tmtc/tm_sink.rs`, `interface/{udp,tcp}.rs`, `satrs/src/tmtc/mod.rs` | lock held over a blocking send, leaks when a queue is full, panics that poison the lock |
| commanding: TC source, distributor, PUS services, verification | `satrs-example/src/{tmtc,pus}`, `satrs/src/pus` | owners of TC blocks, reports that fail, late and doubled replies, repeated request IDs, time-outs |
| events (PUS 5) | `satrs/src/{events,event_man}.rs`, `satrs/src/pus/event*.rs`, `satrs-example/src/events.rs` | full listener queues, repeated subscriptions, requests that pass through two handlers |
| device handlers, power switching, modes | `satrs-example/src/{acs,eps}`, `satrs/src/{mode,power,request}.rs`, `satrs/tests/mode_tree.rs` | requests that overtake each other, replies that come late, one command for several threads |
| mini simulator | `satrs-minisim` | one reply address, scheduled events, a reply queue that drops |
| CFDP destination | `satrs/src/cfdp` | lost, repeated and reordered PDUs, check timer, a failing store |
| TCP server, stream parsers | `satrs/src/hal/std`, `satrs/src/encoding` | packets split over reads, failing system calls |
| periodic executor | `satrs/src/executable.rs` | counters, errors and termination in the middle of a round |
| embedded examples | `embedded-examples` | interrupts between and within tasks, bounded queues |

Telecommands enter through the TCP or UDP server, pass the TC source and the
distributor and reach a PUS service; it answers them itself, or turns them into
requests for a device handler and follows the replies. Telemetry of all these
goes to the TM sink, which counts it and gives it to both servers.

## Modules

| module | models |
|---|---|
| `PoolAddress` | the conversions between blocks and the addresses that pools hand out |
| `StaticPool`, `MemPool` | the pool as operators on its memory; a pool and its users |
| `HeaplessPool`, `HeaplessUser` | the same for the pool without heap, which can grow while in use |
| `PusScheduler`, `TcSchedule` | the scheduler with its pool; abstract: a set of pending telecommands and their times |
| `TmFunnel`, `TmPipeline`, `TmPipelineDynamic`, `TmStream` | counters and TCP queue of the sink; TM path with pools; TM path on the heap; abstract: telemetry is sent in the order of its arrival |
| `Verification`, `EventManagement`, `Commanding` | PUS 1 tokens and reports; event manager and PUS 5; the commanding path that uses both |
| `Messaging`, `MiniSim`, `Devices`, `ModeTree` | message channels and interfaces; the simulator; the device handlers with both; a mode service, an assembly and two devices |
| `CfdpFilestore`, `CfdpDest` | the file store the handler uses; the destination handler and its link |
| `Framing`, `TcpServer` | CCSDS and COBS parsers on abstract bytes; the TCP server |
| `Executor`, `DiscoF3`, `NucleoH7` | the executor; the two boards |
| `MC...` | values of the constants, and what happens from outside, for TLC |
| `...Proofs` | proofs (`TmCounterProofs` extends `TmPipelineProofs`) |
| `CommandingInvariants`, `CommandingLemmas` | the definitions and the lemmas of `CommandingProofs` |

### Pools

`mem` maps a block (a pair of subpool index and packet index) to its data or to
`STORE_FREE`, as the size lists do; the data of a block is a model value with a
length. `Encode` and `Decode` are the conversions between `StaticPoolAddr` and
`PoolAddr`, with the masks of the code; both pools use them. `Reserve` yields the block that
`reserve` finds: the first free one of the first subpool that is large enough
or, when spilling is enabled, of a later one. Every operation needs the pool by
`&mut` or behind the write lock, so each is one step. A guard borrows the pool
until it is dropped, so its use and its deletion are one step too. `handles`
records what each holder of an address stored. The pool without heap does not
sort its subpools, so the order in which they are added is part of its state, and
`overran` records that it has put data into a block that is too small.

### Scheduler

`tc_map`, `current_time`, `enabled` and `mem` are the fields of the scheduler
and its pool. Blocks that the scheduler leaves to its callers (returned
addresses, telecommands the releaser keeps) are in `user_owned`; callers may
delete them or schedule them again. A telecommand is stored once in a
behaviour, and a caller does not schedule one again that was executed; without
the latter "executed at most once" would depend on the caller. `insert_wrapped_tc` is
`insert_unwrapped_tc` behind checks, represented by the set `Unschedulable`.
The release buffer has a length, and the first read that fails ends a release
before the map is trimmed, as in the code. Runs and proofs have a buffer that holds
every telecommand, as the documentation of the release demands: with a shorter one
entries are left that refer to freed blocks. A time window does not start after its end
(`TimeWindows`); `BTreeMap::range` panics on such a window before anything changes.

### Telemetry path

A packet is a number with an APID and a service; the sink writes two counters
into it. The program counters of the sink and of the tmtc-udp thread follow the
blocking operations: the queue receive, the lock, the blocking send. Other users
lock the pool, act and unlock in one step. The sink is the only thread that
waits while it holds the lock. A failed `expect` ends the thread, drops what its
receivers hold, and poisons the lock if it is held. Errors of the producers are
logged by the PUS handlers. The telecommand queue is a counter here; what
telecommands do is in `Commanding`.

### Commanding and events

`source` is the queue to the tmtc-udp thread, `queues` those of the services,
`pool` the TC pool and `active` the active request maps. `Distribute` polls and
routes one telecommand. The PUS thread is a program counter over the stages of
its loop (`Stages`): events, release of scheduled telecommands, each service
with its reply handler, and the time-out check; `static` tells the static build,
in which sends can fail and events come first, from the one on the heap. A
handler runs on a context `c`: what it sends, whether it returned an error or
panicked, and how many telemetry packets the sender still takes (`room`), so a
report can fail at every place in a handler. `Verification` keeps the length of
failure data, because a report longer than the 15-byte source buffer is an error
that callers handle. The schedule is reduced to its order and a flag `due` per
entry, since `PusScheduler` models the rest. The distributor
routes no action telecommands, although the action service exists;
`CommandAction` stands for a component that holds the `action_tc_sender` which the
example creates and does not use.

`EventManagement` has the maps of the event manager (listeners per key with
duplicates, senders, bounded queues), the two reporting maps of PUS 5 and
the conversion between event IDs and numbers, checked by an assumption over all IDs.

### Devices, modes and simulator

`Devices` runs the AOCS thread (magnetometer), the EPS thread (power unit), the
simulator client and, behind UDP, the simulator. `dev` holds the mode and the
program counter of each handler within its loop, `mgm` its transition, `chans`
the queues, `net` the datagrams under way. Measured values are reduced to where
they come from: a device without power, the sine of the simulated field, or the
field of the magnetorquer. `plan` fixes the build, the commands that come from the
PUS thread, a parent, the switch helper or another UDP client, and whether
datagrams are lost. The two polls of the EPS loop are one stage. A torque of no
duration is never cleared, since the simulation refuses an event that is not in the
future (`ApplyTorque`). `ModeTree` builds
the components of `satrs/tests/mode_tree.rs` on the interfaces of `Messaging`, each
in a thread of its own; the service polls its replies, which the test does not.

### CFDP

A call of `state_machine` is one step; the handler `d` is a record with the
fields of `DestinationHandler`, `TransactionParams` and the file store, and
the functions of the code are operators on it, in the order of the code. `Receive`
gives it any PDU of any transaction, which covers loss, repetition and reordering;
every call of the store or of the PDU sender may fail. `log` records what
the properties need. What the code leaves as `todo!()` ends in a panic.
The modular checksum is a sum of words modulo `WordModulus`; the CRC of a file
is taken to tell it from every other file.

### Platform

These programs do not interact, so one run has behaviours of each. `Framing`
represents a packet as a sequence of bytes that name the packet and their
position, so a parser that starts in the middle of a packet sees a header
that the plan chooses (`misread`); COBS frames are delimited by `Zero`, and the
plan chooses whether a damaged frame decodes. How decoding in place changes a
damaged frame is left out. `TcpServer` has the loop over poll, accept, read and
write, clients whose stream is cut anywhere and who may close at any time, and failing system calls. `DiscoF3` and
`NucleoH7` have one action per task and interrupt; interrupts come wherever the
priorities allow. `Executor` has the two loops of `executable.rs` with counters
that wrap at `CycleMod`, as in a release build (a debug build panics there).

## Runs

| run | shows |
|---|---|
| `pool` | held addresses keep their data and no block in use is without holder (`AddressesExact`); data fits its block; with spilling a store fails only when all blocks that are large enough are in use |
| `pool_wide` | finding: an address keeps eight bits of the packet index, so block 256 of a subpool is read as block 0 |
| `scheduler` | entries own their blocks; every block has an owner; nothing is executed twice, early or while disabled; `PusScheduler` implements `TcSchedule` |
| `scheduler_reset` | finding: a telecommand refused by the time margin check stays in the pool, and `reset` does not free it |
| `tm_static` | what arrives at the sink is sent in order, once, with gapless counters; addresses in flight are valid; the TCP queue holds the newest packets; a panic ends the stream and never corrupts it |
| `tm_static_stuck` | finding: sink and tmtc-udp thread wait for each other once the server queue is full |
| `tm_dynamic` | the same path on the heap: in order, gapless, and every packet is eventually sent to a known client |
| `commanding` | TC blocks have one owner each, or are the recorded leaks (`BlocksOwned`); a telecommand ends at most once and never while it is open, and tokens name their request (`EndsOnce`); it never ends silently except where `Excused` lists that the code gives up (`NoSilentEnd`); all accepted telecommands end (`RequestsEnd`); every routed event is delivered, waiting or lost to a full queue (`EventsAccounted`); an event is reported exactly if what the ground was told, or the default of the map, is that its reports are on, and a report that is on and not possible panics the thread (`DisabledIsSilent`) |
| `devices` | mode commands are answered once and with their mode, or are superseded (`AnswersRight`); valid data come from a powered device (`DataValidity`); transitions end in a healthy system (`TransitionEnds`); in a mode tree replies and announcements match the requests (`TreeAnswers`) |
| `cfdp` | types; a file reported as complete under a CRC is the sender's (`IntactFile`); a size error has a cause (`SizeErrorHasCause`); the reported file status is that of the store (`StatusMatchesStore`); the user is told once (`ReportedOnce`); after EOF the handler becomes idle again (`TransferEnds`) |
| `platform` | TCP: packets whole, in order and counted until something is read behind old bytes (`ConnectionKept`), every client is served (`ClientsServed`); F3: exactly the received telecommands are executed and reported (`CommandsAnswered`), everything is handled (`BoardWorks`); H7: addresses, blocks and datagrams agree (`PoolKept`), all is read (`DatagramsRead`); pool without heap: elements stay, and only a pool that spills and does not ascend overruns a block (`ElementsKept`); executor: one call per round, none after the end (`RoundsKept`) |
| `tcp_split` | finding: after a space packet that was split over two reads, the next packet is put behind old bytes and handed on damaged (`SplitPacketsRebuilt`) |

### Bounds

- `pool`: the configuration that `sanitize` makes of five entries, three
  subpools with four blocks, and data on both sides of every block size; enough
  for a subpool to be full while the next has room, and for the whole pool to be
  full. `pool_wide` needs 257 blocks and one user who fills them.
- `scheduler`: three blocks in two subpools, four telecommands of which two
  share a request ID and one may not be scheduled, times 0 to 2 with margin 1:
  two entries in one bucket, buckets on both sides of the current time, a clock
  that goes back, and a pool that is full all occur.
- `tm_static`: seven packets, two telecommands, two producers, a pool of three
  blocks, queues of length one; counters that wrap after two and three packets.
  Every queue and the pool overflow, and both threads panic in some behaviour.
- `tm_static_stuck`: the sink's queue and the pool have room for all packets, so
  that no error or panic occurs and the wait cycle is the only way to stop.
- `tm_dynamic`: seven packets and two telecommands.
- `commanding`: 25 plans of one to four telecommands or events, among them every
  subservice the code tells apart, each error of a converter, equal request
  IDs, and every reply a target can give; a pool of two blocks, queues of one or
  two, one refused telemetry packet (`MaxTmFailures`), two service rounds per
  cycle (`MaxLoops`; the code allows 500, and the rounds are alike), and three
  sets of subscriptions with both reporting maps.
- `devices`: 23 plans of one to three commands, queues of one or two, at most one lost
  datagram, one late sensor reply and one request for switch info under way at a time; four
  plans of four orders for the mode tree.
- `cfdp`: two transfers, files of at most two segments, six PDUs (`MaxPackets`),
  one failing call, 13 configurations. Two segments can be swapped, repeated or lost, and
  a second transfer starts after the first.
- `platform`: 15 plans for TCP (a buffer that two short packets fill, one packet that
  is too long), 12 for F3, four for H7, nine for the executor and six for the pool.
  `tcp_split` has the plans of the space packet server (`Servers`).

Deadlock is not checked where the plans end or where the system can stop for good, as
a panic or the wait cycle of `tm_static_stuck` makes it. It is checked in `pool`,
`scheduler` and `tm_dynamic`.

### Fairness

- TM path: the sink and the tmtc-udp thread, and in the static variant a producer
  that has stored a packet. Each is a thread in an endless loop. Clients and
  producers of new packets need not be active. The number of
  telecommands is bounded, so the polling loop of `udp.rs` ends;
  a client that sends faster than it is polled would keep it from sending telemetry.
- `commanding`: weak fairness of the tmtc-udp thread and of the PUS thread, which
  are periodic, of the targets that run (they may also not reply), and of
  the clock that makes requests old.
- `devices`: weak fairness of each thread, of the simulator and of the events it
  has scheduled. `TransitionEnds` assumes in addition what `Healthy` names, because
  the switch command is sent only once. `AnswersRight` and `TreeAnswers` need none.
- `cfdp`: a handler that has something to do is called, and the check timer expires.
  No PDU need arrive.
- `platform`: the server thread and the tasks run (weak fairness). A client
  disconnects in the end, whether or not it has sent all its bytes, since the server
  serves nobody else before. The TC source task of H7 runs although the UDP task keeps
  it from running again and again (strong fairness of both): the UDP task sleeps for
  40 ms between its rounds.

## Proofs

TLAPS checks the following for every value of the constants that satisfies the named
assumptions of the modules. Each theorem is about a property of a run, or about the same
property on the other build.

**Pool** (`MemPoolProofs`). `HeldAddressesStayValid` and `DataFitsItsBlock` have the
hypothesis `IndicesFit`: subpools and blocks are few enough that their indices fit the
masks of `Decode`; then addresses are distinct (`AddressesDistinct`), and without it
`pool_wide` is a counterexample. `DataFitsItsBlock` also needs the subpools in the order
that `sanitize` establishes (`CfgSorted`). The invariant `IInv` adds to `AddressesExact`
the types and that every block agrees with the handle of its address.
`SpillingUsesEveryBlock` needs neither hypothesis: with spilling, `reserve` is complete
(`ReserveComplete`), because the subpools that fit, those with room and the free blocks
of one of them are sets of natural numbers, so that each of the three searches stops at
a least element.

**Pool without heap** (`HeaplessProofs`). `HeaplessPoolKeepsElements`, for every set of
data, every sequence of subpools that are added, and every order of calls. The property
is about addresses: what the user was given is the encoded block, and every later call
decodes it, so the elements are claimed for pools whose indices fit the masks
(`IndicesFit`), where decoding undoes encoding (`DecodeEncode`). They are kept until
`reserve` has chosen a block that is too small (`overran`), and the theorem shows that
this and a panic happen only in a pool that spills and whose subpools do not ascend.
`IInv` adds the shape of the pool (`UserShape`) and states address by address that the
size entry and the memory are those of what the user holds and that the data fits the
block (`Agrees`): a write of data that fits touches no other block (`WriteOne`), and
without spilling, or in ascending order, what `reserve` yields fits (`ReserveFits`).
Growth keeps all of it (`GrowAgrees`).

**Scheduler** (`PusSchedulerProofs`). `ScheduleOwnsItsBlocks`, `NoBlockWithoutOwner`,
`ExecutedAtMostOnce`, `NeverExecutedEarly` and the refinement
`SchedulerImplementsSchedule`. Hypotheses `IndicesFit` and `BufferLargeEnough`: the
release buffer holds every telecommand, as its documentation demands. The inductive
invariant `IndInv` adds to the checked invariants that blocks of callers are stored
telecommands with one owner (`UserSound`), that a telecommand lies in one block
(`StoredOnce`), and that an entry is in the bucket of its release time and was not
executed (`HistorySound`). `Shrink` is the core of the argument: whatever removes
entries, frees blocks of removed entries only and hands over the others keeps the
invariant. The actions that delete, reset and release are instances of it. The
refinement rests on how each kind of map update changes the set `Pending`, and on the
fact that under `IndInv` a release processes all entries that are due.

**Telemetry path** (`TmPipelineProofs`), for every number of producers and packets and
every length of the queues and the pool.
- `FlowIsComplete`, `PipelineImplementsStream`: `NothingLostOnTheWay` becomes inductive
  with `ThreadsSound` (a thread holds a packet exactly where its code does, and the sink
  panics only after the tmtc-udp thread) and `BoundSound` (the bound on the packets
  leaves numbers for the reports of every telecommand). Every step moves a packet from
  one part of the flow to the next without changing the concatenation of the parts.
  `Cat` names concatenation in the proofs, so that the provers use its laws and do not
  unfold it. A step that sends then sends the next packet in the order of arrival, which
  is the step of `TmStream`.
- `AddressesLeadToBlocks` (`BlocksInUse`): `BlocksInv` adds that a packet is in at most
  one pair of hands, that it arrives once, and that no packet is anywhere before it was
  created. So the block that the tmtc-udp thread frees is nobody else's.
- `TcpQueueHoldsNewest`, for every limit of the queue.

**Counters and the path on the heap** (`TmCounterProofs`). `CountersWithoutGap`, for
every width of the counters. `CountersInv` says that the packets the sink has processed
are the first that arrived, that the n-th of an APID (or service) among them carries n
modulo the width, and that the counters of the sink stand at the next value.
`DynamicCountersWithoutGap` and `DynamicImplementsStream` prove the properties of
`tm_dynamic` for `TmPipelineDynamic`, which the module instantiates as `Dynamic` over
the same variables; `DynamicInv` is simpler, as nothing is refused and nobody panics.

**CFDP** (`CfdpProofs`). `ReportsMatchTheStore`, `ReportedFileIsIntact`,
`SizeErrorsAreCaused` and `TransactionsAreReportedOnce`, for every set of transfers,
files, names and configurations, every sequence of PDUs and every failing call. A call
of the handler passes through many operators; each has a lemma that says which of the
following it keeps or establishes. `Sound`: the status of the file is that of the store,
and a transaction that was started has its own name. `Tracked`: the checksum that is
waited for is that of the sender's file, a transfer about to be completed has that file,
the progress counts no segment twice, and every notice so far was followed by a Finished
PDU that could not be sent. `Truthful`: what the user was told in the last call is so.

**Commanding** (`CommandingProofs`), for every plan, pool, length of queue, set of
targets and set of their answers, wherever a report is refused and whichever thread
panics. `CommandingInvariants` has the invariants, `CommandingLemmas` the lemmas on
handlers, blocks and events, `CommandingProofs` those on the balance of reports, and the
theorems. What the lemmas use of finite sets and natural numbers is their premise
`SetLaws`, which `SetLawsHold` proves from the library before the theorems; so the
provers do not see the whole library in every step.
- `BlocksAreOwned` (`BlocksOwned`). `BlocksInv` sees the queues as lines of messages
  (`Lines`) and says that every block in use is that of exactly one place in a line or
  is leaked, and holds the telecommand of its message. Taking the head of a line gives
  its block up, appending a message takes one over; each action is a composition of
  these two (`Owned`).
- `ToldIsTrue` (`DisabledIsSilent`): when the handler takes an event, it is reported once
  if its reports are on (`ReportsOn`) and possible (`ReportPossible`), the thread panics if
  they are on and not possible, and neither happens if they are off. `ToldInv`: the
  reporting map agrees with what the ground was told, and each request on its way carries the raw number of its own event.
  `EventRoundTrip` shows that the raw number determines the event, for every width of
  its fields.
- `TelecommandsEndOnce` (`EndsOnce`) and `EndsAreReported` (`NoSilentEnd`). Each handler
  has a lemma that gives the exact set of reports it has sent for its own request and
  that it sent none for another (`Wrote`). `ReportsInv` is a balance of each request ID:
  its completions, and the telecommands queued, handed to the event handler or active
  with this ID, are no more than its acceptances, and likewise for its starts; with
  `IsFiniteSet` of what is counted, the types of requests and replies, and tokens that
  name their request. `StepKeeps` compares both sides of the balance over one step,
  action by action, and says when a telecommand is no longer open. The raw number of a
  request ID determines it (`RequestIdRoundTrip`).
- `VerificationPowers` and `EventPowers` are the facts about powers of two that the
  provers do not know; TLC evaluates them for the widths of the runs.

Only model-checked:
- all liveness, which with fairness is outside the proof system;
- `TypeOK` of `CfdpDest` and `EventsAccounted`: the type of a checksum is that of a sum
  over the words of a file, and the copies of an event are made by a loop over its
  listeners, so both need an induction over data;
- `RoundsKept`, as the executor removes what has ended with a filter on sequences
  (`SelectSeq`, which is recursive), and `ConnectionKept`, as the parsers are recursive
  operators;
- `AnswersRight`, `DataValidity`, `TreeAnswers`, `CommandsAnswered` and `PoolKept`:
  their invariants relate many queues of the handlers, the simulator and the boards, and
  have not been worked out.

## What the models show about the code

The four runs that end in a violation are in the table above. In three other places a
document says something else than the code, and the properties that cover the place are
about the code:
- the doc of `StaticMemoryPool` (`satrs/src/pool.rs:828-829`) says that the pool does not
  spill to larger subpools; its configuration (772-775), `reserve` and the tests say that
  it does, and `FullOnlyWhenFull` that it then uses every block that is large enough;
- the heapless reporting map (`satrs/src/pus/event_man.rs:59`) reports the events in its
  set named `disabled`, so all reports start off, where the trait (23-30) speaks of a list
  of disabled events: a case of `ReportsOn`;
- in the static build the first event report panics the PUS thread, where
  `satrs-example/src/events.rs:57-58` says that PUS telemetry is generated for each event:
  a case of `ReportPossible`, see below.

The following
behaviours were met while modelling; the models contain them, and the properties
name them as exceptions or hold in spite of them. All follow the source and some
are unfinished code rather than mistakes.

CFDP (`satrs/src/cfdp/dest.rs`)
- `reset` (131-137) keeps `progress`, `completion_disposition` and `metadata_only`: a
  second transfer can get a file size error, or its file deleted on account
  of an earlier cancellation.
- The transaction ID of file data and EOF PDUs is not compared (389-419).
- A matching checksum does not set the delivery code to complete; a cancellation at
  EOF is overwritten by the check limit step (468-473).
- When the Finished PDU cannot be sent the notice of completion is repeated, and a
  file that was removed is removed again, which then fails for ever (667-695).
- Without an EOF the handler stays busy; without usable names it stays at the
  start of the transaction. An idle handler called without a PDU reaches `todo!()`
  (261-265), although its documentation (250-252) allows periodic calls.

Scheduler (`satrs/src/pus/scheduler.rs`)
- Deletion by request ID removes the last match of the earliest bucket with one
  (`RequestIdMatch`), where the doc (603) says that it stops on the first. With equal
  request IDs either is repeated until none is left, and `ScheduleSound` holds.

Commanding (`satrs-example/src/{tmtc,pus}`, `satrs/src/pus`)
- Blocks of the TC pool leak when the source queue is full, a telecommand does
  not parse, or no service takes it (`leaked`). Health telecommands are accepted
  and dropped.
- A request that times out is removed without a report. A request with the ID of an
  active one replaces it. Failure data of eight bytes and the `WrongMode` reply
  exceed the source buffer, so the request ends without a report.
- Errors of a converter give a start failure and a completion failure.
- An insertion that fails panics the PUS thread; unknown PUS 11 subservices
  are not answered. The release panics on a full TC pool in the static build,
  with the lock held, and so takes the TC source with it.
- A test event waits for room in a queue that only the same thread empties
  (`WaitsForItself`).
- In the static build the event handler sends through a plain
  `SyncSender<PacketInPool>` (`satrs-example/src/main.rs:118`), which refuses telemetry that is not in the
  pool (`satrs/src/pus/mod.rs:707-716`): the first enabled event report panics the PUS thread.

Events (`satrs/src/event_man.rs`, `satrs/src/pus/event*.rs`)
- One event is handled per cycle; a full listener queue loses the message with a log
  entry; duplicate subscriptions deliver duplicates until they are removed.
- Parameters of more than 124 bytes make the report fail and the handler panic;
  heapless parameters always fill the 64-byte buffer.

Devices and modes (`satrs-example/src/{acs,eps}`, `satrs/tests/mode_tree.rs`)
- `start_transition` sets the mode of the magnetometer at once, so it is polled
  and its set marked valid before there is power. Off sends no switch command. A mode
  that does not exist is not answered.
- The switch command is sent once: if it is lost, or the queue is full, the
  transition does not end. A new mode request replaces the requestor of the
  one under way (`Superseded`).
- `is_switch_on().expect(...)` panics the AOCS thread while the switch set is invalid;
  a late reply makes the set valid again after the power unit was switched off.
- A sensor reply that comes after its time-out is taken for the next one. All
  simulator replies go to the client that sent last. `MgtReply` names the
  magnetometer as its source (`satrs-minisim/src/lib.rs:421`), so housekeeping of the magnetorquer
  panics the AOCS thread. The external field is never cleared.
- A thread that panics closes its queues, and the panic spreads to threads that
  expect them. The main thread joins tmtc-udp first, so the
  program ends with that thread, and only with it.
- The assembly of the mode tree keeps a mode command without an answer, and
  forwards announcements that are not recursive too.

TCP server (`satrs/src/hal/std`)
- `next_write_idx` is not reset after a mended tail (`tcp_spacepackets_server.rs:36`),
  so what is read next is put behind old bytes: packets are handed on again or damaged,
  which `tcp_split` shows. `ConnectionKept` says that all is well up to that read; a
  packet that is split over any number of reads is still rebuilt, and a client may go in
  the middle of one.
- The start of a space packet that is shorter than its header plus one byte is dropped, as
  the doc of the parser says. The start of a COBS frame is kept only after a whole frame
  in the same buffer (`encoding/cobs.rs`), so a first frame that is split is lost, where
  `tcp_cobs_server.rs:109-111` speaks of a reliable way to reconstruct packets. The
  history in `Observed` lists these cases.
- A full buffer makes an empty slice, and the read of zero bytes counts as the
  end of the connection. A client holds the server until it closes.
- Telemetry longer than the buffer (COBS: longer than the buffer less two) panics; a failed
  write loses the packet.

Boards, pool and executor
- F3: `rx_dma_isr` always panics, where its text warns; a frame that arrives while
  one is pending panics; a damaged frame can execute the last whole telecommand
  once more, through bytes left in `decode_buf`, and never anything else; reports of one
  telecommand share sequence counts.
- H7: a full channel, or a telecommand longer than the read buffer, leaves its block
  in use for good.
- Pool without heap: with spilling and subpools that do not ascend, `reserve` can
  yield a block that is too small; the data then runs over the next blocks, or the
  write panics at the end of the subpool.
- Executor: `Cycles(0)` runs 2^32 times in a release build; without a task frequency
  the loop over several executables panics after the first round; an error
  of one executable ends the thread for all; on termination each of several
  executables is called once more, a single one is not.

## Not modelled

- Parameters, result codes, housekeeping and action types (`satrs/src/{params,res_code,hk,action}.rs`,
  `satrs-shared`, `satrs-mib`): byte encodings and data types with no state and no control. Where a length matters (failure data,
  event parameters) it is in the modules that use it.
- CFDP: the directory operations and `read_data` of the file store, which the
  handler does not call. The source entity has no code. Acknowledged mode, Ack, Prompt and EOF
  with an error are `todo!()` in the code and panics in the model.
- Sequence counters that are shared between threads: they repeat the simple
  counter under a mutex, and nothing in the repository uses them.
- `PusServiceReplyHandler` in `satrs/src/pus/mod.rs`, which is commented out.
- Helpers that build telecommands for tests and scripts, logging, text and time formats.
- Registers, clocks and LEDs of the boards, the network stack, and the
  discrete-event library behind the simulator; the latter is an external set of
  pending events that run in any order.
- Time: time-outs, timers and periods are events that may happen at any moment,
  which includes the moments at which the code lets them happen.
