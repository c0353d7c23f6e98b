# A TLA+ model of ChucK-DMX

ChucK-DMX (`src/DMX.cpp`) is a plugin for the ChucK language. A `DMX` object
buffers the channels of up to 64 DMX universes, animates fades, and sends the
buffers over a serial port, over sACN (E1.31) or over Art-Net, with a library for
each that is part of the repository. This directory holds TLA+ modules that
model the plugin and the libraries, TLC configurations that check them on small
instances, and TLAPS proofs. Paths are relative to the repository; a bare `:n` is a
line of `src/DMX.cpp`, and `receiver.c`, `dmx_merger.c` and the like are in
`src/sACN/src/sacn`, `receive.c`, `artnet.c` and the like in `src/libartnet/artnet`.

Contents: [inventory](#inventory), [modules](#modules-and-the-code),
[what the runs check](#runs), [bounds](#bounds), [fairness](#fairness),
[proofs](#proofs), [a disagreement between code and documentation](#a-disagreement-a-run-shows),
[observations](#observations), [not modelled](#what-is-not-modelled), [plan](#plan).

To repeat the work: `tlc -config FadeEngine.cfg MCFadeEngine.tla` (the module and the
configuration of each run are in the table of runs) and `tlapm FadeEngineProofs.tla`
for each of the modules named `...Proofs`.

## Inventory

| Component | Source | State it keeps | Operations |
|---|---|---|---|
| Channel buffers, fades, universe map | `DMX.cpp` | `_universes` (512 values, 512 fades and a fade count each), `_active_universe` | `channel`, `channels`, `fade`, `blackout`, `universe`, `addUniverse`, `removeUniverse`, the fade step of `send` |
| Protocol lifecycle and transmission | `DMX.cpp` | `_protocol`, three `_X_initialized` flags, priority, name, port name, `_artnet_mappings`, the reconnect timer | `protocol`, `port`, `init`, `send`, `priority`, `name`, the map's operations as a running protocol sees them |
| sACN library shared by all objects | `DMX.cpp` :97-118 | `sacn_ref_count` | `sacn_global_init`, `sacn_global_deinit` |
| sACN library initialization | `common.c` | a counter for the network features and one for the merger | `sacn_init_features`, `sacn_deinit_features` |
| sACN source | `source*.c`, `mem/source/` | sources, their universes, destinations and interfaces, sequence numbers, suppression and termination counters | the whole API; the 23 ms thread, or the application in its place |
| sACN receiver | `receiver*.c`, `source_loss.c`, `mem/receiver/` | tracked sources with their timers, termination sets, the sampling period, notifications | create, destroy, change universe, reset networking, a packet, the periodic pass, delivery of callbacks |
| sACN merge receiver | `merge_receiver.c`, `mem/merge_receiver/` | two mergers, a table of sources, whether priorities are current | the handlers of a receiver's callbacks, change universe, add and remove |
| DMX merger | `dmx_merger.c` | per slot a winner and its level and priority, per source its levels and priorities | add and remove a source, its levels, priorities, universe priority |
| sACN source detector | `source_detector*.c`, `mem/source_detector/`, `remote_source.c` | sources with the pages of their universe list, handles of remote components | create, destroy, a page, the periodic pass |
| sACN sockets and receive thread | `sockets.c`, `recv_thread_context.c` | shared sockets with their counts, who is bound, queues of the thread | add, remove, reset; the thread's pass |
| Art-Net node library | `src/libartnet` | a node: ports, addresses, merging outputs, devices, firmware transfers, its list of nodes | the handlers of all packets, the calls of the application |
| Serial port library | `src/serial` | descriptor, open flag, settings, read and write mutexes | `open`, `close`, the reads, `write`, flushes, setters |
| ChucK glue | `DMX.cpp` :1002-1330, `src/chuck` | the object pointer | argument conversion, documentation strings |
| Example and build | `DMX-test.ck`, `CMakeLists.txt`, `scripts` | | |

**How they interact.** ChucK's virtual machine calls the methods of an object, all
from one thread; the class is nevertheless written to be called from several,
with five mutexes per object (`fade_mutex`, `dmx_mutex`, `state_mutex`,
`send_mutex`, `serial_mutex`) and a global one for the sACN count. `send()` advances the
fades, takes snapshots of the protocol, the mappings and the universes under
short locks, then does its I/O under `send_mutex`, with `state_mutex` only where a
reconnect replaces a device. The sACN library has a thread that transmits every
23 ms whatever `send()` last handed over, and one that receives. A receiver
changes its state under one lock and delivers callbacks under another; a merge
receiver is a receiver's application inside the library and calls two mergers; the
receivers and the detector share sockets, which only the receiving thread
joins, binds and closes. An Art-Net node runs in its application's thread and
meets other nodes by packets. The plugin uses the sending side of the libraries only;
their receiving side is modelled as a part of the repository in its own right.

**What is hard.** Calls made of several critical sections, with other calls between
them; snapshots used after the lock is gone; flags and counts kept by hand beside what
they describe; an insertion rolled back after the library refused it; reconnects
inside `send()`; nested locks with early returns; notifications collected under one
lock and delivered under another; merge results updated in place, by different code
for one source and for several; a thread that works later on what calls queued;
packets that are lost, repeated, late, or fail to leave; time-outs that race the
packet they wait for; one library shared by objects that start and stop it
independently. `PROJECT.json` lists each under `hazards`, at its line, with the
properties that would catch it.

**What makes each component correct.**

- *Buffers*: a fade count that is exact (else fades freeze), fades that stay
  within their endpoints, move to their target and end, direct writes that win, a
  map that is never empty nor above its limit, an active universe that exists.
- *Protocol side*: flags that agree with devices, one protocol at a time, every
  universe sent under its own number, a running source that has the object's
  universes, priority and name, connections that are retried, calls that return.
- *Shared library*: up exactly for its users; none calls it while it goes down.
- *Source*: what a listener may rely on (current contents, numbers that packets have
  taken, all termination packets) although packets are suppressed and may fail, exact
  references to interfaces, a `sacn_deinit()` that returns.
- *Receiver*: no source and no priorities dropped in silence, none reported lost
  that is not, what is put off done in the end, callbacks that make sense in a row.
- *Merge receiver and merger*: the output is the merge of what the sources last sent,
  also across the end of a sampling period.
- *Detector*: a list that arrives whole is told, and handles are counted exactly.
- *Sockets*: none lost or closed twice, one bound and polled per type, what was to
  be joined is joined.
- *Art-Net*: two sources merge as documented, replies say what the node is, a server's
  packets go to the nodes it has found, firmware is handed over only whole and as it was
  given, transfers end.
- *Serial*: bytes in a row to readers, a writer's bytes together on the wire, every
  path gives back what it locked or opened.

## Modules and the code

| Module | What it is |
|---|---|
| `FadeEngine` | buffers, fades and universe map of one object |
| `DMXInstance` | the protocol side of one object |
| `SacnRefCount` | the sACN library shared by several objects; refines `SacnLibrary` |
| `SacnLibrary` | initialization of the library's features, and any client of it |
| `SacnUniverse`, `SacnSource` | one universe of a source, as operators; the sources, their calls and thread. Refines `SacnStream` |
| `SacnStream` | abstract: what one universe of one source promises to one listener |
| `SourceLoss`, `SacnReceiver` | termination sets, as operators; one receiver. Refines `ReceiverApi` |
| `ReceiverApi` | abstract: what a receiver promises to the application it calls back |
| `MergeReceiver` | a merge receiver, on `ReceiverApi` below and with two mergers of `DmxMerger` |
| `DmxMerger` | the merger: values, the calls as operators, and a specification of one merger |
| `SourceDetector` | the source detector and the handles of remote components |
| `SacnSockets` | the receive sockets, their queues and the thread |
| `ArtNetNode` | Art-Net nodes, with `ArtNetOutput` (merging), `ArtNetTod` (devices) and `ArtNetFirmware` (transfers) |
| `SerialPort` | a serial port and its device |
| `MC...` | instances for TLC: scenarios, sets of threads, symmetry |
| `...Proofs` | theorems, see [proofs](#proofs) |

`map` in `PROJECT.json` names, for each definition, the lines it stands for.

**FadeEngine.** A section under `fade_mutex` or `dmx_mutex` is one action, and so is the
unlocked store of `_active_universe` at the end of `universe(u)`. `pc[t]` says which
section thread `t` comes to next, `local[t]` holds the locals it carries there.
`dmx_mutex` is never held between two sections, so it needs no variable; `fade()`
keeps `fade_mutex` over two sections of `dmx_mutex`, so that owner is a variable.

| Call | Sections |
|---|---|
| `channel`, `channels` | `SetChannel`, `SetChannelUni`, `SetChannels`; `CancelFades` or `CancelFadesUni`; `WriteData` |
| `fade` | `Fade`, `FadeUni`; `FadeReadStart` (takes `fade_mutex`); `FadeStart` (releases it) |
| `send` (its first part) | `Send` reads the clock; `UpdateFades` |
| `universe(u)` | `SetUniverse`; `Activate` |
| `addUniverse(u)` | `AddUniverse`; `AddToSource`; `RollBack` |
| `removeUniverse(u)`, `blackout()` | `RemoveUniverse`, `Blackout` |

Values are integers and interpolation is integer division that truncates toward
zero, as the conversion of the code's product to `int` does; the rounding of the
floating-point product is not modelled. The fields of an inactive fade other than its
flag are never read and are kept at zero.

**DMXInstance.** `send_mutex` and `state_mutex` are variables with owners, since calls
hold them over several steps and take one inside the other; the sections of the other
mutexes are single actions. A call of a device is one action with its possible
outcomes. The unlocked accesses of `send()` to `artnet_node_obj` are two (`LoadNode`
reads the pointer, `CallNode` uses it), and `artnet_destroy` makes the pointers others
have loaded dangle: a call through one may do anything. `source` is what DMX.cpp can
know of the sACN source, `artnet_node` what it configures in the node. Of the universes
there are the keys only; their contents are `FadeEngine`'s. The two serial protocols
differ in how they frame bytes and are one. `Created` is the set of numbers that callers
create by `universe(u)`. Two variables state what that does to a running source: `missed`, the
universes it was not told of, and `stopped`, that `priority()` returned at one of those.

**SacnRefCount** puts `sacn_global_init()`, the paths of `init_sACN()` that succeed or
fail after it, the calls in between and `deinit_sACN()` of several objects, each in a
thread of its own, around `SacnLibrary`'s operators. The instance `Library` is the
refinement mapping: the objects together are a client with at most one
initialization outstanding. `SacnLibrary` has the counters of `sacn_init_features()` and
`sacn_deinit_features()`.

**SacnSource.** Every API call and every pass of the thread holds the library's source
mutex from end to end and is one action. A pass is made of `process_sources` for levels
(discovery, termination, suppression, sending, sequence numbers, removal), that for
per-address priorities, and the test of the thread's loop. Packets may fail per
listener, memory and sockets may run out, interfaces come and go. A scenario names the
sources and the calls of one part of the API.

**SacnStream** forgets ticks, suppression, timers, threads and other listeners: a stream
is off, live or ending; a data packet has the latest contents, and a stream that was seen
ends with its termination packets. Where the listener is the only one (`only`) the number
advances only by a packet that reaches it, so that its packets are numbered in a row; with
others the number may advance for their packets. `StreamsImplemented` (in `PacketsExact`) says
that each universe of each source is such a stream to each listener, and `NumbersUsed`
beside it that with all listeners together no number is taken by a packet that left for
nobody.

**SacnReceiver.** `Packet` and `Process` are what the thread does under the receiver
lock: they change the receiver and collect notifications in `notes`; `Deliver` gives
them to the application one by one. `ChangeUniverse` and `ResetNetworking` take
that lock only and come in between, `Destroy` does not. Time passes in units;
timers are the units they have left. `app` is what the application was told. A
network, chosen at the start, says which interfaces and sources there are, what each
sends and where it is heard. **ReceiverApi** is the same seen by the application:
`told` and the notifications that may come in each state. `KeepsPromises` is the
refinement.

**MergeReceiver** has `ReceiverApi` as its environment: each notification that it allows is
one handler, which holds the receiver lock from end to end. A batch that was collected
before a universe change may still be delivered after it; `late` says when that
happened. A source that is heard on two interfaces may move from one to the other while
one of them is sampled, and its packets then come with the other flag
(`receiver_state.c`:908-911, :980; `ApiLevelsMove` and `ApiPrioritiesMove` of
`ReceiverApi`). `Movers` are the sources that may do so, and `astray` those whose last
levels, or priorities, were for that given to the merger that does not have them.

**DmxMerger.** A merger is a value and a call an operator on it. Its winners are updated
in place as in the code: by `update_levels_single_source` and the like when there is one
source, slot by slot otherwise. `MergedFromScratch` is the reference: the best of the
candidates of a slot, highest priority first, highest level among those.

**SourceDetector.** A page's handling is one action, the periodic pass another. Pages of
the lists a component may have come in any order, repeated or late; `heard` records what
an exact listener would have put together. The sources stay when a detector is destroyed:
one that is made next, with another limit, may put a page in beyond the end of its list,
and the cells between hold anything (`Gaps`).

**SacnSockets.** An operation holds `sacn_receiver_mutex` and is one action; the
thread's pass through its queues is one action as well. Operators are named for the
functions they model and take and return the state of the sockets.

**ArtNetNode.** A node is a record; an operator named for a function takes it and gives
back what became of it and what was sent. Packets between the nodes modelled are on the
wire, where a scenario may lose or reorder them; those of other senders come at any
time. A transfer of firmware may begin while packets and replies of an earlier one are on
the wire. `past` keeps what happened, for the properties: that a transfer began so
(`crossed`), or that a ring was broken by a node that stopped for others (`split`). A
scenario has the calls and packets of one part of the protocol.

**SerialPort.** Each system call is a step, with the waits of `select` before it and the
timers that end them; the mutexes have owners, and `open`, `close` and the setters run
without one, as in the code. `wire` and `taken` record what writers put on the wire and
readers got.

How the modules fit: `DMXInstance` carries, of `FadeEngine`, the map's keys, and
`FadeEngine`, of `DMXInstance`, only that `addUniverse()` may be refused; each takes the
other's part in the same order of sections. `DMXInstance`'s calls of the sACN library
are among the calls that `SacnSource` accepts, its starts and shutdowns are
`SacnRefCount`'s, its serial calls are among `SerialPort`'s (`Controlled` is how it uses
a port). `SacnReceiver` is joined to `MergeReceiver` by `ReceiverApi`, which the one
implements and the other is built on: every notification `ReceiverApi` allows, moves between
interfaces included, is a handler of `MergeReceiver` (with `Movers = Handles`).

## Runs

| Run | Module, states | Question and result |
|---|---|---|
| `FadeEngine` | `MCFadeEngine`, 155 k | One thread with fades on two channels (`Fading`), and with universes that come and go under them (`Moving`); two threads with fades (`Sharing`), and with more universes than the map may have (`Crowding`). Between any two sections: types, exact fade counts and the limit (`Consistent`); for one thread a fading channel shows what its fade gives at a time that has passed, within the fade's endpoints, the map is never empty and the active universe is in it (`SoundAlone`), and fades move to their target and yield to direct writes (`FadesYield`); every fade ends (`FadesEnd`). Holds. |
| `DMXInstance` | `MCDMXInstance`, 258 k | One thread over the three protocols with failing devices (`Switching`) and over two Art-Net subnets (`Mapping`); two threads over Art-Net (`Sharing`) and over sACN (`Renaming`). `DevicesAgree`; for one thread `FramesRightAlone`, and `SourceRightAlone`: a running source has all universes but those that `universe(u)` created beside it, and the object's priority unless `priority()` stopped at one of those; `CallsReturn`, which no deadlock and no path that keeps a mutex would allow; `SerialRetried`. Holds. |
| `SacnRefCount` | `MCSacnRefCount`, 141 | Four objects: `LibraryHeld`, the refinement `LibraryUsedProperly`. Holds. |
| `SacnSource` | `MCSacnSource`, 190 k | Twelve scenarios of the source's API. Counters and references exact (`Consistent`), nothing hidden by suppression (`SuppressedIsShown`), streams as promised, numbers only for packets that left, and exact discovery pages (`PacketsExact`), `LatestLevelsShown`, `DeinitReturns`. Holds. |
| `SacnReceiver` | `MCSacnReceiver`, 605 k | Three networks: two sources; a source too many, with previews and other start codes; two interfaces. Sound termination sets (`Consistent`), `LossesTold`, `LossIsReal`, what was put off ends (`WaitsEnd`), the refinement `KeepsPromises`. Holds. |
| `MergeReceiver` | `MCMergeReceiver`, 353 k | Two sources, one a previewer, the other heard on two interfaces, between which it may move: mergers and table in step (`Consistent`), nothing held back and nothing lost but what went `astray` (`LatestShown`), `TransferExact`. Holds. |
| `DmxMerger` | `MCDmxMerger`, 639 k | Three sources on two slots, called in any order: `Consistent`, `MergedFromScratch`. Holds. |
| `SourceDetector` | `MCSourceDetector`, 464 k | Two components, lists of two pages, with limits and without, detectors destroyed and made again: `Consistent`, `ListsExact`. Holds. |
| `SacnSockets` | `MCSacnSockets`, 556 k | Receivers that share sockets (`Sharing`), resets on two IP types with the detector (`Resetting`), universe changes (`Changing`): `Consistent`, `OneIsBound`, `HearsExactly`. Holds. |
| `SacnChangeUniverse` | `MCSacnSockets` | `ChangedIsHeard`: a changed receiver listens to its new universe. Violated, [see below](#a-disagreement-a-run-shows). |
| `ArtNetNode` | `MCArtNetNode`, 272 k | Ten scenarios: merging, programming from the network, naming, a server's list, answering with packets that fail, disabling ports, devices, nodes joined, started and stopped in any order, and firmware begun anew at any time, over a network that loses and reorders, with another server (`Uploading`), and over a sound one (`Delivering`). `Consistent`, `NodesAreKnown`, `PlacesAreShown`, `ChangesAreTold`; firmware that is handed over is what was given, or it is not acknowledged, unless a packet of an earlier transfer was on the way (`FirmwareIsGiven`); transfers end (`TransfersEnd`). Holds. |
| `SerialPort` | `MCSerialPort`, 304 k | Two readers, two writers, a port renamed or closed under a reader and a writer, a port opened, closed, renamed and set by one thread: `Consistent`, `BytesKept`, `CallsReturn`. Holds. |

The configuration of a run is the `.cfg` of its name. Each property of a passing run has a
mutant (marked `mutant:` in the modules), a plausible bug in the code under which TLC
finds it violated. Runs whose system may really stop (a scenario's calls are used up, a
node is destroyed, nothing waits) have `CHECK_DEADLOCK FALSE`; the others check for
deadlock.

Some properties are checked for one thread only: ChucK's virtual machine calls an object
from one thread, and with two the code does not have them. Others name an exception, in
which the code does not do what is promised: `missed` and `stopped` in `SourceRightAlone`,
`astray` in `LatestShown`, `crossed` in `FirmwareIsGiven` and the like. The exceptional cases are
in the runs, so that a property says how far an exception reaches and that nothing else goes wrong
with it. Each such case is under [observations](#observations).

## Bounds

Every bound is a constant of its module, and of the code where it has one.

| Constant | Code | Runs | Why it is enough |
|---|---|---|---|
| `MaxUniverses` | 64 | 2, 3 | fewer than the numbers callers use, so that the limit is reached and tested |
| `Channels`, `MaxValue` | 512, 255 | 2, 3 | two channels let a call touch one fade and leave another; 0-3 has fades up, down, flat and with truncation |
| `Durations`, `FadeUntil`, `MaxTime` | any | 0-2, 1, 3 | fades end exactly at, or after a send in between; the clock runs on until every fade is over |
| `Created` | any | 2, 17 | one universe beside 1 in its subnet, one outside; both appear with and without the source having been told |
| `ArtNetMaxPorts` | 4 | 2 | three universes in a subnet, one in another (17): ports run out and a subnet is left out |
| threads, objects | any | 1-3, 4 | every hazard found takes two calls; two users, one that starts and one that closes |
| `NUM_PRE_SUPPRESSION_PACKETS`, `Terminations`, `SequenceNumbers` | 4, 3, 256 | 2, 2, 4 (sACN), 2 (Art-Net) | each counter passes its limit, and the numbers wrap around |
| `MaxUniversesPerPage` | 512 | 1 | a second page is needed and not needed |
| `SourceLossTimeout`, `WaitForPriority`, `SampleTime`, `ExpiredWait` | 2.5 s, 1.5 s, 1.5 s, 3 s | 2, 1, 1, 1 units of about 1.2 s | their order is kept for the first three; sources go silent, return, and are waited for; the last is a wait that only has to pass |
| `Seqs` | 0-255 | 0, 10 | each is, seen from the other, once in and once out of the range that is taken for late |
| `Movers` | any | 1 of 2 | moves while being sampled, into it and out of it, back again, and across its end, with a source that stays |
| `MaxSources`, `MaxSlots` | 4 or any, 512 | 2-3, 1-2 | a source too many; slots with one candidate, with several, and with none |
| lists, limits of the detector | any | up to 2 pages; none or 1, 1 | pages of two versions mix into an ascending list and another that is not; limits are passed |
| `Sockets`, `MaxSubs` | any, 20 | 5, 2 | a third receiver takes a second socket while others are new or dying |
| `MaxDead`, `MaxLeaving`, `MaxWire` | none | 1, 2, 1 | bounds of the model: no call is made while more waits for the thread or is on the wire |
| `ARTNET_MAX_PORTS`, `ARTNET_DMX_LENGTH`, `MERGE_TIMEOUT_SECONDS` | 4, 512, 10 | 2, 2, 1 | a port and its neighbour; a packet shorter than the universe; before, at and after the time-out |
| `ARTNET_FIRMWARE_SIZE`, `BlockIds`, `FIRMWARE_TIMEOUT_SECONDS` | 512 words, 256, 20 | 2, 3, 2 | firmware of one block, several, and more blocks than a byte can number |
| `Uids` | any | 3 | the table of devices, begun with room for two (`ARTNET_TOD_INITIAL_SIZE`, 100 in the code), grows |
| `MaxBlocks` | none | 6 | a bound of the model, since `expected` is never reset: transfers begin anew until a node's count has passed the number of blocks a byte can hold twice |

The theorems below have no bounds: they hold for every value of the constants
that the `ASSUME`s allow.

## Fairness

Safety assumes none. For liveness:

- `MCFadeEngine!MCSpec`: a call that has begun goes on (weakly fair `Continue`), time passes,
  and every thread calls `send()` again and again (strongly fair, since it can be called only
  between the thread's other calls). The documentation of `send()` (:1342-1343) asks for it
  to be called in the program's loop; without it no fade moves.
- `MCDMXInstance!MCSpec`: a call that has begun goes on, strongly fair because it may wait for
  a mutex that others take and release again and again; where the scenario sends, `send()` is
  called again and again and the cooldown elapses.
- `SacnSource!FairSpec`: the thread's passes go on and it ends when told to; in scenarios whose
  network is alive, a network that lets packets through infinitely often lets through one for
  each listener that needs it infinitely often, and keep-alive timers expire. Without that
  all packets of a universe could be lost.
- `SacnReceiver!Fairness`: the timer expires, what was collected is delivered, and the thread
  looks at its timer after every packet, so packets do not keep it from the periodic pass
  (strongly fair `Processing`; the code tests the timer in the loop that reads packets).
- `SerialPort!FairSpec`: each thread goes on and its timers expire. The device need not send.
- `ArtNetNode!FairSpec`: in the firmware scenarios applications call `artnet_read` again and
  again, as `artnet_read`'s contract asks.

No call is assumed to be made, other than `send()` and `artnet_read` where said.

## Proofs

`tlapm` proves, with Z3, Zenon and LS4, for every value of the constants that the
`ASSUME`s of the modules allow:

| Theorem | Statement |
|---|---|
| `FadeEngineProofs!ConsistentCorrect` | `Spec => []Consistent`, from `TypeCorrect`, `CountCorrect`, `LimitCorrect` |
| `FadeEngineProofs!SoundAloneCorrect` | `MCSpec => []SoundAlone` |
| `FadeEngineProofs!FadesYieldCorrect` | `MCSpec => FadesYield` |
| `DMXInstanceProofs!DevicesAgreeCorrect` | `Spec => []DevicesAgree` |
| `DMXInstanceProofs!FramesRightAloneCorrect` | `MCSpec => []FramesRightAlone` |
| `DMXInstanceProofs!SourceRightAloneCorrect` | `MCSpec => []SourceRightAlone` |
| `SacnSharedProofs!LibraryHeldCorrect` | `RefCountSpec => []LibraryHeld`, from `RefCountCorrect`, `UpForUsersCorrect`, `DownWhenUnusedCorrect` |
| `SacnSharedProofs!LibraryUsedProperlyCorrect` | `RefCountSpec => LibraryUsedProperly`, the refinement |
| `SacnSharedProofs!SocketsConsistent` | `Spec => []Consistent`, of `SacnSockets` |
| `SacnSharedProofs!OneSocketIsBound` | `Spec => []OneIsBound` |
| `SacnSharedProofs!GroupsHeardExactly` | `Spec => []HearsExactly` |
| `SacnReceiverProofs!AlwaysConsistent` | `Spec => []Consistent` |
| `SacnReceiverProofs!LossesAreTold` | `Spec => []LossesTold` |
| `SacnReceiverProofs!LossesAreReal` | `Spec => LossIsReal` |
| `SacnReceiverProofs!PromisesAreKept` | `Spec => KeepsPromises`, the refinement of `ReceiverApi` |
| `SourceDetectorProofs!ConsistentCorrect` | `Spec => []Consistent` |
| `SourceDetectorProofs!IndexCorrect` | `Spec => []IndexInList` |
| `SourceDetectorProofs!ListsCorrect` | `Spec => []ListsExact` |
| `DmxMergerProofs!MergedFromScratchCorrect` | `Spec => []MergedFromScratch` |
| `DmxMergerProofs!ConsistentCorrect` | `Spec => []Consistent` |
| `MergeReceiverProofs!ConsistentCorrect` | `Spec => []Consistent` |
| `MergeReceiverProofs!LatestShownCorrect` | `Spec => []LatestShown` |
| `MergeReceiverProofs!TransferExactCorrect` | `Spec => TransferExact` |
| `MergeReceiverProofs!BothMergersMerged` | `Spec => []` of `Merger!Merged` for both mergers |
| `SerialPortProofs!BytesKeptCorrect` | `Spec => []BytesKept` |
| `SerialPortProofs!ControlledCorrect` | `Spec => [](OneControls => Consistent)` |
| `SerialPortProofs!MutexesCorrect`, `TypeCorrect` | `Spec => []MutexesGivenBack`, `Spec => []TypeOK` |

*FadeEngine.* `TypeOK` alone is not inductive: interpolation is typed only if it divides
by a positive duration, so the invariant adds `FadesLast` (every active fade has one)
and `CallsOK` (what the locals of each section hold). The count's proof needs that a
section changes flags and count together: the lemmas say how the cardinality of the
active fades changes when channels are cancelled, when a fade starts, and when those that
are over end. That `update_fades()` skips a universe whose count is 0 is harmless only by
the count's own exactness. The limit rests on the test and the insertion being one
section in both `universe(u)` and `addUniverse(u)`.

*One thread* (also in `FadeEngineProofs`). `AloneInv` adds that the other threads are idle, that
the map and the active universe are sound whenever no call is between its sections,
and `FadesShown`: each channel with an active fade shows what that fade gives at some
time up to the last `send()`. From that follow the endpoints, the monotone approach
and, since a write cancels first, that nothing overwrites it.

*DMXInstance.* `Inv` has the types, who owns which mutex at which section, and
`DevicesSound`: outside the sections of `state_mutex`, flags, devices, mappings and names
agree, and inside them as far as the owner has come. A lemma per action. For one thread
`AloneInv` adds that snapshots are current, that one protocol is up, and what a running
source has been told: all but the universes that `universe(u)` created since, with the
object's priority unless `priority()` stopped at one of those. Nothing is assumed of `Created`.

*SacnRefCount* (in `SacnSharedProofs`, which extends `SacnSockets` too; hence `RefCountSpec`,
`RefCountInit`, ... ). An object inside `sacn_global_init()` or `sacn_global_deinit()` owns the
mutex (`MutexHeld`), the one that closes is the last (`ClosingIsLast`), and the library's
counters are those of a library initialized once or not at all (`LibraryState`). The
library's counter then never reaches the 2 from which `sacn_deinit_features()` would not
come back, and every step is one of `SacnLibrary`'s client.

*DmxMerger.* `UpToDate` says of a merger what every call keeps: the types, that each
slot's winner `Stands` (no candidate beats it, and it is one of them, or nobody's), that
the priority to transmit with is the highest, that the flag for per-address priorities is
that of its sources. One lemma for each way a slot is updated: a source's candidate
grows, shrinks, appears or leaves, with one source in the table or several. That a best
candidate exists is a well-founded minimum over the finite table.

*MergeReceiver.* The proof rests on that of `DmxMerger` and on what that module proves beside
it: what each call makes of the record of the source it is for, and that it leaves the
others alone. `IInv` has the types, of which the mergers' is `Good`: up to date, within the
limit, and each source's record `Right` (no level beyond the count, no level before a
priority, and a source on its universe priority has that one in all slots). Without `Right` a
source that moves at the end of a period could count otherwise where it comes. `Agree` relates
three things source by source: what the receiver told, the table, and the merger the
flag in the table names, which for a source that does not move is also the flag of its
data. A packet with the other flag changes neither merger; `Strays` says what it puts into
`astray`, and `DataAgrees` that the agreement survives it, so that the theorems hold with any
`Movers`: `LatestShown` excepts what is astray, and no source that stays ever is. `Agree` is
inductive because the main merger always has room for what the
sampling one has (`RoomForAll`: both together have no more sources than the receiver told
of). `ShownIsCurrent` needs of each handler that it shows the main merger's output
whenever it touches it. The loops over sources are folds over finite sets; `Runs` names
all of the rounds of such a loop, `BySubsets` is induction over them, and the lemmas
`SourcesLostIs`, `SamplingEndedIs` and `UniverseChangedIs` say what comes out. TLC checked `IInv`
on the run's instance first. `MergeReceiverAssumption` has what `DmxMerger` assumes:
finitely many handles, at least one slot, packets that fit.

*SacnReceiver.* `IInv` has four parts. `Typed`; `Sound`: the termination sets hold tracked
sources and no source is in two; `Over`: nothing is pending once the receiver is
destroyed; and `Kept`, which relates what the application was told, the notifications on
their way and the tracked sources: a source the application knows is tracked or a loss of
it is pending, and priorities it counts on are current or a loss of them is pending. The
proof follows a packet through the functions it passes (known or new source, its
states, the notification) and the periodic pass through its three parts (timers, losses,
expired sets). `LossIsReal` speaks of the step in which the loss is collected: whatever
set it comes from, the source was silent for the whole time-out or ended.
`WaitForPriority <= SourceLossTimeout` (1.5 s and 2.5 s in the code) is an assumption.

The refinement of `ReceiverApi` needs more, `IApi`, which is inductive with `IInv` (TLC checked
it as an invariant before it was proved). Sources are counted within the limit and sit on
interfaces they reach; the notifications on their way are those of one packet or of one
periodic pass, at most one of each sort (`Apart`). As long as no call has failed, `Held` says
that the application has, or will have once they are delivered, every tracked source that is not a
preview (`Given`), that a loss on its way is of a source it has and the receiver no longer
(`LossesTrue`), and that a source heard in one place is being sampled exactly as the
application was told, unless the end of the period is on its way (`Agrees`, `NotesAgree`). A lemma
per action shows that `IApi` is kept, for `Deliver` one per sort of notification. A
notification then keeps its promise: levels come from a source within the limit
(`RoomForNew`), losses and ends of periods of what the application had. All other actions
are stutters of `ReceiverApi`, or one of its calls.

*SourceDetector.* `Inv` adds to the exact count of references that no two components share
a handle (`OneEach`): otherwise a source found by its handle could be another's, and a
reference given back another's too. `TakenIs` and `GivenBackIs` say what the two functions of
`remote_source.c` do to the table, `AfterPageIs` what a page does to a source. `Placed` is
why `IndexInList` holds: without a limit every page that is compared leaves the next place
inside the list, and no source is older than the first detector. For `ListsExact`, `ToldInv`
relates three things as long as no detector came before: what an exact listener has heard of
a component, the source's record, and what the application was told. After each page that came
in order the source waits for the next page, its index is where the pages heard end, and
up to there its list is theirs (`Hears`); and a list that is not waiting to be told was told
(`Current`). `WholeIs` joins them when the last page comes. The page itself is followed
through the code's two ways, a page that changes the list and one that repeats it
(`ModifiedGives`, `UnmodifiedGives`, `ChangedIs`). The whole list is a fold over its pages: what
it holds at each place (`LinedExists`, `FirstIs`) is shown by the smallest prefix for which
it would not. `SizeMinus` is the code's difference of two `size_t`; that it does not wrap
to a wrong size needs lists to be bounded, as they are: an octet numbers the pages and
twelve bits give a page's length (`DetectorAssumption`, from `pdu.c`:118-129).

*SacnSockets.* Every operation and every pass of the thread is made of loops over IP types,
receivers or queues, and each round of a loop is the call of a function. `Sound` is what every
such function keeps, of the sockets on their way: a socket is in use or gone and only these
are open (`HandlesKept`), a count is that of the users (`Counted`), the pending sockets are
the last (`PendingLast`), one socket of a type is bound, or none is and the one that was waits to
be closed (`OneBound`), and bound ones are polled (`Polls`). `OneIsBound` alone is not inductive:
between `sacn_remove_receiver_socket()` and the thread's cleaning up no socket of a type may be
bound, and what saves it is that the one waiting is marked bound, so that its cleaning up
chooses a successor. That is why `gone`, the sockets waiting, is an argument of `Sound`.
For `HearsExactly`, `Asks` says of each socket, universe and interface that what is
joined, less the requests to leave, plus the requests to join, is what the socket's receivers
want, that no request is made for what is so already, and each once. It needs
that two receivers never have one universe (`Distinct`); `ChangeUniverse` breaks it, as the run
below shows, so it is kept only in scenarios without that call (`exact`). `Fits` relates the queues
to the thread (before it first runs all sockets are pending; what is joined is joined by it) and
`AllSupplied` says that a receiver whose calls did not fail has a socket of each type it has
interfaces of. `Inv` is all of these; TLC found it to hold in the run's 556 k states before it was
proved. Loops are folds: `Runs` names their rounds, `BySubsets` and `ByPrefixes` are
induction over sets and sequences, and a lemma per round does the rest. `SocketsAssumption`
has IP types and handles be numbers and the former finitely many, which is what the loops' order
rests on; nothing bounds receivers, interfaces, sockets or subscriptions per socket.

*SerialPort.* `Inv` says for each call how far it has come, what it holds, that what a reader
has so far are the last bytes taken, in a row, and what a writer has written are the last
bytes of the wire; it is inductive because the holder of a mutex is alone in its half of the
port. `ControlInv` adds that descriptors and settings are as asked. `Consistent` is proved
for one controlling thread (`OneControls`), since two threads in `open()` at once lose a
descriptor, see below; no scenario of the run opens a port from two threads.

What is only model-checked:

- liveness (`FadesEnd`, both `CallsReturn`, `SerialRetried`, `LatestLevelsShown`,
  `DeinitReturns`, `WaitsEnd`, `TransfersEnd`): `tlapm` does not reason about `ENABLED`, on
  which fairness rests;
- `SacnSource` with the refinement of `SacnStream` (`Consistent`, `SuppressedIsShown`): a pass
  folds over the universes, addresses and listeners of a source. What such folds give can be
  proved without a theorem of induction that takes an operator, over finite sets as in
  `MergeReceiverProofs` (`BySubsets`) and over sequences as in `SourceDetectorProofs` (`FirstIs`);
  here several of them are nested, and it is not done;
- `ArtNetNode` with its parts (`Consistent`, `NodesAreKnown`, `FirmwareIsGiven`, and the action
  properties `PlacesAreShown` and `ChangesAreTold`): not proved, see the plan.

## A disagreement a run shows

`SacnChangeUniverse`: `change_sacn_receiver_universe` (`receiver.c`:679, :684) sets the new
universe before it removes the receiver's sockets, so the request that is queued is to leave
the *new* universe, and the request to join it, made next, cancels that one out. Where the
receiver keeps a socket it shares, the new universe is never joined and the old one never
left. `receiver.c`:257 says: "After this call completes successfully, the receiver is in a
sampling period for the universe and will provide [...] UniverseData() notifications as
packets are received for the universe". `HearsExactly` therefore excepts receivers whose
universe was changed.

## Observations

Found while modelling, with no run of their own.

**Two threads on one DMX object**, which ChucK's VM does not do:

- `addUniverse()` may roll back (:526) after `removeUniverse()` of all others (:534): the map
  is empty. `universe(u)` stores the active universe after it has released its locks (:485):
  it may have been removed. `SoundAlone` is for one thread.
- A `fade()` between the two sections of `channel()` (:205) survives the write that :1375
  says cancels it. `FadesYield`, likewise.
- `send()` reads the clock before its locks (:746): a fade that begins in between is
  interpolated at a negative time.
- `init()` does not take `send_mutex` and frees the node that `send()` of another thread is
  using (:296, :407). A send's mappings may then be those of the old node, and its
  reconnect may open Art-Net beside the protocol `init()` chose (:415).

**One thread on a DMX object:**

- `universe(u)` creates a universe (:483) without telling a running sACN source, where
  `addUniverse(u)` does (:511), and no later `send()` does, although `send()` is said to "transmit
  the current DMX buffer for all configured universes" (:1342-1343). `priority(p)` returns at such a universe
  (:610): those before it send with `p`, those behind it and `priority()` keep the old value,
  although "the priority updates live on all configured universes" (:1465-1466).
  `SourceRightAlone` excepts exactly the universes so created (`missed`), and the priorities
  after a call that stopped (`stopped`).
- After one Art-Net reconnect that fails there is no node and there are no mappings; every
  later `send()` skips all universes (:406), so none fails, so none reconnects.
- A port that `send()` opened has no flag (:812), so `init()` of another protocol does not
  close it; a write error closes the port and leaves the flag, so `connected()` returns 1.
- Universes 256 apart have the same Art-Net address (:908, :1428).
- `sacn_deinit_features()` decrements the counter of the network features only when it is
  1 (`common.c`:411), against the comment at :406-407. The plugin never initializes twice.
- `artnet_destroy` is called without `artnet_stop` (:930), and does not close the socket.

**sACN source:**

- A universe added again while its removal is in progress drops the termination packets it
  owes and starts at sequence number 0; a unicast destination removed and added again while
  the levels are withdrawn never gets its own.
- `source_universe.c`:137-138 says that duplicates are filtered;
  `add_sacn_unicast_dest` never reports one.
- Unicast destinations get nothing in a pass in which multicast failed on any interface, and
  counters and timers advance all the same; an interface of a type the source does not
  support counts as one to which the packet was sent.
- `sacn_source_add_universe` that fails in `add_sacn_source_netint` leaves the universe added;
  a reset that fails stops midway, with the references to interfaces inconsistent;
  `sacn_source_reset_networking` ignores the result of `sacn_sockets_reset_source`
  (`source.c`:1062).
- A source without active universes sends no discovery page, so its list is never emptied;
  nothing tells receivers that per-address priorities were withdrawn; sources the
  application processes are dropped at `sacn_deinit()` without termination packets.

**sACN receiver and merge receiver:**

- A handler takes the merger that the packet's `is_sampling` names (`merge_receiver.c`:635), but
  a source stays in the one its first packet named. When a source moves to another interface
  during a sampling period its data goes to a merger that does not have it; the call fails and its
  result is not looked at. The merge keeps what was there until data comes with the first flag
  again, or a period ends, although a packet "is immediately and synchronously passed to a DMX
  Merger" (`merge_receiver.h`:106-107). `LatestShown` excepts what is `astray`.
- A source heard only by start codes other than levels and priorities can be dropped
  without notification (`receiver.h`:196). After a universe change within a sampling period
  the application is told of the end of a period it was not told the start of
  (`receiver.c`:258). The limit's notification is given again only after a source was lost.
- Data collected before a universe change and delivered after it makes a source in the
  merge receiver that the receiver does not know and never loses.
- With a merger that is full a source is in neither merger, and a universe change stops
  midway. The assertions at `merge_receiver.c`:759 and :1010 fail for sources known by previews
  only or left over. A source with priorities only loses them at the end of its sampling
  period. With `use_pap` FALSE `per_address_priorities_active` stays TRUE.
- "Remaining levels default to a PAP of 0" does not hold after `remove_pap` and a shorter
  `update_pap` (`dmx_merger.c`:482, :1665).

**Source detector:** the `handle` of an update is never filled in
(`source_detector_state.c`:338-354); with `universes_per_source_max` the same list is told at
each announcement; the dirty flag is lost on a mix that is not ascending; a detector created
again keeps the sources of the one before as told (`source_detector.c`:102, against
`source_detector.h`:145); re-created with another limit, a page that continues may be
stored beyond the end of the list.

**sACN sockets:** one failed read takes the bound socket from polling for good
(`sockets.c`:1157); `clear_source_networking` leaves closed unicast sockets marked valid, so
that they are closed again after a failed reset; the detector's sockets are not given back
at `sacn_deinit()`; dead sockets stay if the thread never started.

**Art-Net:**

- With only the second place of a port occupied a second source is discarded (`receive.c`:180
  has the condition of :159); the places' levels are read before the time-outs are looked at,
  so the first packet after a time-out merges with levels that are over; the cancel-merge
  command (~:138) is not implemented.
- Setting the subnet to its default leaves the ports in the old one (`receive.c`:272-290);
  port and node types set while the node is on do not rebuild its reply; an input enabled
  from the network leaves `numbports` as it was; `send_apr_on_change` is never read.
- `artnet_join` always returns `ARTNET_ESTATE`; stopping two joined nodes closes the socket
  twice, and a joined node that stops closes the socket of all (`artnet.c`:190): what `Consistent`
  says of the sockets of rings holds until a ring is split so. Nodes never leave the list.
- `find_nodes_from_uni` counts ports where nodes are meant (`artnet.c`:1577): when a node has a
  universe on two ports its server also sends to an address that was never written. The
  other nodes get their packets all the same (`NodesAreKnown`).
- `artnet_send_input` copies from the address of its pointer (`artnet.c`:825), so the packet holds
  bytes of the pointer: which input ports are disabled is not what was asked. It may also
  use an entry of the list that is NULL (:811).
- `remove_tod_uid` never finds the first device and reads one beyond the last.
- Firmware of a multiple of 512 words is never handed over; an upload of one block leaves the
  transfer busy until the time-out, and is handed over with its length in bytes
  (`receive.c`:585), twice the words that were allocated, where :665 divides by the size of a word;
  the last block is accepted without those between; the sender's copy is never freed.
- A reply to a block of an earlier transfer is taken for one of the transfer begun since
  (`receive.c`:732). Its next block is accepted by a node that is still in the earlier transfer, and
  what is handed over is put together of both. `FirmwareIsGiven` therefore excepts
  transfers that began while such packets were on the way (`crossed`).

**Serial port:** `reconfigurePort` that fails in `open()` leaks the descriptor, again at each
retry of the plugin; two threads in `open()` lose one; a failed `::close()` leaves the port
marked open. `write()` does not look at the remaining time before its first wait, so that a
negative rest becomes a wait of up to 49.7 days (`serial.h`:453); `inter_byte_timeout` never ends
a read (`serial.h`:242-248); `readline` with a size below the end-of-line's length writes beyond
its buffer (`serial.cc`:191-198); setters take no mutex, so concurrent ones can lose a setting.

## What is not modelled

- ChucK glue, the example and the build: no state of their own. `list_ports` enumerates
  devices and keeps nothing.
- `waitForChange()` of the serial library, which blocks in the system; its Windows
  implementation; DMX framing of bytes, which is layout.
- Of Art-Net: RDM requests and IP programming, which go to the application's handler unread,
  getters, the Windows and macOS branches.
- Of sACN: packing and parsing (packets are records), source handles and interface lists as
  the system gives them, failures to allocate in receivers and detector, synchronization
  (a flag the library keeps and does not act on), logging and statistics; of the merger
  the creation of many; sockets' failures to join and to bind a successor.
- The reconnect of sACN inside `send()` (:377-393): `send()` gets there only by an exception, and
  `UpdateLevels` throws none (it calls a C function and drops the result, `source.h`:683). A
  disjunct for it could never fire, so there is none; `SendSacn` is the rest of that code.
- The exceptions `init_sACN()` catches (:855-859), which give the reference back without
  `Shutdown()`.
- Time is discrete everywhere; the system's mutexes are taken to be fair where liveness
  is checked, and memory accesses under one lock to be atomic to those who take it.

## Plan

Done: the models and runs above; proofs of `FadeEngine`, `DMXInstance`, `SacnRefCount`,
`DmxMerger`, `MergeReceiver`, `SerialPort`, `SacnReceiver` (with its refinement),
`SourceDetector` and `SacnSockets`, for every property of theirs that is not a matter of liveness. What is left
to prove, by what says most:

1. `ArtNetNode`: `NodesAreKnown`, for which the state a scenario starts from has to be
   characterized first: its runs begin with nodes already set up.
2. `SacnSource`: `SuppressedIsShown`, with the loops of a pass as in `SacnSharedProofs`.
