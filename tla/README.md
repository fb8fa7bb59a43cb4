# libartnet in TLA+

libartnet is a C implementation of an Art-Net 4 node: a library that an
application drives by calling `artnet_read` in an event loop. This directory holds
TLA+ models of the parts of it that keep state, the TLC runs that check them on small
instances, and TLAPS proofs of the results that hold for every instance. Paths below
are relative to the repository.

## The system

One `node` (`artnet/private.h`) holds everything; there are no locks except the
sequence lock of the node list. One thread calls `artnet_read`, which loops: run
`check_timeouts`, wait for a packet, hand it to a handler of `artnet/receive.c`. A
handler updates the node, invokes callbacks of the application and may send replies
(`artnet/transmit.c`). The application calls the functions of `artnet/artnet.c` from the
same thread, between two `artnet_read` or from a callback; only `artnet_nl_foreach` is
documented for other threads.

| Component | State | Operations | What is hard | What makes it correct |
|---|---|---|---|---|
| DMX outputs (`receive.c`, `artnet.c`) | `output_port_t`: two merge slots, output, staged frame, fail-safe; `sync_mode`, `last_sync_time` | `handle_dmx`, `handle_sync`, `handle_nzs`, the port commands of `handle_address`, `check_timeouts` | three kinds of timeout, cancellation and synchronisation interleave with frames of several controllers; `handle_dmx` tests copies of addresses that `check_merge_timeouts` has cleared | at most two sources, never one twice; live sources keep their slots; a slot holds the latest data of its source; synchronous mode holds the output and strands nothing; fail-safe is applied once per loss, and no loss of ArtDmx is missed |
| Firmware transfer (both ends) | sender: `ent->firmware`; receiver: `n->firmware` | `artnet_send_firmware`, `artnet_tx_firmware_packet`, `handle_firmware`, `handle_firmware_reply`, timeout | duplicated and reordered blocks and replies, an 8-bit block number, several controllers, failing sends and allocations | an image handed to the application is whole and of one upload; success reported is real; every upload ends |
| Node list (`artnet.c`) | `node_list`, `nl_seq` | `artnet_nl_update`, expiry, `artnet_nl_first/next/foreach`, `find_nodes_from_uni` | a reader in another thread, entries freed under pointers, `malloc` failing inside the write section | the list is sound, holds who answered recently, a reader sees one state of it and accepts nothing it read from a freed entry, ArtDmx goes to the subscribers |
| DMX inputs and keepalive | `input_port_t` | `artnet_send_dmx`, `artnet_tx_nzs`, ArtInput, keepalive in `check_timeouts` | lost and overtaking frames, the sequence number, a keepalive slower than the fail-safe of the receiver | a receiver settles on the last frame sent |
| Discovery | `apr_pending`, `reply_addr`, targeted mode, diagnostic requesters | `handle_poll`, `artnet_tx_poll_reply`, `handle_poll_reply` | the delayed reply, overwritten destinations | a delayed answer is sent; it goes to the host that asked, unless another request overtakes it; diagnostics of two hosts are broadcast |
| RDM | `tod_t` per port, requesters, `tod_control` | `handle_tod_*`, `artnet_add_rdm_device(s)`, `artnet_remove_rdm_device` | growing table, eight requesters, blocks of 200 | a controller learns the table |
| Remote programming, addressing | switches, names, port addresses, bind index | the rest of `handle_address`, `handle_input`, `handle_ipprog`, the set functions | locally set or network-programmed values | the address of a port follows net, sub-net and switch; the network's values hold until it resets them; the ArtPollReply shows them |
| Lifecycle, joined nodes | `state.mode`, `peering` | `artnet_new/start/stop/join/destroy` | a ring of nodes that share a socket | rings close, with one master each; an open socket belongs to a running master, unless `artnet_join` took the flag from it |
| Packet validation and dispatch | none | `packet_length_is_valid`, `packet_fields_are_valid`, `handle` | a table of limits for 30 kinds of packets | what a node sends another node accepts |
| Network interface | sockets, `ip_addr` | `artnet_net_init/start/recv/send/close` | a socket shared by joined nodes, numbers the system gives out again | what one node opens is closed by a node that runs; see lifecycle |
| Pass-through packets | none | time code, trigger, command, media, directory, file, data packets | limits written twice, in sender and receiver | what is sent is accepted |
| Callbacks and accessors | handlers, OEM and ESTA codes, port types, status bytes | `artnet_set_*_handler`, `artnet_get_*`, `artnet_dump_config` | nothing | each stores or reads one field |

## Modules

| Module | What it is |
|---|---|
| `OutputPort` | the output ports, one action per handler |
| `OutputHistory` | `OutputPort` with the last level every source sent, as a history variable |
| `TwoSourceMerge` | the abstract specification: a port has at most two sources; a source leaves only when silent or evicted; there is room for a newcomer if a slot is free |
| `OutputRefinement` | the mapping of the merge slots of `OutputPort` onto `TwoSourceMerge` |
| `FirmwareTransfer` | controllers, network and node of an upload |
| `TableOfDevices` | the tables of RDM devices, the controllers that asked for them and what each was sent |
| `NodeList` | heap, list, sequence lock, the thread of `artnet_read` and a reader thread |
| `DmxLink` | an input port of one node, a lossy network, an output port of another: composes the input side with `OutputPort` |
| `NodeConfig` | switches, port addresses, names, interface, and the ArtPollReply template that shows them |
| `Responder` | the dispatcher, the requests a node answers, the delayed ArtPollReply, diagnostics |
| `Endpoint` | the nodes of one program: interfaces, sockets, rings of joined nodes, the calls that send |
| `Packets` | layouts of all packets and the two tests a packet has to pass (no state) |
| `Transmit` | the packets each transmitting function puts on the network (no state); used by `Responder` and `Endpoint` |
| `MC*` | model values and symmetry for TLC |
| `*_proofs` | theorems about the module they extend |

Each `.cfg` is a run. Operators `Mut...` are deliberate faults; each precedes the
definition it distorts, and shows that a property can fail.

### OutputPort

A port is a record with the fields of `output_port_t`. A level stands for the 512
channels (the merge works channel by channel, so one channel shows all there is); a
source is a host and its Physical field. `last_*_time` become ages that stop growing
one tick after the longest timeout compares them, so that `>` (merge) and `>=`
(fail-safe, ArtSync) stay apart; the assumption `FailsafeTimeout < SyncTimeout <
MergeTimeout` is the order of `FAILSAFE_TIMEOUT_MS` (800), `ARTNET_SYNC_TIMEOUT_MS`
(4000) and `MERGE_TIMEOUT_MS` (10000). `pc` makes `check_timeouts` run before each
receive. `HandleDmx` keeps the two views of the code: the addresses copied before
`check_merge_timeouts` decide the case, the update is made to the port after it.
`announced` is the merging bit in the last ArtPollReply. Left out: the application's
callbacks, indicator bits, sequence numbers (the code ignores them), merge data beyond
one channel. `ArtPoll` fixes `ReplyOnChange` as a constant.

### FirmwareTransfer

Sizes count units of which `BlockSize` fill a packet; a block is a tag naming its
controller, upload and place. `AfterSending` and `BlockOf` keep the 8-bit block number
(`Wrap`). The network is a set of packets; `Faults` lists what may go wrong: packets
stay to be delivered again, sends fail, the image cannot be allocated, the controller's
`check_timeouts` forgets the node. A lost packet is one never received. The model assumes
that an application starts an upload to a node after the callback of the last one.

### NodeList

Entries are cells of a heap with `next` pointers and a `live` flag, a node is what
identifies an entry (IP and first SwOut). Writers and the reader take steps as fine as
the code's accesses: each read of a pointer, each entry copied, each bump of `nl_seq`.
The steps between `NL_WRITE_BEGIN` and `NL_WRITE_END` of an update are one action, those
of the expiry one per entry. Accesses are sequentially consistent, which the code's plain
loads do not promise. `SeqWrap` bounds `nl_seq`, and `WriteBegin` does not let it come
round during one pass of a reader (2^32 in the code).

### TableOfDevices

A port's table is a sequence of UIDs and the size of its allocation (0 for `data` NULL).
`view` is what the datagrams of the last table sent to a controller carried, block by
block; `BlocksSent` is the `ret = ret || send` that sends nothing after a refused block.
`reported` is the application's own list, external to the code: it reports a device only
if it does not hold it on the port already, after a flush all over again, either inside
the callback of ArtTodControl (`found` in `HandleTodControl`) or later. A handler and all
it calls is one action, because nothing else runs meanwhile. `Faults` picks what fails in
a call. Left out: hooks that consume ArtTodRequest or ArtTodControl (the node answers),
disabled ports, tables of more than 65535 devices. ArtTodControl commands that only ask
for the table are one (`full`); an unknown command gets the same answer.

### DmxLink

The sender keeps `input_port_t`: address, enabled and disabled, `seq`, the last frame and
the age of `last_dmx_send_time`. The receiver is `OutputPort` (`INSTANCE`), with one
controller. `net` holds the frames on their way; a frame is lost when it is sent, or is
received in any order. A frame carries `behind`, how many frames were sent after it, so
that `SequenceSound` can ask of an old frame only what 8 bits can promise.

### NodeConfig

`net` and `sub` are records of the value, the default and the control flag, ports are
`g_port_t`. Bytes keep their width (`make_addr`). `handle_address` is what the handler
does to the configuration; the command byte, which acts on output data, is in
`OutputPort`. `Template` holds the fields of the ArtPollReply that follow from the
state; the packet's constants are left out, and so are `numbports`, `goodInput`,
`goodOutput*`, `status2`, `status3` and the refresh rate. A name is a sequence of pieces,
because `artnet_set_short_name` and `artnet_set_long_name` write over the name that is
there. `programmed` is a history variable: what the network set last and has not reset.

### Responder

One node, the packets of other hosts (`Incoming`, one for every case of a handler),
and the application's own calls at any time. A packet passes `packet_length_is_valid` and
`packet_fields_are_valid` or is refused, and a hook of the application may consume it. What a
packet does to state of other modules is left to them: handlers here keep `reply_addr`,
`rdm_reply_addr`, the wishes of the last ArtPoll, diagnostics, the pending reply and what is
sent. `claims` and `lowest` are history variables, written where a packet is received and not in
the handlers: `claims` has, for each kind of answer in `Followed`, the host that asked for it last
and those that made another request since (for RDM, which has an address of its own, another RDM
request). `AsksFor` says which packets ask for what. The run follows three kinds
(`Followed`), the theorems any.

### Endpoint, Transmit, Packets

`Packets` gives each packet type the size of its structure (packed, so a number) and
translates both tests. `Transmit` gives for each transmitting function the set of
packets of one call, with the checks and truncations it does. `Endpoint` adds the nodes
that call them: the mode, the ring of `peering.peer`, the master flag, the socket number
each node uses and the set of open ones. `abandoned` is a history variable: the open sockets of
nodes that ran while `artnet_join` put their ring under another master. The arguments tried are those around each limit.

## Runs

| Run | Properties | Bounds | Shows |
|---|---|---|---|
| `OutputPort_merge` | `TypeOK`, `SourcesDistinct`, `DualSourceFlagged`, `StagedOnlyInSyncMode`, `MergesAnnounced`, `SlotHoldsLatest`, `LiveSourcesKept`, `SyncHoldsOutput`, `FailsafeHeld`, `MergePromise` | one port, three controllers (one more than slots), two levels, merge commands, a recorded scene, ArtNzs | merging and synchronisation are sound and implement `TwoSourceMerge`; the fail-safe level is applied once per loss |
| `OutputPort_live` | `StagedReachesOutput`, `LossIsNoticed` | two ports, a controller of one and a controller of both, one level, ArtNzs, fairness | a staged frame is output unless ArtSyncs for the other port keep passing over it; every loss of ArtDmx is noticed |
| `FirmwareTransfer_reliable` | `TypeOK`, `InstalledIntact`, `SuccessIsReal`, `EveryUploadEnds` | two controllers, two uploads each, images of one, two and four blocks, block numbers modulo 2 so that they wrap | on a loss-free network uploads arrive whole and end |
| `FirmwareTransfer_faulty` | `WritesInsideImage`, `OneControllerPerImage` | two controllers, three blocks, all faults | what the node guarantees under every fault |
| `FirmwareTransfer_full_blocks` | `EveryUploadEnds`, refuted | one controller, two full blocks | an image of a multiple of 1024 bytes never completes |
| `TableOfDevices_requesters` | `TypeOK`, `TableIsReported`, `ViewHasNoHole`, `AskersRemembered`, `ChangesAnnounced` | three controllers of which two are remembered, two ports on one address, a table of up to two datagrams that grows once, one fault | the table is what was reported, and each change reaches each remembered controller but the one a datagram was refused to |
| `NodeList_list` | `ListSound`, `HeardIsListed`, `SendsToSubscribers` | three nodes, two sharing an address, one with two ports on the universe, failing `malloc` | the list and its three pointers stay sound; ArtDmx goes to its subscribers, and to unset addresses just when the node with two ports is listed |
| `NodeList_readers` | `ConsistentSnapshot`, `FreedIsRetried`, `SilentNodeDropped` | two nodes, a reader in another thread, fairness | the sequence lock gives one state of the list and rejects what was read from freed entries |
| `DmxLink_settles` | `SequenceSound`, `Settles` | two levels, sequence numbers up to 3, two frames on their way, three calls, a keepalive of two ticks against a fail-safe of one | the receiver comes back to the last frame, whatever was lost, overtaken or moved |
| `NodeConfig_programming` | `PortsFollowSwitches`, `ProgrammingHolds`, `AnnouncedCurrent` | one port in each direction, 18 kinds of ArtAddress, 6 of ArtIpProg, five changes | each value is the network's last or else the application's, and the reply shows it |
| `Responder_requesters` | `AnswersGoToRequesters`, `DiagnosticsShared`, `PollIsAnswered` | two hosts, a node of each type, requests of every handler, packets too short, too old and out of range, a delay of one tick, one poll while a reply waits, fairness | only another request redirects an answer, two hosts that want diagnostics share them, a pending reply is sent unless its address was taken over |
| `Endpoint_program` | `RingsSound`, `SocketsOwned`, `SentIsAccepted` | three nodes of three types, two sockets, four interfaces of which two count, all calls with arguments around their limits | rings close, no socket but the abandoned ones is without an owner, sent packets are accepted |

**Bounds.** One port suffices in `OutputPort_merge` because its properties are about the slots and
the output of one port, and the theorems are for any number. What ports share (`sync_mode`,
`last_sync_time`) matters to `OutputPort_live`, which has two; whether a frame waits or a loss is
noticed does not depend on levels, so it has one, and only the traffic of `MCOutputPort`. Ages
of two or three ticks are enough because only their order against a timeout counts.
The runs of `NodeList` use as many cells as nodes: `malloc` may return the cell just
freed, the worst case for a reader. In `DmxLink_settles` the numbers wrap within the three
calls and the keepalives after them, which `MaxCalls` does not limit. Five changes in
`NodeConfig_programming` are a value set, programmed, set again, the switch above it moved,
and a reset; the theorems are for any number. `MaxPostponed` keeps hosts from polling for ever
while a reply waits: each poll draws the delay anew, and no fairness would help then.
Deadlock is not checked where the system may stop: uploads run out (`Uploads`), a crashed
or stuck reader ends a behaviour, all nodes of a program are destroyed.

**Fairness.** `OutputPort` (`LiveSpec` in `MCOutputPort`): weak fairness of `check_timeouts`, of some
receive step and of time, because README.md asks the application for an event loop and `select` has a
timeout; no controller is obliged to send. `FirmwareTransfer`: some packet in flight is
received. `NodeList`: a running thread goes on; strong fairness of `ExpireBegin` and
`Tick`, which other steps disable for a while, says that `artnet_read` is called again
and that time passes between calls. `Responder`: weak fairness of `check_timeouts` and of
time. `DmxLink`: weak fairness of time, of the receiver's `check_timeouts` and of a keepalive
that is due, for both programs loop on `artnet_read`; strong fairness of a keepalive that
arrives and of the reading of what waits, the usual assumption of a network that loses
some frames and not all.

## Proofs

Each theorem holds for every value of the constants that the named assumptions allow. The
argument is the same everywhere: an invariant that implies the property and that every action
keeps, with one lemma per handler.

**Outputs.** `OutputPort_proofs`, for any number of ports, hosts, levels and any timeouts in
the assumed order:

- `TypeCorrect`: `TypeOK`, from one lemma per operator.
- `NeverMergedWithItself`, `TwoSourcesFlagged`: `SourcesDistinct` is not inductive by
  itself, since `handle_dmx` decides on addresses that are stale after
  `check_merge_timeouts`. `AllSlotsSafe` adds the flag of a merge and what an empty slot
  holds; `AcceptCases` says what the cases of `handle_dmx` do to the slots, `FeedSafe` that a
  frame keeps them safe, `SlotsStep` that every step does.
- `NoFrameStranded`: a frame is staged only in synchronous mode.
- `MergingIsAnnounced`: a reply sent while one port is fed shows the ports before it as fed and
  the ones behind it as they were; the last port that announces (`LastPort`) decides.
- `LiveSourcesStay`, `FailsafeAppliedOnce`, `OutputWaitsForSync`: action properties, from the
  types.
- `OutputsKeepPromise`: initial states map to initial states, and every step of `OutputPort` to a
  step of `TwoSourceMerge` or a stutter.
- `SlotsHoldTheLatest` uses `LatestInv` (an occupied slot holds what the history variable has of
  its source) with the safety of the slots, because a source in both slots would be updated in
  one of them only.

**Firmware.** `FirmwareTransfer_proofs`, for any block size, width of the block number, images and
controllers. `TransferInv` (a packet carries its sender's tag; the blocks a node holds are inside
the size it allocated and of the controller it has for peer) gives `TransferTypes`,
`NothingOutsideTheImage` and `ImagesAreNotMixed` for any `Faults`. `InstalledImagesAreWhole` and
`ReportedSuccessIsReal` need `Reliable` (no packet twice, no controller that forgets a node; sends
and allocations may fail): with duplicates both are false (see below). `ConversationInv` says where
the one exchange of a controller can be: its block is on its way, or the node holds exactly the
blocks before it and the answer is on its way, or nothing is.

**Node list.** `NodeList_proofs`, for any heap, nodes and timeouts. `ListInv` names the cells of the
list in order: a chain (`IsChain`) whose cells are the allocated ones, hold one node each, and are as
old as their nodes have been silent; during the expiry `last` and `current` lag behind. `FollowChain`
shows that following the pointers gives the chain, and `UnlinkFromList` and `AddToList` which chain
there is afterwards. `ListStaysSound` and `HeardNodesAreListed` follow, with `malloc` failing
or not. `ReadersSeeOneMoment` is about the reader in the other thread: `ReaderInv` says that `nl_seq` is
odd exactly while the list is written, that a pass begins at an even number, and that a pass whose
number is still the current one has walked along the present chain (`PassAlong`). It assumes
`~MallocFails`: after a failed allocation the parity is wrong for good (see below). The same chain
gives `FreedEntriesAreRetried`: its cells are the allocated ones.

`SubscribersGetDmx` is an action property: what `find_nodes_from_uni` has found along the first k entries
(`FoundAlong`) says what it found along all: the addresses stored are as many as entries match or as
there is room for, and the count is higher than that just when an entry has two matching ports. No
assumption on ports or on `bcast_limit` is needed.

**Tables.** `TableOfDevices_proofs`, for any finite sets of ports and UIDs (`DeviceAssumption`: a UID has 48
bits), any number of controllers and faults, and any sizes of table and datagram.

- `AskersStay`: `AskersInv` adds to `AskersRemembered` that the last controller that asked is kept
  too, since `artnet_send_tod_data` may send it a table; each handler then sends tables
  only to controllers that are kept (`ToldAreKept`).
- `TablesInBounds`, `TablesHoldReports`: `TablesInv` says of each port that the table is inside its
  allocation and holds reported devices once each, and that what is missing was lost to a fault.
  That needs what `AddTodUid`, its fold `AddAll` and the removal that moves the last UID do; `AddAllKeeps`
  says of the fold that one lost entry costs no other.
- `ViewsAreBeginnings`: whatever a controller had of a table, the blocks it is sent (`BlockIs`: the
  size of each, `BlocksDisjoint`) replace it by a table with no hole (`NoHole`).
- `ChangesReachRequesters` is an action property: who is told includes every remembered controller, and
  all blocks arrive unless one is refused, which is a fault of this very step (`NewsArrive`).

**Link.** `DmxLink_proofs`: `NumbersOrderFrames`, for any range of sequence numbers. `NumberInv` says that
the number of the port is that of each ArtDmx on its way, taken on once for each frame sent since
(`After`), until the numbers repeat; the property follows by arithmetic.

**Configuration.** `NodeConfig_proofs` proves `PortsOnNet`, `ProgrammingKept` and `Announced`, for any
number of ports, any packets and any arguments. None of the three properties is inductive:
`ProgrammingHolds` needs that a control flag is set exactly when something programmed is kept
(`SwitchOK`, `PortHolds`), since the set functions look at the flag, and that defaults are
nibbles, since a port's address keeps no more; `PortsFollowSwitches` follows from what
`make_addr` and its inverses do (one lemma of arithmetic). `IInv` is the conjunction, with the
types.

**Requests and answers.** `Responder_proofs`, for any hosts, hooks and packets that satisfy
`IncomingAssumption` (the priority in an ArtPoll is a byte). `OnlyRequestsRedirect`: the two addresses the
node keeps are of hosts with a claim (`AddressesOK`), through all handlers, calls and delays.
`DiagnosticsAsWanted`: the mode of diagnostics and the address agree with how many controllers
want them (`DiagOK`), so that a datagram to one address is sent only while one host wants them.

**Lifecycle.** `Endpoint_proofs`, for any number of nodes, joined in any order. `NodesInv` says that the
peer pointers are a permutation of the nodes and that each ring has one master: `artnet_join`
exchanges two values of the permutation, which makes one ring of two, or leaves the ring as it was
if both nodes were in it. That a walk along a permutation comes back to where it began is shown by the pigeonhole
principle. `SocketsHaveOwners` adds that a master that runs keeps its flag and its socket, unless
`artnet_join` takes the flag, which is when the socket is counted as abandoned. `SendersAndReceiversAgree` goes
through the transmitting functions one by one; `PortAssumption` is the four ports of a node
(`ARTNET_MAX_PORTS`).

Where an argument needs induction (the order of a list, the length of a walk) the proofs take a
least counterexample (`LeastNat`), since induction theorems that take an operator
cannot be used.

The theorems rest on the assumptions named in the modules they extend, which TLC evaluates in
the runs. All safety invariants and all action properties of the runs are proved. Only model-checked are
the liveness properties (`StagedReachesOutput`, `LossIsNoticed`, `EveryUploadEnds`, `SilentNodeDropped`,
 `PollIsAnswered`, `Settles`), since ENABLED and temporal reasoning under fairness are
out of the prover's reach.

## What the code does otherwise

One refuted property, `EveryUploadEnds` for full blocks, is a run, listed in PROJECT.json with the
text it quotes. Modelling met these too, which no run carries.

Outputs:

- `handle_nzs` renews `last_dmx_time` without clearing `failsafe_triggered` (`receive.c:1332`): a
  port that receives ArtNzs stays in fail-safe, although `artnet.h:267` has the modes apply
  "on data loss", and nobody notices when the ArtNzs stop. `LossIsNoticed` is about ArtDmx only.
- When the only source of a port has been silent for longer than `MERGE_TIMEOUT_MS` and
  another sends, `handle_dmx` starts a merge with that one source (`receive.c:682` tests
  addresses copied before `check_merge_timeouts`): `merging` does not imply two sources.
- A frame staged before a loss of data is output after the fail-safe zeroed the port,
  by an ArtSync or the ArtSync timeout (`artnet.c:2894`).
- With two ports fed by two controllers, an ArtSync of one renews `last_sync_time` and
  is skipped by the port of the other (`receive.c:1291`), whose frame
  waits while they keep coming: `StagedReachesOutput` excepts just this.
- The end of a merge by AcCancelMerge sends no ArtPollReply (`receive.c:749`), so
  `MergesAnnounced` is an implication, and another controller may merge right away, where
  `art-net4.md` says it is discarded.

Inputs:

- The keepalive comes every 1000 ms, the fail-safe after 800 (`artnet.c:2912`): a receiver that gets
  nothing but keepalives goes into fail-safe between them. `Settles` therefore says that
  the level comes back again and again, not that it stays.
- The keepalive of a port that has moved sends the old frame to the new universe.
- `artnet_tx_nzs` does not take the number on when a send fails (`transmit.c:734`), so the next
  frame has the same one; that is why `SequenceSound` is about ArtDmx on its way.
- `artnet_send_dmx` does not ask whether the port is enabled, and no receiver looks at the number.

Node list:

- `artnet_nl_update` returns between `NL_WRITE_BEGIN` and `NL_WRITE_END` when `malloc` fails
  (`artnet.c:2658`); `nl_seq` stays odd, and `artnet_send_dmx`, which promises a result
  (`artnet.c:806`), spins for ever in `find_nodes_from_uni`.
- `find_nodes_from_uni` ("@return number of nodes matched", `artnet.c:2736`) counts matching ports but
  stores one address per node (`artnet.c:2767`): `artnet_send_dmx` sends to uninitialised addresses
  when a node has two ports on the universe (`CountsTooMany`).
- `artnet_set_bcast_limit` documents "0 to always broadcast" (`artnet.c:320`); with 0, the default,
  `artnet_send_dmx` always sends unicast (`artnet.c:859`), and it never broadcasts with another
  limit either: it leaves subscribers out.
- `artnet_nl_foreach` is "Thread-safe" (`artnet.c:2584`), but the expiry frees the entry the
  reader stands on (`artnet.c:2611`). The pass is thrown away (`FreedIsRetried`), if it gets that far.
- A retried pass of `artnet_nl_foreach` invokes the callback again for entries it had.
- Each `artnet_read` sets `current` to the first entry (`artnet.c:2943`), so a walk with
  `artnet_nl_next` starts again.

Firmware and RDM:

- A duplicated reply makes the sender run ahead; the last block is accepted by its
  number alone (`receive.c:1786`), and an image with a hole is handed over.
- A one-block image leaves the node in a transfer until `FIRMWARE_TIMEOUT_MS` (`receive.c:1675`).
- `artnet_send_firmware` overwrites a transfer in flight (`artnet.c:1291`); the answer to the
  old one then counts for the new one, and so does the ArtFirmwareReply with which
  `handle_file_tn_master` acknowledges a file.
- A flush is answered to the controller that asked for it alone (`receive.c:1228`); the
  others keep their table until devices are reported again. The answer for the second port
  on an address is not sent after a failure for the first one (`ret = ret || ...`), while
  ArtTodRequest goes on. A controller beyond the eighth gets answers but no news (`receive.c:565`).

Requests and answers:

- One `reply_addr` serves all requests: an ArtPollReply that waits for its random delay, an
  ArtDirectoryReply or ArtFileFnReply that waits for the application, goes to whoever asked for
  anything last (`receive.c:69`), also to one whose ArtPoll was for other ports; the comments of
  `handle_directory` and `handle_file_fn_master` want their answers "unicast back to this request
  source" (`receive.c:1417`, `1496`). `AnswersGoToRequesters` says that nothing else redirects them. Two controllers that poll within a second leave one without an answer.
- Diagnostics by unicast go to `reply_addr` too (`transmit.c:517`): once another host has made a
  request they go there, and the only host that asked for them gets none.
- `send_apr_on_change` and `vlc_disabled` are what the last poll said, whoever sent it (`receive.c:72`);
  the priority of diagnostics is the lowest anybody ever asked for.
- Each poll draws the delay again (`receive.c:145`): polls that keep coming postpone the reply.
- `artnet_tx_data_reply` and `artnet_tx_command` do not add the final zero that
  `packet_fields_are_valid` asks for, and the other values of `LeftToTheCaller` go out
  unchecked.

Configuration:

- `artnet_set_short_name` and `artnet_set_long_name` copy the name without its final zero
  (`artnet.c:2239`, `2262`): a shorter name is followed by the rest of the longer one before it.
- `artnet_set_subnet_addr` starts the sequence numbers again, `artnet_set_net_addr` does not, and
  it keeps the upper bits of its argument in `subSwitch`, where its documentation says that the
  lower four are used (`artnet.c:2129`).
- `artnet_set_gateway`, `artnet_set_port_type` and the status functions do not rebuild the template,
  and `artnet_stop` leaves it.

Lifecycle:

- `artnet_stop` of one joined node closes the socket of all of them (`artnet.c:219`); when the
  system gives the number out again, they use the new owner's socket.
- A node that is not the master has no socket if it starts before the master.
- `artnet_join` looks at the mode of its two arguments only (`artnet.c:421`): joining into a ring with a
  third node that runs takes the master flag from it, and its socket may be replaced and never
  closed. `SocketsOwned` excepts such sockets (`abandoned`), and fails without that.
- `artnet_destroy` leaves the node in the ring; the others then hold a pointer to freed memory.
  `Usable` keeps such rings out of the model.
- `artnet_start` leaves the mode on when its poll or request fails.

## Not modelled

Callbacks and accessors, and settings that are stored and copied into a packet (port
types, style, status bytes, refresh rate, UIDs and codes), have no behaviour to check. Failing
system calls, the Windows and ioctl variants of `network.c`, and hardware addresses need
models of the systems. LED and background queue commands of ArtAddress set one
field each. Entries of the node list kept by the application, and uploads started while one is
in flight, depend on an application that the repository leaves open. The example programs and
tests use the library and are read as its documentation.

## Plan

1. Done: outputs, inputs and their link to outputs, firmware transfer, node list, table of
   devices, requests and answers, configuration, lifecycle, all packets; proofs of the safety
   invariants and action properties of all of them.
2. Next: an abstract specification of firmware upload that `FirmwareTransfer` implements on a reliable
   network, and the steps of that refinement proved.
3. Failing sends in `Responder`, and the rings of `Endpoint` composed with `artnet_read`, which
   gives each packet to every joined node.
