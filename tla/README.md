# A TLA+ model of the KVM switch

The firmware under `src/` turns two or more Raspberry Pi Pico 2 boards into a KVM switch. This directory holds TLA+
modules of its concurrent and distributed core, the TLC configurations that check them on small instances, and TLAPS
proofs of what matters most. Paths below are relative to the repository.

## The system

| Part | Runs on | State | Operations |
|---|---|---|---|
| Controller/node link (`src/shared/node_link.c`, `src/controller/node_link_ctrl.c`, `src/node/node_link_node.c`) | controller core 0, node core 1; node core 0 queues | a message queue on each side, the GPIOs `spi_ready` and `data_available`, the stage of the exchange | queue a message, poll, exchange header / data / ack, drain, retry after a delay |
| USB host (`src/controller/usb_host.c`) | controller core 1 (core 0 queues) | action queue, `should_process_actions` | queue set report / set protocol / string requests, start one, completion callbacks, mount callbacks |
| KVM switch controller (`kvm_switch_controller.c`, `computer_manager.c`) | controller core 0 (core 1 and callbacks queue) | action queue, mounted count, active computer per device, settings saved per computer and slot | one handler per opcode, the start of the USB devices, shortcuts |
| HID manager (`src/shared/hid_manager.c`) | both boards; read by core 1 of the controller | table of 8 slots | register at the lowest free slot, register at a slot (node), unregister |
| KVM switch node (`src/node/kvm_switch_node.c`) | node core 0 (core 1 queues) | action queue, its own HID table | mounts, reports, start of the USB device |
| USB device (`src/shared_usb/usb_device.c`) | core 0 of either board | connected flag, what the computer enumerated | (re)initialise, enumerate, set report / protocol, send report |
| Configuration, persistence (`kvm_switch_config.c`, `config_persistence.c`) | controller core 0 | shortcuts, general settings, one flash sector | match a shortcut, save, load |
| HID device manager (`hid_device_manager.c`) | controller core 0 | presence and names of the device at each address | mount, unmount, set a name |
| Web USB handler (`web_usb_handler.c`) | controller core 0 | the stage of a control transfer, a buffer per direction | set the configuration, read state and logs |
| Ring buffer, logger (`ring_buffer.c`, `logger.c`) | both cores | a ring per core | write a record, drop the oldest, read them all |
| HID descriptor parser, keyboard reports (`hid_report_descriptor.c`, `hid_keyboard_report_util.c`) | controller core 0 | none | count, then fill; extract pressed keys |

Interaction. TinyUSB on core 1 of the controller calls back for devices and reports; the callbacks put actions in the
controller's queue, whose handlers on core 0 update the HID table, put messages in the queue of each node, and put
requests in the USB host's queue for core 1. A node's core 1 hands received messages to its core 0 through an action
queue; what its computer sets travels back over the link. Every queue drops what does not fit, and nearly all callers
ignore that. Core 0 of the controller is the only SPI master and must never be held up: it also runs the local USB
device and feeds the watchdog.

What is hard: two GPIOs written from two cores, a three-transfer exchange with fixed lengths and no framing, an
acknowledgement nobody looks at, time-outs on one side matched by sleeps on the other, bounded queues that drop, devices
that come and go while their requests are queued, slots that are reused, nodes that restart on their own, tables
replicated without removal, a ring two cores move with no lock, a configuration written in two pages, and a descriptor
language read twice. `PROJECT.json` lists these hazards line by line.

What makes each part correct:

* link: messages handled once and in order; both sides in step; a bounded cost per spoilt transfer; the controller
  always returns; nothing waits for ever unannounced.
* USB host: a mounted device ends up as the last accepted request says; the queue stops for good only for stated
  reasons; a name belongs to the device that is there, but for two stated exceptions.
* controller: the count and the table follow TinyUSB; LEDs follow the active computer; every computer ends
  up with every interface; a report is read with the descriptor of another interface only until the next start.
* logger: records stay whole and in order while both cores use the ring, and none is lost unseen, until a drop meets a
  read or core 0 catches up with a record being written.
* configuration: what runs is one configuration that was saved, the default when none was, or the first page of one
  whose save was cut between its two pages.
* USB device: the computer's view of each interface follows the table, and a connected computer gets reports.
* parser and keys: the counting pass asks for the room the filling pass needs; fields and keys are those declared.

## The modules

### `NodeLink.tla`, and `MessageChannel.tla` for what it promises

One controller and one node. Three program counters: `cpc` for `node_link_ctrl_task` and what it calls, `npc` for
`node_link_node_run`, `apc` for the node's core 0 between `queue_try_add` and raising the GPIO. A queue is a pair of
counters; message *i* is the *i*-th one accepted, so order and duplication are visible in the histories `ctrlGot` and
`nodeGot` of what each `message_handler` was given. Message 1 of a node is its INIT, and the controller queues nothing
before it has handled it (`computer->state`).

| Action | Code |
|---|---|
| `CtrlEnqueue`, `NodeEnqueue`, `NodeSignalDataReady` | `node_link_ctrl_enqueue_message`, `node_link_node_enqueue_message` (two steps) |
| `CtrlPoll`, `CtrlDeliver` | `node_link_ctrl_task`, `node_link_ctrl_process_received_message` |
| `CtrlTimeout` | `wait_for_spi_ready` giving up |
| `NodePeek`, `NodeRemove`, `NodeCheckEmpty`, `NodeClearDataReady`, `NodeWake` | the lines of `node_link_node_run` |
| `NodeSignalReady`, `NodeSkipData`, `CtrlSkipData` | `node_link_write_read_blocking`, with and without bytes to move |
| `HeaderTransfer`, `DataTransfer` | the three transfers of `node_link_send_message_blocking`; headers and acks have one length and may meet |
| `MisalignedHeader`, `DrainChunk`, `DrainPartialChunk`, `DrainDone` | a header met by a node that is elsewhere; `node_link_drain_buffer` |

A transfer may spoil what either side receives (`Spoil`, at most `MaxFaults` times): a spoilt header fails its magic or
CRC, spoilt data fail theirs, unless no data were announced. Bytes are abstracted to what they are recognised as; a
32-bit CRC collision is not modelled.

Timing enters in two guards. `CtrlTimeout` needs a sleeping node: only a sleep of more than 100 ms keeps `ready` low
that long. `NodeWake` needs the controller back in its main loop: `node_link_get_us_delay_before_retry` adds the time of
a whole buffer to the controller's wait for that purpose. The mutant `NodeDelayTooShort` shows that the second matters.

`MessageChannel` is the abstract channel: accept, then handle, in order. `NodeLink` instantiates it twice.

### `UsbHost.tla`

`usb_host_process_action` and the TinyUSB callbacks of one controller. `ProcessSet` is the first half of the switch. The
second, a string request, blocks while TinyUSB goes on calling back, and is three steps: `StartString` (the request is
sent or refused), `AnswerString` (the device has answered, or cannot), `ReturnString` (the name is queued for core 0, or
the queue of actions is paused); mounts and unmounts come in between. `Complete` is the two completion callbacks;
`Mount` is `tuh_hid_mount_cb` and `tuh_mount_cb`; `ReportReceived` is `tuh_hid_report_received_cb` with its count of
empty reports. TinyUSB (a submodule) is modelled from its use: one control pipe, transfers refused while it is busy or
the device is gone, no completion after an unplug, no SET_PROTOCOL for an interface that takes none (`takes`), no answer
from some devices (`answers`). A transfer that the device itself rejects is not modelled.

`Offer` puts what core 0 is to hear into its queue of `Core0Size` elements, and drops what does not fit or what competes
with other actions for room (`kvm_switch_node_enqueue_action`). `Core0` handles it (presence, and the names of
`hid_device_manager.c`), at any later time. `wanted` records the last accepted request, to compare with `setting`, what
the device was set to; the name of a device is its number in the order of plugging. `stale` has the addresses whose last
unmount was dropped or was overtaken by a name. `MCUsbHost` fixes the kinds of its two devices.

### `KvmController.tla`, with `MCKvmController.tla` for values of its constants

Every opcode of `kvm_switch_process_actions` that changes what is modelled is an action; `Plug` / `Unplug` queue the callbacks TinyUSB
makes (interfaces first on a mount, the device first on an unmount) and `HostCallback` makes them one by one, so core 0
runs in between. `toNode` is `computer->message_queue` with its bound; the link is the channel proved in `NodeLink`.
`NodeHandles` is the node's side: link handler, action queue and `kvm_switch_node_task` in one step. `exposed` is what a
computer enumerated (`tud_mount_cb`), `connecting` the time between `usb_device_connect_to_computer` and that.
`StartUsbDevices` may happen at any time after a mount, as the one-second timer allows, and must happen before the next
action once two devices are counted (`StartNow`), as in the same call of `kvm_switch_controller_task`.

Abstractions: one report id and type per interface; every key that is no shortcut is one key; a request queued for the
USB host counts as asked of the interface; two controller-link events that share one exchange may happen apart.

### `Logger.tla`

`log_write` on both cores over `ring_buffer.c`, and `try_dequeue_log` called by `GET_LOGS`. The ring of core 1 is shared
and modelled cell by cell: `Write` puts one cell and moves `write_position`; moving `read_position` is a load and a
later store on either core (`DropFetch`/`DropStore`, `ReadFetch`/`ReadStore`), as `(read_position + 1) % size` compiles.
`EnsureRoom` is the loop that drops old records; `Peek`, `Oldest` and `Choose` pick the ring with the oldest record; a
header assembled from cells of two records has any length and any time. The ring of core 0 is used by core 0 only and is
the sequence of its records. A cell stands for some bytes: a record is `Header` cells and up to `MaxBody` more.

### `KvmConfig.tla`, `UsbDevice.tla`, and `Configurator.tla` that composes them

`KvmConfig` is what `web_usb_handler.c` does with an OUT command in its three stages (`SetupOut`, `Data`, `Ack`;
`SetupIn` is any IN command, which only reads), `kvm_switch_config.c`, and `config_persistence.c` page by page (`Erase`,
`Program`). The configuration is a function of its cells; the page boundary falls inside the last shortcut, after its
header, as `sizeof(kvm_config_t)` puts it. `PowerLoss` can happen between any two steps; `Boot` is `kvm_config_init`.

`UsbDevice` is `usb_device.c` between the table of interfaces and TinyUSB: `Connect` restarts it, `SetConfiguration`
reads the descriptors and calls `tud_mount_cb`, `SendReport` finds a computer gone, `Deconfigure` is `tud_umount_cb`;
a bus reset, suspend and resume are the computer's. An interface is the length of its report descriptor.

`Configurator` lets transfers through a device that is ready, cuts them when the device restarts or is reset, stops
everything else while the flash is written, and clears both when the power goes. `MCConfigurator` has the packets.

### `HidDescriptor.tla`, and `HidDescriptorReference.tla` for what it must find

The two passes of `hid_report_descriptor.c` over the items of a descriptor (`Count`, `Room`, `Fill`: recursive functions
of the number of items read), and the three functions of `hid_keyboard_report_util.c`. The actions build a descriptor item by item (`Receive`), register it
(`hid_mgr_register_at_hid`) and receive a report (`kvm_switch_controller_enqueue_report` and the decoding in
`KSC_OP_HID_REPORT`). Counters, report counts and ids, pages and the size of a field keep a width (`Counter`,
`SizeLimit`; `Stored`). The element one past the list of usages is where `usage_min` is, and the one after it is
`usage_max`; what is read further on is `Memory`, which is arbitrary. `field_count`, an `uint16_t`, does not wrap here: a
report count adds at most 255 fields to it, and the memory of the board ends before 65536 fields. `get_bits` shifts by the size of a field, which C leaves undefined above 32
bits: what is said of keys is said of fields of up to 32.

The reference says the same facts without stacks and accumulated state. Every fact about an item is read off sets of
positions around it: its settings are the last ones given that no pop took back (`GivenAt`), its usages those given since
the main item before (`UsagesAt`), its collection the innermost one still open (`OpenAt`). `Declared` is then the
sequence of the fields declared, item after item. A field of a report begins at the sum of the sizes of the fields of
that report declared before, and its value is the sum of its bits (`SumOver`).
What the program keeps of counts, ids and pages is the subject of `NumbersFit`; the reference reads the numbers as
declared. `MCHidDescriptor` has the items, openings and reports.

## The runs

| Run | Shows | Bounds |
|---|---|---|
| `NodeLinkReliable` | both directions implement `MessageChannel`; progress | queues 2, 4 messages each way, no faults |
| `NodeLinkFaults` | `PhaseAgreement`, `DamageBounded`, `CtrlReturns`, `CtrlQueueMoves` | queues 2, 3 and 2 messages, 3 faults |
| `NodeLinkLostWakeup` | finding: a message stays unannounced | 2 messages of the node |
| `UsbHost` | `LastRequestWins`, `NamesFollowDevice`, `PausedWithReason`, `QueueDrains` with both queues overflowing, unplugging during a blocking request, refused strings and protocols, empty reports | 2 devices (one answers and takes a protocol, the other does exactly one of both), both queues 2, 2 requests, 2 plugs, 1 unplug, 1 report, no empty report ignored |
| `UsbHostEmptyReports` | finding: one counter for all interfaces | 2 devices, limit 3 as in the code, 4 reports |
| `KvmHotplug` | count, both tables and exposure follow TinyUSB, with a node that starts late and restarts; reports under reuse of a slot, at the node's computer and at the local one | 2 devices, 2 plugs, 1 unplug, 2 computers, 1 restart or 2 reports, room in the queues |
| `KvmSwitching` | `LedsFollowActive`, devices switched together and apart, with queues that overflow | 2 devices, 2 computers, all shortcuts, 1 shortcut pressed, 2 settings, queues of 2 |
| `Logger` | `FramedUnlessRaced`, `OrderedButForInFlight`, `PanicOnlyAfterRace` | ring of 7 cells, records of 2 or 3, 3 and 1 records |
| `LoggerPanic` | finding: the room made for a record is taken back | ring of 6 cells, 3 records |
| `Configurator` | `FlashHoldsConfig`, `NeverMixed`, `OwnData`, `MatchBySet`, `KeptConnected`, `OpenedAsRegistered` | 2 shortcuts of 2 keys, 2 commands, 2 power losses, 1 slot, 2 mounts, 1 suspension |
| `HidDescriptor` | the passes and the decoding agree with the reference | 12 openings followed by up to 2 of 31 items; 6 reports; stacks of 2, lists of 8, counters of 4 bits |
| `HidUsagesOverflow` | finding: one usage is stored past the end of the list | the same |

Why the bounds suffice. Queues of two elements can be empty, partly full and full while one element is being sent;
three faults cover a spoilt header, a spoilt retry and a spoilt transfer of the recovery, in either direction or both.
In `UsbHost` the two string requests of a device already fill its queue, so that requests of core 0 and of another
device are dropped or wait behind them. Slot reuse needs two devices and one unplug, mixing settings needs two settings
and one switch. A behaviour of `KvmHotplug` has a restart or reports, not both, and its second report comes once the
device was switched to the node (`RestartOrReports`), to keep it small enough to explore; the theorems cover both at once. The
settings a computer sends of its own on enumeration (interfaces with the boot protocol) are left out: with them the
runs are too large to explore in full. `KvmHotplug` claims something only when nothing is dropped and gives its queues
more room than the bounded events can fill (20 actions, 16 messages); what happens without room is told below. A ring of seven cells holds two records, so that a third one drops,
wraps and is read at every offset. `Logger` stops at the first race of a drop with a read (`NoDropRaceYet`): what
follows is the finding of `LoggerPanic`. Two commands and two power losses cover a save over a save and a loss during
each; one slot is enough for the device because no property relates two slots. `HidDescriptor` scales the limits of the
parser down so that two items reach them from the openings, which stop just before: the stacks, the list of usages, the
8-bit counters (4 bits here), the signed index of a collection; no field is near the 65536 bits of `SizeLimit`, which
is the proofs' to cover. Report counts of 11 and 17 exceed the list and the counter, the page 65543 is 7 once cut to 16
bits, and the item `min` sets a logical minimum of 1. Mutants, marked as such beside the definition they
change, break every property of every passing run.

`CHECK_DEADLOCK FALSE` everywhere: with bounded messages, plugs and requests the system comes to rest.

Fairness. `NodeLink!FairSpec` asks weak fairness of each thread's own steps and of transfers both sides are blocked in:
they are endless loops on a core of their own, nothing pre-empts them for ever, and a transfer with both sides present
completes. Producers of messages owe nothing. `UsbHost!FairSpec` asks it of `usb_host_task` (an endless loop) and of
TinyUSB finishing what it began; users and core 0 owe nothing. `KvmController` is checked for safety only.

## What the counterexamples say

1. `NodeLinkLostWakeup`: core 1 of the node sees its queue empty, core 0 queues a message and raises
   `data_available_gpio`, core 1 lowers it. The message waits for the controller to have something to send, or for the
   node's next message. `NodeQueueMoves` says that this is the only way for a message to stay.
2. `UsbHostEmptyReports`: a save to the flash makes interfaces deliver empty reports; four of them in a row, each of
   another interface, and the last one is never asked for a report again, until it is plugged in anew.
3. `LoggerPanic`: core 0 reads a record while core 1 drops one. The store of `read_position` by core 0 takes back room
   that core 1 has found, `ring_buffer_write` comes short and `panic` stops the firmware. `PanicOnlyAfterRace` says that
   this race is the only way. `FramedUnlessRaced` says that records are whole until then, as long as core 0 has never
   caught up with a record that was still being written.
4. `HidUsagesOverflow`: a descriptor gives one usage more than the list has elements; the condition at
   hid_report_descriptor.c:667 lets it through, and it is stored where `usage_min` is. `UsagesAsDeclared` holds of every
   item with no more usages than that.

Behaviours the models have, without a run of their own:

* A string request that fails pauses the queue of the USB host with nothing in progress (usb_host.c:98): LED updates
  stop until some device is mounted, and the request is then still at the head. `PausedWithReason` and `QueueDrains` say
  exactly when.
* A protocol asked of an interface that takes none is refused, kept at the head and tried again for ever; all that
  follows waits (usb_host.c:79-83): `Stuck` in `QueueDrains`.
* An old name stays at an address when core 0's full queue dropped the unmount, or when the device left between its
  answer and the return of the request, which queues the name behind the unmount: `stale` in `NamesFollowDevice`.
* A full action queue drops a mount whose unmount then decrements a count of zero (kvm_switch_controller.c:148).
* Messages for a node's previous life take the room of its new START, which is not sent again (node_link_ctrl.c:177):
  `EveryHidExposed` is checked with room.
* Between the mount of a device in a slot just freed and the re-enumeration, its reports are sent under the descriptor
  of the other device; `MixedOnlyUntilRestart` bounds that. At a node the same lasts until the start that the new device
  asks for: a report goes straight to the endpoint of its slot, and no node is ever told of an unmount
  (`NodeMixedOnlyUntilStart`).
* A keyboard that declares its keys as a list of usages gets no shortcuts: the page of a list is not stored
  (hid_report_descriptor.c:540); `KeyboardsFound` and `KeysAsHeld` set it aside. The head of
  `array_usage_list.hid.txt` describes the same gap.
* An array of keys that numbers them from a logical minimum other than zero gives other keys, and a value outside the
  logical limits gives one (hid_keyboard_report_util.c:78); `KeysAsHeld` sets both aside (`FromZero`).
* A report count of 256 or more, a report id above 255 or a usage page above 65535 is cut to what the program keeps
  (hid_report_descriptor.c:598, 636, 640), and the layout of the report is then another one. What is said of layout, usages,
  collections and keys is said of devices whose descriptors stay below (`NumbersFit`).
* A device with several usages, and more fields than the list and its two neighbours when it declares none, reads what
  is stored behind (hid_report_descriptor.c:494): `ListLimited` sets it aside.
* A report that meets a suspended bus marks the computer as unplugged, and its reports are dropped until it enumerates
  again (usb_device.c:78-81): `asleep` in `KeptConnected`.
* A power loss between the two pages leaves a configuration that boot accepts, without its second page: `cut` in
  `NeverMixed`.

Also seen, without a document that says otherwise: a spoilt header makes the node drop a message for which the
controller had nothing to send in exchange, because a CRC over no bytes always matches (`DamageBounded` counts it); the
data-available GPIO can also stay high with an empty queue, which only costs empty exchanges; unmounts are never sent to
nodes; an interface that is registered gets no setting until a computer or a shortcut sends one.

## The proofs

Each theorem says for every value of the constants what a run checks on a small instance. `CommonLemmas.tla` has what
several proofs need: induction over the natural numbers for a *set* (`NatSetInduction`, from the well-foundedness of
`<`; the theorem of the library takes an operator, which the provers cannot instantiate) and the first and the last of
a set of positions (`FirstAndLast`).

### `NodeLink_proofs.tla`

For every queue size, every number of messages and, where not said otherwise, any number of faults:

* `TypeCorrect`: `TypeOK`, which includes the bounds of both queues. `TypeOK` alone is not inductive: removing
  an element needs one to be there. `QueueInv` adds that a message being sent is the head of its queue, from the peek to
  the removal.
* `PhasesAgree`: `PhaseAgreement`. `PhaseInv` adds where the other side may be in every stage, in particular
  that noise reaches only a node the controller is not in step with, and that a sleeping node has lowered `ready`.
* `CtrlToNodeRefinement`, `NodeToCtrlRefinement`: if `MaxFaults = 0`, each direction implements `MessageChannel!Spec`.
  `OnceInv` ties the histories to the counters: a history counts 1, 2, 3, ... up to what was removed, plus the message
  handled and not yet removed. A step of the link is then `Accept`, `Handle` or a stutter of the channel.
* `DamageIsBounded`: `DamageBounded`. The property is not inductive: between the data and the removal a message is half
  way. `DamageInv` states the same bound of the queues and histories as they *will be* once each side has done what it
  is committed to (`CtrlCommitted`, `NodeCommitted`: from then on no CRC can fail any more), and charges a repetition in
  advance, when a message that stays in its queue was already handled. Only two steps change those: `DataTransfer`, and
  a header spoilt for a controller whose node was announced nothing; each pays with a fault (`DamageMoves`).

### `UsbHost_proofs.tla`

For every set of devices, queue size and number of events: `TypeCorrect`, `RequestsWin` (`LastRequestWins`),
`NamesCorrect` (`NamesFollowDevice`, with its two exceptions) and `PausesHaveReason` (`PausedWithReason`), from one inductive invariant,
`HostInv`. `OnePipe` says that a transfer and an enumeration exclude each other and stop the queue.
`LastPendingWanted` is `LastRequestWins` before the queue is empty: the last request that is pending, or the transfer
if there is none, carries what was asked for last. `NamesInv` follows what core 0 has not yet heard: a name on its way,
or stored, with no unmount of its device behind it, is the name of the device that is there.

### `KvmController_proofs.tla`

For every number of computers, devices, interfaces, slots and events, and every set of shortcuts:

* `TypeCorrect`: `TypeOK`, with the bounds of the action queue and of the message queues, without hypotheses.
* `NodesMixUntilStart`: `NodeMixedOnlyUntilStart`. `Shows` relates what a node's computer enumerated to its queue: there
  is a START in the queue, or what is exposed agrees with the controller's table and with every report of the queue;
  `NodesShow` holds it of every node unless a START is still to come, and `NotExposed` that a node which is not
  connected exposes nothing.
* `Held`, which the next theorem rests on, is what the table of a node will hold at a slot when it has handled the
  first *k* messages of its queue; `Replicas` says that at every report in the queue it is the interface the report
  is of. `Connections` says which nodes can have messages at all.
* `NodesFollow`: `NodeTableFollows`. `AllTold`: at the end of its queue, `Held` is the controller's table, unless
  another START of that node is still on its way.
* `TableFollows`: `TableFollowsHost`. `InTable` is whether an interface is in the table once the first *k* actions
  are taken. `OneCall` (callbacks still to come are for the last plug or unplug, each once), `NotTwice` (no mount of
  an interface finds it in the table) and `NotMissed` (a plugged interface comes) are inductive together.
* `LedsRight`: `LedsFollowActive`, from `NotTwice`. It is about the report (the LEDs); the protocol is not compared.
* `CountRight`: `CountExact`. `CountInv` is the balance of the count, of mounts and unmounts queued and of callbacks
  still to come, at every prefix of the action queue (`UpTo`), so that no unmount is taken at zero (`NeverWraps`).
* `MixedUntilRestart`: `MixedOnlyUntilRestart`. `MountsAnnounced`: an interface just registered is followed by the
  mount of its device, which restarts the local USB device; `LocalStarts`: until then the local computer is behind.
* `EveryHidComes`: `EveryHidExposed`, from all of these and `NodeStarts`: behind the last mount in the queue of a node,
  or in its table since its computer enumerated it, there is a START.

All but `TypeCorrect` assume that nothing was dropped: `[]MessageRoom` (no message queue overflowed), `[]ActionRoom`
(nor the action queue) and `[]TableRoom` (a slot is free when an interface is registered), each only where the proof
uses it. Every state of `KvmHotplug` satisfies them. They are needed: the code ignores the
result of `queue_try_add`, and with room for 3 actions and 2 messages in the bounds of `KvmHotplug` TLC finds
each of its six properties violated. What
overflow does is told above.

### `Logger_proofs.tla`

For every size of ring, header, body and reply and any number of records and of races:

* `TypeCorrect`: `TypeOK`. `Types` adds how far each core is in the loop it is in.
* `PanicNeedsRace`: `PanicOnlyAfterRace`. `RoomInv`: until a drop meets a read, room once found stays, since core 0
  only adds to it.
* `RecordsFramed`: `FramedUnlessRaced`, which like `OrderedButForInFlight` is said as long as no drop has met a read
  (`dropRace`) and core 0 has never caught up with a record being written (`caughtUp`). `RingInv` says of each cell in
  use that the next one continues its record or begins the next record, a chain from the read position to the write position; `FrontInv` says where core 0 or core 1
  is in the record it takes out and where the chain goes on, `PeekInv` the same for the header core 0 looks at.
  `CountInv` closes it: the records replied, the records dropped and one are the number of the first record still to
  come, so none is lost unseen or given twice.
* `LogsOrdered`: `OrderedButForInFlight`. `MonotoneInv` (times rise along the ring), `LocalInv` (and along the ring of
  core 0), `ChosenInv` (the record being read is not later than the first of the other ring) and `OrderInv`, which says
  what may still come after a record delivered: nothing earlier, but for the one that was in flight (`Late`).

`Used` of the model, a recursive function, is solved by induction on the number of records (`UsedIsSum`).

### `Configurator_proofs.tla`

For every number of shortcuts, keys and slots, every packet, and any number of transfers, plugs and power losses:

* `ReportsKept` and `OpenedCorrect`: `KeptConnected` and `OpenedAsRegistered` of the USB device. The first is about the
  connected flag; a report skipped because its endpoint is busy (usb_device.c:85) is not its subject. With the types of the
  device they are inductive as they stand (`DeviceInv`).
* `DataIsOwn`: `OwnData`. `ControlInv` adds what makes it true: a transfer that waits for its data has an empty buffer,
  and nothing takes its place while the flash is written.
* `ConfigPersists`: `FlashHoldsConfig`, the last configuration written to its end, until a later save is cut after its
  erase, which has taken that configuration away. `FlashInv` adds what the sector holds at each step of the save (all erased, then
  the first page of the RAM, then the RAM), and that every configuration that runs or was saved has the magic and the
  version, so that `kvm_config_init` takes it back as it is; `AppliedValid` shows that no command changes those two.
* `ConfigNeverMixed`: `NeverMixed`. `MixInv` says of the configuration a restart *would* read, at every step where it
  could happen, what the property says of the one that runs. It rests on `FlashInv` and on `ErasedNotValid`.
* `MatchesBySet`: `MatchBySet`. `CountsInv` says that no shortcut claims more keys than it has room for, also in what a
  restart would read: a flash with the second page missing keeps the counts and loses keys. Then the two loops over
  keys and pressed keys compare sets (`MatchesIsHasKeys`), for every shortcut that names no key twice among its own
  (`Twice`).
* `TypeCorrect`: `TypeOK`, from the invariants above.

### `HidDescriptor_proofs.tla`

`CountedIsFilledInvariant`: `CountedIsFilled`, for descriptors of any length and every size of the stacks, the lists and
the counters. The counts, the trees and the fields of an item are solutions of their recursions (`CountIsLast`,
`FillIsLast`, `FillFieldsIsLast`), so that each is followed item by item, by induction on the items read:

* `SumOK`: after *i* items the counting pass has at most what *i* items can declare, and until `report_count` wraps it
  has each report definition once. `Grown`: what it has counted only grows (`SumsGrow`).
* `TreeOK`: the filling pass has each report definition once, within its room. `InStep`: while neither pass has failed
  they have the same stack of global items and the same number of fields and of collections (`TreesInStep`).
* `Within`: every definition being filled has been counted, with at least as many fields. In the middle of an item of
  fields those it has left to fill are charged to the definition they go to (`ReserveCounted`). With that, two filling
  passes whose rooms both cover the count differ in nothing but the room (`SameInAnyRoom`); the room that was allocated
  covers it while no counter wraps (`RoomFits`), and unlimited room always does (`PlentyFits`).

### `HidLayout_proofs.tla`

What the parser and the decoder find is what the reference says, for descriptors of any length and every report:
`LayoutAsDeclaredInvariant`, `UsagesAsDeclaredInvariant`, `CollectionsAsDeclaredInvariant`, `KeyboardsFoundInvariant`,
`KeysAsHeldInvariant`. What is kept of a descriptor is the last tree of a run (`Run`, `ParsedRun`): one tree for every
number of items read, none of which failed. The argument follows that run:

* Nesting. `DepthCounts`: a stack grows and shrinks as the tags that open and close it are counted, so that an element is
  untouched as long as no more were closed than opened since. With it `SettingsGiven` finds in every setting on top of
  the stack the last one given that was not popped, by induction over *all* earlier items: after a pop, the top is what
  it was before the matching push. `CollectionsGiven` does the same for the collections still open.
* Usages. `Remembers` relates the local state to the set of usage items since the last main item: the *n*-th of the set
  is the *n*-th of the list (`UsagesGiven`), and what is looked up in it is `UsageOf` (`UsageFound`).
* Fields. `FieldGiven`: each field made of an item matches the field declared (`FieldMatches`). `Layout`: the fields so
  far match the fields declared so far, and the definitions of reports share them out by id and type, in order. Reserving
  one field keeps that (`ReserveLayout`), so an item does (`FillLayout`), so the run does (`LayoutGiven`), along the
  solution of the recursion of `FlattenSeq` (`FlattenJoins`).
* Keys. `SumOver`, a fold over a set in an order nobody knows, may add any element last (`SumOverFacts`), so a loop over
  positions or bits computes it: `BitsAreNumber` for `get_bits`, and for the offset in `KeysRead`. `Collected` says that
  the keys are those held at the places read, as far as they fit; one more field keeps it (`OneMoreKey`).
  `KeyboardInv` and `PressedInv` say where `hid.keyboard` and `pressed.keys` come from.

The hypotheses are in the properties, each where the code needs it, and they are restrictions on real devices: report
counts and ids below 256 and usage pages below 65536 (`NumbersFit`, all but `CountedIsFilled`); at most `MAX_USAGES`
usages before an item (`ListLimited`, usages and keys); no more collections than an `int8_t` indexes; sizes an `uint16_t`
holds, and 32 bits for a field of keys; keys declared as a range, numbered from logical zero, with values within the
logical limits (`FromZero`, `KeyList`). A keyboard with a bitmap of up to 255 keys is within them.

### Assumptions

Only those the modules state of their constants: `QueueAssumption` and `BoundAssumption`, `UsbHostAssumption` and
`NoneIsNoAction`, `KvmAssumption` and `NamesAssumption`, `LoggerAssumption`, `UsbDeviceAssumption`, `KvmConfigAssumption`,
`HidDescriptorAssumption` (sizes and bounds are natural numbers, those the code divides by or fills are not zero, names
differ from `None`, packets are made of bytes, an erased sector does not have both the magic and the version; sizes,
counts, ids, pages and the usage minimum of an item are natural numbers of any size; the data of a main item are
constant, variable or array; the page of keys is not zero; reports are bytes, and not empty: `tuh_hid_report_received_cb` drops those).
TLC evaluates them in every run.

### Only model-checked

`BootKeyboardAgrees`: it compares the two decoders on one given descriptor, the constant `BootKeyboard`, and is about
nothing more general. And all liveness: fairness and `ENABLED` are out of the prover's reach.

## Not modelled, and the plan

Left to model, in order:

1. The start-up handshake `node_link_ctrl_restart_nodes`, several nodes on one SPI bus, and the node with the action
   queue of its own (`KvmNode`) composed with the controller over `MessageChannel`.
2. The composition of `UsbHost` with `KvmController`: the requests behind `asked`, and the window between the plugging
   of a device and its registration.
3. `HidTable`: the accesses of both cores to one slot (`use_report_id` read by core 1 while core 0 registers), and the
   ownership of raw and parsed descriptors from the callback to the last message that carries them.
4. Endpoints that stay busy, and reports skipped meanwhile; failing allocations; `flash_safe_execute` failing.

Left to prove: that the controller's queue of messages implements the abstract channel of `NodeLink` once both are
composed.

Left out for good: `src/legacy` (built into no target), the configurator's user interface, GPIO, checksum and reset
button helpers, wording of logs and USB string descriptors, the printing of descriptors.
