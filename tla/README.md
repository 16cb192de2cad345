# bt2usb verification project

bt2usb is the firmware of a Bluetooth-to-USB adapter: up to two BLE HID
peripherals (keyboard, mouse, remote) are connected over encrypted links, and
their reports are sent to a host as a USB HID device.  A small OLED and three
buttons are the user interface; paired devices are kept in flash.  The program
is Rust on Embassy: a handful of cooperative tasks on one core, connected by
bounded channels and signals.

This directory holds TLA+ models of the firmware, TLC runs that check them on
small instances, and proofs for every instance: of the safety properties and
refinements of the connection manager, of the whole control side with the UI, of the
store and its byte format, the report path, the LEDs, the classification of reports, the
panel's loop, the buttons, the scanner with its parser, and the simulator's script.
Liveness is model-checked only.

- [The system](#the-system): components, state, interactions, what is hard
- [The modules](#the-modules): which module models what, and how
- [The runs](#the-runs): bounds, fairness, what each run shows
- [The proofs](#the-proofs)
- [What the runs found](#what-the-runs-found)
- [What is not modelled](#what-is-not-modelled)
- [Plan](#plan)

To check everything, in this directory: `tlc -config X.cfg M` for each row of the run tables
(two workers need from a few seconds to three minutes each), `tlapm M.tla` for
each of the proof modules.

## The system

Paths are under `src/src/`.

### Components

**Connection-slot table and reducers** (`ble/coordinator.rs`).  State: `ConnectionManager`, a
table of `MAX_CONNECTIONS` = 2 slots, each empty, connecting or connected,
with the device's address.  Operations: `reserve_slot`, `connect_slot`,
`disconnect_slot`, and the reducers `plan_start_scan`, `plan_connect`,
`plan_disconnect`, `on_slot_connected`, `on_slot_disconnected`,
`on_slot_error`, which return the actions the shell has to perform.  Correct
if an occupied slot always has someone who will free it, no slot is given away
twice, and no address has two.

**BLE coordinator and slot workers** (`ble/multi_conn.rs`).  The coordinator
`ble_task` loads the bonds, reconnects stored peers, then selects over UI
commands and slot events; `execute_action` performs what a reducer returned.
Two workers `connection_slot_task` connect, secure and run one link each,
racing it against the next command of their slot.  State: the slot table,
`last_scan`, each worker's `pending_cmd`, and the channels `BLE_CMD` (4),
`BLE_EVENT` (8), `SLOTn_CMD` (2), `SLOT_EVENT` (8).  Every send may block.
Correct if the table follows the links, no exchange of messages gets
stuck, and a Disconnect ends in a free slot.

**Bonder** (`ble/multi_conn.rs`).  The SoftDevice's security handler: a list of
at most `MAX_PAIRED_DEVICES` = 4 bonds, filled at boot from the store, extended or
replaced by `on_bonded`, looked up by address or identity key.

**Boot-time reconnection** (`ble/reconnect.rs`).  Matches the stored peers with the
results of one scan, each result to be claimed once; a peer that was not seen
is tried at its stored address.

**Scanner** (`ble/scanner.rs`, `ble/adv_parser.rs`).  One scan at a time: a callback gets
every packet that was received, advertisement or scan response, and adds a device
it has not seen if the packet lists the HID service; the callback looks at the
deadline, and a timeout around the scan lies beyond it.  The parser walks the structures
of a packet.  State: the buffer (at most 8), then `last_scan` and a burst of up to ten events.
Correct if the list is what was offered in the window, and every scan ends.

**Device store** (`storage.rs`, `storage/framing.rs`, `storage/codec.rs`).  Records of
paired devices with their bonds, at most 4, oldest evicted; a dirty
flag; three attempts to write flash.  Correct if what is not dirty is
what boot will load, and if devices the user relies on come back.
Records are bytes: length-prefixed behind a magic number, a version and a count; firmware before
that wrote a count and records without bonds, which are still read.  Correct if what is loaded
is what was saved, or the beginning of it.

**Report path** (`ble/hid_client.rs`, `hid/coalesce.rs`, `usb/hid_device.rs`).  Each link's notification loop:
a synchronous GATT callback that pushes into a coalescer, and a drain future
that pops and sends to `HID_REPORT_CHANNEL` (16); one USB task writes what it
receives.  Correct if the resting state of each endpoint gets through, motion
adds up, and no endpoint starves.

**HID client** (`ble/hid_client.rs`, `hid/`).  After a link is secured: discovery of the report
characteristics (at most 8), one read of the report map, a Report Reference
per characteristic, subscription.  Then pure functions decide what a
notification is: by the kind its characteristic resolved to or, without one,
by report ID, prefix and length.  Correct if the reports of each kind come out
as that kind, byte for byte.

**LED path** (`usb/hid_device.rs`, `ble/hid_client.rs`).  The host's LED report is published in a
`Watch`; each slot has one receiver that outlives its links.

**UI** (`ui/ui_logic.rs`, `main.rs`).  Main loop: select over buttons, BLE events, a
one-second timer and the USB suspend signal.  State: screen, selection,
device list, connected name.  Correct if what the screen shows when
nothing is in flight is true and it can always be left.

**Power** (`power.rs`, `power_logic.rs`, `main.rs`).  Active, Idle or LowPower from idle time, suspend
and link; the panel follows at each tick.

**Buttons** (`ui/buttons.rs`).  One task per pin: an edge, a debounce time, a second look, a
send to `BUTTON_CHANNEL` (4), the edge of the release, a debounce time.  Correct if a press
is one event however the contact bounces.

**Display** (`ui/display.rs`, `ui/input_logic.rs`).  Five drawing functions on a panel with a title and
four rows; the main loop calls them when it changes its state, also while the panel is
dark.  Correct if what can be read is what a press acts on.

**Simulation target** (`sim.rs`).  A binary of its own for a simulator without a radio: a
script is put through the coordinator's reducers, stimuli through the UI's.

**Start-up, descriptors** (`main.rs`, `usb/hid_device.rs`), **configuration** (`config.rs`):
straight-line code and constants.

### Interactions

```
 buttons --> UI loop --BleCommand--> coordinator --SlotCommand--> worker 0, 1
             ^   ^  <---BleEvent---      |    ^--SlotEvent-------     |  |
   USB suspend   |                       v                            |  v
                 |                  device store  <-- Bonder <-- pairing  GATT
                 |                    (flash)                            |
            HID activity <--- USB writer <--HID_REPORT_CHANNEL-- coalescer, drain
                                 |                                        ^
                                host --LED report--> Watch --write_leds---+
```

### What is hard

- *Blocking sends in a ring.*  UI, coordinator and workers send to one another
  through channels with 1 to 8 places and await room.
- *Ownership of a slot.*  Between a decision and its effect lie a channel and a
  connection attempt of any length; commands, failures and boot overlap.
- *Indices and names that age.*  `Connect(index)` refers to a list that may have
  been replaced; events about one link arrive while another changes.
- *Synchronous callbacks between awaits.*  Notifications arrive at any moment
  of the drain future; select drops futures with what they hold.
- *Time.*  The tick that darkens the panel is postponed by every event; the
  policy and the panel are two states.
- *Crashes.*  Power is simply cut; RAM, flash and the peripherals' own
  memory of their bonds diverge.
- *Changing addresses.*  A peripheral with a private address is a new
  address at each connection.
- *Bytes from elsewhere.*  Packets of strangers and blobs that lost their end are
  walked by lengths they contain.
- *Edges.*  A pin's edge is two level waits; a contact bounces, and the task may be held up
  in a send while the finger goes on.

`PROJECT.json` lists each hazard at its line with the properties that cover it.  Ten have none, and a note instead: most
of these do go wrong, and the note names the configuration with the counterexample.

## The modules

| Module | Models | Variables |
|---|---|---|
| `Coordinator` | `ble/coordinator.rs`: table and reducers as operators | none |
| `SlotLifecycle` | abstract specification: what a slot goes through | `table` |
| `MultiConn` | `ble/multi_conn.rs`, `ble/reconnect.rs`, the outcomes of `ble/scanner.rs` | `manager`, `last_scan`, `todo`, `cmdQ`, `evQ`, `slotQ`, `slotEvQ`, `worker` |
| `UiLogic` | `ui/ui_logic.rs`, event arms of `main.rs` as operators | none |
| `Bridge` | `MultiConn` with the UI loop of `main.rs` | those of `MultiConn`, `ui`, `picked` |
| `ReportPath` | `hid/coalesce.rs`, notification loop, USB writer | `link`, `device`, `coalescer`, `drain`, `wake`, `reports`, `writing`, `bus`, `host`, `owed` |
| `Leds` | LED path | `leds`, `unseen`, `link`, `written`, `lamp`, `told` |
| `Power` | `power.rs`, `power_logic.rs`, the loop of `main.rs` as a clock | `power`, `hid`, `panel`, `timer`, `suspend`, `quiet` |
| `HidClient` | discovery and subscription in `ble/hid_client.rs`, `hid/report_protocol.rs`, classification in `hid/mod.rs` | `peripheral`, `stage`, `mapRead`, `descriptor`, `refRead`, `todo`, `subscriptions`, `keyboard_led_handle`, `sent`, `forwarded` |
| `DeviceStore` | `storage.rs`, `Bonder`, `PersistDevice` | `peers`, `devices`, `dirty`, `flash`, `saving`, `item`, `connected`, `rotation`, `holds`, `pairings` |
| `FlashFormat` | records, codec and framing: `storage.rs`, `storage/codec.rs`, `storage/framing.rs` | `cache`, `blob`, `origin`, `written` |
| `ByteStrings` | bytes at offsets, slices, words | none |
| `AdvParser` | `ble/adv_parser.rs` as operators | none |
| `Discovery` | abstract specification: what a scan promises the connection manager | `stage`, `telling`, `list` |
| `Scanner` | `ble/scanner.rs` in an air of peripherals | `air`, `phase`, `clock`, `found`, `todo`, `queued`, `last_scan`, `heard` |
| `Buttons` | `ui/buttons.rs` with finger and contact | `down`, `low`, `bounces`, `at`, `delay`, `channel`, `told` |
| `FrontPanel` | `Power` and `UiLogic` in the whole loop of `main.rs`, with `ui/display.rs` | those of `Power`, `ui`, `scan_dots`, `picture`, `scanning` |
| `SimTarget` | `sim.rs` over `Coordinator` and `UiLogic` | `table`, `step`, `logged`, `screen`, `selected`, `channel`, `timer`, `stimulus`, `pushes` |

The modules whose names begin with MC are instances for TLC.

### Steps and time

The executor is cooperative, so a step of a model is what a task does between
two awaits, and an await on a full or an empty channel is a disabled step.
Futures raced in a `select` are tasks of their own until one of them ends; the
others are then dropped with their state (`LinkEnds` in `ReportPath` and `Leds`,
`IsSuperseded` in `MultiConn`).  Signals hold one value (`wake`,
`suspend`); a `Watch` holds the newest value and a mark per receiver
(`leds`, `unseen`).

### Connection manager: `Coordinator`, `MultiConn`

The coordinator's handlers are sequences of awaits.  `todo` is what is left of the handler under
way: `Boot`, `Scan(peers)`, `ReserveAndConnect`, and the reducers' actions.
Each `CoordinatorStep` performs the first item; with `todo` empty the coordinator is
in its select, which polls the commands before the slot events
(`ReceivesCommand`, `ReceivesSlotEvent`).  The scanner's radio part is one step
(`ScanFinds` with any list of distinct devices, or `ScanFails`); what it sends
afterwards is one item per event.  That a scan has just these outcomes is
`Discovery`, which `Scanner` is shown to implement.

A worker's `pc` names the await it is at.  `connecting` looks at no
command, as `connect_with_security` does not; `securing` ends in a
link or in one of two errors; `running` ends with the link, with an error, or
by a command, and `reporting` sends the event of the outcome.

Device names are the addresses; the RSSI is left out.  Which peers boot goes through comes from
`DeviceStore`; here it is any list of distinct addresses, newest record first (`PeerLists`), in which no bond resolves the
address of an older record.  `Irk` says which stored bond resolves which other address.  An older record's bond may resolve
a newer record's address: a device stored again under a rotated address has its bond at the record it had first
(`storage.rs:399-405`).  Then one advertisement is one stored peer by address and the other by identity key.  The opposite, which
would give two peers one target (the newer record's peer claims the address that the older one falls back to), the
store does not offer: `RecordsAreConsistent` says so of the records, and the theorem `BootListsAreAsAssumed` of the lists boot makes of them.

`SlotLifecycle` is the promise: a slot is reserved for an address no other slot
has, becomes connected for that address, is freed, and slots change one at a
time.  `LifecycleSpec` instantiates it with `table <- manager`.

### The whole control side: `UiLogic`, `Bridge`

`Bridge` replaces the arbitrary UI of `MultiConn` by the loop of `main.rs`: it takes a
button or an event, applies the reducer, and awaits its own send, during
which it takes nothing.  `picked` is history: the row that was highlighted when
SELECT was pressed.

### Reports: `ReportPath`

A notification is any change of state of a keyboard or consumer control, or
any displacement of a mouse, at any moment of the drain future (`pop`, `wait`,
`send`).  Payloads are abstracted to the state they carry; `hid/coalesce.rs` never
looks inside except to add displacements.  `from` and `owed` are history; what a sum
loses by saturating is not owed.  The four axes behave alike;
one is modelled, with its saturation.

### LEDs: `Leds`

The receiver's mark `unseen` survives links, as the receiver in
`connection_slot_task` does.  A new link's lamps are dark.

### Power: `Power`

Time advances in fractions of a second, so that the one-second timer, which every
round of the select restarts, and the clock of the last activity are not in
step.  `TimePasses` is disabled while a timer is due: the loop is never
late.  `quiet` is history.  What a press does beyond waking is `UiLogic`'s.

### What the user sees: `FrontPanel`

`FrontPanel` composes `Power` and `UiLogic` into the whole loop: each action of `Power` is
taken together with the button reducer or the event arm it belongs to, and with what
that draws.  A picture is a record of what can be read off the panel: the view, the names in the rows that
fit, the marked row, the name of the link, the message, the spinner; fixed labels
and layout are left out.  `picture` keeps its value while the panel is dark.  The coordinator
is any that emits only devices or an error between ScanStarted and ScanComplete; the channels between them are
`Bridge`'s.

### Buttons: `Buttons`

`at` names the await of a pin's task.  embassy-nrf's `wait_for_falling_edge` waits for a high
level and then for a low one (`high`, `low`), `wait_for_rising_edge` the other way round
(`still_low`, `released`).  `Moves` is the finger, which stays for longer than the contact bounces;
`Bounces` is the contact, for `BOUNCE` < `DEBOUNCE` after each move, so that every second look
sees the finger's level.  Tasks are faster than both (`AllWait`).

### Scans: `AdvParser`, `Discovery`, `Scanner`

`AdvParser` has both functions of the parser on sequences of bytes.  In `Scanner` a
peripheral has a profile: an advertisement and a scan response, each a list of structures
and whatever follows them (padding, a structure cut off: anything the walk stops at); `Bytes` lays them out.
A structure has a type and a payload: a list of services, a name of ASCII characters, or any bytes under any
other type.  `Sendable` is every such packet; that the parser reads each of them as it was sent is proved, and
TLC evaluates it for the packets of the run.  `Hears` is the callback for one
packet of one peripheral, in any order and any number of times; `HardTimeout` is the
timeout around the scan, and `Sends` one event of the burst, into a channel that may be full.
`heard` is history: the packets the callback saw in this window.

`Discovery` is the promise `MultiConn` builds on.  `DiscoverySpec` instantiates it with
the list of devices as addresses: the scanner's steps are its steps or stutters, and under the scanner's fairness each
scan ends and is told to the last event.

### The simulator: `SimTarget`

The loop of `sim.rs` with its timer, which every press starts anew, the channel and the task that feeds it.
`logged` is what the last step of the script wrote to the UART: every action the reducers asked for.

### Pairing and storage: `DeviceStore`

A device is seen under `<<device, n>>`; a rotating device takes the next `n`
at any time.  `Encrypts` and `PairsAnew` are the two ways a link comes up, by what
the Bonder answers.  `PersistDevice` is the coordinator's action with the store
locked; `WriteSucceeds` and `WriteFails` are its attempts; `Reboots` may
come at any moment, and in the middle of a write leaves old or new records.

### Records as bytes: `FlashFormat`

Writer, reader and codec are recursive functions on sequences of bytes, with the sizes of the fields as constants.
`RecordsAssumption` says that one byte holds every record's length (at most 92 in the firmware).  The
actions are the store's around them: `Saves`, `Boots` (load), any change of the list, and a
blob that loses its end.  `origin` and `written` are history: who wrote the blob, and from which list.  A UTF-8 name
of other than one-byte characters is read as no name.

### What a report is taken for: `HidClient`

A report map is a sequence of items; `TakeItem` is one round of the parser's loop and
`parse` is the function of the items taken that starts with the first and ends with the last.
`PeripheralAssumption` says of a peripheral that what it notifies are input reports its map describes, and
`PayloadAssumption` what its keyboard and media reports look like.  Notifications are short byte sequences, and the
classification functions are operators of the same names on them.  The peripherals of
`MCHidClient` have maps laid out like the firmware's own report descriptors.
Reading the map returns any prefix of it (the buffer has 128 bytes) or fails,
each reference is read or not, and each subscription succeeds or not.
`mapRead`, `refRead` and `sent` are history.

## The runs

Runs that pass:

| Run: cfg (module) | Checks | Bounds |
|---|---|---|
| slot_manager: `MCMultiConn` | `TypeOK`, `OneOwner`, `TableFollowsLinks`, `NoDuplicateLink`, `ConnectNeverSupersedes`, `SlotEventsFit`, `IInv`, `LifecycleSpec` | 2 slots as in the code, 3 addresses (one more than slots), of which the bonds of two resolve the third, also when the third is a newer record; a scan of 1; command and UI channels of 1 |
| ui_and_links: `MCTargets` | `StatusIsTruthful`, `ScreenIsTruthful`, `ListIsCurrent`, `ScanningIsExplained`; `ScriptRunsAsWritten` | 2 slots, 2 addresses, three presses, two rows; the simulator with four presses |
| system_settles: `MCBridgeLive` (`MCBridge`) | `Settles`, `DisconnectFrees` | 2 slots, boot and one press |
| shared_endpoint: `MCReportPath` | `RestingStateIsLast` | 2 keyboards on one endpoint, 2 states, channel of 2 |
| busy_device: `MCReportBusy` (`MCReportPath`) | `NoLostWakeup`, `TravelIsPreserved`, `EndpointsTakeTurns`, `RestingStateArrives` | a keyboard and a mouse on one link, channel of 1, pending sums up to 2 |
| front_panel: `FrontPanel` | `LowPowerIsDeserved`, `DarkensOnlyUnused`, `TypingLights`, `SuspendDarkens`, `UnusedDarkens`, `PictureIsCurrent` | idle after 1 s, panel off after 2 s, two phases per second; lists of 2 on a panel of 1 row |
| pairing_store: `MCDeviceStore` | `CleanMeansSaved`, `RecordsAreConsistent`, `SteadyDevicesComeBack`, `PersistedBondIsCurrent`; `LoadsWhatWasSaved`, `OlderRecordsComeBack` | 3 devices, one of which rotates once, a store for 3, 2 attempts, 3 pairings; lists of up to 3 of 4 records in a buffer of 28 bytes |
| hid_reports: `MCHidClient` | `KeyboardReportsGetThrough`, `MediaKeysGetThrough`; `LampsKeepUp` | 6 peripherals, 3 characteristics kept; 2 slots, 2 LEDs and one undefined bit |
| scans: `MCScanner` | `FoundIsHeard`, `ListensForTheWindow`, `DiscoverySpec`; `OneEventPerPress`, `HeldPressIsHeard` | 3 peripherals of 4 profiles, a list of 2, a window of 1 s, a channel of 1; 2 buttons, a channel of 1 |

Four of these runs check two components that share no state (before and after
the semicolon): a behaviour is one of either, chosen at the start, and the other's variables stay as they are.
Letting the two go side by side would only multiply their states.

The type invariants of the other modules (`ReportPath!TypeOK` and so on) state the types of the variables; what they
say beyond the types, that no queue grows past its capacity, is a guard of the code.

Runs that find a violation (see [What the runs found](#what-the-runs-found)):
silent_peer_wedges (`MCBridgeWedge`, module `MCBridge`), stuck_key (`MCReportStuck`, `MCReportPath`),
misread_mouse (`MCHidClientMouse`, `MCHidClient`).

What they show, in the terms of the hazards: a slot freed early would break `OneOwner`; a slot
taken over by another device would break `TableFollowsLinks`; two commands or
two stored peers that claim one advertisement would break `NoDuplicateLink` (its mutant marks as claimed only what a
key recognised; that of `IInv` overlooks connections under way).  `StatusIsTruthful` and
`ScreenIsTruthful` compare the name and the screen with the slot table whenever
no event is under way; `ScanningIsExplained` says that a UI left on Scanning at rest is left there
by a Connect to a device that is connected already, and by nothing else.  `PictureIsCurrent` holds the picture against
the state the next press acts on, lit or dark.  `FoundIsHeard` relates the list of devices to
the packets as they were laid out, and `LoadsWhatWasSaved` what is loaded to the list that was saved, also when
the buffer or the flash had no room for its end.  `OneEventPerPress` counts the events of one press through
every bounce and every delay.  `RestingStateIsLast`
relates what was notified last to the end of everything merged, queued and being written.

### Why the bounds are enough

The safety properties and refinements of all passing runs are proved for every size (see
[The proofs](#the-proofs)); for them the bounds below serve to find mistakes early.  For liveness, and for
the counterexamples, the bounds are all there is.

- *Slots.*  The firmware has two, and so have all runs.
- *Addresses.*  Three for two slots lets a scan offer a device no slot has while
  both are busy.
- *Channels.*  Small channels make full ones common; the interesting
  boundary is full or not.  `SLOT_EVENT_CHANNEL` keeps its 8 places because
  `SlotEventsFit` shows that four are ever used.
- *Presses* (`MaxPresses`).  A press starts one exchange of messages; the
  safety properties of `Bridge` are about two that overlap, after what boot
  set going, and a device is picked with two presses.  For `Settles` one press
  on top of boot fills a command channel of a worker; what more presses can do
  with silent peers is the counterexample of `MCBridgeWedge`.
- *Reports.*  A coalescer has one place per endpoint, so a channel of one or
  two and two states reach every combination of what is pending, being sent,
  queued and being written.  In `MCReportBusy` the mouse moves one way in steps of one and sums saturate at 2;
  the keyboard beside it makes `pop` take turns.
- *Power.*  The code compares whole seconds with two timeouts; the
  order of timeouts is that of the firmware (60 s < 2 * 60 s = 120 s)
  and the horizon lies one second beyond the longer.
- *Store* (`MaxRotations`, `MaxPairings`).  Three devices, one of which may have
  two records after one rotation, make four records for three places, so that
  records are evicted; boot looks for two of them.
- *Panel.*  One row for a list of two has a selection on and off the panel; the names are
  alike, as `UiLogic` and the drawing functions only pass them on.
- *Bytes.*  Fields of one byte (an address, a key) and names of up to two keep every
  boundary of the formats: a record that just fits and one that does not, a first byte that
  looks like the magic number, RSSIs at both ends, a missing bond.
- *Air.*  The four profiles are a keyboard with everything in one packet, a
  mouse with its name in the scan response, one that offers the service only there, and a device
  without the service whose bytes contain it in the wrong places.  Three of them exceed the list of two.
- *Buttons.*  Two of them in a channel of one make a task wait in its send, as
  three do in one of four while the UI loop awaits a send of its own.
- *Peripherals.*  No report ID, one kind, two kinds in either order with
  IDs that mean another kind to the prefix classifier, three kinds with and without
  horizontal scroll, and one characteristic more than is kept.  Payloads have
  the bytes that the classifier looks at: 0 to 3 in front, a zero or not at
  the second place, and each length it tells apart.

### Fairness

Safety properties assume none.  Liveness assumes weak fairness of each task's
own step, which the executor provides: it polls every task that was woken, and a
wake-up is never lost (`TaskFairness`, `UiFairness`, `PathFairness`).
`LoopFairness` of `Power` has the same for the loop and the clock, and one
assumption about the environment, as has `FrontPanel`: presses and BLE events do not come closer than a
second for ever.  Every round of the select starts the timer anew, so with such
a stream the tick, which alone darkens the panel, would never come.  The scanner is fair to the clock, the timeout and the sends
(`Fairness`), and nothing is assumed of the peripherals: they may fall silent.  A button's task has strong
fairness, because its send competes with the other tasks' for places in the channel: it is assumed that
the others are not pressed such that they take every place for ever.  `PeersAnswer` says in addition that a connection
attempt ends; the code has no timeout of its own there, and `MCBridgeWedge` shows
what happens without it.  Nothing is assumed of the user, of links staying
up, or of peripherals sending, except where a property says so.

`DisconnectFrees` carries its own premise, that commands stop: the select polls
commands first, so a user who never stops pressing holds slot events back.

## The proofs

| Module | Theorem | Says |
|---|---|---|
| `MultiConnProofs` | `TypeCorrect` | `Spec => []TypeOK`: also that no channel exceeds its capacity |
| | `Inductive` | `Spec => []IInv` |
| | `SlotsHaveOneOwner` | `Spec => []OneOwner` |
| | `TableAgreesWithWorkers` | `Spec => []TableFollowsLinks` |
| | `NoTwoLinksToOnePeer` | `Spec => []NoDuplicateLink` |
| | `PendingStaysEmpty` | `Spec => []ConnectNeverSupersedes` |
| | `SlotEventsAlwaysFit` | `Spec => []SlotEventsFit` |
| | `ImplementsLifecycle` | `Spec => LifecycleSpec` |
| `BridgeProofs` | `BridgeInductive` | `BridgeSpec => []Holds`, that is `IInv` and `BridgeInv` |
| | `BridgeImplementsMultiConn` | `BridgeSpec => Spec`: all of the above holds under the real UI loop |
| | `StatusAgreesWithLinks` | `BridgeSpec => []StatusIsTruthful` |
| | `ScreenAgreesWithLinks` | `BridgeSpec => []ScreenIsTruthful` |
| | `ListAgreesWithScan` | `BridgeSpec => []ListIsCurrent` |
| | `WaitingHasAReason` | `BridgeSpec => []ScanningIsExplained` |
| | `ScriptGoesRound` | `SimSpec => []ScriptRunsAsWritten` |
| `StorageProofs` | `CleanIsSaved` | `Spec => []CleanMeansSaved` |
| | `StoreTypeCorrect` | `Spec => []TypeOK` |
| | `RecordsInductive` | `Spec => []RecordsInv` |
| | `RecordsStayConsistent` | `Spec => []RecordsAreConsistent` |
| | `BootListsAreAsAssumed` | `Spec => []BootListIsAllowed`: what boot goes through satisfies `MultiConn!PeerLists` |
| | `BondIsPersisted` | `Spec => PersistedBondIsCurrent` |
| | `SteadyDevicesAreFound` | `Spec => []SteadyDevicesComeBack` |
| | `FormatTypeCorrect` | `FormatSpec => []FormatTypeOK` |
| | `SavedIsLoaded` | `FormatSpec => []LoadsWhatWasSaved` |
| | `OlderIsLoaded` | `FormatSpec => []OlderRecordsComeBack` |
| | `EveryStoreFits` | with room for `STORE_CAP` of the longest records, as in the firmware, nothing that is saved is left out |
| `ReportPathProofs` | `PathTypeCorrect` | `Spec => []TypeOK` |
| | `NoReportSleeps` | `Spec => []NoLostWakeup` |
| | `TravelIsKept` | `Spec => []TravelIsPreserved` |
| | `RestingStateIsKept` | `Spec => []RestingStateIsLast` |
| `LinkProofs` | `ClientTypeCorrect` | `Spec => []TypeOK` of `HidClient` |
| | `KeysAreForwarded` | `Spec => []KeyboardReportsGetThrough` |
| | `MediaKeysAreForwarded` | `Spec => []MediaKeysGetThrough` |
| | `LedsTypeCorrect` | `LedsSpec => []LedsTypeOK` |
| | `LampsFollowHost` | `LedsSpec => []LampsKeepUp` |
| `PanelProofs` | `SleepIsDeserved` | `Spec => []LowPowerIsDeserved` |
| | `PanelServesUsers` | `Spec => DarkensOnlyUnused`, if the panel's timeout is at most twice the idle timeout and a second |
| | `LoopImplementsPower` | `FrontSpec => Spec`: both hold of the whole loop |
| | `PictureStaysCurrent` | `FrontSpec => []PictureIsCurrent` |
| | `ButtonsTypeCorrect` | `ButtonsSpec => []ButtonsTypeOK` |
| | `PressesAreSentOnce` | `ButtonsSpec => OneEventPerPress` |
| `ScannerProofs` | `EveryPacketIsRead` | for each packet of `Sendable`: the service is found just if it was sent, and the first name |
| | `ScansInductive` | `Spec => []ScanInv` |
| | `WindowIsKept` | `Spec => ListensForTheWindow` |
| | `FoundIsWhatWasHeard` | `Spec => []FoundIsHeard` |
| | `ImplementsDiscovery` | `Spec => D!Init /\ [][D!Next]_(D!vars)`, the safety part of `DiscoverySpec` |

`DataLemmas` has what several of these need: least elements, induction up to a number, sequences, bytes at
offsets.  Every theorem holds for every value of the constants that the named ASSUMEs of the modules allow, and rests on
nothing else.  TLC checks `IInv` in slot_manager, and checked `BridgeInv` on an instance of the size of `MCTargets`
before it was proved.

### The connection manager

Any number of slots, any set of addresses, any capacity of at least one and any relation `Irk`
(`MaxConnectionsAssumption`, `NoAddressAssumption`, `CapacityAssumption`,
`SlotErrorAssumption`, `IrkAssumption`).

*The argument.*  `OneOwner` is not inductive: it says that a slot has one owner, not
what that owner's message contains.  `IInv` adds what each owner implies.
`SlotInv` lists, per slot, what a Connect not yet sent (`Requested`), one in the
channel (`Queued`), a busy worker (`Busy`), an announcement (`Announced`) and a final event
(`Ended`) say about the table and exclude of one another.  `QueueInv`,
`RequestInv` and `EventInv` tie the address in every message to the table and bound the
messages per slot.  `BootInv` keeps the slots that boot will take free
until it takes them: without it the boot-time `reserve_slot`, which looks at nothing, could overwrite a slot.  `DistinctAddresses`
is the table's part of `NoDuplicateLink`.  At boot it rests on `ClaimedTargets`: a scan result is claimed once, and a peer that
was heard under its stored address but claims nothing lost it to a newer record, whose bond cannot resolve that address.

`MultiConnProofs` first proves `TypeOK` with the little that a worker's step
needs (`WorkerReady`).  Its second part has a lemma per kind of change
to a queue (a push, a pop, a step that leaves it alone) and one per action; the
properties follow from `IInv` in one step each.  The third counts the slot
events (an injection into slot and kind, so at most two per slot) and shows that each action maps to
`Reserve`, `Establish`, `Release` or a stutter.

### The control side

What the screen shows is true when nothing is in flight; so the invariant must say what is true when something is.
`Coming` is what is on its way to the UI: the events in the channel, followed by what is left of the coordinator's handler.
`BridgeInv` is about it.  `StatusInv`: the last status in `Coming` is that of the links, or, if there is none, the name on
the screen is.  `ScreenInv` ties the Home and Connected screens to what is being taken down.  `RowsInv` and `ListInv`
say that the rows shown and those coming make up the list a Connect is looked up in, `ScanInv` that a
scan's events come in order, and `StartsInv` and `WaitInv` that a UI on Scanning waits for something that is coming, queued
or connecting, or for the answer that a Connect to a connected device never gets.

A step changes `Coming` in one of four ways: it takes the first event, drops an item the UI does not depend on, exchanges
one such item for another, or (when a handler begins or a scan ends) puts new ones behind events.  There is a lemma per part of
`BridgeInv` and kind of change, and then one per action, which only has to say which change it makes.
`RowsAssumption` says that the UI's list is as long as the scanner's (both 8), `MarkersAssumption` that the markers for
no name and no command are neither.

`ScriptGoesRound` has the simulator's table at each step of the script written out (`TableAt`); the reducers are evaluated on it
for any number of slots from two up.

### The store and its bytes

- `CleanMeansSaved` needs that a write under way carries the records in RAM
  (`WritesTheStore`): the store stays locked from the first attempt to the last.
- `RecordsInv` says of each list of records (in RAM, in flash, on its way there) that a bond fits the address it is stored
  with and recognises no older record's address, that no address is there twice, and that no address is one its device has not had yet.  `SteadyDevicesComeBack` follows by counting: with
  no more records than slots and one record per address, the list of peers that boot goes through has them all.
- `FlashFormat` writes and reads by recursion over the list and over the offset.  That such a function exists and what its
  values are is one lemma (`StepByStep`); what holds along the way is an induction up to a number (`UpTo`).
  `Has(data, i, t)` says that `t` is in `data` at offset `i`.  A record has its fields at their
  offsets; the writer takes devices up to the first that does not fit, and the blob has them one after the other; so a reader that got to the n-th
  record has read the first n devices, and one whose blob ends before that has stopped.
  Any bytes at all are loaded to a list the store may hold (`FormatTypeCorrect`).

### Reports and LEDs

- `NoLostWakeup` is inductive as it stands, given the domains of the loops' state; the step that
  decides it is `FindsNothing`, which goes to sleep in the step that looked.
- `RestInv` says where the newest state of one peripheral at one endpoint is: pending, being sent, the last of its reports in the
  channel, being written, or believed by the host, in this order.  `TravelIsPreserved` needs what the sum over the channel is when a
  report is added or taken, which is an induction over its length.
- `KeyboardReportsGetThrough` rests on the parser: for any map that describes a report of a kind, it finds the ID the map gives that
  kind (induction over the items).  `LinkInv` says that each subscription made so far knows what the references that were read
  say, and `SentInv` what was notified over it; where no ID is known, length and first bytes decide.
- `LampsKeepUp` speaks of a keyboard at rest.  `LedsInv` adds `WritesAreCurrent`: a
  write under way carries the newest value, unless the slot's receiver has a newer one to
  return.  `LedsAssumption` says that the marker for "no report yet" is no set of bits.

### Panel and buttons

- `LowPowerIsDeserved` and `DarkensOnlyUnused` speak of the time without use (`quiet`), which
  the code never measures: it reads `last_activity`, and a HID report reaches that
  only at the next tick.  `ClockIsNoLater` is the link: unless a report waits
  to be noticed, the one runs no longer than the other.  The tick is the one step
  that needs all of it (`TickKeeps`).  `DarkensOnlyUnused` needs
  that low power comes no sooner than the panel's own timeout; the firmware's
  60 and 120 seconds are just within the bound, so the theorem has it as an assumption.
- `PictureIsCurrent` needs that rows are added only while the list is not shown (`ScansShowScanning`).
- `OneEventPerPress` does not follow from the edges: each is two level waits, which a bouncing contact satisfies.
  `PressInv` says that a contact at rest has the finger's level, and that a task that has told of the press is at its release,
  with a rest left that outlasts the bounces (`BOUNCE` < `DEBOUNCE`).

### The scanner

`PacketLaid` says where each structure of a packet ends; the walk comes to each of these offsets and stops at the last, because
what follows is nothing or a structure that is cut off or empty.  `ScanInv` says that the list has each address once, is within its capacity, and
comes from packets of the scan's own window, each with the name that came with it; `FoundIsHeard` adds that none is missing.

### What is only model-checked

Liveness: `Settles`, `DisconnectFrees`, `EndpointsTakeTurns`, `RestingStateArrives`, `TypingLights`, `SuspendDarkens`,
`UnusedDarkens`, `HeldPressIsHeard`, and the fairness of `DiscoverySpec`.  They rest on weak and strong fairness, that is on ENABLED, which the
prover cannot reason about.

## What the runs found

Each of these configurations checks one sentence of the repository's own
comments or documentation and shows a behaviour of the code against it.  The
first three are runs of the project; the others are kept as counterexamples to
look at, each a `tlc -config` away.

| cfg (module): property | The repository says | The code does |
|---|---|---|
| `MCBridgeWedge` (`MCBridge`): `CoordinatorReturns` | `ble/reconnect.rs:26` "harmless for a device that is simply not advertising" | With two stored peers silent, three presses of SELECT fill a worker's channel and the coordinator waits forever. |
| `MCReportStuck` (`MCReportPath`): `KeysNeverStick` | `hid/coalesce.rs:19` "a release is never lost" | When the link ends, a release in the coalescer or in the drain future is dropped. |
| `MCHidClientMouse` (`MCHidClient`): `MouseReportsGetThrough` | `README.md:408` "report-map / report-ID classification (keyboard, mouse, consumer)" | The parser resets the usage at every Main item, so a mouse whose usage stands before its collections gets no report ID: its reports are classified by their first byte, and with horizontal scroll they become media keys. |
| `MCRing`: `NobodyWaitsOnEachOther` | `ble/scanner.rs:94` "so the UI can never hang" | With the channels of the firmware, six presses around a scan that fills the list leave the UI waiting to send a command and the coordinator waiting to send an event (`main.rs:339`): neither takes the other's. |
| `MCBridgeHang` (`MCBridge`): `ScanningEnds` | `README.md:373` `F -->\|UP / DOWN + SELECT\| G[Connect]`, `G --> H[Connected]` | Picking a device that is connected already is answered by no event (`coordinator.rs:236`); the UI stays on Scanning, where it ignores buttons. |
| `MCBridgeStale` (`MCBridge`): `ConnectsToHighlighted` | `ui/ui_logic.rs:113` "Connect to the highlighted device." | An index is looked up in a newer scan result than the list on the screen. |
| `MCScannerNames` (`MCScanner`): `ScanResponsesName` | `ble/scanner.rs:41` "Active scan to retrieve scan-response data (device names)." | Advertisement and scan response reach the callback as two reports, and a name is looked for only in the one with the HID service (`scanner.rs:63`); a listed device is not looked at again. |
| `ButtonsRelease` (`Buttons`): `WaitsForOwnRelease` | `ui/buttons.rs:22` "sends the event, then waits for release before repeating" | When the button was let go while the send waited for room, the task waits for the release of the next press (`buttons.rs:43`), which it never sends. |
| `FrontPanelPress` (`FrontPanel`): `NoBlindPress` | `README.md:383` "First touch after wake is consumed for wake-up (prevents accidental actions)." | An event may turn the display policy on before the tick lights the panel (`main.rs:281`); a press in between acts. |
| `FrontPanelRows` (`FrontPanel`): `SelectionIsShown` | `ui/display.rs:94` "Render the discovered-device list with current selection." | Four rows of a list of eight are drawn (`display.rs:106`); a selection beyond them has no marker. |
| `SimTargetScreen` (`SimTarget`): `StimuliNavigate` | `sim.rs:84` "DeviceList navigation (once populated)" | The first stimulus takes the UI to Scanning, where the reducer ignores every press, and nothing in the binary leaves that screen. |
| `MCReportRange` (`MCReportPath`): `WithinLogicalRange` | `hid/mouse.rs:11` "signed, -127..127" | Merged displacements saturate at -128. |
| `MCHidClientLeds` (`MCHidClient`): `LampsMirrorHost` | `README.md:421` "Mirror the host's ... LEDs" | A keyboard that connects after its slot's receiver returned the state is not told it, even when every write succeeds. |
| `MCDeviceStoreRotate` (`MCDeviceStore`): `PairComesBack` | `ble/multi_conn.rs:191` "both come back after a reboot" | A rotating device's records crowd out the other's among those boot looks for. |

`MCRing` narrows the environment of `Bridge` (stored peers always answer, one link may close) to reach a full list
with the channels of the firmware; each of its behaviours is one of `Bridge`.

## What is not modelled

- *Library code* (nrf-softdevice, embassy-usb, sequential-storage) appears only as the
  outcomes the code distinguishes: a connection attempt ends or not, pairing
  yields a bond, a flash write succeeds, fails or is cut off.
- *Start-up, descriptors, the SoftDevice task* (`main.rs`, `usb/hid_device.rs`): straight-line code
  that runs once, constants handed to a library, and a loop inside one.
- *Configuration* (`config.rs`): constants, which are CONSTANTS here.
- *Layout and wording*: pixels, fonts, labels, logging.
- *Sizes and counts of report-map items*: the parser adds them up and nothing reads the sum.
- *Two links on one USB endpoint*: each keyboard's report replaces the whole state at the host;
  `RestingStateIsLast` is per peripheral, and no document says what two should do together.

## Plan

Done: the connection manager, its composition with the UI, and every
component with state of its own; proofs of every safety property and refinement the passing runs check.  Next:

1. Composition of `Buttons` and `FrontPanel` with `Bridge`, so that one theorem goes from a bouncing contact to the link
   it changes.
2. The hazards without a property (see `PROJECT.json`) that have no counterexample on file: a stream of events that
   holds back the tick, and the eviction of a bond in use.
