----------------------------- MODULE MultiConn -----------------------------
(***************************************************************************)
(* The BLE connection manager (src/src/ble/multi_conn.rs): the coordinator *)
(* task, one worker task per connection slot, and the bounded channels     *)
(* between them and to the UI (src/src/main.rs).                           *)
(*                                                                         *)
(*    UI --cmdQ--> coordinator --slotQ[s]--> worker s                      *)
(*    UI <--evQ--  coordinator <--slotEvQ--  worker 0, worker 1, ...       *)
(*                                                                         *)
(* All tasks share one cooperative executor, so a step here is what a task *)
(* does between two awaits.  A send to a full channel blocks: the step is  *)
(* disabled.  todo is the rest of the handler the coordinator is executing *)
(* (its awaits, in order); it returns to its select when todo is empty.    *)
(***************************************************************************)
EXTENDS Coordinator

CONSTANTS
    BLE_MAX_DISCOVERED,  \* capacity of one scan's result list (8)
    BLE_CMD_CAP,         \* capacity of BLE_CMD_CHANNEL (4)
    BLE_EVENT_CAP,       \* capacity of BLE_EVENT_CHANNEL (8)
    SLOT_CMD_CAP,        \* capacity of SLOT0_CMD and SLOT1_CMD (2)
    SLOT_EVENT_CAP,      \* capacity of SLOT_EVENT_CHANNEL (8)
    SlotErrorTag,        \* the errors a worker may report (all but ScanFailed)
    Irk                  \* <<p, a>>: the bond stored for p resolves address a

ASSUME CapacityAssumption ==
    /\ BLE_MAX_DISCOVERED \in Nat
    /\ BLE_CMD_CAP \in Nat \ {0}
    /\ BLE_EVENT_CAP \in Nat \ {0}
    /\ SLOT_CMD_CAP \in Nat \ {0}
    /\ SLOT_EVENT_CAP \in Nat \ {0}
ASSUME SlotErrorAssumption ==
    /\ SlotErrorTag \subseteq {"ConnectFailed", "HidNotFound", "NotifyFailed"}
    /\ "ConnectFailed" \in SlotErrorTag
ASSUME IrkAssumption == Irk \subseteq Address \X Address

VARIABLES
    manager,     \* coordinator: the slot table
    last_scan,   \* coordinator: the devices a Connect(index) refers to
    todo,        \* coordinator: what is left of the current handler
    cmdQ,        \* BLE_CMD_CHANNEL
    evQ,         \* BLE_EVENT_CHANNEL
    slotQ,       \* SLOTn_CMD channels
    slotEvQ,     \* SLOT_EVENT_CHANNEL
    worker       \* connection_slot_task, one per slot

coVars == <<manager, last_scan, todo>>
vars == <<manager, last_scan, todo, cmdQ, evQ, slotQ, slotEvQ, worker>>

----------------------------------------------------------------------------
(* Commands, events, worker states.                                        *)

\* BleCommand, from the UI.  Index 0 .. BLE_MAX_DISCOVERED includes one
\* that no scan result can have.
StartScan      == [kind |-> "StartScan"]
Connect(index) == [kind |-> "Connect", index |-> index]
Disconnect     == [kind |-> "Disconnect"]

BleCommand == {StartScan, Disconnect} \cup {Connect(i) : i \in 0 .. BLE_MAX_DISCOVERED}

\* BleEvent, to the UI: what the scanner says and what the reducers emit.
ScanStarted    == [kind |-> "ScanStarted"]
DeviceFound(a) == [kind |-> "DeviceFound", device |-> a]
ScanComplete   == [kind |-> "ScanComplete"]

BleEvent ==
    {ScanStarted, ScanComplete, UiDisconnected}
      \cup {DeviceFound(a) : a \in Address}
      \cup {UiConnected(x) : x \in Address \cup (0 .. MAX_CONNECTIONS)}
      \cup {UiError(t) : t \in ErrorTag}

\* SlotCommand, to a worker.
SlotConnect(a) == [kind |-> "Connect", device |-> a]
SlotDisconnect == [kind |-> "Disconnect"]

SlotCommand == {SlotDisconnect} \cup {SlotConnect(a) : a \in Address}

\* SlotEvent, from a worker.
SlotConnected(s, a)  == [kind |-> "Connected", slot |-> s, device |-> a]
SlotDisconnected(s)  == [kind |-> "Disconnected", slot |-> s]
SlotError(s, tag)    == [kind |-> "Error", slot |-> s, tag |-> tag]

SlotEvent ==
    {SlotConnected(s, a) : s \in Slots, a \in Address}
      \cup {SlotDisconnected(s) : s \in Slots}
      \cup {SlotError(s, t) : s \in Slots, t \in ErrorTag}

\* Where a worker is in connection_slot_task / connect_and_run_secure:
\*   idle        waiting for a command
\*   connecting  in connect_with_security, which looks at no command
\*   securing    link up: encryption, discovery, subscription
\*   announcing  about to send Connected
\*   running     racing the notification loop against the next command
\*   reporting   about to send the event of its SlotOutcome
\* outcome is "Disconnected" or an error tag, pending the pending_cmd.
WorkerPc == {"idle", "connecting", "securing", "announcing", "running", "reporting"}

Worker == [pc : WorkerPc,
           device : Address \cup {NoAddress},
           outcome : ErrorTag \cup {"none", "Disconnected"},
           pending : Address \cup {NoAddress}]

IdleWorker ==
    [pc |-> "idle", device |-> NoAddress, outcome |-> "none", pending |-> NoAddress]

\* The coordinator's work items: the reducers' actions and, besides, the
\* boot sequence, the radio part of scanner::scan (peers is the list to
\* reconnect afterwards, empty for a user's scan), and one round of the
\* boot loop that reserves a slot and sends its Connect.
Boot                    == [kind |-> "Boot"]
Scan(peers)             == [kind |-> "Scan", peers |-> peers]
ReserveAndConnect(s, a) == [kind |-> "ReserveAndConnect", slot |-> s, device |-> a]

Distinct(seq) == \A i, j \in DOMAIN seq : seq[i] = seq[j] => i = j

SeqUpTo(S, n) == UNION {[1 .. k -> S] : k \in 0 .. n}

\* The devices a scan may return: distinct addresses, at most a full buffer.
ScanResults == {q \in SeqUpTo(Address, BLE_MAX_DISCOVERED) : Distinct(q)}

\* What the device store may offer for auto-reconnect, the newest record
\* first: distinct addresses.  An older record's bond may resolve the address
\* of a newer one (the same peer, stored again after its address rotated), but
\* not the other way: a bond goes to the oldest record it recognises.
\* DeviceStore.RecordsAreConsistent has this of the records themselves.
PeerLists ==
    {p \in SeqUpTo(Address, MAX_CONNECTIONS) :
        /\ Distinct(p)
        /\ \A i, j \in DOMAIN p : i < j => <<p[i], p[j]>> \notin Irk}

WorkItem ==
    {Boot}
      \cup {Scan(p) : p \in PeerLists}
      \cup {ReserveAndConnect(s, a) : s \in Slots, a \in Address}
      \cup {ConnectSlot(s, a) : s \in Slots, a \in Address}
      \cup {DisconnectSlots(S) : S \in (SUBSET Slots) \ {{}}}
      \cup {PersistDevice(a) : a \in Address}
      \cup {Emit(e) : e \in BleEvent}

----------------------------------------------------------------------------
(* reconnect::resolve_reconnect_targets.                                   *)

Matches(p, a) == p = a \/ <<p, a>> \in Irk

\* Mutant: only what a key recognised is marked as claimed.
MarksOnlyKeys(claim, peers, scanned) ==
    \A k \in DOMAIN peers :
        LET open == {i \in DOMAIN scanned :
                        /\ Matches(peers[k], scanned[i])
                        /\ \A j \in 1 .. k - 1 : claim[j] = i => peers[j] = scanned[i]}
        IN  IF open = {} THEN claim[k] = 0
            ELSE claim[k] \in open /\ \A i \in open : claim[k] <= i

\* claim[k] is the scan result taken for peer k (0 for None): the first one
\* that matches and that no earlier peer took.
IsClaim(claim, peers, scanned) ==
    \A k \in DOMAIN peers :
        LET open == {i \in DOMAIN scanned :
                        /\ Matches(peers[k], scanned[i])
                        /\ \A j \in 1 .. k - 1 : claim[j] # i}
        IN  IF open = {} THEN claim[k] = 0
            ELSE claim[k] \in open /\ \A i \in open : claim[k] <= i

\* The address each slot is told to connect to: live when the peer was
\* seen, else as stored.
TargetAddress(claim, peers, scanned, k) ==
    IF claim[k] = 0 THEN peers[k] ELSE scanned[claim[k]]

----------------------------------------------------------------------------
(* Initial state: before ble_task's first await.                           *)

Init ==
    /\ manager = NewManager
    /\ last_scan = <<>>
    /\ todo = <<Boot>>
    /\ cmdQ = <<>>
    /\ evQ = <<>>
    /\ slotQ = [s \in Slots |-> <<>>]
    /\ slotEvQ = <<>>
    /\ worker = [s \in Slots |-> IdleWorker]

----------------------------------------------------------------------------
(* The UI end of the channels.  MultiConn leaves the UI free to send any   *)
(* command at any time; module Bridge composes it with the real UI loop.   *)

UiSends(cmd) ==
    /\ Len(cmdQ) < BLE_CMD_CAP
    /\ cmdQ' = Append(cmdQ, cmd)
    /\ UNCHANGED <<coVars, evQ, slotQ, slotEvQ, worker>>

UiReceives ==
    /\ evQ # <<>>
    /\ evQ' = Tail(evQ)
    /\ UNCHANGED <<coVars, cmdQ, slotQ, slotEvQ, worker>>

----------------------------------------------------------------------------
(* The coordinator: one step per await of the handler it is executing.     *)

Upcoming(kind) == todo # <<>> /\ Head(todo).kind = kind

\* Boot: with stored peers, scan first and reconnect afterwards.
BootLoadsPeers ==
    /\ Upcoming("Boot")
    /\ \E peers \in PeerLists :
          todo' = IF peers = <<>> THEN <<>> ELSE <<Emit(ScanStarted), Scan(peers)>>
    /\ UNCHANGED <<manager, last_scan, cmdQ, evQ, slotQ, slotEvQ, worker>>

\* The scan window closes (deadline, full buffer or the timeout backstop):
\* the devices found go to the UI, then the stored peers are reconnected.
\* last_scan is private to the coordinator and is not read before it is
\* back in its select, so it can change here.
ScanFinds(found) ==
    /\ Upcoming("Scan")
    /\ LET peers == Head(todo).peers
           n == Len(found)
       IN  \E claim \in [DOMAIN peers -> 0 .. n] :
              /\ IsClaim(claim, peers, found)
              /\ todo' = [i \in 1 .. n + 1 + Len(peers) |->
                            IF i <= n THEN Emit(DeviceFound(found[i]))
                            ELSE IF i = n + 1 THEN Emit(ScanComplete)
                            ELSE ReserveAndConnect(i - n - 2,
                                    TargetAddress(claim, peers, found, i - n - 1))]
    /\ last_scan' = found
    /\ UNCHANGED <<manager, cmdQ, evQ, slotQ, slotEvQ, worker>>

\* The SoftDevice reports an error: no result, and every stored peer is
\* tried at its stored address.
ScanFails ==
    /\ Upcoming("Scan")
    /\ LET peers == Head(todo).peers
       IN  todo' = [i \in 1 .. 1 + Len(peers) |->
                      IF i = 1 THEN Emit(UiError("ScanFailed"))
                      ELSE ReserveAndConnect(i - 2, peers[i - 1])]
    /\ last_scan' = <<>>
    /\ UNCHANGED <<manager, cmdQ, evQ, slotQ, slotEvQ, worker>>

\* Mutant: one message too many.
RoomForOneMore(s) == Len(slotQ[s]) <= SLOT_CMD_CAP

SlotQueueHasRoom(s) == Len(slotQ[s]) < SLOT_CMD_CAP

send_slot_cmd(s, cmd) ==
    /\ SlotQueueHasRoom(s)
    /\ slotQ' = [slotQ EXCEPT ![s] = Append(@, cmd)]

BootReservesAndConnects ==
    /\ Upcoming("ReserveAndConnect")
    /\ LET item == Head(todo) IN
          /\ manager' = reserve_slot(manager, item.slot, item.device)
          /\ send_slot_cmd(item.slot, SlotConnect(item.device))
    /\ todo' = Tail(todo)
    /\ UNCHANGED <<last_scan, cmdQ, evQ, slotEvQ, worker>>

SendsConnect ==
    /\ Upcoming("ConnectSlot")
    /\ send_slot_cmd(Head(todo).slot, SlotConnect(Head(todo).device))
    /\ todo' = Tail(todo)
    /\ UNCHANGED <<manager, last_scan, cmdQ, evQ, slotEvQ, worker>>

\* One DisconnectSlot: the lowest slot of the run first.
SendsDisconnect ==
    /\ Upcoming("DisconnectSlots")
    /\ LET S == Head(todo).slots IN
       \E s \in S :
          /\ \A t \in S : s <= t
          /\ send_slot_cmd(s, SlotDisconnect)
          /\ todo' = IF S = {s} THEN Tail(todo)
                     ELSE [todo EXCEPT ![1] = DisconnectSlots(S \ {s})]
    /\ UNCHANGED <<manager, last_scan, cmdQ, evQ, slotEvQ, worker>>

\* The flash write is a suspension point that always ends; what it stores
\* belongs to the device store.
Persists ==
    /\ Upcoming("PersistDevice")
    /\ todo' = Tail(todo)
    /\ UNCHANGED <<manager, last_scan, cmdQ, evQ, slotQ, slotEvQ, worker>>

Emits ==
    /\ Upcoming("Emit")
    /\ Len(evQ) < BLE_EVENT_CAP
    /\ evQ' = Append(evQ, Head(todo).event)
    /\ todo' = Tail(todo)
    /\ UNCHANGED <<manager, last_scan, cmdQ, slotQ, slotEvQ, worker>>

Decide(decision, rest) ==
    /\ manager' = decision.manager
    /\ todo' = decision.actions \o rest

\* select(): a command is taken whenever there is one ...
ReceivesCommand ==
    /\ todo = <<>>
    /\ cmdQ # <<>>
    /\ LET cmd == Head(cmdQ) IN
       CASE cmd.kind = "StartScan"  ->
                Decide(plan_start_scan(manager), <<Emit(ScanStarted), Scan(<<>>)>>)
         [] cmd.kind = "Connect"    ->
                Decide(plan_connect(manager, last_scan, cmd.index), <<>>)
         [] cmd.kind = "Disconnect" ->
                Decide(plan_disconnect(manager), <<>>)
    /\ cmdQ' = Tail(cmdQ)
    /\ UNCHANGED <<last_scan, evQ, slotQ, slotEvQ, worker>>

\* ... and a slot event only when there is none.
ReceivesSlotEvent ==
    /\ todo = <<>>
    /\ cmdQ = <<>>
    /\ slotEvQ # <<>>
    /\ LET e == Head(slotEvQ) IN
       CASE e.kind = "Connected"    ->
                Decide(on_slot_connected(manager, e.slot, e.device), <<>>)
         [] e.kind = "Disconnected" ->
                Decide(on_slot_disconnected(manager, e.slot), <<>>)
         [] e.kind = "Error"        ->
                Decide(on_slot_error(manager, e.slot, e.tag), <<>>)
    /\ slotEvQ' = Tail(slotEvQ)
    /\ UNCHANGED <<last_scan, cmdQ, evQ, slotQ, worker>>

CoordinatorStep ==
    \/ BootLoadsPeers
    \/ \E found \in ScanResults : ScanFinds(found)
    \/ ScanFails
    \/ BootReservesAndConnects
    \/ SendsConnect
    \/ SendsDisconnect
    \/ Persists
    \/ Emits
    \/ ReceivesCommand
    \/ ReceivesSlotEvent

----------------------------------------------------------------------------
(* A slot worker.                                                          *)

Becomes(s, w) ==
    /\ worker' = [worker EXCEPT ![s] = w]
    /\ UNCHANGED <<coVars, cmdQ, evQ>>

At(s, pc) == worker[s].pc = pc

\* pending_cmd goes before the channel; a Disconnect with no link is void.
TakesCommand(s) ==
    /\ At(s, "idle")
    /\ worker[s].pending = NoAddress => slotQ[s] # <<>>
    /\ LET stored == worker[s].pending # NoAddress
           cmd == IF stored THEN SlotConnect(worker[s].pending) ELSE Head(slotQ[s])
       IN  /\ slotQ' = IF stored THEN slotQ ELSE [slotQ EXCEPT ![s] = Tail(@)]
           /\ Becomes(s, IF cmd.kind = "Connect"
                           THEN [IdleWorker EXCEPT !.pc = "connecting", !.device = cmd.device]
                           ELSE IdleWorker)
    /\ UNCHANGED slotEvQ

MovesTo(s, pc) ==
    /\ Becomes(s, [worker[s] EXCEPT !.pc = pc])
    /\ UNCHANGED <<slotQ, slotEvQ>>

EndsWith(s, outcome) ==
    /\ Becomes(s, [worker[s] EXCEPT !.pc = "reporting", !.outcome = outcome])
    /\ UNCHANGED <<slotQ, slotEvQ>>

\* connect_with_security returns.
ConnectReturns(s) ==
    /\ At(s, "connecting")
    /\ \/ MovesTo(s, "securing")
       \/ EndsWith(s, "ConnectFailed")

\* Encryption, discovery and subscription end, well or not; a link that
\* cannot be used is disconnected.
SecuringEnds(s) ==
    /\ At(s, "securing")
    /\ \/ MovesTo(s, "announcing")
       \/ \E tag \in SlotErrorTag : EndsWith(s, tag)

Announces(s) ==
    /\ At(s, "announcing")
    /\ Len(slotEvQ) < SLOT_EVENT_CAP
    /\ slotEvQ' = Append(slotEvQ, SlotConnected(s, worker[s].device))
    /\ Becomes(s, [worker[s] EXCEPT !.pc = "running"])
    /\ UNCHANGED slotQ

\* Mutant: the command is taken and the link kept.
IgnoresCommand(s) ==
    /\ At(s, "running")
    /\ slotQ[s] # <<>>
    /\ slotQ' = [slotQ EXCEPT ![s] = Tail(@)]
    /\ UNCHANGED <<coVars, cmdQ, evQ, slotEvQ, worker>>

\* The command wins the select: the link is torn down.
IsSuperseded(s) ==
    /\ At(s, "running")
    /\ slotQ[s] # <<>>
    /\ LET cmd == Head(slotQ[s]) IN
       Becomes(s, [worker[s] EXCEPT
                     !.pc = "reporting", !.outcome = "Disconnected",
                     !.pending = IF cmd.kind = "Connect" THEN cmd.device ELSE NoAddress])
    /\ slotQ' = [slotQ EXCEPT ![s] = Tail(@)]
    /\ UNCHANGED slotEvQ

\* The peer closes the link and no command is waiting.
LinkCloses(s) ==
    /\ At(s, "running")
    /\ slotQ[s] = <<>>
    /\ EndsWith(s, "Disconnected")

\* Mutant: the worker does not go back to its select.
ReportsAgain(s) ==
    /\ At(s, "reporting")
    /\ Len(slotEvQ) < SLOT_EVENT_CAP
    /\ slotEvQ' = Append(slotEvQ, SlotDisconnected(s))
    /\ UNCHANGED <<coVars, cmdQ, evQ, slotQ, worker>>

Reports(s) ==
    /\ At(s, "reporting")
    /\ Len(slotEvQ) < SLOT_EVENT_CAP
    /\ slotEvQ' = Append(slotEvQ,
          IF worker[s].outcome = "Disconnected" THEN SlotDisconnected(s)
          ELSE SlotError(s, worker[s].outcome))
    /\ Becomes(s, [IdleWorker EXCEPT !.pending = worker[s].pending])
    /\ UNCHANGED slotQ

WorkerStep(s) ==
    \/ TakesCommand(s)
    \/ ConnectReturns(s)
    \/ SecuringEnds(s)
    \/ Announces(s)
    \/ IsSuperseded(s)
    \/ LinkCloses(s)
    \/ Reports(s)

----------------------------------------------------------------------------
BleStep == CoordinatorStep \/ \E s \in Slots : WorkerStep(s)

Next ==
    \/ \E cmd \in BleCommand : UiSends(cmd)
    \/ UiReceives
    \/ BleStep

Spec == Init /\ [][Next]_vars

\* Every task is polled again once it can go on.  The coordinator's scan
\* ends by its timeout, its flash write and the worker's securing phase (25
\* polls, then GATT procedures) are finite.  Nothing is assumed of a link: it
\* need never close.
TaskFairness ==
    /\ WF_vars(CoordinatorStep)
    /\ \A s \in Slots :
          /\ WF_vars(TakesCommand(s))
          /\ WF_vars(SecuringEnds(s))
          /\ WF_vars(Announces(s))
          /\ WF_vars(IsSuperseded(s))
          /\ WF_vars(Reports(s))

\* connect_with_security has no timeout of its own: that it returns is an
\* assumption on the peer (it advertises, or the SoftDevice gives up).
PeersAnswer == \A s \in Slots : WF_vars(ConnectReturns(s))

\* The UI loop reads its events.
UiReads == WF_vars(UiReceives)

FairSpec == Spec /\ TaskFairness /\ UiReads /\ PeersAnswer

----------------------------------------------------------------------------
(* Where the responsibility for a slot can be.                             *)

\* The coordinator still has to send the Connect it decided on.
Requests(s) ==
    {i \in DOMAIN todo : todo[i].kind = "ConnectSlot" /\ todo[i].slot = s}

\* The Connect waits in the worker's channel.
QueuedConnects(s) == {i \in DOMAIN slotQ[s] : slotQ[s][i].kind = "Connect"}

\* The worker said Connected and the coordinator has not heard it yet.
Announcements(s) ==
    {i \in DOMAIN slotEvQ : slotEvQ[i].slot = s /\ slotEvQ[i].kind = "Connected"}

\* The worker is done and its last event is on the way.
Endings(s) ==
    {i \in DOMAIN slotEvQ : slotEvQ[i].slot = s /\ slotEvQ[i].kind # "Connected"}

Requested(s) == Requests(s) # {}
Queued(s)    == QueuedConnects(s) # {}
Busy(s)      == ~At(s, "idle")
Announced(s) == Announcements(s) # {}
Ended(s)     == Endings(s) # {}

\* The worker has told the coordinator that its link is up.
Linked(s) ==
    At(s, "running") \/ (At(s, "reporting") /\ worker[s].outcome = "Disconnected")

Owners(s) ==
    ({"request"} \X Requests(s))
      \cup ({"queue"} \X QueuedConnects(s))
      \cup (IF Busy(s) THEN {<<"worker", 1>>} ELSE {})
      \cup ({"event"} \X Endings(s))

----------------------------------------------------------------------------
(* Properties.                                                             *)

\* Type invariant.
TypeOK ==
    /\ manager \in [Slots -> Slot]
    /\ last_scan \in Seq(Address)
    /\ todo \in Seq(WorkItem)
    /\ cmdQ \in Seq(BleCommand) /\ Len(cmdQ) <= BLE_CMD_CAP
    /\ evQ \in Seq(BleEvent) /\ Len(evQ) <= BLE_EVENT_CAP
    /\ slotQ \in [Slots -> Seq(SlotCommand)]
    /\ \A s \in Slots : Len(slotQ[s]) <= SLOT_CMD_CAP
    /\ slotEvQ \in Seq(SlotEvent) /\ Len(slotEvQ) <= SLOT_EVENT_CAP
    /\ worker \in [Slots -> Worker]

\* A slot the coordinator holds as occupied has exactly one owner: the
\* Connect not yet sent, the Connect in the channel, the worker, or the
\* worker's last event; a slot it holds as free has none.  So no slot is
\* lost (occupied with nobody left to free it) and none is given to two
\* connections, whatever the order of commands and slot events.
OneOwner ==
    \A s \in Slots :
        IF is_occupied(manager[s]) THEN \E o \in Owners(s) : Owners(s) = {o}
        ELSE Owners(s) = {}

\* The slot table follows the links: once the events of a slot are handled
\* its entry is "connected" exactly while the worker runs a link, and the
\* entry's address is the one the worker is serving.
TableFollowsLinks ==
    \A s \in Slots :
        /\ Busy(s) => manager[s].address = worker[s].device
        /\ ~Announced(s) /\ ~Ended(s) /\ worker[s].outcome = "none" =>
               (manager[s].phase = "connected" <=> At(s, "running"))

\* No two workers ever serve the same address, boot-time reconnection
\* included ("no duplicate link", plan_connect).
NoDuplicateLink ==
    \A s, t \in Slots :
        s # t /\ Busy(s) /\ Busy(t) => worker[s].device # worker[t].device

\* A Connect never reaches a worker that has a link, so a link is only ever
\* superseded by a Disconnect and pending_cmd stays empty.
ConnectNeverSupersedes ==
    \A s \in Slots :
        /\ Busy(s) => ~Queued(s)
        /\ worker[s].pending = NoAddress

\* A worker never waits for room in the slot event channel: each slot has at
\* most a Connected and a final event in flight.
SlotEventsFit == Len(slotEvQ) <= 2 * MAX_CONNECTIONS

\* The coordinator always comes back to its select.
CoordinatorReturns == todo # <<>> ~> todo = <<>>

\* A Disconnect sent to an occupied slot frees it, once the UI stops sending
\* commands (a command always goes before a slot event).  One that is still
\* in the channel when the slot's next Connect is decided no longer counts.
DisconnectSent(s) ==
    /\ slotQ[s] # <<>> /\ slotQ[s][Len(slotQ[s])].kind = "Disconnect"
    /\ ~Requested(s)

DisconnectFrees ==
    <>[](cmdQ = <<>>) => \A s \in Slots : DisconnectSent(s) ~> ~is_occupied(manager[s])

\* The slot table implements the life cycle of a slot: reserved for a free
\* address, connected for that address, freed.
LC == INSTANCE SlotLifecycle WITH table <- manager

LifecycleSpec == LC!Spec
----------------------------------------------------------------------------
(* The inductive invariant behind the safety properties.                   *)

WorkerShape(s) ==
    /\ worker[s].pending = NoAddress
    /\ At(s, "idle") => worker[s] = IdleWorker
    /\ worker[s].outcome = "none" <=> ~At(s, "reporting")
    /\ Busy(s) => worker[s].device # NoAddress /\ worker[s].device = manager[s].address

\* What each owner of a slot implies, and that an occupied slot has one.
SlotInv(s) ==
    /\ WorkerShape(s)
    /\ manager[s].phase = "empty" <=> manager[s].address = NoAddress
    /\ Requested(s) => /\ manager[s].phase = "connecting"
                       /\ ~Queued(s) /\ ~Busy(s) /\ ~Announced(s) /\ ~Ended(s)
    /\ Queued(s) => /\ manager[s].phase = "connecting"
                    /\ ~Busy(s) /\ ~Announced(s) /\ ~Ended(s)
    /\ Busy(s) => /\ ~Ended(s)
                  /\ manager[s].phase = IF Linked(s) /\ ~Announced(s)
                                          THEN "connected" ELSE "connecting"
    /\ Ended(s) => is_occupied(manager[s])
    /\ Announced(s) => /\ manager[s].phase = "connecting"
                       /\ Ended(s) \/ Linked(s)
    /\ is_occupied(manager[s]) => Requested(s) \/ Queued(s) \/ Busy(s) \/ Ended(s)

\* Every message about a connection carries the address its slot holds.  A
\* ConnectSlot is the last of its handler,
RequestInv ==
    \A i \in DOMAIN todo : todo[i].kind = "ConnectSlot" =>
        Len(todo) = 1 /\ manager[todo[i].slot].address = todo[i].device

\* a channel holds at most one Connect,
QueueInv(s) ==
    \A i \in QueuedConnects(s) :
        /\ slotQ[s][i].device = manager[s].address
        /\ \A j \in QueuedConnects(s) : i = j

\* and of one slot at most a Connected and then a final event are under way.
EventInv ==
    /\ \A i \in DOMAIN slotEvQ : slotEvQ[i].kind = "Connected" =>
          slotEvQ[i].device = manager[slotEvQ[i].slot].address
    /\ \A i, j \in DOMAIN slotEvQ : i < j /\ slotEvQ[i].slot = slotEvQ[j].slot =>
          slotEvQ[i].kind = "Connected" /\ slotEvQ[j].kind # "Connected"

\* Until the boot-time Connects are sent the slots they will take are free,
\* and no other slot holds their addresses.
IsBootWork(item) == item.kind = "Boot" \/ (item.kind = "Scan" /\ item.peers # <<>>)

BootInv ==
    /\ \A i \in DOMAIN todo : IsBootWork(todo[i]) => manager = NewManager
    /\ \A i \in DOMAIN todo : todo[i].kind = "ReserveAndConnect" =>
          /\ manager[todo[i].slot] = EmptySlot
          /\ \A t \in Slots : manager[t].address # todo[i].device
          /\ \A j \in DOMAIN todo :
                /\ todo[j].kind \notin {"Boot", "Scan"}
                /\ todo[j].kind = "ReserveAndConnect" /\ i # j =>
                      todo[i].slot # todo[j].slot /\ todo[i].device # todo[j].device

DistinctAddresses ==
    \A s, t \in Slots : s # t /\ is_occupied(manager[s]) =>
        manager[s].address # manager[t].address

\* Together they are preserved by every step.
IInv ==
    /\ TypeOK
    /\ \A s \in Slots : SlotInv(s) /\ QueueInv(s)
    /\ RequestInv
    /\ EventInv
    /\ BootInv
    /\ DistinctAddresses
=============================================================================
