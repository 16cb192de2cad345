-------------------------- MODULE MultiConnProofs --------------------------
(***************************************************************************)
(* Proofs about MultiConn for every number of slots, every capacity, every *)
(* set of addresses and every bond relation, in three parts:               *)
(*                                                                         *)
(*   - types and capacities;                                               *)
(*   - IInv is inductive, and what follows from it: one owner per slot,    *)
(*     the slot table follows the links, no duplicate link, a Connect      *)
(*     never supersedes a link;                                            *)
(*   - the slot event channel never fills up, and the slot table           *)
(*     implements the life cycle of module SlotLifecycle.                  *)
(***************************************************************************)
EXTENDS MultiConn, TLAPS, SequenceTheorems, FiniteSetTheorems

----------------------------------------------------------------------------
(* Types and capacities.                                                   *)

LEMMA WorkItemFields ==
    ASSUME NEW w \in WorkItem
    PROVE  /\ w.kind = "ConnectSlot" => w.slot \in Slots /\ w.device \in Address
           /\ w.kind = "ReserveAndConnect" => w.slot \in Slots /\ w.device \in Address
           /\ w.kind = "Scan" => w.peers \in PeerLists
           /\ w.kind = "DisconnectSlots" => w.slots \in (SUBSET Slots) \ {{}}
           /\ w.kind = "Emit" => w.event \in BleEvent
BY DEF WorkItem, Boot, Scan, ReserveAndConnect, ConnectSlot, DisconnectSlots,
       PersistDevice, Emit

LEMMA SlotEventFields ==
    ASSUME NEW e \in SlotEvent
    PROVE  /\ e.kind \in {"Connected", "Disconnected", "Error"}
           /\ e.slot \in Slots
           /\ e.kind = "Connected" => e.device \in Address
           /\ e.kind = "Error" => e.tag \in ErrorTag
BY DEF SlotEvent, SlotConnected, SlotDisconnected, SlotError

LEMMA SlotCommandFields ==
    ASSUME NEW c \in SlotCommand
    PROVE  /\ c.kind \in {"Connect", "Disconnect"}
           /\ c.kind = "Connect" => c.device \in Address
BY DEF SlotCommand, SlotConnect, SlotDisconnect

LEMMA BleCommandFields ==
    ASSUME NEW c \in BleCommand
    PROVE  /\ c.kind \in {"StartScan", "Connect", "Disconnect"}
           /\ c.kind = "Connect" => c.index \in Nat
BY CapacityAssumption DEF BleCommand, StartScan, Connect, Disconnect

LEMMA SlotsFinite == IsFiniteSet(Slots) /\ Cardinality(Slots) = MAX_CONNECTIONS
BY MaxConnectionsAssumption, FS_Interval DEF Slots

LEMMA ActiveCountType ==
    ASSUME NEW m
    PROVE  active_count(m) \in 0 .. MAX_CONNECTIONS
<1>1. ConnectedSlots(m) \subseteq Slots
    BY DEF ConnectedSlots
<1>2. /\ Cardinality(ConnectedSlots(m)) \in Nat
      /\ Cardinality(ConnectedSlots(m)) <= MAX_CONNECTIONS
    BY <1>1, SlotsFinite, FS_Subset, FS_CardinalityType
<1> QED
    BY <1>2, MaxConnectionsAssumption DEF active_count

LEMMA SummaryType ==
    ASSUME NEW m \in [Slots -> Slot],
           \A s \in Slots : m[s].phase # "empty" => m[s].address \in Address
    PROVE  connection_summary(m) \in Address \cup (0 .. MAX_CONNECTIONS)
<1>1. CASE \E s \in Slots : ConnectedSlots(m) = {s}
    <2> DEFINE s == CHOOSE s \in Slots : ConnectedSlots(m) = {s}
    <2>1. s \in Slots /\ ConnectedSlots(m) = {s}
        BY <1>1
    <2>2. m[s].phase = "connected"
        BY <2>1 DEF ConnectedSlots
    <2> QED
        BY <1>1, <2>1, <2>2 DEF connection_summary
<1>2. CASE ~ \E s \in Slots : ConnectedSlots(m) = {s}
    BY <1>2, ActiveCountType DEF connection_summary
<1> QED
    BY <1>1, <1>2

----------------------------------------------------------------------------
(* Sequences.                                                              *)

\* A tuple built elementwise is a sequence.
LEMMA PeerListsAreSequences ==
    ASSUME NEW p \in PeerLists
    PROVE  /\ p \in Seq(Address)
           /\ Len(p) \in 0 .. MAX_CONNECTIONS
           /\ DOMAIN p = 1 .. Len(p)
           /\ Distinct(p)
           /\ \A i, j \in DOMAIN p : i < j => <<p[i], p[j]>> \notin Irk
BY MaxConnectionsAssumption DEF PeerLists, SeqUpTo

LEMMA ScanResultsAreSequences ==
    ASSUME NEW q \in ScanResults
    PROVE  /\ q \in Seq(Address)
           /\ Len(q) \in Nat
           /\ DOMAIN q = 1 .. Len(q)
           /\ Distinct(q)
BY CapacityAssumption DEF ScanResults, SeqUpTo

LEMMA EmptyPeerList == <<>> \in PeerLists
<1>1. <<>> \in [1 .. 0 -> Address]
    OBVIOUS
<1>2. 0 \in 0 .. MAX_CONNECTIONS
    BY MaxConnectionsAssumption
<1>3. <<>> \in SeqUpTo(Address, MAX_CONNECTIONS)
    BY <1>1, <1>2 DEF SeqUpTo
<1> QED
    BY <1>3 DEF PeerLists, Distinct

LEMMA FunctionIsSeq ==
    ASSUME NEW S, NEW n \in Nat, NEW f \in [1 .. n -> S]
    PROVE  f \in Seq(S)
OBVIOUS

LEMMA PopType ==
    ASSUME NEW S, NEW q \in Seq(S), q # <<>>
    PROVE  /\ Head(q) \in S
           /\ Tail(q) \in Seq(S)
           /\ Len(Tail(q)) = Len(q) - 1
           /\ \A i \in 1 .. Len(q) - 1 : Tail(q)[i] = q[i + 1]
           /\ Head(q) = q[1] /\ 1 \in DOMAIN q
OBVIOUS

LEMMA PushType ==
    ASSUME NEW S, NEW q \in Seq(S), NEW x \in S
    PROVE  /\ Append(q, x) \in Seq(S)
           /\ Len(Append(q, x)) = Len(q) + 1
           /\ \A i \in 1 .. Len(q) : Append(q, x)[i] = q[i]
           /\ Append(q, x)[Len(q) + 1] = x
OBVIOUS

----------------------------------------------------------------------------
(* Work items and decisions are well typed.                                *)

LEMMA EventTypes ==
    /\ ScanStarted \in BleEvent /\ ScanComplete \in BleEvent /\ UiDisconnected \in BleEvent
    /\ \A a \in Address : DeviceFound(a) \in BleEvent
    /\ \A x \in Address \cup (0 .. MAX_CONNECTIONS) : UiConnected(x) \in BleEvent
    /\ \A t \in ErrorTag : UiError(t) \in BleEvent
BY DEF BleEvent

LEMMA WorkItemTypes ==
    /\ Boot \in WorkItem
    /\ \A p \in PeerLists : Scan(p) \in WorkItem
    /\ \A s \in Slots, a \in Address :
          ReserveAndConnect(s, a) \in WorkItem /\ ConnectSlot(s, a) \in WorkItem
    /\ \A S \in (SUBSET Slots) \ {{}} : DisconnectSlots(S) \in WorkItem
    /\ \A a \in Address : PersistDevice(a) \in WorkItem
    /\ \A e \in BleEvent : Emit(e) \in WorkItem
BY DEF WorkItem

\* A manager whose occupied slots all have an address.
Addressed(m) ==
    /\ m \in [Slots -> Slot]
    /\ \A s \in Slots : m[s].phase = "empty" <=> m[s].address = NoAddress

Decided(d) == Addressed(d.manager) /\ d.actions \in Seq(WorkItem)

LEMMA StatusType ==
    ASSUME NEW m, Addressed(m)
    PROVE  LinkStatus(m) \in BleEvent /\ UiConnected(connection_summary(m)) \in BleEvent
<1>1. connection_summary(m) \in Address \cup (0 .. MAX_CONNECTIONS)
    BY SummaryType DEF Addressed, Slot
<1> QED
    BY <1>1, EventTypes DEF LinkStatus

LEMMA OccupiedType == \A m : OccupiedSlots(m) \subseteq Slots
BY DEF OccupiedSlots

LEMMA PlanDisconnectType ==
    ASSUME NEW m, Addressed(m)
    PROVE  /\ Decided(plan_disconnect(m))
           /\ plan_disconnect(m).manager = m
           /\ Decided(plan_start_scan(m))
           /\ plan_start_scan(m).manager = m
<1> DEFINE S == OccupiedSlots(m)
<1>a. S \subseteq Slots
    BY OccupiedType
<1>b. S # {} => S \in (SUBSET Slots) \ {{}}
    BY <1>a
<1>c. S # {} => DisconnectSlots(S) \in WorkItem
    BY <1>b, WorkItemTypes
<1> HIDE DEF S
<1>d. IF S = {} THEN <<>> \in Seq(WorkItem) ELSE <<DisconnectSlots(S)>> \in Seq(WorkItem)
    BY <1>c
<1>1. DisconnectAll(OccupiedSlots(m)) \in Seq(WorkItem)
    BY <1>d DEF DisconnectAll, S
<1> QED
    BY <1>1 DEF plan_disconnect, plan_start_scan, Decision, Decided

\* The slot found is the lowest free one; there is none only when all are
\* occupied.
LEMMA FoundSlot ==
    ASSUME NEW m, find_empty_slot(m) # {}
    PROVE  LET s == CHOOSE s \in find_empty_slot(m) : TRUE
           IN  s \in Slots /\ ~is_occupied(m[s])
BY DEF find_empty_slot, OccupiedSlots

LEMMA PlanConnectType ==
    ASSUME NEW m, Addressed(m), NEW devices \in Seq(Address), NEW index \in Nat
    PROVE  Decided(plan_connect(m, devices, index))
<1>1. CASE index + 1 \notin DOMAIN devices
    BY <1>1, EventTypes, WorkItemTypes DEF plan_connect, Decision, Decided, ErrorTag
<1>2. CASE index + 1 \in DOMAIN devices
    <2> DEFINE a == devices[index + 1]
    <2>1. a \in Address
        BY <1>2
    <2>2. CASE is_connected_address(m, a)
        BY <1>2, <2>2 DEF plan_connect, Decision, Decided
    <2>3. CASE ~is_connected_address(m, a) /\ find_empty_slot(m) = {}
        BY <1>2, <2>3, EventTypes, WorkItemTypes DEF plan_connect, Decision, Decided, ErrorTag
    <2>4. CASE ~is_connected_address(m, a) /\ find_empty_slot(m) # {}
        <3> DEFINE s == CHOOSE s \in find_empty_slot(m) : TRUE
        <3>1. s \in Slots
            BY <2>4, FoundSlot
        <3>2. plan_connect(m, devices, index)
                = Decision(reserve_slot(m, s, a), <<ConnectSlot(s, a)>>)
            BY <1>2, <2>4 DEF plan_connect
        <3> HIDE DEF s, a
        <3>3. ConnectSlot(s, a) \in WorkItem
            BY <2>1, <3>1, WorkItemTypes
        <3>4. Addressed(reserve_slot(m, s, a))
            BY <2>1, <3>1, NoAddressAssumption DEF Addressed, reserve_slot, Slot, SlotPhase
        <3> QED
            BY <3>2, <3>3, <3>4 DEF Decision, Decided
    <2> QED
        BY <2>2, <2>3, <2>4
<1> QED
    BY <1>1, <1>2

LEMMA SlotEventType ==
    ASSUME NEW m, Addressed(m), NEW s \in Slots
    PROVE  /\ \A a \in Address : Decided(on_slot_connected(m, s, a))
           /\ Decided(on_slot_disconnected(m, s))
           /\ \A t \in ErrorTag : Decided(on_slot_error(m, s, t))
<1>1. Addressed(disconnect_slot(m, s))
    BY DEF Addressed, disconnect_slot, EmptySlot, Slot, SlotPhase
<1>2. \A a \in Address : Addressed(connect_slot(m, s, a))
    BY NoAddressAssumption DEF Addressed, connect_slot, Slot, SlotPhase
<1>3. \A a \in Address : Decided(on_slot_connected(m, s, a))
    BY <1>2, StatusType, WorkItemTypes DEF on_slot_connected, Decision, Decided
<1>4. Decided(on_slot_disconnected(m, s))
    BY <1>1, StatusType, WorkItemTypes DEF on_slot_disconnected, Decision, Decided
<1>5. \A t \in ErrorTag : Decided(on_slot_error(m, s, t))
    BY <1>1, StatusType, EventTypes, WorkItemTypes DEF on_slot_error, Decision, Decided
<1> QED
    BY <1>3, <1>4, <1>5

----------------------------------------------------------------------------
(* Type correctness.                                                       *)

LEMMA InitType == Init => TypeOK
BY WorkItemTypes, MaxConnectionsAssumption, CapacityAssumption
   DEF Init, TypeOK, NewManager, EmptySlot, Slot, SlotPhase, IdleWorker, Worker, WorkerPc

\* The parts of TypeOK that the coordinator's steps change.
LEMMA ScanFindsType ==
    ASSUME TypeOK, NEW found \in ScanResults, ScanFinds(found)
    PROVE  todo' \in Seq(WorkItem) /\ last_scan' \in Seq(Address)
<1> DEFINE peers == Head(todo).peers
           n == Len(found)
<1>1. peers \in PeerLists
    BY PopType, WorkItemFields DEF TypeOK, ScanFinds, Upcoming
<1>2. PICK claim \in [DOMAIN peers -> 0 .. n] :
         todo' = [i \in 1 .. n + 1 + Len(peers) |->
                    IF i <= n THEN Emit(DeviceFound(found[i]))
                    ELSE IF i = n + 1 THEN Emit(ScanComplete)
                    ELSE ReserveAndConnect(i - n - 2,
                            TargetAddress(claim, peers, found, i - n - 1))]
    BY DEF ScanFinds
<1>3. /\ n \in Nat /\ DOMAIN found = 1 .. n /\ \A i \in 1 .. n : found[i] \in Address
      /\ Len(peers) \in 0 .. MAX_CONNECTIONS /\ DOMAIN peers = 1 .. Len(peers)
      /\ \A k \in 1 .. Len(peers) : peers[k] \in Address
    BY <1>1, PeerListsAreSequences, ScanResultsAreSequences
<1> HIDE DEF peers, n
<1>4. ASSUME NEW i \in 1 .. n + 1 + Len(peers)
      PROVE  todo'[i] \in WorkItem
    <2>1. CASE i <= n
        BY <1>2, <1>3, <2>1, EventTypes, WorkItemTypes
    <2>2. CASE i = n + 1
        BY <1>2, <1>3, <2>2, EventTypes, WorkItemTypes
    <2>3. CASE i > n + 1
        <3> DEFINE k == i - n - 1
        <3>1. k \in 1 .. Len(peers) /\ i - n - 2 \in Slots
            BY <1>3, <2>3, MaxConnectionsAssumption DEF Slots
        <3>2. TargetAddress(claim, peers, found, k) \in Address
            BY <1>3, <3>1 DEF TargetAddress
        <3> QED
            BY <1>2, <1>3, <2>3, <3>1, <3>2, WorkItemTypes
    <2> QED
        BY <1>3, <2>1, <2>2, <2>3
<1>5. todo' \in [1 .. n + 1 + Len(peers) -> WorkItem]
    BY <1>2, <1>4
<1>6. n + 1 + Len(peers) \in Nat
    BY <1>3
<1> QED
    BY <1>5, <1>6, FunctionIsSeq, ScanResultsAreSequences DEF ScanFinds

LEMMA ScanFailsType ==
    ASSUME TypeOK, ScanFails
    PROVE  todo' \in Seq(WorkItem) /\ last_scan' \in Seq(Address)
<1> DEFINE peers == Head(todo).peers
<1>1. peers \in PeerLists
    BY PopType, WorkItemFields DEF TypeOK, ScanFails, Upcoming
<1>2. todo' = [i \in 1 .. 1 + Len(peers) |->
                 IF i = 1 THEN Emit(UiError("ScanFailed"))
                 ELSE ReserveAndConnect(i - 2, peers[i - 1])]
    BY DEF ScanFails
<1>3. /\ Len(peers) \in 0 .. MAX_CONNECTIONS /\ DOMAIN peers = 1 .. Len(peers)
      /\ \A k \in 1 .. Len(peers) : peers[k] \in Address
    BY <1>1, PeerListsAreSequences
<1> HIDE DEF peers
<1>4. ASSUME NEW i \in 1 .. 1 + Len(peers)
      PROVE  todo'[i] \in WorkItem
    <2>1. CASE i = 1
        BY <1>2, <1>3, <2>1, EventTypes, WorkItemTypes DEF ErrorTag
    <2>2. CASE i > 1
        <3>1. i - 1 \in 1 .. Len(peers) /\ i - 2 \in Slots
            BY <1>3, <2>2, MaxConnectionsAssumption DEF Slots
        <3> QED
            BY <1>2, <1>3, <2>2, <3>1, WorkItemTypes
    <2> QED
        BY <1>3, <2>1, <2>2
<1>5. todo' \in [1 .. 1 + Len(peers) -> WorkItem]
    BY <1>2, <1>4
<1>6. 1 + Len(peers) \in Nat
    BY <1>3
<1>7. todo' \in Seq(WorkItem)
    BY <1>5, <1>6, FunctionIsSeq
<1>8. last_scan' = <<>>
    BY DEF ScanFails
<1> QED
    BY <1>7, <1>8

LEMMA DecideType ==
    ASSUME NEW d, NEW rest \in Seq(WorkItem), Decided(d), Decide(d, rest)
    PROVE  todo' \in Seq(WorkItem) /\ Addressed(manager')
BY DEF Decide, Decided

LEMMA DisconnectItemType ==
    ASSUME TypeOK, SendsDisconnect
    PROVE  todo' \in Seq(WorkItem)
<1> DEFINE S == Head(todo).slots
<1>1. S \in (SUBSET Slots) \ {{}}
    BY PopType, WorkItemFields DEF TypeOK, SendsDisconnect, Upcoming
<1>2. PICK s \in S : todo' = IF S = {s} THEN Tail(todo)
                             ELSE [todo EXCEPT ![1] = DisconnectSlots(S \ {s})]
    BY DEF SendsDisconnect
<1>3. CASE S = {s}
    BY <1>2, <1>3, PopType DEF TypeOK, SendsDisconnect, Upcoming
<1>4. CASE S # {s}
    <2>1. S \ {s} \in (SUBSET Slots) \ {{}}
        BY <1>1, <1>4
    <2>2. DisconnectSlots(S \ {s}) \in WorkItem
        BY <2>1, WorkItemTypes
    <2>3. todo' = [todo EXCEPT ![1] = DisconnectSlots(S \ {s})]
        BY <1>2, <1>4
    <2> QED
        BY <2>2, <2>3 DEF TypeOK, SendsDisconnect, Upcoming
<1> QED
    BY <1>3, <1>4

LEMMA SlotCommandTypes ==
    SlotDisconnect \in SlotCommand /\ \A a \in Address : SlotConnect(a) \in SlotCommand
BY DEF SlotCommand

LEMMA SlotEventTypes ==
    \A s \in Slots :
        /\ \A a \in Address : SlotConnected(s, a) \in SlotEvent
        /\ SlotDisconnected(s) \in SlotEvent
        /\ \A t \in ErrorTag : SlotError(s, t) \in SlotEvent
BY DEF SlotEvent

\* A worker that is not idle has a device, and one that reports an outcome.
WorkerReady(w) ==
    /\ w \in Worker
    /\ w.pc # "idle" => w.device \in Address
    /\ w.pc = "reporting" => w.outcome # "none"

TypeInv ==
    /\ TypeOK
    /\ Addressed(manager)
    /\ \A s \in Slots : WorkerReady(worker[s])

LEMMA CoordinatorType == TypeInv /\ CoordinatorStep => TypeInv'
<1> SUFFICES ASSUME TypeInv, CoordinatorStep PROVE TypeInv'
    OBVIOUS
<1> USE DEF TypeInv
<1>1. CASE BootLoadsPeers
    <2>1. todo' \in Seq(WorkItem)
        BY <1>1, EventTypes, WorkItemTypes DEF BootLoadsPeers
    <2> QED
        BY <1>1, <2>1 DEF BootLoadsPeers, TypeOK, Addressed
<1>2. ASSUME NEW found \in ScanResults, ScanFinds(found) PROVE TypeInv'
    BY <1>2, ScanFindsType DEF ScanFinds, TypeOK, Addressed
<1>3. CASE ScanFails
    BY <1>3, ScanFailsType DEF ScanFails, TypeOK, Addressed
<1>4. CASE BootReservesAndConnects
    <2>1. Head(todo).slot \in Slots /\ Head(todo).device \in Address
        BY <1>4, PopType, WorkItemFields DEF BootReservesAndConnects, Upcoming, TypeOK
    <2>2. Addressed(manager')
        BY <1>4, <2>1, NoAddressAssumption
        DEF BootReservesAndConnects, reserve_slot, Addressed, Slot, SlotPhase
    <2>3. /\ slotQ' \in [Slots -> Seq(SlotCommand)]
          /\ \A s \in Slots : Len(slotQ'[s]) <= SLOT_CMD_CAP
      <3> DEFINE t == Head(todo).slot
                 cmd == SlotConnect(Head(todo).device)
      <3>1. t \in Slots /\ cmd \in SlotCommand
          BY <2>1, SlotCommandTypes
      <3>2. /\ Len(slotQ[t]) < SLOT_CMD_CAP
            /\ slotQ' = [slotQ EXCEPT ![t] = Append(@, cmd)]
          BY <1>4 DEF BootReservesAndConnects, send_slot_cmd, SlotQueueHasRoom
      <3> HIDE DEF t, cmd
      <3> QED
          BY <3>1, <3>2, CapacityAssumption DEF TypeOK
    <2> QED
        BY <1>4, <2>2, <2>3, PopType
        DEF BootReservesAndConnects, Upcoming, TypeOK, Addressed
<1>5. CASE SendsConnect
    <2>1. Head(todo).slot \in Slots /\ Head(todo).device \in Address
        BY <1>5, PopType, WorkItemFields DEF SendsConnect, Upcoming, TypeOK
    <2>3. /\ slotQ' \in [Slots -> Seq(SlotCommand)]
          /\ \A s \in Slots : Len(slotQ'[s]) <= SLOT_CMD_CAP
        BY <1>5, <2>1, SlotCommandTypes, CapacityAssumption
        DEF SendsConnect, send_slot_cmd, SlotQueueHasRoom, TypeOK
    <2> QED
        BY <1>5, <2>3, PopType DEF SendsConnect, Upcoming, TypeOK, Addressed
<1>6. CASE SendsDisconnect
    <2>1. Head(todo).slots \subseteq Slots
        BY <1>6, PopType, WorkItemFields DEF SendsDisconnect, Upcoming, TypeOK
    <2>3. /\ slotQ' \in [Slots -> Seq(SlotCommand)]
          /\ \A s \in Slots : Len(slotQ'[s]) <= SLOT_CMD_CAP
        BY <1>6, <2>1, SlotCommandTypes, CapacityAssumption
        DEF SendsDisconnect, send_slot_cmd, SlotQueueHasRoom, TypeOK
    <2> QED
        BY <1>6, <2>3, DisconnectItemType DEF SendsDisconnect, TypeOK, Addressed
<1>7. CASE Persists
    BY <1>7, PopType DEF Persists, Upcoming, TypeOK, Addressed
<1>8. CASE Emits
    <2>1. Head(todo).event \in BleEvent
        BY <1>8, PopType, WorkItemFields DEF Emits, Upcoming, TypeOK
    <2> QED
        BY <1>8, <2>1, PopType, CapacityAssumption DEF Emits, Upcoming, TypeOK, Addressed
<1>9. CASE ReceivesCommand
    <2> DEFINE cmd == Head(cmdQ)
               DecisionOK == todo' \in Seq(WorkItem) /\ Addressed(manager')
    <2>1. cmd \in BleCommand /\ cmdQ' \in Seq(BleCommand) /\ Len(cmdQ') <= BLE_CMD_CAP
        BY <1>9, CapacityAssumption DEF ReceivesCommand, TypeOK
    <2>2. <<>> \in Seq(WorkItem) /\ <<Emit(ScanStarted), Scan(<<>>)>> \in Seq(WorkItem)
        BY EventTypes, WorkItemTypes, EmptyPeerList
    <2> HIDE DEF cmd
    <2>3. ASSUME cmd.kind = "StartScan" PROVE DecisionOK
        BY <1>9, <2>2, <2>3, PlanDisconnectType, DecideType DEF ReceivesCommand, cmd
    <2>4. ASSUME cmd.kind = "Connect" PROVE DecisionOK
        BY <1>9, <2>1, <2>2, <2>4, PlanConnectType, BleCommandFields, DecideType
        DEF ReceivesCommand, cmd, TypeOK
    <2>5. ASSUME cmd.kind = "Disconnect" PROVE DecisionOK
        BY <1>9, <2>2, <2>5, PlanDisconnectType, DecideType DEF ReceivesCommand, cmd
    <2>6. DecisionOK
        BY <2>1, <2>3, <2>4, <2>5, BleCommandFields
    <2> QED
        BY <1>9, <2>1, <2>6 DEF ReceivesCommand, TypeOK, Addressed
<1>10. CASE ReceivesSlotEvent
    <2> DEFINE e == Head(slotEvQ)
               DecisionOK == todo' \in Seq(WorkItem) /\ Addressed(manager')
    <2>1. e \in SlotEvent /\ slotEvQ' \in Seq(SlotEvent) /\ Len(slotEvQ') <= SLOT_EVENT_CAP
        BY <1>10, CapacityAssumption DEF ReceivesSlotEvent, TypeOK
    <2>2. <<>> \in Seq(WorkItem)
        OBVIOUS
    <2> HIDE DEF e
    <2>3. ASSUME e.kind = "Connected" PROVE DecisionOK
        BY <1>10, <2>1, <2>2, <2>3, SlotEventType, SlotEventFields, DecideType
        DEF ReceivesSlotEvent, e
    <2>4. ASSUME e.kind = "Disconnected" PROVE DecisionOK
        BY <1>10, <2>1, <2>2, <2>4, SlotEventType, SlotEventFields, DecideType
        DEF ReceivesSlotEvent, e
    <2>5. ASSUME e.kind = "Error" PROVE DecisionOK
        BY <1>10, <2>1, <2>2, <2>5, SlotEventType, SlotEventFields, DecideType
        DEF ReceivesSlotEvent, e
    <2>6. DecisionOK
        BY <2>1, <2>3, <2>4, <2>5, SlotEventFields
    <2> QED
        BY <1>10, <2>1, <2>6 DEF ReceivesSlotEvent, TypeOK, Addressed
<1> QED
    BY <1>1, <1>2, <1>3, <1>4, <1>5, <1>6, <1>7, <1>8, <1>9, <1>10 DEF CoordinatorStep

LEMMA WorkerBecomes ==
    ASSUME TypeInv, NEW s \in Slots, NEW w, WorkerReady(w), Becomes(s, w)
    PROVE  /\ worker' \in [Slots -> Worker]
           /\ \A t \in Slots : WorkerReady(worker'[t])
           /\ UNCHANGED <<manager, last_scan, todo, cmdQ, evQ>>
BY DEF TypeInv, TypeOK, Becomes, WorkerReady, coVars

LEMMA WorkerType == \A s \in Slots : TypeInv /\ WorkerStep(s) => TypeInv'
<1> SUFFICES ASSUME NEW s \in Slots, TypeInv, WorkerStep(s) PROVE TypeInv'
    OBVIOUS
<1>0. WorkerReady(worker[s]) /\ WorkerReady(IdleWorker)
    BY DEF TypeInv, WorkerReady, Worker, WorkerPc, IdleWorker
<1> DEFINE QueuesOK == /\ slotQ' \in [Slots -> Seq(SlotCommand)]
                       /\ \A t \in Slots : Len(slotQ'[t]) <= SLOT_CMD_CAP
                       /\ slotEvQ' \in Seq(SlotEvent)
                       /\ Len(slotEvQ') <= SLOT_EVENT_CAP
<1>a. ASSUME NEW w, WorkerReady(w), Becomes(s, w), QueuesOK PROVE TypeInv'
    BY <1>a, WorkerBecomes DEF TypeInv, TypeOK, Addressed
<1>b. ASSUME UNCHANGED <<slotQ, slotEvQ>> PROVE QueuesOK
    BY <1>b DEF TypeInv, TypeOK
<1>c. ASSUME UNCHANGED slotEvQ, slotQ[s] # <<>>, slotQ' = [slotQ EXCEPT ![s] = Tail(@)]
      PROVE QueuesOK
    BY <1>c, CapacityAssumption DEF TypeInv, TypeOK
<1>d. ASSUME UNCHANGED slotQ, NEW e \in SlotEvent,
             Len(slotEvQ) < SLOT_EVENT_CAP, slotEvQ' = Append(slotEvQ, e)
      PROVE QueuesOK
    BY <1>d, CapacityAssumption DEF TypeInv, TypeOK
<1> HIDE DEF QueuesOK
<1>1. CASE TakesCommand(s)
    <2> DEFINE stored == worker[s].pending # NoAddress
               cmd == IF stored THEN SlotConnect(worker[s].pending) ELSE Head(slotQ[s])
               w == IF cmd.kind = "Connect"
                      THEN [IdleWorker EXCEPT !.pc = "connecting", !.device = cmd.device]
                      ELSE IdleWorker
    <2>1. cmd \in SlotCommand
        BY <1>0, <1>1, SlotCommandTypes
        DEF TakesCommand, TypeInv, TypeOK, Worker, WorkerReady
    <2>2. WorkerReady(w)
        BY <1>0, <2>1, SlotCommandFields DEF WorkerReady, Worker, WorkerPc, IdleWorker
    <2>3. QueuesOK
        <3>1. CASE stored
            BY <1>1, <1>b, <3>1 DEF TakesCommand
        <3>2. CASE ~stored
            BY <1>1, <1>c, <3>2 DEF TakesCommand
        <3> QED
            BY <3>1, <3>2
    <2>4. Becomes(s, w)
        BY <1>1 DEF TakesCommand
    <2> HIDE DEF w
    <2> QED
        BY <1>a, <2>2, <2>3, <2>4
<1>2. ASSUME NEW pc \in {"securing", "announcing"}, Busy(s), MovesTo(s, pc)
      PROVE  TypeInv'
    <2>1. WorkerReady([worker[s] EXCEPT !.pc = pc])
        BY <1>0, <1>2 DEF WorkerReady, Worker, WorkerPc, Busy, At
    <2> QED
        BY <1>2, <1>a, <1>b, <2>1 DEF MovesTo
<1>3. ASSUME NEW outcome \in ErrorTag \cup {"Disconnected"}, Busy(s), EndsWith(s, outcome)
      PROVE  TypeInv'
    <2>1. WorkerReady([worker[s] EXCEPT !.pc = "reporting", !.outcome = outcome])
        BY <1>0, <1>3 DEF WorkerReady, Worker, WorkerPc, Busy, At, ErrorTag
    <2> QED
        BY <1>3, <1>a, <1>b, <2>1 DEF EndsWith
<1>4. CASE ConnectReturns(s)
    BY <1>2, <1>3, <1>4 DEF ConnectReturns, Busy, At, ErrorTag
<1>5. CASE SecuringEnds(s)
    BY <1>2, <1>3, <1>5, SlotErrorAssumption DEF SecuringEnds, Busy, At, ErrorTag
<1>6. CASE LinkCloses(s)
    BY <1>3, <1>6 DEF LinkCloses, Busy, At
<1>7. CASE Announces(s)
    <2>1. worker[s].device \in Address
        BY <1>0, <1>7 DEF Announces, At, WorkerReady
    <2>2. SlotConnected(s, worker[s].device) \in SlotEvent
        BY <2>1, SlotEventTypes
    <2>3. WorkerReady([worker[s] EXCEPT !.pc = "running"])
        BY <1>0, <2>1 DEF WorkerReady, Worker, WorkerPc
    <2>4. QueuesOK
        BY <1>7, <1>d, <2>2 DEF Announces
    <2> QED
        BY <1>7, <1>a, <2>3, <2>4 DEF Announces
<1>8. CASE IsSuperseded(s)
    <2> DEFINE cmd == Head(slotQ[s])
               w == [worker[s] EXCEPT
                       !.pc = "reporting", !.outcome = "Disconnected",
                       !.pending = IF cmd.kind = "Connect" THEN cmd.device ELSE NoAddress]
    <2>1. cmd \in SlotCommand
        BY <1>8 DEF IsSuperseded, TypeInv, TypeOK
    <2>2. worker[s].device \in Address
        BY <1>0, <1>8 DEF IsSuperseded, At, WorkerReady
    <2>3. WorkerReady(w)
      <3>1. worker[s] \in Worker
          BY <1>0 DEF WorkerReady
      <3>2. (IF cmd.kind = "Connect" THEN cmd.device ELSE NoAddress) \in Address \cup {NoAddress}
          BY <2>1, SlotCommandFields
      <3>3. "Disconnected" \in ErrorTag \cup {"none", "Disconnected"} /\ "reporting" \in WorkerPc
          BY DEF WorkerPc
      <3> HIDE DEF cmd
      <3> QED
          BY <2>2, <3>1, <3>2, <3>3 DEF WorkerReady, Worker
    <2>4. QueuesOK
        BY <1>8, <1>c DEF IsSuperseded
    <2>5. Becomes(s, w)
        BY <1>8 DEF IsSuperseded
    <2> HIDE DEF w
    <2> QED
        BY <1>a, <2>3, <2>4, <2>5
<1>9. CASE Reports(s)
    <2> DEFINE e == IF worker[s].outcome = "Disconnected" THEN SlotDisconnected(s)
                    ELSE SlotError(s, worker[s].outcome)
    <2>1. worker[s].outcome \in ErrorTag \cup {"Disconnected"}
        BY <1>0, <1>9 DEF Reports, At, WorkerReady, Worker
    <2>2. e \in SlotEvent
        BY <2>1, SlotEventTypes
    <2>3. WorkerReady([IdleWorker EXCEPT !.pending = worker[s].pending])
        BY <1>0 DEF WorkerReady, Worker, WorkerPc, IdleWorker
    <2>4. slotEvQ' = Append(slotEvQ, e)
        BY <1>9 DEF Reports
    <2> HIDE DEF e
    <2>5. QueuesOK
        BY <1>9, <1>d, <2>2, <2>4 DEF Reports
    <2> QED
        BY <1>9, <1>a, <2>3, <2>5 DEF Reports
<1> QED
    BY <1>1, <1>4, <1>5, <1>6, <1>7, <1>8, <1>9 DEF WorkerStep

LEMMA UiType ==
    /\ \A cmd \in BleCommand : TypeInv /\ UiSends(cmd) => TypeInv'
    /\ TypeInv /\ UiReceives => TypeInv'
<1>1. ASSUME NEW cmd \in BleCommand, TypeInv, UiSends(cmd) PROVE TypeInv'
    BY <1>1, CapacityAssumption DEF TypeInv, TypeOK, UiSends, coVars, Addressed
<1>2. ASSUME TypeInv, UiReceives PROVE TypeInv'
    BY <1>2, CapacityAssumption DEF TypeInv, TypeOK, UiReceives, coVars, Addressed
<1> QED
    BY <1>1, <1>2

LEMMA NextType == TypeInv /\ [Next]_vars => TypeInv'
<1> SUFFICES ASSUME TypeInv, [Next]_vars PROVE TypeInv'
    OBVIOUS
<1>1. CASE UNCHANGED vars
    BY <1>1 DEF vars, TypeInv, TypeOK, Addressed, WorkerReady
<1> QED
    BY <1>1, UiType, CoordinatorType, WorkerType DEF Next, BleStep

\* Every queue stays within its capacity and every message, work item and
\* worker state is one of the kinds the code has, forever.
THEOREM TypeCorrect == Spec => []TypeOK
<1>1. Init => TypeInv
    BY InitType DEF Init, TypeInv, Addressed, WorkerReady, NewManager, EmptySlot,
                    Slot, SlotPhase, IdleWorker, Worker, WorkerPc
<1> QED
    BY <1>1, NextType, PTL DEF Spec, TypeInv

----------------------------------------------------------------------------
(* The inductive invariant and the safety properties.                      *)

LEMMA IInvTyped == IInv => TypeInv
<1> SUFFICES ASSUME IInv PROVE TypeInv
    OBVIOUS
<1>1. Addressed(manager)
    BY DEF IInv, TypeOK, SlotInv, Addressed
<1>2. ASSUME NEW s \in Slots PROVE WorkerReady(worker[s])
    BY DEF IInv, TypeOK, SlotInv, WorkerShape, WorkerReady, Worker, Busy, At
<1> QED
    BY <1>1, <1>2 DEF TypeInv, IInv

----------------------------------------------------------------------------
(* What a step on a queue does to the predicates of SlotInv.               *)

\* While the coordinator executes anything but a ConnectSlot, no Connect is
\* still to be sent.
LEMMA NoRequest ==
    ASSUME IInv, todo = <<>> \/ Head(todo).kind # "ConnectSlot"
    PROVE  \A s \in Slots : ~Requested(s)
<1> SUFFICES ASSUME NEW s \in Slots, NEW i \in DOMAIN todo,
                    todo[i].kind = "ConnectSlot"
             PROVE  FALSE
    BY DEF Requested, Requests
<1>1. todo \in Seq(WorkItem) /\ Len(todo) = 1
    BY DEF IInv, TypeOK, RequestInv
<1> QED
    BY <1>1

LEMMA NoRequestNext ==
    ASSUME \A i \in DOMAIN todo' : todo'[i].kind # "ConnectSlot"
    PROVE  \A s \in Slots : ~Requested(s)'
BY DEF Requested, Requests

\* A slot none of whose predicates changes keeps its invariant.
LEMMA SlotFrame ==
    ASSUME NEW s \in Slots, SlotInv(s),
           manager'[s] = manager[s], worker'[s] = worker[s],
           Requested(s)' <=> Requested(s), Queued(s)' <=> Queued(s),
           Announced(s)' <=> Announced(s), Ended(s)' <=> Ended(s)
    PROVE  SlotInv(s)'
BY DEF SlotInv, WorkerShape, Busy, Linked, At, is_occupied

LEMMA SlotQueueUnchanged ==
    ASSUME NEW s \in Slots, slotQ'[s] = slotQ[s]
    PROVE  Queued(s)' <=> Queued(s)
BY DEF Queued, QueuedConnects

LEMMA EventQueueUnchanged ==
    ASSUME NEW s \in Slots, UNCHANGED slotEvQ
    PROVE  (Announced(s)' <=> Announced(s)) /\ (Ended(s)' <=> Ended(s))
BY DEF Announced, Ended, Announcements, Endings

LEMMA TodoUnchanged ==
    ASSUME NEW s \in Slots, UNCHANGED todo
    PROVE  Requested(s)' <=> Requested(s)
BY DEF Requested, Requests

LEMMA SlotQueuePush ==
    ASSUME TypeOK, NEW s \in Slots, NEW c \in SlotCommand,
           slotQ' = [slotQ EXCEPT ![s] = Append(@, c)]
    PROVE  /\ c.kind = "Connect" => Queued(s)'
           /\ c.kind # "Connect" => (Queued(s)' <=> Queued(s))
           /\ \A t \in Slots : t # s => slotQ'[t] = slotQ[t]
<1>1. slotQ[s] \in Seq(SlotCommand) /\ slotQ'[s] = Append(slotQ[s], c)
    BY DEF TypeOK
<1>2. /\ DOMAIN slotQ[s] = 1 .. Len(slotQ[s])
      /\ DOMAIN slotQ'[s] = 1 .. Len(slotQ[s]) + 1
      /\ \A i \in 1 .. Len(slotQ[s]) : slotQ'[s][i] = slotQ[s][i]
      /\ slotQ'[s][Len(slotQ[s]) + 1] = c
      /\ Len(slotQ[s]) \in Nat
    BY <1>1
<1>3. c.kind = "Connect" => Queued(s)'
    BY <1>2 DEF Queued, QueuedConnects
<1>4. ASSUME c.kind # "Connect" PROVE Queued(s)' <=> Queued(s)
    <2>1. ASSUME NEW i \in DOMAIN slotQ'[s], slotQ'[s][i].kind = "Connect"
          PROVE  i \in DOMAIN slotQ[s] /\ slotQ[s][i].kind = "Connect"
        BY <1>2, <1>4, <2>1
    <2>2. ASSUME NEW i \in DOMAIN slotQ[s], slotQ[s][i].kind = "Connect"
          PROVE  i \in DOMAIN slotQ'[s] /\ slotQ'[s][i].kind = "Connect"
        BY <1>2, <2>2
    <2> QED
        BY <2>1, <2>2 DEF Queued, QueuedConnects
<1>5. \A t \in Slots : t # s => slotQ'[t] = slotQ[t]
    BY DEF TypeOK
<1> QED
    BY <1>3, <1>4, <1>5

LEMMA SlotQueuePop ==
    ASSUME IInv, NEW s \in Slots, slotQ[s] # <<>>,
           slotQ' = [slotQ EXCEPT ![s] = Tail(@)]
    PROVE  /\ Head(slotQ[s]).kind = "Connect" =>
                 /\ Queued(s) /\ ~Queued(s)'
                 /\ Head(slotQ[s]).device = manager[s].address
           /\ Head(slotQ[s]).kind # "Connect" => (Queued(s)' <=> Queued(s))
           /\ \A t \in Slots : t # s => slotQ'[t] = slotQ[t]
<1>1. slotQ[s] \in Seq(SlotCommand) /\ slotQ'[s] = Tail(slotQ[s])
    BY DEF IInv, TypeOK
<1>2. /\ DOMAIN slotQ[s] = 1 .. Len(slotQ[s])
      /\ Len(slotQ[s]) \in Nat \ {0}
      /\ DOMAIN slotQ'[s] = 1 .. Len(slotQ[s]) - 1
      /\ \A i \in 1 .. Len(slotQ[s]) - 1 : slotQ'[s][i] = slotQ[s][i + 1]
      /\ Head(slotQ[s]) = slotQ[s][1]
    <2> DEFINE q == slotQ[s]
    <2>1. q \in Seq(SlotCommand) /\ q # <<>> /\ slotQ'[s] = Tail(q)
        BY <1>1
    <2> HIDE DEF q
    <2>2. /\ DOMAIN q = 1 .. Len(q) /\ Len(q) \in Nat \ {0}
          /\ DOMAIN Tail(q) = 1 .. Len(q) - 1
          /\ \A i \in 1 .. Len(q) - 1 : Tail(q)[i] = q[i + 1]
          /\ Head(q) = q[1]
        BY <2>1
    <2> QED
        BY <2>1, <2>2 DEF q
<1>3. ASSUME Head(slotQ[s]).kind = "Connect"
      PROVE  Queued(s) /\ ~Queued(s)' /\ Head(slotQ[s]).device = manager[s].address
    <2>1. 1 \in QueuedConnects(s)
        BY <1>2, <1>3 DEF QueuedConnects
    <2>2. \A j \in QueuedConnects(s) : j = 1
        BY <2>1 DEF IInv, QueueInv
    <2>3. ASSUME NEW i \in DOMAIN slotQ'[s], slotQ'[s][i].kind = "Connect" PROVE FALSE
        <3>1. i + 1 \in QueuedConnects(s)
            BY <1>2, <2>3 DEF QueuedConnects
        <3> QED
            BY <1>2, <2>2, <3>1
    <2> QED
        BY <1>2, <2>1, <2>3 DEF Queued, QueuedConnects, IInv, QueueInv
<1>4. ASSUME Head(slotQ[s]).kind # "Connect"
      PROVE  Queued(s)' <=> Queued(s)
    <2>1. ASSUME NEW i \in DOMAIN slotQ'[s], slotQ'[s][i].kind = "Connect"
          PROVE  i + 1 \in DOMAIN slotQ[s] /\ slotQ[s][i + 1].kind = "Connect"
        BY <1>2, <2>1
    <2>2. ASSUME NEW i \in DOMAIN slotQ[s], slotQ[s][i].kind = "Connect"
          PROVE  i - 1 \in DOMAIN slotQ'[s] /\ slotQ'[s][i - 1].kind = "Connect"
        BY <1>2, <1>4, <2>2
    <2> QED
        BY <2>1, <2>2 DEF Queued, QueuedConnects
<1>5. \A t \in Slots : t # s => slotQ'[t] = slotQ[t]
    BY DEF IInv, TypeOK
<1> QED
    BY <1>3, <1>4, <1>5

LEMMA EventPush ==
    ASSUME TypeOK, NEW e \in SlotEvent, slotEvQ' = Append(slotEvQ, e), NEW s \in Slots
    PROVE  /\ Announced(s)' <=> Announced(s) \/ (e.slot = s /\ e.kind = "Connected")
           /\ Ended(s)' <=> Ended(s) \/ (e.slot = s /\ e.kind # "Connected")
<1>1. /\ DOMAIN slotEvQ = 1 .. Len(slotEvQ) /\ Len(slotEvQ) \in Nat
      /\ DOMAIN slotEvQ' = 1 .. Len(slotEvQ) + 1
      /\ \A i \in 1 .. Len(slotEvQ) : slotEvQ'[i] = slotEvQ[i]
      /\ slotEvQ'[Len(slotEvQ) + 1] = e
    BY DEF TypeOK
<1>2. Announced(s)' <=> Announced(s) \/ (e.slot = s /\ e.kind = "Connected")
    BY <1>1 DEF Announced, Announcements
<1>3. Ended(s)' <=> Ended(s) \/ (e.slot = s /\ e.kind # "Connected")
    BY <1>1 DEF Ended, Endings
<1> QED
    BY <1>2, <1>3

LEMMA EventPop ==
    ASSUME IInv, slotEvQ # <<>>, slotEvQ' = Tail(slotEvQ), NEW s \in Slots
    PROVE  LET e == Head(slotEvQ) IN
           /\ e.slot # s => (Announced(s)' <=> Announced(s)) /\ (Ended(s)' <=> Ended(s))
           /\ e.slot = s /\ e.kind = "Connected" =>
                 Announced(s) /\ ~Announced(s)' /\ (Ended(s)' <=> Ended(s))
           /\ e.slot = s /\ e.kind # "Connected" =>
                 Ended(s) /\ ~Announced(s) /\ ~Announced(s)' /\ ~Ended(s)'
<1> DEFINE e == Head(slotEvQ)
<1>1. /\ DOMAIN slotEvQ = 1 .. Len(slotEvQ) /\ Len(slotEvQ) \in Nat \ {0}
      /\ DOMAIN slotEvQ' = 1 .. Len(slotEvQ) - 1
      /\ \A i \in 1 .. Len(slotEvQ) - 1 : slotEvQ'[i] = slotEvQ[i + 1]
      /\ e = slotEvQ[1]
    BY DEF IInv, TypeOK
<1>2. \A j \in DOMAIN slotEvQ : j > 1 /\ slotEvQ[j].slot = e.slot =>
          e.kind = "Connected" /\ slotEvQ[j].kind # "Connected"
    BY <1>1 DEF IInv, EventInv
<1> HIDE DEF e
<1>3. /\ Announced(s) <=> \E j \in 1 .. Len(slotEvQ) :
                              slotEvQ[j].slot = s /\ slotEvQ[j].kind = "Connected"
      /\ Ended(s) <=> \E j \in 1 .. Len(slotEvQ) :
                              slotEvQ[j].slot = s /\ slotEvQ[j].kind # "Connected"
    BY <1>1 DEF Announced, Announcements, Ended, Endings
<1>4. /\ Announced(s)' <=> \E j \in 2 .. Len(slotEvQ) :
                              slotEvQ[j].slot = s /\ slotEvQ[j].kind = "Connected"
      /\ Ended(s)' <=> \E j \in 2 .. Len(slotEvQ) :
                              slotEvQ[j].slot = s /\ slotEvQ[j].kind # "Connected"
    <2>1. ASSUME NEW i \in DOMAIN slotEvQ'
          PROVE  i + 1 \in 2 .. Len(slotEvQ) /\ slotEvQ'[i] = slotEvQ[i + 1]
        BY <1>1
    <2>2. ASSUME NEW j \in 2 .. Len(slotEvQ)
          PROVE  j - 1 \in DOMAIN slotEvQ' /\ slotEvQ'[j - 1] = slotEvQ[j]
        BY <1>1
    <2> DEFINE Kind(x, connected) == x.slot = s /\ (x.kind = "Connected" <=> connected)
    <2>3. ASSUME NEW c \in BOOLEAN
          PROVE  (\E i \in DOMAIN slotEvQ' : Kind(slotEvQ'[i], c))
                    <=> (\E j \in 2 .. Len(slotEvQ) : Kind(slotEvQ[j], c))
        <3> HIDE DEF Kind
        <3>1. ASSUME NEW i \in DOMAIN slotEvQ', Kind(slotEvQ'[i], c)
              PROVE  \E j \in 2 .. Len(slotEvQ) : Kind(slotEvQ[j], c)
            BY <2>1, <3>1
        <3>2. ASSUME NEW j \in 2 .. Len(slotEvQ), Kind(slotEvQ[j], c)
              PROVE  \E i \in DOMAIN slotEvQ' : Kind(slotEvQ'[i], c)
            BY <2>2, <3>2
        <3> QED
            BY <3>1, <3>2
    <2>4. Announced(s)' <=> \E i \in DOMAIN slotEvQ' : Kind(slotEvQ'[i], TRUE)
        BY DEF Announced, Announcements
    <2>5. Ended(s)' <=> \E i \in DOMAIN slotEvQ' : Kind(slotEvQ'[i], FALSE)
        BY DEF Ended, Endings
    <2> QED
        BY <2>3, <2>4, <2>5
<1>5. CASE e.slot # s
    BY <1>1, <1>3, <1>4, <1>5 DEF e
<1>6. CASE e.slot = s
    BY <1>1, <1>2, <1>3, <1>4, <1>6 DEF e
<1> QED
    BY <1>5, <1>6 DEF e

----------------------------------------------------------------------------
(* When the other parts of IInv are preserved.                             *)

LEMMA QueueFrame ==
    ASSUME NEW s \in Slots, QueueInv(s),
           slotQ'[s] = slotQ[s], manager'[s].address = manager[s].address
    PROVE  QueueInv(s)'
BY DEF QueueInv, QueuedConnects

LEMMA QueueEmpty ==
    ASSUME NEW s \in Slots, ~Queued(s)'
    PROVE  QueueInv(s)'
BY DEF QueueInv, Queued

LEMMA EventFrame ==
    ASSUME TypeOK, EventInv, UNCHANGED slotEvQ,
           \A s \in Slots : Announced(s) => manager'[s].address = manager[s].address
    PROVE  EventInv'
<1>1. \A i \in DOMAIN slotEvQ : slotEvQ[i] \in SlotEvent
    BY DEF TypeOK
<1>2. ASSUME NEW i \in DOMAIN slotEvQ, slotEvQ[i].kind = "Connected"
      PROVE  slotEvQ[i].device = manager'[slotEvQ[i].slot].address
    <2>1. slotEvQ[i].slot \in Slots
        BY <1>1, SlotEventFields
    <2>2. Announced(slotEvQ[i].slot)
        BY <1>2 DEF Announced, Announcements
    <2> QED
        BY <1>2, <2>1, <2>2 DEF EventInv
<1> QED
    BY <1>2 DEF EventInv

LEMMA EventPopFrame ==
    ASSUME TypeOK, EventInv, slotEvQ # <<>>, slotEvQ' = Tail(slotEvQ),
           \A s \in Slots : Announced(s)' => manager'[s].address = manager[s].address
    PROVE  EventInv'
<1>1. /\ DOMAIN slotEvQ = 1 .. Len(slotEvQ) /\ Len(slotEvQ) \in Nat \ {0}
      /\ DOMAIN slotEvQ' = 1 .. Len(slotEvQ) - 1
      /\ \A i \in 1 .. Len(slotEvQ) - 1 : slotEvQ'[i] = slotEvQ[i + 1]
      /\ \A i \in DOMAIN slotEvQ : slotEvQ[i] \in SlotEvent
    BY DEF TypeOK
<1>2. ASSUME NEW i \in DOMAIN slotEvQ', slotEvQ'[i].kind = "Connected"
      PROVE  slotEvQ'[i].device = manager'[slotEvQ'[i].slot].address
    <2>1. i + 1 \in DOMAIN slotEvQ /\ slotEvQ'[i] = slotEvQ[i + 1]
        BY <1>1
    <2>2. slotEvQ'[i].slot \in Slots
        BY <1>1, <2>1, SlotEventFields
    <2>3. ASSUME NEW s \in Slots, s = slotEvQ'[i].slot
          PROVE  manager'[s].address = manager[s].address
        <3>1. Announced(s)'
            BY <1>2, <2>3 DEF Announced, Announcements
        <3> QED
            BY <3>1
    <2> QED
        BY <1>2, <2>1, <2>2, <2>3 DEF EventInv
<1>3. ASSUME NEW i \in DOMAIN slotEvQ', NEW j \in DOMAIN slotEvQ',
             i < j, slotEvQ'[i].slot = slotEvQ'[j].slot
      PROVE  slotEvQ'[i].kind = "Connected" /\ slotEvQ'[j].kind # "Connected"
    <2>1. /\ i + 1 \in DOMAIN slotEvQ /\ slotEvQ'[i] = slotEvQ[i + 1]
          /\ j + 1 \in DOMAIN slotEvQ /\ slotEvQ'[j] = slotEvQ[j + 1]
          /\ i + 1 < j + 1
        BY <1>1, <1>3
    <2> QED
        BY <1>3, <2>1 DEF EventInv
<1> QED
    BY <1>2, <1>3 DEF EventInv

\* A slot may announce a link when it has no event under way, and end when
\* it has no other ending under way.
LEMMA EventPushFrame ==
    ASSUME TypeOK, EventInv, NEW e \in SlotEvent, slotEvQ' = Append(slotEvQ, e),
           UNCHANGED manager,
           ~Ended(e.slot),
           e.kind = "Connected" => /\ ~Announced(e.slot)
                                   /\ e.device = manager[e.slot].address
    PROVE  EventInv'
<1>1. /\ DOMAIN slotEvQ = 1 .. Len(slotEvQ) /\ Len(slotEvQ) \in Nat
      /\ DOMAIN slotEvQ' = 1 .. Len(slotEvQ) + 1
      /\ \A i \in 1 .. Len(slotEvQ) : slotEvQ'[i] = slotEvQ[i]
      /\ slotEvQ'[Len(slotEvQ) + 1] = e
    BY DEF TypeOK
<1>2. ASSUME NEW i \in DOMAIN slotEvQ', slotEvQ'[i].kind = "Connected"
      PROVE  slotEvQ'[i].device = manager'[slotEvQ'[i].slot].address
    BY <1>1, <1>2 DEF EventInv
<1>3. ASSUME NEW i \in DOMAIN slotEvQ', NEW j \in DOMAIN slotEvQ',
             i < j, slotEvQ'[i].slot = slotEvQ'[j].slot
      PROVE  slotEvQ'[i].kind = "Connected" /\ slotEvQ'[j].kind # "Connected"
    <2>1. CASE j \in DOMAIN slotEvQ
        BY <1>1, <1>3, <2>1 DEF EventInv
    <2>2. CASE j = Len(slotEvQ) + 1
        <3>1. i \in DOMAIN slotEvQ /\ slotEvQ[i].slot = e.slot /\ slotEvQ'[i] = slotEvQ[i]
            BY <1>1, <1>3, <2>2
        <3>2. slotEvQ[i].kind = "Connected"
            BY <3>1 DEF Ended, Endings
        <3>3. Announced(e.slot)
            BY <3>1, <3>2 DEF Announced, Announcements
        <3> QED
            BY <1>1, <2>2, <3>1, <3>2, <3>3
    <2> QED
        BY <1>1, <2>1, <2>2
<1> QED
    BY <1>2, <1>3 DEF EventInv

LEMMA NoBootWork ==
    ASSUME \A i \in DOMAIN todo' :
              todo'[i].kind # "ReserveAndConnect" /\ ~IsBootWork(todo'[i])
    PROVE  BootInv'
BY DEF BootInv, IsBootWork

LEMMA BootTail ==
    ASSUME TypeOK, BootInv, todo # <<>>, todo' = Tail(todo), UNCHANGED manager
    PROVE  BootInv'
<1>1. /\ DOMAIN todo' = 1 .. Len(todo) - 1
      /\ Len(todo) \in Nat \ {0}
      /\ DOMAIN todo = 1 .. Len(todo)
      /\ \A i \in 1 .. Len(todo) - 1 : todo'[i] = todo[i + 1]
    BY DEF TypeOK
<1>2. ASSUME NEW i \in DOMAIN todo'
      PROVE  i + 1 \in DOMAIN todo /\ todo'[i] = todo[i + 1]
    BY <1>1
<1>3. ASSUME NEW i \in DOMAIN todo', NEW j \in DOMAIN todo', i # j
      PROVE  i + 1 # j + 1
    BY <1>1, <1>3
<1>4. ASSUME NEW i \in DOMAIN todo', IsBootWork(todo'[i]) PROVE manager' = NewManager
    BY <1>2, <1>4 DEF BootInv, IsBootWork
<1>5. ASSUME NEW i \in DOMAIN todo', todo'[i].kind = "ReserveAndConnect"
      PROVE  /\ manager'[todo'[i].slot] = EmptySlot
             /\ \A t \in Slots : manager'[t].address # todo'[i].device
             /\ \A j \in DOMAIN todo' :
                /\ todo'[j].kind \notin {"Boot", "Scan"}
                /\ todo'[j].kind = "ReserveAndConnect" /\ i # j =>
                      todo'[i].slot # todo'[j].slot /\ todo'[i].device # todo'[j].device
    BY <1>2, <1>3, <1>5 DEF BootInv
<1> QED
    BY <1>4, <1>5 DEF BootInv, IsBootWork

----------------------------------------------------------------------------
(* The steps of the UI and those of the coordinator that change no slot.   *)

LEMMA UiKeeps ==
    ASSUME IInv, TypeOK', UNCHANGED <<manager, todo, slotQ, slotEvQ, worker>>
    PROVE  IInv'
<1>1. ASSUME NEW s \in Slots PROVE SlotInv(s)' /\ QueueInv(s)'
    BY SlotFrame, TodoUnchanged, SlotQueueUnchanged, EventQueueUnchanged, QueueFrame
    DEF IInv
<1>2. RequestInv' /\ BootInv' /\ DistinctAddresses'
    BY DEF IInv, RequestInv, BootInv, IsBootWork, DistinctAddresses
<1>3. EventInv'
    BY EventFrame DEF IInv
<1> QED
    BY <1>1, <1>2, <1>3 DEF IInv

\* A step of a handler that neither had a Connect to send nor gets one.
LEMMA HandlerKeeps ==
    ASSUME IInv, TypeOK', UNCHANGED <<manager, slotQ, slotEvQ, worker>>,
           todo = <<>> \/ Head(todo).kind # "ConnectSlot",
           \A i \in DOMAIN todo' : todo'[i].kind # "ConnectSlot",
           BootInv'
    PROVE  IInv'
<1>1. \A s \in Slots : ~Requested(s) /\ ~Requested(s)'
    BY NoRequest, NoRequestNext
<1>2. ASSUME NEW s \in Slots PROVE SlotInv(s)' /\ QueueInv(s)'
    BY <1>1, SlotFrame, SlotQueueUnchanged, EventQueueUnchanged, QueueFrame
    DEF IInv
<1>3. RequestInv' /\ DistinctAddresses'
    BY DEF IInv, RequestInv, DistinctAddresses
<1>4. EventInv'
    BY EventFrame DEF IInv
<1> QED
    BY <1>2, <1>3, <1>4 DEF IInv

\* When the item at the head is not a ConnectSlot no later one is.
LEMMA TailRequestsNothing ==
    ASSUME IInv, todo # <<>>, Head(todo).kind # "ConnectSlot", todo' = Tail(todo)
    PROVE  \A i \in DOMAIN todo' : todo'[i].kind # "ConnectSlot"
<1>1. /\ DOMAIN todo' = 1 .. Len(todo) - 1
      /\ Len(todo) \in Nat \ {0}
      /\ DOMAIN todo = 1 .. Len(todo)
      /\ \A i \in 1 .. Len(todo) - 1 : todo'[i] = todo[i + 1]
    BY DEF IInv, TypeOK
<1>2. ASSUME NEW i \in DOMAIN todo', todo'[i].kind = "ConnectSlot" PROVE FALSE
    <2>1. Len(todo) = 1
        BY <1>1, <1>2 DEF IInv, RequestInv
    <2> QED
        BY <1>1, <2>1
<1> QED
    BY <1>2

LEMMA BootLoadsPeersKeeps == ASSUME IInv, TypeOK', BootLoadsPeers PROVE IInv'
<1>1. todo # <<>> /\ Head(todo).kind = "Boot"
    BY DEF BootLoadsPeers, Upcoming
<1>2. PICK peers \in PeerLists :
         todo' = IF peers = <<>> THEN <<>> ELSE <<Emit(ScanStarted), Scan(peers)>>
    BY DEF BootLoadsPeers
<1>3. manager = NewManager
    <2>1. 1 \in DOMAIN todo /\ todo[1] = Head(todo)
        BY <1>1 DEF IInv, TypeOK
    <2> QED
        BY <1>1, <2>1 DEF IInv, BootInv, IsBootWork
<1>4. \A i \in DOMAIN todo' : todo'[i] \in {Emit(ScanStarted), Scan(peers)}
    BY <1>2
<1>5. BootInv'
    BY <1>3, <1>4 DEF BootInv, BootLoadsPeers, Emit, Scan
<1>6. \A i \in DOMAIN todo' : todo'[i].kind # "ConnectSlot"
    BY <1>4 DEF Emit, Scan
<1> QED
    BY <1>1, <1>5, <1>6, HandlerKeeps DEF BootLoadsPeers

LEMMA TailKeeps ==
    ASSUME IInv, TypeOK', todo # <<>>, Head(todo).kind # "ConnectSlot",
           todo' = Tail(todo), UNCHANGED <<manager, slotQ, slotEvQ, worker>>
    PROVE  IInv'
<1>1. BootInv'
    BY BootTail DEF IInv
<1> QED
    BY <1>1, TailRequestsNothing, HandlerKeeps

LEMMA PersistsKeeps == ASSUME IInv, TypeOK', Persists PROVE IInv'
BY TailKeeps DEF Persists, Upcoming

LEMMA EmitsKeeps == ASSUME IInv, TypeOK', Emits PROVE IInv'
BY TailKeeps DEF Emits, Upcoming

\* Once the stored peers are known, the boot loop connects each of them in a
\* slot of its own: it starts from an empty table, and the addresses are
\* distinct.
LEMMA BootPlan ==
    ASSUME IInv, todo # <<>>, Head(todo).kind = "Scan", UNCHANGED manager,
           NEW target, NEW n \in Nat, TypeOK',
           DOMAIN todo' = 1 .. n + Len(Head(todo).peers),
           Len(Head(todo).peers) \in Nat,
           \A i \in 1 .. n : todo'[i].kind = "Emit",
           \A i \in n + 1 .. n + Len(Head(todo).peers) :
               todo'[i] = ReserveAndConnect(i - n - 1, target[i - n]),
           \A i \in 1 .. Len(Head(todo).peers) : target[i] \in Address,
           \A i, j \in 1 .. Len(Head(todo).peers) : i # j => target[i] # target[j]
    PROVE  /\ BootInv'
           /\ \A i \in DOMAIN todo' : todo'[i].kind # "ConnectSlot"
<1> DEFINE p == Head(todo).peers
           m == Len(p)
<1>0. /\ m \in Nat
      /\ DOMAIN todo' = 1 .. n + m
      /\ \A i \in 1 .. n : todo'[i].kind = "Emit"
      /\ \A i \in n + 1 .. n + m : todo'[i] = ReserveAndConnect(i - n - 1, target[i - n])
      /\ \A i, j \in 1 .. m : i # j => target[i] # target[j]
      /\ \A i \in 1 .. m : target[i] \in Address
      /\ m > 0 => p # <<>>
  <2>1. m > 0 => p # <<>>
    <3>1. Len(<<>>) = 0
        OBVIOUS
    <3> HIDE DEF p
    <3> QED
        BY <3>1
  <2>2. /\ m \in Nat
        /\ DOMAIN todo' = 1 .. n + m
        /\ \A i \in 1 .. n : todo'[i].kind = "Emit"
        OBVIOUS
  <2>3. \A i \in n + 1 .. n + m : todo'[i] = ReserveAndConnect(i - n - 1, target[i - n])
        OBVIOUS
  <2>4. /\ \A i, j \in 1 .. m : i # j => target[i] # target[j]
        /\ \A i \in 1 .. m : target[i] \in Address
        OBVIOUS
  <2> QED
      BY <2>1, <2>2, <2>3, <2>4
<1> HIDE DEF m, p
<1>1. ASSUME NEW i \in n + 1 .. n + m
      PROVE  /\ todo'[i].kind = "ReserveAndConnect"
             /\ todo'[i].slot = i - n - 1
             /\ todo'[i].device = target[i - n]
             /\ i - n \in 1 .. m
    <2>1. todo'[i] = ReserveAndConnect(i - n - 1, target[i - n])
        BY <1>0
    <2> QED
        BY <1>0, <2>1 DEF ReserveAndConnect
<1>2. ASSUME NEW i \in DOMAIN todo'
      PROVE  /\ todo'[i].kind \in {"Emit", "ReserveAndConnect"}
             /\ todo'[i].kind = "ReserveAndConnect" => i \in n + 1 .. n + m
    <2>1. i \in 1 .. n \/ i \in n + 1 .. n + m
        BY <1>0
    <2>2. CASE i \in 1 .. n
        BY <1>0, <2>2
    <2>3. CASE i \in n + 1 .. n + m
        BY <1>1, <2>3
    <2> QED
        BY <2>1, <2>2, <2>3
<1>3. ASSUME NEW i \in DOMAIN todo', todo'[i].kind = "ReserveAndConnect"
      PROVE  /\ todo'[i].slot = i - n - 1
             /\ todo'[i].device = target[i - n]
             /\ i - n \in 1 .. m
    BY <1>1, <1>2, <1>3
<1>4. ASSUME NEW i \in DOMAIN todo', todo'[i].kind = "ReserveAndConnect"
      PROVE  manager = NewManager /\ todo'[i].slot \in Slots
    <2>1. p # <<>>
        BY <1>0, <1>3, <1>4
    <2>2. 1 \in DOMAIN todo /\ todo[1] = Head(todo)
        BY DEF IInv, TypeOK
    <2>3. manager = NewManager
        BY <2>1, <2>2 DEF IInv, BootInv, IsBootWork, p
    <2>4. todo'[i] \in WorkItem
        BY DEF TypeOK
    <2> QED
        BY <1>4, <2>3, <2>4, WorkItemFields
<1>5. ASSUME NEW i \in DOMAIN todo', todo'[i].kind = "ReserveAndConnect"
      PROVE  /\ manager'[todo'[i].slot] = EmptySlot
             /\ \A t \in Slots : manager'[t].address # todo'[i].device
    <2>1. todo'[i].device \in Address /\ todo'[i].slot \in Slots /\ manager' = NewManager
        BY <1>0, <1>3, <1>4, <1>5
    <2> QED
        BY <2>1, NoAddressAssumption DEF NewManager, EmptySlot
<1>6. ASSUME NEW i \in DOMAIN todo', todo'[i].kind = "ReserveAndConnect",
             NEW j \in DOMAIN todo'
      PROVE  /\ todo'[j].kind \notin {"Boot", "Scan"}
             /\ todo'[j].kind = "ReserveAndConnect" /\ i # j =>
                   todo'[i].slot # todo'[j].slot /\ todo'[i].device # todo'[j].device
    <2>1. ASSUME todo'[j].kind = "ReserveAndConnect", i # j
          PROVE  todo'[i].slot # todo'[j].slot /\ todo'[i].device # todo'[j].device
        <3>1. i - n # j - n /\ i - n - 1 # j - n - 1
            BY <2>1
        <3> QED
            BY <1>0, <1>3, <1>6, <2>1, <3>1
    <2> QED
        BY <1>2, <2>1
<1>7. \A i \in DOMAIN todo' : ~IsBootWork(todo'[i]) /\ todo'[i].kind # "ConnectSlot"
    BY <1>2 DEF IsBootWork
<1> QED
    BY <1>5, <1>6, <1>7 DEF BootInv, IsBootWork

\* resolve_reconnect_targets gives every stored peer an address of its own: a
\* scan result is claimed once, and a peer whose stored address was heard but
\* claims nothing lost it to a peer before it, whose record is newer and whose
\* bond would have to resolve the address of the older.
LEMMA ClaimedTargets ==
    ASSUME NEW peers \in PeerLists, NEW found \in ScanResults,
           NEW claim \in [DOMAIN peers -> 0 .. Len(found)],
           IsClaim(claim, peers, found)
    PROVE  /\ \A i \in DOMAIN peers : TargetAddress(claim, peers, found, i) \in Address
           /\ \A i, j \in DOMAIN peers : i # j =>
                 TargetAddress(claim, peers, found, i) # TargetAddress(claim, peers, found, j)
<1> DEFINE open(k) == {i \in DOMAIN found :
                          /\ Matches(peers[k], found[i])
                          /\ \A j \in 1 .. k - 1 : claim[j] # i}
           target(k) == TargetAddress(claim, peers, found, k)
<1>1. peers \in Seq(Address) /\ found \in Seq(Address)
    BY PeerListsAreSequences, ScanResultsAreSequences
<1>2. /\ Distinct(peers) /\ Distinct(found)
      /\ \A i, j \in DOMAIN peers : i < j => <<peers[i], peers[j]>> \notin Irk
    BY DEF PeerLists, ScanResults
<1>3. /\ DOMAIN peers = 1 .. Len(peers) /\ Len(peers) \in Nat
      /\ DOMAIN found = 1 .. Len(found) /\ Len(found) \in Nat
      /\ \A k \in DOMAIN peers : peers[k] \in Address /\ claim[k] \in 0 .. Len(found)
      /\ \A i \in DOMAIN found : found[i] \in Address
    BY <1>1
<1>4. \A k \in DOMAIN peers :
          IF open(k) = {} THEN claim[k] = 0
          ELSE claim[k] \in open(k) /\ \A i \in open(k) : claim[k] <= i
    BY DEF IsClaim
<1>5. ASSUME NEW k \in DOMAIN peers, claim[k] # 0
      PROVE  /\ claim[k] \in DOMAIN found
             /\ Matches(peers[k], found[claim[k]])
             /\ \A j \in 1 .. k - 1 : claim[j] # claim[k]
             /\ target(k) = found[claim[k]]
    BY <1>3, <1>4, <1>5 DEF TargetAddress
<1>6. ASSUME NEW k \in DOMAIN peers, claim[k] = 0
      PROVE  /\ target(k) = peers[k]
             /\ \A i \in DOMAIN found : Matches(peers[k], found[i]) =>
                   \E j \in 1 .. k - 1 : claim[j] = i
    <2>1. open(k) = {}
        BY <1>3, <1>4, <1>6
    <2> QED
        BY <1>6, <2>1 DEF TargetAddress
<1> HIDE DEF open, target
<1>7. ASSUME NEW i \in DOMAIN peers, NEW j \in DOMAIN peers, i # j,
             claim[i] # 0, claim[j] # 0
      PROVE  claim[i] # claim[j]
    BY <1>3, <1>5, <1>7
<1>8. ASSUME NEW i \in DOMAIN peers, NEW j \in DOMAIN peers, i # j,
             claim[i] = 0, claim[j] # 0
      PROVE  target(i) # target(j)
    <2>1. SUFFICES ASSUME found[claim[j]] = peers[i] PROVE FALSE
        BY <1>5, <1>6, <1>8
    <2>2. PICK k \in 1 .. i - 1 : claim[k] = claim[j]
        <3>1. Matches(peers[i], found[claim[j]])
            BY <2>1 DEF Matches
        <3> QED
            BY <1>5, <1>6, <1>8, <3>1
    <2>3. k \in DOMAIN peers
        BY <1>3
    <2>4. k = j /\ j < i
        BY <1>3, <1>7, <1>8, <2>2, <2>3
    <2>5. Matches(peers[j], peers[i])
        BY <1>5, <1>8, <2>1
    <2> QED
        BY <1>2, <1>8, <2>4, <2>5 DEF Matches, Distinct
<1>9. ASSUME NEW i \in DOMAIN peers, NEW j \in DOMAIN peers, i # j
      PROVE  target(i) # target(j)
    <2>1. CASE claim[i] = 0 /\ claim[j] = 0
        BY <1>2, <1>6, <1>9, <2>1 DEF Distinct
    <2>2. CASE claim[i] # 0 /\ claim[j] # 0
        BY <1>2, <1>5, <1>7, <1>9, <2>2 DEF Distinct
    <2> QED
        BY <1>8, <1>9, <2>1, <2>2
<1>10. ASSUME NEW k \in DOMAIN peers PROVE target(k) \in Address
    BY <1>3, <1>5, <1>6
<1> QED
    BY <1>9, <1>10 DEF target

LEMMA ScanFindsKeeps ==
    ASSUME IInv, TypeOK', NEW found \in ScanResults, ScanFinds(found)
    PROVE  IInv'
<1> DEFINE p == Head(todo).peers
<1>1. todo # <<>> /\ Head(todo).kind = "Scan" /\ UNCHANGED <<manager, slotQ, slotEvQ, worker>>
    BY DEF ScanFinds, Upcoming
<1>2. p \in PeerLists
    <2>1. todo \in Seq(WorkItem)
        BY DEF IInv, TypeOK
    <2>2. Head(todo) \in WorkItem
        BY <1>1, <2>1
    <2> QED
        BY <1>1, <2>2, WorkItemFields
<1>3. PICK claim \in [DOMAIN p -> 0 .. Len(found)] :
         /\ IsClaim(claim, p, found)
         /\ todo' = [i \in 1 .. Len(found) + 1 + Len(p) |->
                        IF i <= Len(found) THEN Emit(DeviceFound(found[i]))
                        ELSE IF i = Len(found) + 1 THEN Emit(ScanComplete)
                        ELSE ReserveAndConnect(i - Len(found) - 2,
                                TargetAddress(claim, p, found, i - Len(found) - 1))]
    BY DEF ScanFinds
<1> DEFINE n == Len(found) + 1
           target == [k \in DOMAIN p |-> TargetAddress(claim, p, found, k)]
<1>4. /\ p \in Seq(Address) /\ Len(p) \in Nat /\ DOMAIN p = 1 .. Len(p)
      /\ Len(found) \in Nat /\ n \in Nat
    BY <1>2, PeerListsAreSequences, ScanResultsAreSequences
<1>5. /\ \A i \in 1 .. Len(p) : target[i] \in Address
      /\ \A i, j \in 1 .. Len(p) : i # j => target[i] # target[j]
    BY <1>2, <1>3, <1>4, ClaimedTargets
<1>6. DOMAIN todo' = 1 .. n + Len(p)
    BY <1>3
<1> DEFINE l == Len(found)
           m == Len(p)
<1>7. ASSUME NEW i \in 1 .. n PROVE todo'[i].kind = "Emit"
    <2>1. i \in 1 .. l + 1 + m /\ (i <= l \/ (i = l + 1 /\ ~(i <= l)))
        <3>1. i \in 1 .. l + 1 /\ l \in Nat /\ m \in Nat
            BY <1>4, <1>7
        <3> HIDE DEF l, m
        <3> QED
            BY <3>1
    <2>2. CASE i <= l
        BY <1>3, <2>1, <2>2 DEF Emit
    <2>3. CASE i = l + 1 /\ ~(i <= l)
        BY <1>3, <2>1, <2>3 DEF Emit
    <2> QED
        BY <2>1, <2>2, <2>3
<1>8. ASSUME NEW i \in n + 1 .. n + Len(p)
      PROVE  todo'[i] = ReserveAndConnect(i - n - 1, target[i - n])
    <2>1. /\ i \in 1 .. l + 1 + m /\ ~(i <= l) /\ i # l + 1
          /\ i - (l + 1) \in 1 .. m
          /\ i - l - 2 = i - (l + 1) - 1 /\ i - l - 1 = i - (l + 1)
        <3>1. i \in l + 1 + 1 .. l + 1 + m /\ l \in Nat /\ m \in Nat
            BY <1>4, <1>8
        <3> HIDE DEF l, m
        <3> QED
            BY <3>1
    <2>2. todo'[i] = ReserveAndConnect(i - l - 2, TargetAddress(claim, p, found, i - l - 1))
        BY <1>3, <2>1
    <2>3. target[i - n] = TargetAddress(claim, p, found, i - l - 1)
        BY <1>4, <2>1
    <2> QED
        BY <2>1, <2>2, <2>3
<1>9. BootInv' /\ \A i \in DOMAIN todo' : todo'[i].kind # "ConnectSlot"
    <2> HIDE DEF n, target
    <2> QED
        BY <1>1, <1>4, <1>5, <1>6, <1>7, <1>8, BootPlan
<1> QED
    BY <1>1, <1>9, HandlerKeeps

LEMMA ScanFailsKeeps == ASSUME IInv, TypeOK', ScanFails PROVE IInv'
<1> DEFINE p == Head(todo).peers
<1>1. todo # <<>> /\ Head(todo).kind = "Scan" /\ UNCHANGED <<manager, slotQ, slotEvQ, worker>>
    BY DEF ScanFails, Upcoming
<1>2. p \in PeerLists
    <2>1. todo \in Seq(WorkItem)
        BY DEF IInv, TypeOK
    <2>2. Head(todo) \in WorkItem
        BY <1>1, <2>1
    <2> QED
        BY <1>1, <2>2, WorkItemFields
<1>3. todo' = [i \in 1 .. 1 + Len(p) |->
                 IF i = 1 THEN Emit(UiError("ScanFailed"))
                 ELSE ReserveAndConnect(i - 2, p[i - 1])]
    BY DEF ScanFails
<1>4. p \in Seq(Address) /\ Len(p) \in Nat /\ DOMAIN p = 1 .. Len(p)
    BY <1>2, PeerListsAreSequences
<1>5. /\ \A i \in 1 .. Len(p) : p[i] \in Address
      /\ \A i, j \in 1 .. Len(p) : i # j => p[i] # p[j]
    BY <1>2, <1>4 DEF PeerLists, Distinct
<1>6. DOMAIN todo' = 1 .. 1 + Len(p) /\ todo'[1].kind = "Emit"
    BY <1>3, <1>4 DEF Emit
<1>7. ASSUME NEW i \in 2 .. 1 + Len(p)
      PROVE  todo'[i] = ReserveAndConnect(i - 1 - 1, p[i - 1])
    BY <1>3, <1>4
<1>8. BootInv' /\ \A i \in DOMAIN todo' : todo'[i].kind # "ConnectSlot"
    <2> DEFINE n == 1
    <2>1. \A i \in 1 .. n : todo'[i].kind = "Emit"
        BY <1>6
    <2>2. /\ n \in Nat /\ DOMAIN todo' = 1 .. n + Len(p)
          /\ \A i \in n + 1 .. n + Len(p) : todo'[i] = ReserveAndConnect(i - n - 1, p[i - n])
        BY <1>6, <1>7
    <2> HIDE DEF n
    <2> QED
        BY <1>1, <1>4, <1>5, <2>1, <2>2, BootPlan
<1> QED
    BY <1>1, <1>8, HandlerKeeps

----------------------------------------------------------------------------
(* The steps of the coordinator that send a command to a worker.           *)

\* QueueInv of the slot a command is pushed to.
LEMMA QueuePush ==
    ASSUME TypeOK, NEW s \in Slots, NEW c \in SlotCommand, QueueInv(s),
           slotQ' = [slotQ EXCEPT ![s] = Append(@, c)],
           IF c.kind = "Connect" THEN ~Queued(s) /\ c.device = manager'[s].address
           ELSE manager'[s].address = manager[s].address
    PROVE  QueueInv(s)'
<1>1. slotQ[s] \in Seq(SlotCommand) /\ slotQ'[s] = Append(slotQ[s], c)
    BY DEF TypeOK
<1>2. /\ DOMAIN slotQ[s] = 1 .. Len(slotQ[s])
      /\ DOMAIN slotQ'[s] = 1 .. Len(slotQ[s]) + 1
      /\ \A i \in 1 .. Len(slotQ[s]) : slotQ'[s][i] = slotQ[s][i]
      /\ slotQ'[s][Len(slotQ[s]) + 1] = c
      /\ Len(slotQ[s]) \in Nat
    BY <1>1
<1>3. CASE c.kind = "Connect"
    <2>1. ASSUME NEW i \in DOMAIN slotQ'[s], slotQ'[s][i].kind = "Connect"
          PROVE  i = Len(slotQ[s]) + 1
        BY <1>2, <1>3, <2>1 DEF Queued, QueuedConnects
    <2> QED
        BY <1>2, <1>3, <2>1 DEF QueueInv, QueuedConnects
<1>4. CASE c.kind # "Connect"
    <2>1. ASSUME NEW i \in DOMAIN slotQ'[s], slotQ'[s][i].kind = "Connect"
          PROVE  i \in QueuedConnects(s) /\ slotQ'[s][i] = slotQ[s][i]
        BY <1>2, <1>4, <2>1 DEF QueuedConnects
    <2> QED
        BY <1>4, <2>1 DEF QueueInv, QueuedConnects
<1> QED
    BY <1>3, <1>4

LEMMA SendsDisconnectKeeps == ASSUME IInv, TypeOK', SendsDisconnect PROVE IInv'
<1>1. /\ todo # <<>> /\ Head(todo).kind = "DisconnectSlots"
      /\ UNCHANGED <<manager, slotEvQ, worker>>
    BY DEF SendsDisconnect, Upcoming
<1>2. todo \in Seq(WorkItem) /\ Head(todo) \in WorkItem
    BY <1>1 DEF IInv, TypeOK
<1> DEFINE S == Head(todo).slots
<1>3. PICK s \in S :
         /\ send_slot_cmd(s, SlotDisconnect)
         /\ todo' = IF S = {s} THEN Tail(todo)
                    ELSE [todo EXCEPT ![1] = DisconnectSlots(S \ {s})]
    BY DEF SendsDisconnect
<1>4. s \in Slots
    BY <1>1, <1>2, WorkItemFields
<1>5. SlotDisconnect \in SlotCommand /\ SlotDisconnect.kind = "Disconnect"
    BY DEF SlotCommand, SlotDisconnect
<1>6. slotQ' = [slotQ EXCEPT ![s] = Append(@, SlotDisconnect)]
    BY <1>3 DEF send_slot_cmd
<1>7. ASSUME NEW t \in Slots PROVE Queued(t)' <=> Queued(t)
    BY <1>4, <1>5, <1>6, SlotQueuePush, SlotQueueUnchanged DEF IInv
<1>8. BootInv' /\ \A i \in DOMAIN todo' : todo'[i].kind # "ConnectSlot"
    <2>1. CASE S = {s}
        <3>1. todo' = Tail(todo)
            BY <1>3, <2>1
        <3> QED
            BY <1>1, <3>1, BootTail, TailRequestsNothing DEF IInv
    <2>2. CASE S # {s}
        <3>1. todo' = [todo EXCEPT ![1] = DisconnectSlots(S \ {s})]
            BY <1>3, <2>2
        <3>2. /\ DOMAIN todo = 1 .. Len(todo) /\ Len(todo) \in Nat \ {0}
              /\ todo[1].kind = "DisconnectSlots"
            BY <1>1, <1>2
        <3>3. /\ DOMAIN todo' = DOMAIN todo
              /\ \A i \in DOMAIN todo : todo'[i].kind = todo[i].kind
              /\ \A i \in DOMAIN todo : i # 1 => todo'[i] = todo[i]
            BY <3>1, <3>2 DEF DisconnectSlots
        <3>4. BootInv'
            BY <1>1, <3>2, <3>3 DEF IInv, BootInv, IsBootWork
        <3>5. \A i \in DOMAIN todo' : todo'[i].kind # "ConnectSlot"
            BY <3>2, <3>3 DEF IInv, RequestInv
        <3> QED
            BY <3>4, <3>5
    <2> QED
        BY <2>1, <2>2
<1>9. ASSUME NEW t \in Slots PROVE SlotInv(t)'
    BY <1>1, <1>7, <1>8, NoRequest, NoRequestNext, SlotFrame, EventQueueUnchanged DEF IInv
<1>10. ASSUME NEW t \in Slots PROVE QueueInv(t)'
    <2>1. CASE t = s
        BY <1>1, <1>4, <1>5, <1>6, <2>1, QueuePush DEF IInv
    <2>2. CASE t # s
        BY <1>1, <1>4, <1>5, <1>6, <2>2, SlotQueuePush, QueueFrame DEF IInv
    <2> QED
        BY <2>1, <2>2
<1>11. RequestInv' /\ DistinctAddresses' /\ EventInv'
    BY <1>1, <1>8, EventFrame DEF IInv, RequestInv, DistinctAddresses
<1> QED
    BY <1>8, <1>9, <1>10, <1>11 DEF IInv

\* The Connect moves from the handler to the channel of its slot.
LEMMA SendsConnectKeeps == ASSUME IInv, TypeOK', SendsConnect PROVE IInv'
<1>1. /\ todo # <<>> /\ Head(todo).kind = "ConnectSlot"
      /\ todo' = Tail(todo) /\ UNCHANGED <<manager, slotEvQ, worker>>
    BY DEF SendsConnect, Upcoming
<1>2. /\ todo \in Seq(WorkItem) /\ Head(todo) \in WorkItem
      /\ 1 \in DOMAIN todo /\ todo[1] = Head(todo)
    BY <1>1 DEF IInv, TypeOK
<1>3. PICK s \in Slots, a \in Address : s = Head(todo).slot /\ a = Head(todo).device
    BY <1>1, <1>2, WorkItemFields
<1>4. Len(todo) = 1 /\ manager[s].address = a
    BY <1>1, <1>2, <1>3 DEF IInv, RequestInv
<1>5. todo' = <<>> /\ DOMAIN todo = {1}
    BY <1>1, <1>2, <1>4
<1>6. Requested(s) /\ \A t \in Slots : t # s => ~Requested(t)
    BY <1>1, <1>2, <1>3, <1>5 DEF Requested, Requests
<1>7. \A t \in Slots : ~Requested(t)'
    BY <1>5, NoRequestNext
<1>8. slotQ' = [slotQ EXCEPT ![s] = Append(@, SlotConnect(a))]
    BY <1>3 DEF SendsConnect, send_slot_cmd
<1>9. SlotConnect(a) \in SlotCommand /\ SlotConnect(a).kind = "Connect"
      /\ SlotConnect(a).device = a
    BY <1>3 DEF SlotCommand, SlotConnect
<1>10. Queued(s)' /\ \A t \in Slots : t # s => slotQ'[t] = slotQ[t]
    BY <1>3, <1>8, <1>9, SlotQueuePush DEF IInv
<1>11. ASSUME NEW t \in Slots, t # s PROVE SlotInv(t)' /\ QueueInv(t)'
    BY <1>1, <1>6, <1>7, <1>10, <1>11, SlotFrame, SlotQueueUnchanged,
       EventQueueUnchanged, QueueFrame DEF IInv
<1>12. SlotInv(s)'
    <2>1. /\ SlotInv(s) /\ Requested(s) /\ ~Requested(s)' /\ Queued(s)'
          /\ Announced(s)' <=> Announced(s)
          /\ Ended(s)' <=> Ended(s)
        BY <1>1, <1>3, <1>6, <1>7, <1>10, EventQueueUnchanged DEF IInv
    <2> QED
        BY <1>1, <2>1 DEF SlotInv, WorkerShape, Busy, Linked, At, is_occupied
<1>13. QueueInv(s)'
    <2>1. ~Queued(s)
        BY <1>3, <1>6 DEF IInv, SlotInv
    <2> QED
        BY <1>1, <1>3, <1>4, <1>8, <1>9, <2>1, QueuePush DEF IInv
<1>14. RequestInv' /\ BootInv' /\ DistinctAddresses' /\ EventInv'
    <2>1. BootInv'
        BY <1>5, NoBootWork
    <2>2. RequestInv' /\ DistinctAddresses'
        BY <1>1, <1>5 DEF IInv, RequestInv, DistinctAddresses
    <2> QED
        BY <1>1, <2>1, <2>2, EventFrame DEF IInv
<1> QED
    BY <1>11, <1>12, <1>13, <1>14 DEF IInv

\* The boot loop reserves a slot nobody owns for an address nobody holds.
LEMMA BootReservesAndConnectsKeeps ==
    ASSUME IInv, TypeOK', BootReservesAndConnects PROVE IInv'
<1>1. /\ todo # <<>> /\ Head(todo).kind = "ReserveAndConnect"
      /\ todo' = Tail(todo) /\ UNCHANGED <<slotEvQ, worker>>
    BY DEF BootReservesAndConnects, Upcoming
<1>2. /\ todo \in Seq(WorkItem) /\ Head(todo) \in WorkItem
      /\ DOMAIN todo = 1 .. Len(todo) /\ Len(todo) \in Nat \ {0}
      /\ DOMAIN todo' = 1 .. Len(todo) - 1
      /\ \A i \in 1 .. Len(todo) - 1 : todo'[i] = todo[i + 1]
      /\ 1 \in DOMAIN todo /\ todo[1] = Head(todo)
    BY <1>1 DEF IInv, TypeOK
<1>3. PICK s \in Slots, a \in Address : s = Head(todo).slot /\ a = Head(todo).device
    BY <1>1, <1>2, WorkItemFields
<1>4. /\ manager' = reserve_slot(manager, s, a)
      /\ slotQ' = [slotQ EXCEPT ![s] = Append(@, SlotConnect(a))]
    BY <1>3 DEF BootReservesAndConnects, send_slot_cmd
<1>5. /\ manager'[s] = [address |-> a, phase |-> "connecting"]
      /\ \A t \in Slots : t # s => manager'[t] = manager[t]
    BY <1>4 DEF IInv, TypeOK, reserve_slot
<1>6. SlotConnect(a) \in SlotCommand /\ SlotConnect(a).kind = "Connect"
      /\ SlotConnect(a).device = a
    BY <1>3 DEF SlotCommand, SlotConnect
<1>7. manager[s] = EmptySlot /\ \A t \in Slots : manager[t].address # a
    BY <1>1, <1>2, <1>3 DEF IInv, BootInv
<1>8. ~Queued(s) /\ ~Busy(s) /\ ~Announced(s) /\ ~Ended(s)
    BY <1>7 DEF IInv, SlotInv, EmptySlot, is_occupied
<1>9. \A t \in Slots : ~Requested(t) /\ ~Requested(t)'
    BY <1>1, NoRequest, NoRequestNext, TailRequestsNothing
<1>10. Queued(s)' /\ \A t \in Slots : t # s => slotQ'[t] = slotQ[t]
    BY <1>3, <1>4, <1>6, SlotQueuePush DEF IInv
<1>11. ASSUME NEW t \in Slots, t # s PROVE SlotInv(t)' /\ QueueInv(t)'
    BY <1>1, <1>5, <1>9, <1>10, <1>11, SlotFrame, SlotQueueUnchanged,
       EventQueueUnchanged, QueueFrame DEF IInv
<1>12. SlotInv(s)'
    <2>1. /\ SlotInv(s) /\ ~Requested(s)' /\ Queued(s)' /\ ~Busy(s)'
          /\ ~Announced(s)' /\ ~Ended(s)'
        BY <1>1, <1>8, <1>9, <1>10, EventQueueUnchanged DEF IInv, Busy, At
    <2>2. WorkerShape(s)'
        BY <1>1, <1>8, <2>1 DEF SlotInv, WorkerShape, Busy, At
    <2> QED
        BY <1>5, <2>1, <2>2, NoAddressAssumption DEF SlotInv
<1>13. QueueInv(s)'
    <2>1. SlotConnect(a).device = manager'[s].address
        BY <1>5, <1>6
    <2> QED
        BY <1>3, <1>4, <1>6, <1>8, <2>1, QueuePush DEF IInv
<1>14. EventInv'
    BY <1>1, <1>5, <1>8, EventFrame DEF IInv
<1>15. DistinctAddresses'
    BY <1>3, <1>5, <1>7 DEF IInv, DistinctAddresses
<1>16. RequestInv'
    BY <1>1, TailRequestsNothing DEF RequestInv
<1>17. BootInv'
    <2>1. ASSUME NEW i \in DOMAIN todo' PROVE ~IsBootWork(todo'[i])
        BY <1>1, <1>2 DEF IInv, BootInv, IsBootWork
    <2>2. ASSUME NEW i \in DOMAIN todo', todo'[i].kind = "ReserveAndConnect"
          PROVE  /\ manager'[todo'[i].slot] = EmptySlot
                 /\ \A t \in Slots : manager'[t].address # todo'[i].device
                 /\ \A j \in DOMAIN todo' :
                       /\ todo'[j].kind \notin {"Boot", "Scan"}
                       /\ todo'[j].kind = "ReserveAndConnect" /\ i # j =>
                             todo'[i].slot # todo'[j].slot /\ todo'[i].device # todo'[j].device
        <3>1. /\ i + 1 \in DOMAIN todo /\ todo'[i] = todo[i + 1] /\ i + 1 # 1
              /\ \A j \in DOMAIN todo' : /\ j + 1 \in DOMAIN todo /\ todo'[j] = todo[j + 1]
                                         /\ i # j => i + 1 # j + 1
            BY <1>2
        <3>2. todo'[i] \in WorkItem
            BY <2>2 DEF TypeOK
        <3>3. /\ todo'[i].slot # s /\ todo'[i].device # a
              /\ manager[todo'[i].slot] = EmptySlot
              /\ \A t \in Slots : manager[t].address # todo'[i].device
            BY <1>1, <1>2, <1>3, <2>2, <3>1 DEF IInv, BootInv
        <3>4. ASSUME NEW j \in DOMAIN todo'
              PROVE  /\ todo'[j].kind \notin {"Boot", "Scan"}
                     /\ todo'[j].kind = "ReserveAndConnect" /\ i # j =>
                           todo'[i].slot # todo'[j].slot /\ todo'[i].device # todo'[j].device
            BY <2>2, <3>1 DEF IInv, BootInv
        <3> QED
            BY <1>5, <2>2, <3>2, <3>3, <3>4, WorkItemFields
    <2> QED
        BY <2>1, <2>2 DEF BootInv, IsBootWork
<1> QED
    BY <1>11, <1>12, <1>13, <1>14, <1>15, <1>16, <1>17 DEF IInv

----------------------------------------------------------------------------
(* The coordinator handles a command.                                      *)

\* The decisions that leave the table alone request no connection.
IdleDecision(d, m) ==
    /\ d.manager = m
    /\ \A i \in DOMAIN d.actions : d.actions[i].kind \in {"Emit", "DisconnectSlots"}

LEMMA PlanDisconnectIdle ==
    ASSUME NEW m
    PROVE  IdleDecision(plan_disconnect(m), m) /\ IdleDecision(plan_start_scan(m), m)
BY DEF IdleDecision, plan_disconnect, plan_start_scan, Decision, DisconnectAll,
       DisconnectSlots

\* plan_connect reserves a free slot for an address that is not in use.
ConnectDecision(d, m) ==
    \E s \in Slots, a \in Address :
        /\ ~is_occupied(m[s])
        /\ ~is_connected_address(m, a)
        /\ d.manager = reserve_slot(m, s, a)
        /\ d.actions = <<ConnectSlot(s, a)>>

LEMMA PlanConnectDecides ==
    ASSUME NEW m, NEW devices \in Seq(Address), NEW index \in Nat
    PROVE  \/ IdleDecision(plan_connect(m, devices, index), m)
           \/ ConnectDecision(plan_connect(m, devices, index), m)
<1>1. CASE index + 1 \notin DOMAIN devices
    BY <1>1 DEF plan_connect, Decision, IdleDecision, Emit
<1>2. CASE index + 1 \in DOMAIN devices
    <2> DEFINE a == devices[index + 1]
    <2>1. a \in Address
        BY <1>2
    <2>2. CASE is_connected_address(m, a)
        BY <1>2, <2>2 DEF plan_connect, Decision, IdleDecision
    <2>3. CASE ~is_connected_address(m, a) /\ find_empty_slot(m) = {}
        BY <1>2, <2>3 DEF plan_connect, Decision, IdleDecision, Emit
    <2>4. CASE ~is_connected_address(m, a) /\ find_empty_slot(m) # {}
        <3> DEFINE s == CHOOSE s \in find_empty_slot(m) : TRUE
        <3>1. s \in Slots /\ ~is_occupied(m[s])
            BY <2>4, FoundSlot
        <3>2. plan_connect(m, devices, index)
                = Decision(reserve_slot(m, s, a), <<ConnectSlot(s, a)>>)
            BY <1>2, <2>4 DEF plan_connect
        <3> HIDE DEF s, a
        <3>3. /\ plan_connect(m, devices, index).manager = reserve_slot(m, s, a)
              /\ plan_connect(m, devices, index).actions = <<ConnectSlot(s, a)>>
            BY <3>2 DEF Decision
        <3> QED
            BY <2>1, <2>4, <3>1, <3>3 DEF ConnectDecision
    <2> QED
        BY <2>2, <2>3, <2>4
<1> QED
    BY <1>1, <1>2

\* A slot is reserved by the coordinator's own handler: nobody owns it, and
\* the handler does.
LEMMA ConnectDecisionKeeps ==
    ASSUME IInv, TypeOK', todo = <<>>, UNCHANGED <<slotQ, slotEvQ, worker>>,
           NEW d, ConnectDecision(d, manager), manager' = d.manager, todo' = d.actions
    PROVE  IInv'
<1>1. PICK s \in Slots, a \in Address :
         /\ ~is_occupied(manager[s])
         /\ ~is_connected_address(manager, a)
         /\ manager' = reserve_slot(manager, s, a)
         /\ todo' = <<ConnectSlot(s, a)>>
    BY DEF ConnectDecision
<1>2. /\ manager'[s] = [address |-> a, phase |-> "connecting"]
      /\ \A t \in Slots : t # s => manager'[t] = manager[t]
    BY <1>1 DEF IInv, TypeOK, reserve_slot
<1>3. \A t \in Slots : ~Requested(t)
    BY NoRequest
<1>4. Requested(s)' /\ \A t \in Slots : t # s => ~Requested(t)'
    BY <1>1 DEF Requested, Requests, ConnectSlot
<1>5. \A t \in Slots : (Queued(t)' <=> Queued(t)) /\ (Announced(t)' <=> Announced(t))
                          /\ (Ended(t)' <=> Ended(t))
    BY SlotQueueUnchanged, EventQueueUnchanged
<1>6. manager[s].phase = "empty"
    BY <1>1 DEF IInv, TypeOK, Slot, SlotPhase, is_occupied
<1>7. ~Queued(s) /\ ~Busy(s) /\ ~Announced(s) /\ ~Ended(s)
    BY <1>6 DEF IInv, SlotInv, is_occupied
<1>8. ASSUME NEW t \in Slots, t # s PROVE SlotInv(t)' /\ QueueInv(t)'
    BY <1>2, <1>3, <1>4, <1>5, <1>8, SlotFrame, QueueFrame DEF IInv
<1>9. SlotInv(s)'
    <2>1. WorkerShape(s)' /\ ~Busy(s)'
        BY <1>7 DEF IInv, SlotInv, WorkerShape, Busy, At
    <2> QED
        BY <1>2, <1>4, <1>5, <1>7, <2>1, NoAddressAssumption DEF SlotInv
<1>10. QueueInv(s)'
    BY <1>5, <1>7, QueueEmpty
<1>11. RequestInv'
    BY <1>1, <1>2 DEF RequestInv, ConnectSlot
<1>12. EventInv'
    BY <1>2, <1>7, EventFrame DEF IInv
<1>13. BootInv'
    BY <1>1, NoBootWork DEF ConnectSlot, IsBootWork
<1>14. DistinctAddresses'
    <2>1. ASSUME NEW t \in Slots, t # s PROVE manager[t].address # a
        <3>1. CASE is_occupied(manager[t])
            BY <1>1, <3>1 DEF is_connected_address
        <3>2. CASE ~is_occupied(manager[t])
            BY <3>2, NoAddressAssumption DEF IInv, TypeOK, SlotInv, Slot, SlotPhase, is_occupied
        <3> QED
            BY <3>1, <3>2
    <2> QED
        BY <1>2, <2>1 DEF IInv, DistinctAddresses
<1> QED
    BY <1>8, <1>9, <1>10, <1>11, <1>12, <1>13, <1>14 DEF IInv

LEMMA ReceivesCommandKeeps == ASSUME IInv, TypeOK', ReceivesCommand PROVE IInv'
<1> DEFINE cmd == Head(cmdQ)
<1>1. todo = <<>> /\ cmdQ # <<>> /\ UNCHANGED <<slotQ, slotEvQ, worker>>
    BY DEF ReceivesCommand
<1>2. cmd \in BleCommand
    BY <1>1 DEF IInv, TypeOK
<1>3. cmd.kind \in {"StartScan", "Connect", "Disconnect"}
      /\ (cmd.kind = "Connect" => cmd.index \in Nat)
    BY <1>2, BleCommandFields
<1>4. ASSUME NEW d, IdleDecision(d, manager), NEW rest,
             Decide(d, rest), rest \in {<<>>, <<Emit(ScanStarted), Scan(<<>>)>>},
             d.actions \in Seq(WorkItem)
      PROVE  IInv'
    <2>1. ASSUME NEW i \in DOMAIN todo'
          PROVE  /\ todo'[i].kind \in {"Emit", "DisconnectSlots", "Scan"}
                 /\ todo'[i].kind = "Scan" => todo'[i].peers = <<>>
        <3>1. /\ todo' = d.actions \o rest
              /\ \A j \in DOMAIN d.actions : d.actions[j].kind \in {"Emit", "DisconnectSlots"}
            BY <1>4 DEF Decide, IdleDecision
        <3>2. \/ i \in DOMAIN d.actions /\ todo'[i] = d.actions[i]
              \/ i - Len(d.actions) \in DOMAIN rest /\ todo'[i] = rest[i - Len(d.actions)]
            BY <1>4, <3>1
        <3>3. \A j \in DOMAIN rest : /\ rest[j].kind \in {"Emit", "Scan"}
                                     /\ rest[j].kind = "Scan" => rest[j].peers = <<>>
            BY <1>4 DEF Emit, Scan
        <3> QED
            BY <3>1, <3>2, <3>3
    <2>2. BootInv'
        BY <2>1, NoBootWork DEF IsBootWork
    <2>3. UNCHANGED manager
        BY <1>4 DEF Decide, IdleDecision
    <2> QED
        BY <1>1, <2>1, <2>2, <2>3, HandlerKeeps
<1>5. CASE cmd.kind = "StartScan"
    <2>1. Decide(plan_start_scan(manager), <<Emit(ScanStarted), Scan(<<>>)>>)
        BY <1>5 DEF ReceivesCommand
    <2>2. plan_start_scan(manager).actions \in Seq(WorkItem)
        BY IInvTyped, PlanDisconnectType DEF Decided, TypeInv
    <2> QED
        BY <1>4, <2>1, <2>2, PlanDisconnectIdle
<1>6. CASE cmd.kind = "Disconnect"
    <2>1. Decide(plan_disconnect(manager), <<>>)
        BY <1>6 DEF ReceivesCommand
    <2>2. plan_disconnect(manager).actions \in Seq(WorkItem)
        BY IInvTyped, PlanDisconnectType DEF Decided, TypeInv
    <2> QED
        BY <1>4, <2>1, <2>2, PlanDisconnectIdle
<1>7. CASE cmd.kind = "Connect"
    <2> DEFINE d == plan_connect(manager, last_scan, cmd.index)
    <2>1. Decide(d, <<>>)
        BY <1>7 DEF ReceivesCommand
    <2>2. last_scan \in Seq(Address) /\ cmd.index \in Nat
        BY <1>3, <1>7 DEF IInv, TypeOK
    <2>3. Decided(d)
        BY <2>2, IInvTyped, PlanConnectType DEF TypeInv
    <2>4. d.actions \in Seq(WorkItem)
        BY <2>3 DEF Decided
    <2>5. IdleDecision(d, manager) \/ ConnectDecision(d, manager)
        BY <2>2, PlanConnectDecides
    <2> HIDE DEF d
    <2>6. CASE IdleDecision(d, manager)
        BY <1>4, <2>1, <2>4, <2>6
    <2>7. CASE ConnectDecision(d, manager)
        <3>1. manager' = d.manager /\ todo' = d.actions
            BY <2>1, <2>4 DEF Decide
        <3> QED
            BY <1>1, <2>7, <3>1, ConnectDecisionKeeps
    <2> QED
        BY <2>5, <2>6, <2>7
<1> QED
    BY <1>3, <1>5, <1>6, <1>7

----------------------------------------------------------------------------
(* The coordinator handles a slot event.                                   *)

\* What every slot event has in common.  That the slot of the event keeps
\* its invariant depends on the kind.
LEMMA SlotEventKeeps ==
    ASSUME IInv, TypeOK', todo = <<>>, slotEvQ # <<>>, slotEvQ' = Tail(slotEvQ),
           UNCHANGED <<slotQ, worker>>,
           NEW s \in Slots, s = Head(slotEvQ).slot,
           \A t \in Slots : t # s => manager'[t] = manager[t],
           \A i \in DOMAIN todo' : todo'[i].kind \in {"Emit", "PersistDevice"},
           manager'[s].address = manager[s].address
              \/ (~Queued(s) /\ ~Announced(s)' /\ manager'[s] = EmptySlot),
           SlotInv(s)'
    PROVE  IInv'
<1>1. \A t \in Slots : ~Requested(t) /\ ~Requested(t)'
    BY NoRequest, NoRequestNext
<1>2. \A t \in Slots : Queued(t)' <=> Queued(t)
    BY SlotQueueUnchanged
<1>3. \A t \in Slots : t # s => (Announced(t)' <=> Announced(t)) /\ (Ended(t)' <=> Ended(t))
    BY EventPop
<1>4. ASSUME NEW t \in Slots, t # s PROVE SlotInv(t)' /\ QueueInv(t)'
    BY <1>1, <1>2, <1>3, <1>4, SlotFrame, QueueFrame DEF IInv
<1>5. QueueInv(s)'
    BY <1>2, QueueFrame, QueueEmpty DEF IInv
<1>6. EventInv'
    BY EventPopFrame DEF IInv
<1>7. RequestInv' /\ BootInv'
    BY NoBootWork DEF RequestInv, IsBootWork
<1>8. DistinctAddresses'
    <2>1. CASE manager'[s].address = manager[s].address
        <3>1. \A t \in Slots : manager'[t].address = manager[t].address
            BY <2>1
        <3>2. \A t \in Slots : is_occupied(manager'[t]) => is_occupied(manager[t])
            <4>1. is_occupied(manager'[s]) => is_occupied(manager[s])
                BY <1>1, <2>1 DEF IInv, SlotInv, is_occupied, TypeOK, Slot, SlotPhase
            <4> QED
                BY <4>1
        <3> QED
            BY <3>1, <3>2 DEF IInv, DistinctAddresses
    <2>2. CASE manager'[s] = EmptySlot
        <3>1. ASSUME NEW t \in Slots, t # s, is_occupied(manager'[t])
              PROVE  manager'[t].address # NoAddress
            BY <3>1 DEF IInv, SlotInv, is_occupied
        <3> QED
            BY <2>2, <3>1 DEF IInv, DistinctAddresses, EmptySlot, is_occupied
    <2> QED
        BY <2>1, <2>2
<1> QED
    BY <1>4, <1>5, <1>6, <1>7, <1>8 DEF IInv

LEMMA ReceivesSlotEventKeeps == ASSUME IInv, TypeOK', ReceivesSlotEvent PROVE IInv'
<1> DEFINE e == Head(slotEvQ)
<1>1. /\ todo = <<>> /\ slotEvQ # <<>> /\ slotEvQ' = Tail(slotEvQ)
      /\ UNCHANGED <<slotQ, worker>>
    BY DEF ReceivesSlotEvent
<1>2. e \in SlotEvent /\ 1 \in DOMAIN slotEvQ /\ e = slotEvQ[1]
    BY <1>1 DEF IInv, TypeOK
<1>3. PICK s \in Slots : s = e.slot
    BY <1>2, SlotEventFields
<1>4. e.kind \in {"Connected", "Disconnected", "Error"}
    BY <1>2, SlotEventFields
<1>5. ~Requested(s) /\ (Queued(s)' <=> Queued(s)) /\ SlotInv(s)
    BY <1>1, NoRequest, SlotQueueUnchanged DEF IInv
<1>6. WorkerShape(s) /\ worker'[s] = worker[s]
    BY <1>1, <1>5 DEF SlotInv
<1>7. CASE e.kind = "Connected"
    <2> DEFINE d == on_slot_connected(manager, e.slot, e.device)
    <2>1. manager' = d.manager /\ todo' = d.actions \o <<>>
        BY <1>7 DEF ReceivesSlotEvent, Decide
    <2>2. manager[s].address = e.device
        BY <1>2, <1>3, <1>7 DEF IInv, EventInv
    <2>3. /\ manager' = connect_slot(manager, s, e.device)
          /\ \A i \in DOMAIN todo' : todo'[i].kind \in {"Emit", "PersistDevice"}
        BY <1>3, <2>1 DEF on_slot_connected, Decision, PersistDevice, Emit
    <2>4. /\ manager'[s] = [address |-> e.device, phase |-> "connected"]
          /\ \A t \in Slots : t # s => manager'[t] = manager[t]
        BY <2>3 DEF IInv, TypeOK, connect_slot
    <2>5. Announced(s) /\ ~Announced(s)' /\ (Ended(s)' <=> Ended(s))
        BY <1>1, <1>3, <1>7, EventPop
    <2>6. manager[s].phase = "connecting" /\ (Ended(s) \/ Linked(s)) /\ ~Queued(s)
        BY <1>5, <2>5 DEF SlotInv
    <2>7. ~Requested(s)'
        BY <2>3, NoRequestNext
    <2>8. e.device # NoAddress
        BY <1>5, <2>2, <2>6 DEF SlotInv
    <2>9. WorkerShape(s)' /\ (Busy(s)' <=> Busy(s)) /\ (Linked(s)' <=> Linked(s))
        BY <1>6, <2>2, <2>4 DEF WorkerShape, Busy, Linked, At
    <2>10. Linked(s) => Busy(s)
        BY DEF Linked, Busy, At
    <2>11. Busy(s) => ~Ended(s)
        BY <1>5 DEF SlotInv
    <2>12. SlotInv(s)'
        BY <1>5, <2>4, <2>5, <2>6, <2>7, <2>8, <2>9, <2>10, <2>11 DEF SlotInv, is_occupied
    <2> QED
        BY <1>1, <1>3, <2>2, <2>3, <2>4, <2>12, SlotEventKeeps
<1>8. CASE e.kind # "Connected"
    <2>1. PICK d \in {on_slot_disconnected(manager, e.slot), on_slot_error(manager, e.slot, e.tag)} :
             Decide(d, <<>>)
        BY <1>4, <1>8 DEF ReceivesSlotEvent
    <2>2. manager' = d.manager /\ todo' = d.actions \o <<>>
        BY <2>1 DEF Decide
    <2>3. /\ manager' = disconnect_slot(manager, s)
          /\ \A i \in DOMAIN todo' : todo'[i].kind \in {"Emit", "PersistDevice"}
        BY <1>3, <2>1, <2>2 DEF on_slot_disconnected, on_slot_error, Decision, Emit
    <2>4. /\ manager'[s] = EmptySlot
          /\ \A t \in Slots : t # s => manager'[t] = manager[t]
        BY <2>3 DEF IInv, TypeOK, disconnect_slot
    <2>5. Ended(s) /\ ~Announced(s)' /\ ~Ended(s)'
        BY <1>1, <1>3, <1>8, EventPop
    <2>6. ~Queued(s) /\ ~Busy(s)
        BY <1>5, <2>5 DEF SlotInv
    <2>7. ~Requested(s)'
        BY <2>3, NoRequestNext
    <2>8. WorkerShape(s)' /\ ~Busy(s)'
        BY <1>6, <2>6 DEF WorkerShape, Busy, At
    <2>9. SlotInv(s)'
        BY <1>5, <2>4, <2>5, <2>6, <2>7, <2>8 DEF SlotInv, EmptySlot, is_occupied
    <2> QED
        BY <1>1, <1>3, <2>3, <2>4, <2>5, <2>6, <2>9, SlotEventKeeps
<1> QED
    BY <1>7, <1>8

LEMMA CoordinatorKeeps == ASSUME IInv, TypeOK', CoordinatorStep PROVE IInv'
BY BootLoadsPeersKeeps, ScanFindsKeeps, ScanFailsKeeps, BootReservesAndConnectsKeeps,
   SendsConnectKeeps, SendsDisconnectKeeps, PersistsKeeps, EmitsKeeps,
   ReceivesCommandKeeps, ReceivesSlotEventKeeps DEF CoordinatorStep

----------------------------------------------------------------------------
(* The workers.                                                            *)

\* A worker's step that keeps the invariants of its own slot and of the
\* event channel keeps all of them.
LEMMA WorkerKeeps ==
    ASSUME IInv, TypeOK', NEW s \in Slots, UNCHANGED coVars,
           \A t \in Slots : t # s =>
               /\ worker'[t] = worker[t] /\ slotQ'[t] = slotQ[t]
               /\ Announced(t)' <=> Announced(t)
               /\ Ended(t)' <=> Ended(t),
           SlotInv(s)', QueueInv(s)', EventInv'
    PROVE  IInv'
<1>1. ASSUME NEW t \in Slots, t # s PROVE SlotInv(t)' /\ QueueInv(t)'
    BY <1>1, SlotFrame, QueueFrame, TodoUnchanged, SlotQueueUnchanged DEF IInv, coVars
<1>2. RequestInv' /\ BootInv' /\ DistinctAddresses'
    BY DEF IInv, RequestInv, BootInv, IsBootWork, DistinctAddresses, coVars
<1> QED
    BY <1>1, <1>2 DEF IInv

LEMMA WorkerNext ==
    ASSUME IInv, NEW s \in Slots, NEW w, Becomes(s, w)
    PROVE  /\ worker'[s] = w
           /\ \A t \in Slots : t # s => worker'[t] = worker[t]
           /\ UNCHANGED <<manager, todo>>
BY DEF Becomes, coVars, IInv, TypeOK

\* A worker moves on, no message is sent or taken.
LEMMA MoveKeeps ==
    ASSUME IInv, TypeOK', NEW s \in Slots, Busy(s),
           NEW w \in Worker, Becomes(s, w), UNCHANGED <<slotQ, slotEvQ>>,
           w.pc # "idle", w.device = worker[s].device, w.pending = NoAddress,
           w.outcome = "none" <=> w.pc # "reporting",
           Linked(s) <=> w.pc = "running" \/ (w.pc = "reporting" /\ w.outcome = "Disconnected")
    PROVE  IInv'
<1>1. /\ worker'[s] = w
      /\ \A t \in Slots : t # s => worker'[t] = worker[t]
      /\ UNCHANGED <<manager, todo>>
    BY WorkerNext
<1>2. \A t \in Slots : /\ Requested(t)' <=> Requested(t)
                       /\ Queued(t)' <=> Queued(t)
                       /\ Announced(t)' <=> Announced(t)
                       /\ Ended(t)' <=> Ended(t)
    BY <1>1, TodoUnchanged, SlotQueueUnchanged, EventQueueUnchanged
<1>3. WorkerShape(s)' /\ Busy(s)' /\ (Linked(s)' <=> Linked(s))
    BY <1>1 DEF IInv, SlotInv, WorkerShape, Busy, Linked, At
<1>4. SlotInv(s)'
    BY <1>1, <1>2, <1>3 DEF IInv, SlotInv
<1>5. QueueInv(s)' /\ EventInv'
    BY <1>1, QueueFrame, EventFrame DEF IInv
<1> QED
    BY <1>1, <1>2, <1>4, <1>5, WorkerKeeps DEF Becomes

LEMMA ConnectReturnsKeeps ==
    ASSUME IInv, TypeOK', NEW s \in Slots, ConnectReturns(s) PROVE IInv'
<1>1. worker[s] \in Worker /\ worker[s].pc = "connecting" /\ WorkerShape(s)
    BY DEF IInv, TypeOK, SlotInv, ConnectReturns, At
<1>2. Busy(s) /\ ~Linked(s)
    BY <1>1 DEF Busy, Linked, At
<1>3. CASE MovesTo(s, "securing")
    <2> DEFINE w == [worker[s] EXCEPT !.pc = "securing"]
    <2>1. /\ w \in Worker /\ w.pc = "securing" /\ w.device = worker[s].device
          /\ w.outcome = "none" /\ w.pending = NoAddress
        BY <1>1 DEF Worker, WorkerPc, WorkerShape, At
    <2>2. Becomes(s, w) /\ UNCHANGED <<slotQ, slotEvQ>>
        BY <1>3 DEF MovesTo
    <2> HIDE DEF w
    <2> QED
        BY <1>2, <2>1, <2>2, MoveKeeps
<1>4. CASE EndsWith(s, "ConnectFailed")
    <2> DEFINE w == [worker[s] EXCEPT !.pc = "reporting", !.outcome = "ConnectFailed"]
    <2>1. /\ w \in Worker /\ w.pc = "reporting" /\ w.device = worker[s].device
          /\ w.outcome = "ConnectFailed" /\ w.pending = NoAddress
        BY <1>1 DEF Worker, WorkerPc, WorkerShape, At, ErrorTag
    <2>2. Becomes(s, w) /\ UNCHANGED <<slotQ, slotEvQ>>
        BY <1>4 DEF EndsWith
    <2> HIDE DEF w
    <2> QED
        BY <1>2, <2>1, <2>2, MoveKeeps
<1> QED
    BY <1>3, <1>4 DEF ConnectReturns

LEMMA SecuringEndsKeeps ==
    ASSUME IInv, TypeOK', NEW s \in Slots, SecuringEnds(s) PROVE IInv'
<1>1. worker[s] \in Worker /\ worker[s].pc = "securing" /\ WorkerShape(s)
    BY DEF IInv, TypeOK, SlotInv, SecuringEnds, At
<1>2. Busy(s) /\ ~Linked(s)
    BY <1>1 DEF Busy, Linked, At
<1>3. CASE MovesTo(s, "announcing")
    <2> DEFINE w == [worker[s] EXCEPT !.pc = "announcing"]
    <2>1. /\ w \in Worker /\ w.pc = "announcing" /\ w.device = worker[s].device
          /\ w.outcome = "none" /\ w.pending = NoAddress
        BY <1>1 DEF Worker, WorkerPc, WorkerShape, At
    <2>2. Becomes(s, w) /\ UNCHANGED <<slotQ, slotEvQ>>
        BY <1>3 DEF MovesTo
    <2> HIDE DEF w
    <2> QED
        BY <1>2, <2>1, <2>2, MoveKeeps
<1>4. ASSUME NEW tag \in SlotErrorTag, EndsWith(s, tag) PROVE IInv'
    <2> DEFINE w == [worker[s] EXCEPT !.pc = "reporting", !.outcome = tag]
    <2>1. tag \in ErrorTag /\ tag # "none" /\ tag # "Disconnected"
        BY SlotErrorAssumption DEF ErrorTag
    <2>2. /\ w \in Worker /\ w.pc = "reporting" /\ w.device = worker[s].device
          /\ w.outcome = tag /\ w.pending = NoAddress
        BY <1>1, <2>1 DEF Worker, WorkerPc, WorkerShape
    <2>3. Becomes(s, w) /\ UNCHANGED <<slotQ, slotEvQ>>
        BY <1>4 DEF EndsWith
    <2> HIDE DEF w
    <2> QED
        BY <1>2, <2>1, <2>2, <2>3, MoveKeeps
<1> QED
    BY <1>3, <1>4 DEF SecuringEnds

LEMMA LinkClosesKeeps ==
    ASSUME IInv, TypeOK', NEW s \in Slots, LinkCloses(s) PROVE IInv'
<1>1. worker[s] \in Worker /\ worker[s].pc = "running" /\ WorkerShape(s)
    BY DEF IInv, TypeOK, SlotInv, LinkCloses, At
<1>2. Busy(s) /\ Linked(s)
    BY <1>1 DEF Busy, Linked, At
<1> DEFINE w == [worker[s] EXCEPT !.pc = "reporting", !.outcome = "Disconnected"]
<1>3. /\ w \in Worker /\ w.pc = "reporting" /\ w.device = worker[s].device
      /\ w.outcome = "Disconnected" /\ w.pending = NoAddress
    BY <1>1 DEF Worker, WorkerPc, WorkerShape
<1>4. Becomes(s, w) /\ UNCHANGED <<slotQ, slotEvQ>>
    BY DEF LinkCloses, EndsWith
<1> HIDE DEF w
<1> QED
    BY <1>2, <1>3, <1>4, MoveKeeps

\* QueueInv of the slot a command is taken from.
LEMMA QueuePop ==
    ASSUME TypeOK, NEW s \in Slots, QueueInv(s), slotQ[s] # <<>>,
           slotQ' = [slotQ EXCEPT ![s] = Tail(@)],
           manager'[s].address = manager[s].address
    PROVE  QueueInv(s)'
<1> DEFINE q == slotQ[s]
<1>1. q \in Seq(SlotCommand) /\ q # <<>> /\ slotQ'[s] = Tail(q)
    BY DEF TypeOK
<1>2. /\ \A i \in DOMAIN q : q[i].kind = "Connect" =>
             /\ q[i].device = manager[s].address
             /\ \A j \in DOMAIN q : q[j].kind = "Connect" => i = j
    BY DEF QueueInv, QueuedConnects
<1> HIDE DEF q
<1>3. /\ DOMAIN q = 1 .. Len(q) /\ Len(q) \in Nat \ {0}
      /\ DOMAIN Tail(q) = 1 .. Len(q) - 1
      /\ \A i \in 1 .. Len(q) - 1 : Tail(q)[i] = q[i + 1]
    BY <1>1
<1>4. ASSUME NEW i \in DOMAIN Tail(q), Tail(q)[i].kind = "Connect"
      PROVE  /\ Tail(q)[i].device = manager[s].address
             /\ \A j \in DOMAIN Tail(q) : Tail(q)[j].kind = "Connect" => i = j
    <2>1. i + 1 \in DOMAIN q /\ Tail(q)[i] = q[i + 1]
        BY <1>3
    <2>2. ASSUME NEW j \in DOMAIN Tail(q), Tail(q)[j].kind = "Connect" PROVE i = j
        <3>1. j + 1 \in DOMAIN q /\ Tail(q)[j] = q[j + 1]
            BY <1>3
        <3>2. i + 1 = j + 1
            BY <1>2, <1>4, <2>1, <2>2, <3>1
        <3> QED
            BY <1>3, <3>2
    <2> QED
        BY <1>2, <1>4, <2>1, <2>2
<1> QED
    BY <1>1, <1>4 DEF QueueInv, QueuedConnects

\* An idle worker takes the Connect of its slot, or drops a void Disconnect.
LEMMA TakesCommandKeeps ==
    ASSUME IInv, TypeOK', NEW s \in Slots, TakesCommand(s) PROVE IInv'
<1>1. /\ SlotInv(s) /\ QueueInv(s) /\ WorkerShape(s) /\ ~Busy(s)
      /\ worker[s] = IdleWorker /\ worker[s].pending = NoAddress
    BY DEF IInv, SlotInv, WorkerShape, TakesCommand, Busy
<1> DEFINE c == Head(slotQ[s])
           w == IF c.kind = "Connect"
                  THEN [IdleWorker EXCEPT !.pc = "connecting", !.device = c.device]
                  ELSE IdleWorker
<1>2. /\ slotQ[s] # <<>> /\ slotQ' = [slotQ EXCEPT ![s] = Tail(@)]
      /\ Becomes(s, w) /\ UNCHANGED slotEvQ
    BY <1>1 DEF TakesCommand
<1>3. /\ worker'[s] = w
      /\ \A t \in Slots : t # s => worker'[t] = worker[t]
      /\ UNCHANGED <<manager, todo, coVars>>
    <2> HIDE DEF w
    <2> QED
        BY <1>2, WorkerNext DEF Becomes
<1>4. \A t \in Slots : /\ Requested(t)' <=> Requested(t)
                       /\ Announced(t)' <=> Announced(t)
                       /\ Ended(t)' <=> Ended(t)
    BY <1>2, <1>3, TodoUnchanged, EventQueueUnchanged
<1>5. \A t \in Slots : t # s => slotQ'[t] = slotQ[t]
    BY <1>2, SlotQueuePop
<1>6. QueueInv(s)' /\ EventInv'
    BY <1>1, <1>2, <1>3, QueuePop, EventFrame DEF IInv
<1>7. CASE c.kind = "Connect"
    <2>1. Queued(s) /\ ~Queued(s)' /\ c.device = manager[s].address
        BY <1>2, <1>7, SlotQueuePop
    <2>2. /\ manager[s].phase = "connecting" /\ ~Requested(s)
          /\ ~Announced(s) /\ ~Ended(s) /\ manager[s].address # NoAddress
        BY <1>1, <2>1 DEF SlotInv
    <2>3. /\ worker'[s].pc = "connecting" /\ worker'[s].device = manager[s].address
          /\ worker'[s].outcome = "none" /\ worker'[s].pending = NoAddress
        BY <1>3, <1>7, <2>1 DEF IdleWorker
    <2>4. WorkerShape(s)' /\ Busy(s)' /\ ~Linked(s)'
        BY <1>3, <2>2, <2>3 DEF WorkerShape, Busy, Linked, At
    <2>5. SlotInv(s)'
        BY <1>3, <1>4, <2>1, <2>2, <2>4 DEF SlotInv, is_occupied
    <2> QED
        BY <1>3, <1>4, <1>5, <1>6, <2>5, WorkerKeeps
<1>8. CASE c.kind # "Connect"
    <2>1. Queued(s)' <=> Queued(s)
        BY <1>2, <1>8, SlotQueuePop
    <2>2. worker'[s] = worker[s]
        BY <1>1, <1>3, <1>8
    <2>3. SlotInv(s)'
        BY <1>1, <1>3, <1>4, <2>1, <2>2, SlotFrame
    <2> QED
        BY <1>3, <1>4, <1>5, <1>6, <2>3, WorkerKeeps
<1> QED
    BY <1>7, <1>8

\* A command that reaches a running worker is a Disconnect.
LEMMA IsSupersededKeeps ==
    ASSUME IInv, TypeOK', NEW s \in Slots, IsSuperseded(s) PROVE IInv'
<1>1. /\ SlotInv(s) /\ QueueInv(s) /\ WorkerShape(s) /\ worker[s] \in Worker
      /\ worker[s].pc = "running" /\ Busy(s) /\ Linked(s)
    BY DEF IInv, TypeOK, SlotInv, WorkerShape, IsSuperseded, Busy, Linked, At
<1> DEFINE c == Head(slotQ[s])
           w == [worker[s] EXCEPT
                   !.pc = "reporting", !.outcome = "Disconnected",
                   !.pending = IF c.kind = "Connect" THEN c.device ELSE NoAddress]
<1>2. /\ slotQ[s] # <<>> /\ slotQ' = [slotQ EXCEPT ![s] = Tail(@)]
      /\ Becomes(s, w) /\ UNCHANGED slotEvQ
    BY DEF IsSuperseded
<1>3. c.kind # "Connect"
    <2>1. ~Queued(s)
        BY <1>1 DEF SlotInv
    <2> QED
        BY <1>2, <2>1, SlotQueuePop
<1>4. /\ worker'[s] = w
      /\ \A t \in Slots : t # s => worker'[t] = worker[t]
      /\ UNCHANGED <<manager, todo, coVars>>
    <2> HIDE DEF w
    <2> QED
        BY <1>2, WorkerNext DEF Becomes
<1>5. \A t \in Slots : /\ Requested(t)' <=> Requested(t)
                       /\ Announced(t)' <=> Announced(t)
                       /\ Ended(t)' <=> Ended(t)
    BY <1>2, <1>4, TodoUnchanged, EventQueueUnchanged
<1>6. /\ Queued(s)' <=> Queued(s)
      /\ \A t \in Slots : t # s => slotQ'[t] = slotQ[t]
    BY <1>2, <1>3, SlotQueuePop
<1>7. QueueInv(s)' /\ EventInv'
    BY <1>1, <1>2, <1>4, QueuePop, EventFrame DEF IInv
<1>8. /\ worker'[s].pc = "reporting" /\ worker'[s].outcome = "Disconnected"
      /\ worker'[s].device = worker[s].device /\ worker'[s].pending = NoAddress
    BY <1>1, <1>3, <1>4 DEF Worker
<1>9. WorkerShape(s)' /\ Busy(s)' /\ Linked(s)'
    BY <1>1, <1>4, <1>8 DEF WorkerShape, Busy, Linked, At
<1>10. SlotInv(s)'
    BY <1>1, <1>4, <1>5, <1>6, <1>9 DEF SlotInv
<1> QED
    BY <1>4, <1>5, <1>6, <1>7, <1>10, WorkerKeeps

LEMMA AnnouncesKeeps ==
    ASSUME IInv, TypeOK', NEW s \in Slots, Announces(s) PROVE IInv'
<1>1. /\ SlotInv(s) /\ WorkerShape(s) /\ worker[s] \in Worker
      /\ worker[s].pc = "announcing" /\ Busy(s) /\ ~Linked(s)
    BY DEF IInv, TypeOK, SlotInv, WorkerShape, Announces, Busy, Linked, At
<1> DEFINE e == SlotConnected(s, worker[s].device)
           w == [worker[s] EXCEPT !.pc = "running"]
<1>2. /\ slotEvQ' = Append(slotEvQ, e) /\ Becomes(s, w) /\ UNCHANGED slotQ
    BY DEF Announces
<1>3. /\ worker[s].device \in Address /\ worker[s].device = manager[s].address
      /\ manager[s].phase = "connecting"
      /\ ~Ended(s) /\ ~Announced(s) /\ ~Queued(s) /\ ~Requested(s)
    BY <1>1 DEF SlotInv, WorkerShape, Worker
<1>4. /\ e \in SlotEvent /\ e.slot = s /\ e.kind = "Connected"
      /\ e.device = manager[s].address
    BY <1>3 DEF SlotEvent, SlotConnected
<1>5. /\ worker'[s] = w
      /\ \A t \in Slots : t # s => worker'[t] = worker[t]
      /\ UNCHANGED <<manager, todo, coVars>>
    <2> HIDE DEF w
    <2> QED
        BY <1>2, WorkerNext DEF Becomes
<1> HIDE DEF e
<1>6. \A t \in Slots : /\ Announced(t)' <=> Announced(t) \/ t = s
                       /\ Ended(t)' <=> Ended(t)
                       /\ Requested(t)' <=> Requested(t)
                       /\ Queued(t)' <=> Queued(t)
    BY <1>2, <1>4, <1>5, EventPush, TodoUnchanged, SlotQueueUnchanged DEF IInv
<1>7. EventInv'
    BY <1>2, <1>3, <1>4, <1>5, EventPushFrame DEF IInv
<1>8. QueueInv(s)'
    BY <1>2, <1>5, QueueFrame DEF IInv
<1>9. WorkerShape(s)' /\ Busy(s)' /\ Linked(s)'
    BY <1>1, <1>5 DEF Worker, WorkerShape, Busy, Linked, At
<1>10. SlotInv(s)'
    BY <1>1, <1>3, <1>5, <1>6, <1>9 DEF SlotInv, is_occupied
<1> QED
    BY <1>2, <1>5, <1>6, <1>7, <1>8, <1>10, WorkerKeeps

LEMMA ReportsKeeps ==
    ASSUME IInv, TypeOK', NEW s \in Slots, Reports(s) PROVE IInv'
<1>1. /\ SlotInv(s) /\ WorkerShape(s) /\ worker[s] \in Worker
      /\ worker[s].pc = "reporting" /\ Busy(s) /\ worker[s].pending = NoAddress
      /\ worker[s].outcome \in ErrorTag \cup {"Disconnected"}
    BY DEF IInv, TypeOK, SlotInv, WorkerShape, Reports, Busy, At, Worker
<1> DEFINE e == IF worker[s].outcome = "Disconnected" THEN SlotDisconnected(s)
                ELSE SlotError(s, worker[s].outcome)
           w == [IdleWorker EXCEPT !.pending = worker[s].pending]
<1>2. /\ slotEvQ' = Append(slotEvQ, e) /\ Becomes(s, w) /\ UNCHANGED slotQ
    BY DEF Reports
<1>3. w = IdleWorker
    BY <1>1 DEF IdleWorker
<1>4. e \in SlotEvent /\ e.slot = s /\ e.kind # "Connected"
    BY <1>1 DEF SlotEvent, SlotDisconnected, SlotError
<1>5. /\ worker'[s] = IdleWorker
      /\ \A t \in Slots : t # s => worker'[t] = worker[t]
      /\ UNCHANGED <<manager, todo, coVars>>
    <2> HIDE DEF w
    <2> QED
        BY <1>2, <1>3, WorkerNext DEF Becomes
<1> HIDE DEF e, w
<1>6. /\ ~Ended(s) /\ ~Queued(s) /\ ~Requested(s)
      /\ manager[s].phase \in {"connecting", "connected"}
      /\ Announced(s) => manager[s].phase = "connecting"
    BY <1>1 DEF SlotInv
<1>7. \A t \in Slots : /\ Announced(t)' <=> Announced(t)
                       /\ Ended(t)' <=> Ended(t) \/ t = s
                       /\ Requested(t)' <=> Requested(t)
                       /\ Queued(t)' <=> Queued(t)
    BY <1>2, <1>4, <1>5, EventPush, TodoUnchanged, SlotQueueUnchanged DEF IInv
<1>8. EventInv'
    BY <1>2, <1>4, <1>5, <1>6, EventPushFrame DEF IInv
<1>9. QueueInv(s)'
    BY <1>2, <1>5, QueueFrame DEF IInv
<1>10. WorkerShape(s)' /\ ~Busy(s)'
    BY <1>5 DEF IdleWorker, WorkerShape, Busy, At
<1>11. SlotInv(s)'
    BY <1>1, <1>5, <1>6, <1>7, <1>10 DEF SlotInv, is_occupied
<1> QED
    BY <1>2, <1>5, <1>7, <1>8, <1>9, <1>11, WorkerKeeps

----------------------------------------------------------------------------
(* The invariant, and what follows from it.                                *)

LEMMA NextKeeps == ASSUME IInv, [Next]_vars PROVE IInv'
<1>1. TypeOK'
    BY IInvTyped, NextType DEF TypeInv
<1>2. CASE UNCHANGED vars
    BY <1>1, <1>2, UiKeeps DEF vars
<1>3. ASSUME NEW cmd \in BleCommand, UiSends(cmd) PROVE IInv'
    BY <1>1, <1>3, UiKeeps DEF UiSends, coVars
<1>4. CASE UiReceives
    BY <1>1, <1>4, UiKeeps DEF UiReceives, coVars
<1>5. CASE CoordinatorStep
    BY <1>1, <1>5, CoordinatorKeeps
<1>6. ASSUME NEW s \in Slots, WorkerStep(s) PROVE IInv'
    BY <1>1, <1>6, TakesCommandKeeps, ConnectReturnsKeeps, SecuringEndsKeeps,
       AnnouncesKeeps, IsSupersededKeeps, LinkClosesKeeps, ReportsKeeps DEF WorkerStep
<1> QED
    BY <1>2, <1>3, <1>4, <1>5, <1>6 DEF Next, BleStep

LEMMA InitHolds == Init => IInv
<1> SUFFICES ASSUME Init PROVE IInv
    OBVIOUS
<1>1. TypeOK
    BY InitType
<1>2. ASSUME NEW s \in Slots
      PROVE  /\ manager[s] = EmptySlot /\ worker[s] = IdleWorker
             /\ ~Requested(s) /\ ~Queued(s) /\ ~Announced(s) /\ ~Ended(s)
    BY DEF Init, NewManager, Requested, Requests, Queued, QueuedConnects, Announced,
           Announcements, Ended, Endings, Boot
<1>3. ASSUME NEW s \in Slots PROVE SlotInv(s) /\ QueueInv(s)
    BY <1>2 DEF SlotInv, QueueInv, Queued, WorkerShape, Busy, At, IdleWorker, EmptySlot,
                is_occupied
<1>4. RequestInv /\ EventInv /\ BootInv
    BY DEF Init, RequestInv, EventInv, BootInv, IsBootWork, Boot
<1>5. DistinctAddresses
    BY <1>2 DEF DistinctAddresses, EmptySlot, is_occupied
<1> QED
    BY <1>1, <1>3, <1>4, <1>5 DEF IInv

\* The inductive invariant holds forever: slot table, queues, workers and
\* the boot sequence fit together after every step of any task.
THEOREM Inductive == Spec => []IInv
<1> QED
    BY InitHolds, NextKeeps, PTL DEF Spec

LEMMA UniqueOwner == IInv => OneOwner
<1> SUFFICES ASSUME IInv, NEW s \in Slots
             PROVE  IF is_occupied(manager[s]) THEN \E o \in Owners(s) : Owners(s) = {o}
                    ELSE Owners(s) = {}
    BY DEF OneOwner
<1>1. SlotInv(s) /\ QueueInv(s) /\ RequestInv /\ EventInv /\ TypeOK
    BY DEF IInv
<1>2. \A i, j \in Requests(s) : i = j
    BY <1>1 DEF Requests, RequestInv, TypeOK
<1>3. \A i, j \in QueuedConnects(s) : i = j
    BY <1>1 DEF QueueInv
<1>4. \A i, j \in Endings(s) : i = j
    <2> SUFFICES ASSUME NEW i \in Endings(s), NEW j \in Endings(s), i # j PROVE FALSE
        OBVIOUS
    <2>1. i \in DOMAIN slotEvQ /\ j \in DOMAIN slotEvQ /\ i \in Nat /\ j \in Nat
        BY <1>1 DEF Endings, TypeOK
    <2>2. i < j \/ j < i
        BY <2>1
    <2> QED
        BY <1>1, <2>1, <2>2 DEF Endings, EventInv
<1>5. CASE Requested(s)
    <2>1. PICK i \in Requests(s) : Requests(s) = {i}
        BY <1>2, <1>5 DEF Requested
    <2>2. Owners(s) = {<<"request", i>>}
        BY <1>1, <1>5, <2>1 DEF Owners, SlotInv, Queued, Ended
    <2> QED
        BY <1>1, <1>5, <2>2 DEF SlotInv, is_occupied
<1>6. CASE Queued(s)
    <2>1. PICK i \in QueuedConnects(s) : QueuedConnects(s) = {i}
        BY <1>3, <1>6 DEF Queued
    <2>2. Owners(s) = {<<"queue", i>>}
        BY <1>1, <1>6, <2>1 DEF Owners, SlotInv, Requested, Ended
    <2> QED
        BY <1>1, <1>6, <2>2 DEF SlotInv, is_occupied
<1>7. CASE Busy(s)
    <2>1. Owners(s) = {<<"worker", 1>>}
        BY <1>1, <1>7 DEF Owners, SlotInv, Requested, Queued, Ended
    <2> QED
        BY <1>1, <1>7, <2>1 DEF SlotInv, is_occupied
<1>8. CASE Ended(s)
    <2>1. PICK i \in Endings(s) : Endings(s) = {i}
        BY <1>4, <1>8 DEF Ended
    <2>2. Owners(s) = {<<"event", i>>}
        BY <1>1, <1>8, <2>1 DEF Owners, SlotInv, Requested, Queued
    <2> QED
        BY <1>1, <1>8, <2>2 DEF SlotInv, is_occupied
<1>9. CASE ~Requested(s) /\ ~Queued(s) /\ ~Busy(s) /\ ~Ended(s)
    <2>1. Owners(s) = {}
        BY <1>9 DEF Owners, Requested, Queued, Ended
    <2> QED
        BY <1>1, <1>9, <2>1 DEF SlotInv
<1> QED
    BY <1>5, <1>6, <1>7, <1>8, <1>9

\* No slot is lost and none is handed out twice, for any number of slots,
\* addresses and channel capacities.
THEOREM SlotsHaveOneOwner == Spec => []OneOwner
<1> QED
    BY Inductive, UniqueOwner, PTL

LEMMA TableIsCurrent == IInv => TableFollowsLinks
<1> SUFFICES ASSUME IInv, NEW s \in Slots
             PROVE  /\ Busy(s) => manager[s].address = worker[s].device
                    /\ ~Announced(s) /\ ~Ended(s) /\ worker[s].outcome = "none" =>
                           (manager[s].phase = "connected" <=> At(s, "running"))
    BY DEF TableFollowsLinks
<1>1. SlotInv(s) /\ WorkerShape(s) /\ manager[s] \in Slot
    BY DEF IInv, TypeOK, SlotInv
<1>2. Busy(s) => manager[s].address = worker[s].device
    BY <1>1 DEF WorkerShape
<1>3. ASSUME ~Announced(s), ~Ended(s), worker[s].outcome = "none"
      PROVE  manager[s].phase = "connected" <=> At(s, "running")
    <2>1. ~At(s, "reporting")
        BY <1>1, <1>3 DEF WorkerShape
    <2>2. CASE At(s, "running")
        BY <1>1, <1>3, <2>2 DEF SlotInv, Busy, Linked, At
    <2>3. CASE ~At(s, "running")
        <3>1. ~Linked(s)
            BY <2>1, <2>3 DEF Linked
        <3> QED
            BY <1>1, <1>3, <2>3, <3>1 DEF SlotInv, is_occupied
    <2> QED
        BY <2>2, <2>3
<1> QED
    BY <1>2, <1>3

\* What the coordinator believes of a slot is what its worker does, once the
\* events of the slot are handled.
THEOREM TableAgreesWithWorkers == Spec => []TableFollowsLinks
<1> QED
    BY Inductive, TableIsCurrent, PTL

LEMMA LinksAreDistinct == IInv => NoDuplicateLink
<1> SUFFICES ASSUME IInv, NEW s \in Slots, NEW t \in Slots, s # t, Busy(s), Busy(t)
             PROVE  worker[s].device # worker[t].device
    BY DEF NoDuplicateLink
<1>1. /\ worker[s].device = manager[s].address /\ worker[t].device = manager[t].address
      /\ is_occupied(manager[s])
    BY DEF IInv, SlotInv, WorkerShape, is_occupied
<1> QED
    BY <1>1 DEF IInv, DistinctAddresses

\* Two links to one peripheral never exist, those made at boot included.
THEOREM NoTwoLinksToOnePeer == Spec => []NoDuplicateLink
<1> QED
    BY Inductive, LinksAreDistinct, PTL

LEMMA NothingSupersedesByConnect == IInv => ConnectNeverSupersedes
BY DEF IInv, SlotInv, WorkerShape, ConnectNeverSupersedes

\* pending_cmd, the worker's provision for a Connect that arrives while a
\* link is up, is never needed with this coordinator.
THEOREM PendingStaysEmpty == Spec => []ConnectNeverSupersedes
<1> QED
    BY Inductive, NothingSupersedesByConnect, PTL

----------------------------------------------------------------------------
(* Refinement.                                                             *)

\* Events of one slot are told apart by whether they say Connected, so the
\* positions of the channel can be numbered from 0 to 2 * MAX_CONNECTIONS - 1.
LEMMA FewSlotEvents == IInv => SlotEventsFit
<1> SUFFICES ASSUME IInv PROVE Len(slotEvQ) <= 2 * MAX_CONNECTIONS
    BY DEF SlotEventsFit
<1> DEFINE n == Len(slotEvQ)
           D == 1 .. n
           R == 0 .. 2 * MAX_CONNECTIONS - 1
           number(i) == slotEvQ[i].slot
                          + (IF slotEvQ[i].kind = "Connected" THEN 0 ELSE MAX_CONNECTIONS)
           f == [i \in D |-> number(i)]
<1>1. n \in Nat /\ D = DOMAIN slotEvQ /\ \A i \in D : slotEvQ[i] \in SlotEvent
    BY DEF IInv, TypeOK
<1>2. \A i \in D : slotEvQ[i].slot \in Int /\ 0 <= slotEvQ[i].slot
                      /\ slotEvQ[i].slot < MAX_CONNECTIONS
    BY <1>1, SlotEventFields, MaxConnectionsAssumption DEF Slots
<1>3. ASSUME NEW i \in D PROVE number(i) \in R
    BY <1>2, MaxConnectionsAssumption
<1>4. ASSUME NEW i \in D, NEW j \in D, i < j PROVE number(i) # number(j)
    <2>1. CASE slotEvQ[i].slot = slotEvQ[j].slot
        <3>1. slotEvQ[i].kind = "Connected" /\ slotEvQ[j].kind # "Connected"
            BY <1>1, <1>4, <2>1 DEF IInv, EventInv
        <3> QED
            BY <1>2, <2>1, <3>1, MaxConnectionsAssumption
    <2>2. CASE slotEvQ[i].slot # slotEvQ[j].slot
        BY <1>2, <2>2, MaxConnectionsAssumption
    <2> QED
        BY <2>1, <2>2
<1>5. f \in Injection(D, R)
    <2>1. f \in [D -> R]
        BY <1>3
    <2>2. ASSUME NEW i \in D, NEW j \in D, f[i] = f[j] PROVE i = j
        <3>1. number(i) = number(j) /\ i \in Int /\ j \in Int
            BY <1>1, <2>2
        <3> QED
            BY <1>4, <3>1
    <2> QED
        BY <2>1, <2>2 DEF Injection, IsInjective
<1>6. /\ IsFiniteSet(D) /\ IsFiniteSet(R)
      /\ Cardinality(D) = n /\ Cardinality(R) = 2 * MAX_CONNECTIONS
    <2>1. /\ 1 \in Int /\ n \in Int /\ 0 \in Int /\ 2 * MAX_CONNECTIONS - 1 \in Int
          /\ 2 * MAX_CONNECTIONS > 0 /\ n >= 0
        BY <1>1, MaxConnectionsAssumption
    <2> HIDE DEF n
    <2>2. IsFiniteSet(D) /\ Cardinality(D) = IF 1 > n THEN 0 ELSE n - 1 + 1
        BY <2>1, FS_Interval
    <2>3. IsFiniteSet(R) /\ Cardinality(R) = 2 * MAX_CONNECTIONS
        <3> DEFINE m == 2 * MAX_CONNECTIONS - 1
        <3>1. m \in Int /\ ~(0 > m) /\ m - 0 + 1 = 2 * MAX_CONNECTIONS
            BY <2>1, MaxConnectionsAssumption
        <3> HIDE DEF m
        <3>2. IsFiniteSet(0 .. m) /\ Cardinality(0 .. m) = m - 0 + 1
            BY <2>1, <3>1, FS_Interval
        <3> QED
            BY <3>1, <3>2 DEF m
    <2> QED
        BY <2>1, <2>2, <2>3, MaxConnectionsAssumption
<1> HIDE DEF D, R, f
<1>7. Cardinality(D) <= Cardinality(R)
    BY <1>5, <1>6, FS_Injection
<1> QED
    BY <1>6, <1>7

\* A worker that has something to say never waits for room in the slot
\* event channel, however many slots there are, if the channel holds two
\* events for each.
THEOREM SlotEventsAlwaysFit == Spec => []SlotEventsFit
<1> QED
    BY Inductive, FewSlotEvents, PTL

----------------------------------------------------------------------------
(* The slot table implements SlotLifecycle.                                *)

LEMMA SameSlots == LC!Slots = Slots /\ LC!Free = EmptySlot
BY DEF LC!Slots, Slots, LC!Free, EmptySlot

\* An empty slot is exactly EmptySlot.
LEMMA EmptyIsFree ==
    ASSUME IInv, NEW s \in Slots, ~is_occupied(manager[s])
    PROVE  manager[s] = EmptySlot
BY DEF IInv, TypeOK, SlotInv, Slot, SlotPhase, is_occupied, EmptySlot

\* A reservation is a Reserve step.
LEMMA ReserveStep ==
    ASSUME IInv, NEW s \in Slots, NEW a \in Address,
           ~is_occupied(manager[s]), \A t \in Slots : manager[t].address # a,
           manager' = reserve_slot(manager, s, a)
    PROVE  LC!Next
<1>1. LC!Reserve(s, a)
    BY EmptyIsFree, SameSlots DEF LC!Reserve, reserve_slot
<1> QED
    BY <1>1, SameSlots DEF LC!Next

LEMMA BootReserves == ASSUME IInv, BootReservesAndConnects PROVE LC!Next
<1>1. todo # <<>> /\ Head(todo).kind = "ReserveAndConnect"
    BY DEF BootReservesAndConnects, Upcoming
<1>2. Head(todo) \in WorkItem /\ 1 \in DOMAIN todo /\ todo[1] = Head(todo)
    BY <1>1 DEF IInv, TypeOK
<1>3. PICK s \in Slots, a \in Address : s = Head(todo).slot /\ a = Head(todo).device
    BY <1>1, <1>2, WorkItemFields
<1>4. manager[s] = EmptySlot /\ \A t \in Slots : manager[t].address # a
    BY <1>1, <1>2, <1>3 DEF IInv, BootInv
<1>5. manager' = reserve_slot(manager, s, a)
    BY <1>3 DEF BootReservesAndConnects
<1> QED
    BY <1>4, <1>5, ReserveStep DEF EmptySlot, is_occupied

LEMMA CommandReserves ==
    ASSUME IInv, ReceivesCommand
    PROVE  LC!Next \/ UNCHANGED manager
<1> DEFINE cmd == Head(cmdQ)
<1>1. cmd \in BleCommand
    BY DEF IInv, TypeOK, ReceivesCommand
<1>2. cmd.kind \in {"StartScan", "Connect", "Disconnect"}
      /\ (cmd.kind = "Connect" => cmd.index \in Nat)
    BY <1>1, BleCommandFields
<1>3. CASE cmd.kind \in {"StartScan", "Disconnect"}
    <2>1. \/ Decide(plan_start_scan(manager), <<Emit(ScanStarted), Scan(<<>>)>>)
          \/ Decide(plan_disconnect(manager), <<>>)
        BY <1>3 DEF ReceivesCommand
    <2>2. plan_start_scan(manager).manager = manager /\ plan_disconnect(manager).manager = manager
        BY PlanDisconnectIdle DEF IdleDecision
    <2> QED
        BY <2>1, <2>2 DEF Decide
<1>4. CASE cmd.kind = "Connect"
    <2> DEFINE d == plan_connect(manager, last_scan, cmd.index)
    <2>1. manager' = d.manager
        BY <1>4 DEF ReceivesCommand, Decide
    <2>2. IdleDecision(d, manager) \/ ConnectDecision(d, manager)
        BY <1>2, <1>4, PlanConnectDecides DEF IInv, TypeOK
    <2> HIDE DEF d
    <2>3. CASE ConnectDecision(d, manager)
        <3>1. PICK s \in Slots, a \in Address :
                 /\ ~is_occupied(manager[s])
                 /\ ~is_connected_address(manager, a)
                 /\ manager' = reserve_slot(manager, s, a)
            BY <2>1, <2>3 DEF ConnectDecision
        <3>2. ASSUME NEW t \in Slots PROVE manager[t].address # a
            <4>1. CASE is_occupied(manager[t])
                BY <3>1, <4>1 DEF is_connected_address
            <4>2. CASE ~is_occupied(manager[t])
                BY <4>2, EmptyIsFree, NoAddressAssumption DEF EmptySlot
            <4> QED
                BY <4>1, <4>2
        <3> QED
            BY <3>1, <3>2, ReserveStep
    <2> QED
        BY <2>1, <2>2, <2>3 DEF IdleDecision
<1> QED
    BY <1>2, <1>3, <1>4

LEMMA EventStep ==
    ASSUME IInv, ReceivesSlotEvent
    PROVE  LC!Next
<1> DEFINE e == Head(slotEvQ)
<1>1. /\ slotEvQ # <<>> /\ e \in SlotEvent /\ 1 \in DOMAIN slotEvQ /\ e = slotEvQ[1]
    BY DEF IInv, TypeOK, ReceivesSlotEvent
<1>2. PICK s \in Slots : s = e.slot
    BY <1>1, SlotEventFields
<1>3. SlotInv(s) /\ manager[s] \in Slot
    BY DEF IInv, TypeOK
<1>4. e.kind \in {"Connected", "Disconnected", "Error"}
    BY <1>1, SlotEventFields
<1>5. CASE e.kind = "Connected"
    <2>1. manager' = connect_slot(manager, s, e.device)
        BY <1>2, <1>5 DEF ReceivesSlotEvent, Decide, on_slot_connected, Decision
    <2>2. manager[s].address = e.device
        BY <1>1, <1>2, <1>5 DEF IInv, EventInv
    <2>3. Announced(s)
        BY <1>1, <1>2, <1>5 DEF Announced, Announcements
    <2>4. manager[s].phase = "connecting"
        BY <1>3, <2>3 DEF SlotInv
    <2>5. LC!Establish(s)
        BY <2>1, <2>2, <2>4 DEF LC!Establish, connect_slot
    <2> QED
        BY <2>5, SameSlots DEF LC!Next
<1>6. CASE e.kind # "Connected"
    <2>1. manager' = disconnect_slot(manager, s)
        <3>1. PICK d \in {on_slot_disconnected(manager, e.slot),
                          on_slot_error(manager, e.slot, e.tag)} : Decide(d, <<>>)
            BY <1>4, <1>6 DEF ReceivesSlotEvent
        <3> QED
            BY <1>2, <3>1 DEF Decide, on_slot_disconnected, on_slot_error, Decision
    <2>2. Ended(s)
        BY <1>1, <1>2, <1>6 DEF Ended, Endings
    <2>3. manager[s] # EmptySlot
        BY <1>3, <2>2 DEF SlotInv, is_occupied, EmptySlot
    <2>4. LC!Release(s)
        BY <2>1, <2>3, SameSlots DEF LC!Release, disconnect_slot
    <2> QED
        BY <2>4, SameSlots DEF LC!Next
<1> QED
    BY <1>5, <1>6

LEMMA StepImplements ==
    ASSUME IInv, [Next]_vars
    PROVE  [LC!Next]_manager
<1>1. CASE UNCHANGED vars
    BY <1>1 DEF vars
<1>2. CASE (\E cmd \in BleCommand : UiSends(cmd)) \/ UiReceives
    BY <1>2 DEF UiSends, UiReceives, coVars
<1>3. CASE CoordinatorStep
    BY <1>3, BootReserves, CommandReserves, EventStep
    DEF CoordinatorStep, BootLoadsPeers, ScanFinds, ScanFails, SendsConnect,
        SendsDisconnect, Persists, Emits
<1>4. ASSUME NEW s \in Slots, WorkerStep(s) PROVE UNCHANGED manager
    BY <1>4 DEF WorkerStep, TakesCommand, ConnectReturns, SecuringEnds, Announces,
                IsSuperseded, LinkCloses, Reports, MovesTo, EndsWith, Becomes, coVars
<1> QED
    BY <1>1, <1>2, <1>3, <1>4 DEF Next, BleStep

\* The connection manager implements the life cycle of a slot: every step is
\* a reservation, an establishment or a release of one slot, or leaves the
\* table as it is.
THEOREM ImplementsLifecycle == Spec => LifecycleSpec
<1>1. Init => LC!Init
    BY SameSlots DEF Init, LC!Init, NewManager
<1> QED
    BY <1>1, StepImplements, Inductive, PTL DEF Spec, LifecycleSpec, LC!Spec
=============================================================================
