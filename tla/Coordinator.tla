---------------------------- MODULE Coordinator ----------------------------
(***************************************************************************)
(* The pure core of the BLE subsystem (src/src/ble/coordinator.rs): the    *)
(* connection-slot table and the reducers that decide, for every UI        *)
(* command and every slot-worker event, how the table changes and which    *)
(* actions the shell must then perform.                                    *)
(*                                                                         *)
(* A manager is a function from slot numbers to slots.  A device is known  *)
(* by its address: the name and the RSSI that travel with it are never     *)
(* compared by this code.                                                  *)
(***************************************************************************)
EXTENDS Integers, FiniteSets, Sequences

CONSTANTS
    MAX_CONNECTIONS,    \* number of connection slots (2 in the firmware)
    Address,            \* BLE addresses
    NoAddress           \* the None of Option<Address>

ASSUME MaxConnectionsAssumption == MAX_CONNECTIONS \in Nat \ {0}
ASSUME NoAddressAssumption == NoAddress \notin Address

----------------------------------------------------------------------------
(* The slot table.                                                         *)

Slots == 0 .. MAX_CONNECTIONS - 1

\* The two flags `connected` and `connecting` of a Slot are never both set:
\* every constructor sets at most one, so together they are one phase.
SlotPhase == {"empty", "connecting", "connected"}

Slot == [address : Address \cup {NoAddress}, phase : SlotPhase]

EmptySlot == [address |-> NoAddress, phase |-> "empty"]

NewManager == [s \in Slots |-> EmptySlot]

is_occupied(slot) == slot.phase \in {"connecting", "connected"}

OccupiedSlots(m) == {s \in Slots : is_occupied(m[s])}

ConnectedSlots(m) == {s \in Slots : m[s].phase = "connected"}

occupied_count(m) == Cardinality(OccupiedSlots(m))

active_count(m) == Cardinality(ConnectedSlots(m))

\* Mutant: a slot that is still connecting passes for empty.
FindsConnecting(m) ==
    {s \in Slots \ ConnectedSlots(m) : \A t \in Slots \ ConnectedSlots(m) : s <= t}

\* The candidates for find_empty_slot: the first slot that is not occupied,
\* an empty set when every slot is busy.
find_empty_slot(m) ==
    {s \in Slots \ OccupiedSlots(m) : \A t \in Slots \ OccupiedSlots(m) : s <= t}

\* Mutant: the address of a connection under way does not count.
OnlyConnectedAddress(m, a) == \E s \in ConnectedSlots(m) : m[s].address = a

is_connected_address(m, a) ==
    \E s \in Slots : is_occupied(m[s]) /\ m[s].address = a

reserve_slot(m, s, a) == [m EXCEPT ![s] = [address |-> a, phase |-> "connecting"]]

connect_slot(m, s, a) == [m EXCEPT ![s] = [address |-> a, phase |-> "connected"]]

disconnect_slot(m, s) == [m EXCEPT ![s] = EmptySlot]

\* What the UI is told about the links that are up: the device's own name
\* when there is one (its address stands for the name), else their number.
connection_summary(m) ==
    IF \E s \in Slots : ConnectedSlots(m) = {s}
      THEN m[CHOOSE s \in Slots : ConnectedSlots(m) = {s}].address
      ELSE active_count(m)

----------------------------------------------------------------------------
(* Events for the UI and actions for the shell.                            *)

ErrorTag == {"ScanFailed", "ConnectFailed", "HidNotFound", "NotifyFailed"}

UiConnected(summary) == [kind |-> "Connected", summary |-> summary]
UiDisconnected       == [kind |-> "Disconnected"]
UiError(tag)         == [kind |-> "Error", tag |-> tag]

\* A run of DisconnectSlot actions is one item: the slots still to be told,
\* which the shell serves in ascending order.
DisconnectSlots(S) == [kind |-> "DisconnectSlots", slots |-> S]
ConnectSlot(s, a)  == [kind |-> "ConnectSlot", slot |-> s, device |-> a]
PersistDevice(a)   == [kind |-> "PersistDevice", device |-> a]
Emit(e)            == [kind |-> "Emit", event |-> e]

----------------------------------------------------------------------------
(* Reducers.  Each yields the new manager and the actions to perform.      *)

Decision(m, actions) == [manager |-> m, actions |-> actions]

DisconnectAll(S) == IF S = {} THEN <<>> ELSE <<DisconnectSlots(S)>>

\* Mutants: a slot is freed when its Disconnect is sent, not when the worker
\* has ended.
FreesBeforeScan(m) ==
    IF occupied_count(m) >= MAX_CONNECTIONS
      THEN Decision(NewManager, DisconnectAll(OccupiedSlots(m))) ELSE Decision(m, <<>>)

FreesAtOnce(m) == Decision(NewManager, DisconnectAll(OccupiedSlots(m)))

\* Before a scan every slot is freed, but only when all of them are busy.
plan_start_scan(m) ==
    Decision(m, IF occupied_count(m) >= MAX_CONNECTIONS
                  THEN DisconnectAll(OccupiedSlots(m)) ELSE <<>>)

\* devices is 1-based here and 0-based in the code.
plan_connect(m, devices, index) ==
    IF index + 1 \notin DOMAIN devices
      THEN Decision(m, <<Emit(UiError("ConnectFailed"))>>)
    ELSE LET a == devices[index + 1] IN
      IF is_connected_address(m, a)
        THEN Decision(m, <<>>)
      ELSE IF find_empty_slot(m) = {}
        THEN Decision(m, <<Emit(UiError("ConnectFailed"))>>)
      ELSE LET s == CHOOSE s \in find_empty_slot(m) : TRUE IN
        Decision(reserve_slot(m, s, a), <<ConnectSlot(s, a)>>)

plan_disconnect(m) == Decision(m, DisconnectAll(OccupiedSlots(m)))

\* Mutant: the UI and the store are told, the table is not.
ForgetsConnected(m, s, a) ==
    Decision(m, <<PersistDevice(a), Emit(UiConnected(connection_summary(m)))>>)

on_slot_connected(m, s, a) ==
    LET m2 == connect_slot(m, s, a) IN
    Decision(m2, <<PersistDevice(a), Emit(UiConnected(connection_summary(m2)))>>)

\* Mutant: the other links are not looked at.
AlwaysDisconnected(m) == UiDisconnected

\* The status every slot that ends leaves on the screen.
LinkStatus(m) ==
    IF active_count(m) = 0 THEN UiDisconnected ELSE UiConnected(connection_summary(m))

\* Mutant: the slot is freed and the UI hears nothing of it.
FreesSilently(m, s) == Decision(disconnect_slot(m, s), <<>>)

on_slot_disconnected(m, s) ==
    LET m2 == disconnect_slot(m, s) IN Decision(m2, <<Emit(LinkStatus(m2))>>)

on_slot_error(m, s, tag) ==
    LET m2 == disconnect_slot(m, s) IN
    Decision(m2, <<Emit(UiError(tag)), Emit(LinkStatus(m2))>>)
=============================================================================
