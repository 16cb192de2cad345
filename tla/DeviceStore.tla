---------------------------- MODULE DeviceStore ----------------------------
(***************************************************************************)
(* Pairing and its memory: the bonds of the security handler (Bonder in    *)
(* src/src/ble/multi_conn.rs), the paired-device records in RAM and in     *)
(* flash (src/src/storage.rs), and the coordinator's PersistDevice action  *)
(* that carries one into the other, with power lost at any moment.         *)
(*                                                                         *)
(* A peripheral is a device; what it is seen under is an address           *)
(* <<device, n>>, and a device in Rotating takes a new n now and then.     *)
(* Its identity key resolves every one of its addresses and no other.      *)
(* Names and signal strengths are left out.  A record in flash holds what  *)
(* the record in RAM held: MAX_PAIRED_DEVICES of the longest records fit   *)
(* MAX_RECORD_SIZE.                                                        *)
(***************************************************************************)
EXTENDS Integers, Sequences, FiniteSets, SequencesExt

CONSTANTS
    Device,                 \* the peripherals
    Rotating,               \* those that change their address
    MAX_PAIRED_DEVICES,     \* records, and bonds (4)
    MAX_CONNECTIONS,        \* devices looked for at boot (2)
    FLASH_WRITE_ATTEMPTS,   \* attempts to write one change (3)
    MaxRotations,           \* bound: addresses a rotating device goes through
    MaxPairings,            \* bound: pairings in all
    NoBond

ASSUME DeviceStoreAssumption ==
    /\ Rotating \subseteq Device
    /\ MAX_PAIRED_DEVICES \in Nat \ {0}
    /\ MAX_CONNECTIONS \in Nat \ {0}
    /\ FLASH_WRITE_ATTEMPTS \in Nat \ {0}
    /\ MaxRotations \in Nat /\ MaxPairings \in Nat

VARIABLES
    peers,       \* Bonder: bonds, oldest first
    devices,     \* DeviceStore: records, oldest first
    dirty,       \* DeviceStore: RAM differs from flash
    flash,       \* the records in flash
    saving,      \* save_to_flash: attempts begun, 0 if not saving
    item,        \* save_to_flash: the records being written
    connected,   \* addresses whose Connected event the coordinator has yet to handle
    rotation,    \* rotation[d]: the number of d's current address
    holds,       \* holds[d]: the bond d itself keeps
    pairings     \* pairings so far

vars == <<peers, devices, dirty, flash, saving, item, connected,
          rotation, holds, pairings>>

bonderVars == <<peers, rotation, holds, pairings>>
storeVars == <<devices, dirty, flash, saving, item>>

----------------------------------------------------------------------------
Address == Device \X (0 .. MaxRotations)

Bond == [master_id : 1 .. MaxPairings, peer_id : Device]

Record == [address : Address, bond : Bond \cup {NoBond}]

CurrentAddress(d) == <<d, rotation[d]>>

\* IdentityKey::is_match: the key resolves, or is, the address.
is_match(bond, address) == bond.peer_id = address[1]

\* The first entry that P holds for, if there is one.
Matching(seq, P(_)) == {i \in DOMAIN seq : P(seq[i])}
First(S) == CHOOSE i \in S : \A j \in S : i <= j

\* Room for one more: the oldest gives way.
PushEvicting(seq, x) ==
    Append(IF Len(seq) = MAX_PAIRED_DEVICES THEN Tail(seq) ELSE seq, x)

----------------------------------------------------------------------------
(* The Bonder.                                                             *)

BondsFor(address) == Matching(peers, LAMBDA b : is_match(b, address))

bond_for_address(address) ==
    IF BondsFor(address) = {} THEN NoBond ELSE peers[First(BondsFor(address))]

on_bonded(bond) ==
    LET same == Matching(peers, LAMBDA b : b.master_id = bond.master_id)
    IN  peers' = IF same # {} THEN [peers EXCEPT ![First(same)] = bond]
                 ELSE PushEvicting(peers, bond)

\* The records' bonds, in order: the k-th is that of the k-th record with one.
bonds(records) ==
    LET bonded == {i \in DOMAIN records : records[i].bond # NoBond}
        rank(i) == Cardinality({j \in bonded : j <= i})
    IN  [k \in 1 .. Cardinality(bonded) |->
            records[CHOOSE i \in bonded : rank(i) = k].bond]

----------------------------------------------------------------------------
(* The DeviceStore.                                                        *)

RecordsOf(records, address) == Matching(records, LAMBDA r : r.address = address)

\* Mutant: every connection adds a record.
AlwaysAdds(records, address) ==
    PushEvicting(records, [address |-> address, bond |-> NoBond])

\* add: a stored address keeps its place, and its bond.
Added(records, address) ==
    IF RecordsOf(records, address) # {} THEN records
    ELSE PushEvicting(records, [address |-> address, bond |-> NoBond])

\* Mutant: the bond goes to the newest record.
BondsNewest(records, address, bond) ==
    IF bond = NoBond THEN records ELSE [records EXCEPT ![Len(records)].bond = bond]

\* set_bond_for_address: the first record of the address, or that the bond's
\* identity key recognises.
Bonded(records, address, bond) ==
    LET fit == Matching(records, LAMBDA r : r.address = address \/ is_match(bond, r.address))
    IN  IF bond = NoBond \/ fit = {} THEN records
        ELSE [records EXCEPT ![First(fit)].bond = bond]

\* What add and set_bond_for_address take for a change to save.
Dirties(old, new) == old # new

----------------------------------------------------------------------------
Init ==
    /\ peers = <<>> /\ devices = <<>> /\ flash = <<>>
    /\ dirty = FALSE
    /\ saving = 0
    /\ item = <<>>
    /\ connected = <<>>
    /\ rotation = [d \in Device |-> 0]
    /\ holds = [d \in Device |-> NoBond]
    /\ pairings = 0

\* A device takes another address, or forgets its bond.
Rotates(d) ==
    /\ d \in Rotating
    /\ rotation[d] < MaxRotations
    /\ rotation' = [rotation EXCEPT ![d] = @ + 1]
    /\ UNCHANGED <<storeVars, peers, connected, holds, pairings>>

Forgets(d) ==
    /\ holds[d] # NoBond
    /\ holds' = [holds EXCEPT ![d] = NoBond]
    /\ UNCHANGED <<storeVars, peers, connected, rotation, pairings>>

\* The worker's part of a link that comes up: encrypt() takes the key of the
\* first bond that matches; without one the device is paired anew.  usable
\* says whether HID discovery succeeds too and Connected is sent.
ReportsConnected(d, usable) ==
    connected' = IF usable THEN Append(connected, CurrentAddress(d)) ELSE connected

Encrypts(d, usable) ==
    /\ bond_for_address(CurrentAddress(d)) # NoBond
    /\ holds[d] = bond_for_address(CurrentAddress(d))
    /\ ReportsConnected(d, usable)
    /\ UNCHANGED <<storeVars, bonderVars>>

PairsAnew(d, usable) ==
    /\ bond_for_address(CurrentAddress(d)) = NoBond
    /\ pairings < MaxPairings
    /\ LET bond == [master_id |-> pairings + 1, peer_id |-> d]
       IN  on_bonded(bond) /\ holds' = [holds EXCEPT ![d] = bond]
    /\ pairings' = pairings + 1
    /\ ReportsConnected(d, usable)
    /\ UNCHANGED <<storeVars, rotation>>

\* One link per slot, and one Connected under way for each.
LinksUp(d, usable) ==
    /\ Len(connected) < MAX_CONNECTIONS
    /\ Encrypts(d, usable) \/ PairsAnew(d, usable)

\* Mutant: the bond is looked up before the record is there to take it.
BondsFirst ==
    /\ connected # <<>> /\ saving = 0
    /\ LET address == Head(connected)
           records == Added(Bonded(devices, address, bond_for_address(address)), address)
       IN  /\ devices' = records
           /\ dirty' = (dirty \/ Dirties(devices, records))
           /\ item' = records
           /\ saving' = IF dirty' THEN 1 ELSE 0
    /\ connected' = Tail(connected)
    /\ UNCHANGED <<bonderVars, flash>>

\* PersistDevice, up to the first write: with the store locked, the device
\* is added, its bond attached, and the records serialised if any changed.
PersistDevice ==
    /\ connected # <<>> /\ saving = 0
    /\ LET address == Head(connected)
           records == Bonded(Added(devices, address), address, bond_for_address(address))
       IN  /\ devices' = records
           /\ dirty' = (dirty \/ Dirties(devices, records))
           /\ item' = records
           /\ saving' = IF dirty' THEN 1 ELSE 0
    /\ connected' = Tail(connected)
    /\ UNCHANGED <<bonderVars, flash>>

WriteSucceeds ==
    /\ saving # 0
    /\ flash' = item
    /\ dirty' = FALSE
    /\ saving' = 0
    /\ item' = <<>>
    /\ UNCHANGED <<bonderVars, devices, connected>>

\* Mutant: giving up counts as saved.
GivesUpClean ==
    /\ saving # 0
    /\ saving' = IF saving < FLASH_WRITE_ATTEMPTS THEN saving + 1 ELSE 0
    /\ item' = IF saving < FLASH_WRITE_ATTEMPTS THEN item ELSE <<>>
    /\ dirty' = (saving < FLASH_WRITE_ATTEMPTS)
    /\ UNCHANGED <<bonderVars, devices, flash, connected>>

\* After the last attempt the store stays dirty, for the next PersistDevice.
WriteFails ==
    /\ saving # 0
    /\ saving' = IF saving < FLASH_WRITE_ATTEMPTS THEN saving + 1 ELSE 0
    /\ item' = IF saving < FLASH_WRITE_ATTEMPTS THEN item ELSE <<>>
    /\ UNCHANGED <<bonderVars, devices, dirty, flash, connected>>

\* Power is lost, at worst in the middle of a write, which leaves the old
\* records or the new ones; then load_from_flash and load_bonds.
Reboots(survives) ==
    /\ survives \in {flash} \cup (IF saving # 0 THEN {item} ELSE {})
    /\ flash' = survives
    /\ devices' = survives
    /\ peers' = bonds(survives)
    /\ dirty' = FALSE
    /\ saving' = 0
    /\ item' = <<>>
    /\ connected' = <<>>
    /\ UNCHANGED <<rotation, holds, pairings>>

Next ==
    \/ \E d \in Device :
          \/ Rotates(d) \/ Forgets(d)
          \/ LinksUp(d, TRUE) \/ LinksUp(d, FALSE)
    \/ PersistDevice \/ WriteSucceeds \/ WriteFails
    \/ Reboots(flash) \/ Reboots(item)

Spec == Init /\ [][Next]_vars

----------------------------------------------------------------------------
(* Properties.                                                             *)

IsRecords(q) == q \in Seq(Record) /\ Len(q) <= MAX_PAIRED_DEVICES

TypeOK ==
    /\ peers \in Seq(Bond) /\ Len(peers) <= MAX_PAIRED_DEVICES
    /\ IsRecords(devices) /\ IsRecords(flash) /\ IsRecords(item)
    /\ dirty \in BOOLEAN
    /\ saving \in 0 .. FLASH_WRITE_ATTEMPTS
    /\ connected \in Seq(Address) /\ Len(connected) <= MAX_CONNECTIONS
    /\ rotation \in [Device -> 0 .. MaxRotations]
    /\ holds \in [Device -> Bond \cup {NoBond}]
    /\ pairings \in 0 .. MaxPairings

\* A store that is not dirty is what the next boot will load, whatever writes
\* failed before.
CleanMeansSaved == ~dirty => flash = devices

\* No device is given the key of another, in RAM or in flash, no address has
\* two records, and no record's bond recognises the address of an older one
\* (which would have been given it): the boot lists that MultiConn.PeerLists
\* allows.  An older bond may recognise a newer address.
RecordsAreConsistent ==
    \A q \in {devices, flash} : \A i \in DOMAIN q :
        /\ q[i].bond # NoBond => is_match(q[i].bond, q[i].address)
        /\ \A j \in DOMAIN q : q[i].address = q[j].address => i = j
        /\ \A j \in 1 .. i - 1 : q[i].bond # NoBond => ~is_match(q[i].bond, q[j].address)

\* When PersistDevice has handled a device that was not reset meanwhile, some
\* record has the bond that device holds.
PersistedBondIsCurrent ==
    [][PersistDevice =>
          LET d == Head(connected)[1]
          IN  holds[d] # NoBond /\ bond_for_address(Head(connected)) = holds[d]
                => \E i \in DOMAIN devices' : devices'[i].bond = holds[d]]_vars

\* The records boot goes through, newest first (iter_recent, take).
BootRecords == SubSeq(Reverse(flash), 1, IF Len(flash) < MAX_CONNECTIONS
                                           THEN Len(flash) ELSE MAX_CONNECTIONS)

\* Boot finds d: by its current address, or by its identity key.
BootFinds(d) ==
    \E i \in DOMAIN BootRecords :
        \/ BootRecords[i].address = CurrentAddress(d)
        \/ BootRecords[i].bond # NoBond /\ is_match(BootRecords[i].bond, CurrentAddress(d))

Stored == {flash[i].address[1] : i \in DOMAIN flash}

\* As long as no more devices are stored than there are slots, and none
\* of them changed its address, boot finds every one, whatever was paired
\* anew, written or lost on the way (multi_conn.rs:191-192).
SteadyDevicesComeBack ==
    Cardinality(Stored) <= MAX_CONNECTIONS /\ (\A d \in Stored : rotation[d] = 0)
        => \A d \in Stored : BootFinds(d)

\* The same of a pair whatever its addresses do (multi_conn.rs:191-192: "so a
\* keyboard + mouse pair both come back after a reboot without manual
\* re-selection").
PairComesBack ==
    Cardinality(Device) <= MAX_CONNECTIONS /\ Stored = Device
        => \A d \in Device : BootFinds(d)
=============================================================================
