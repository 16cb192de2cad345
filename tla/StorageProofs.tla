--------------------------- MODULE StorageProofs ---------------------------
(***************************************************************************)
(* The safety properties of DeviceStore, for any devices, capacities and   *)
(* attempts, and of FlashFormat, for any sizes, any buffer and any lists   *)
(* of devices.                                                             *)
(*                                                                         *)
(* CleanMeansSaved rests on what is being written: while a write is under  *)
(* way the store is locked and dirty, and the records being written are    *)
(* those in RAM.  The other properties are about the records themselves.   *)
(* Each list of records, in RAM, in flash or on its way there, is sound: a *)
(* bond fits the address it is stored with, no address is there twice, and *)
(* no address is one its device has not had yet.                           *)
(*                                                                         *)
(* That what is saved is loaded rests on where things are in the bytes:    *)
(* Has(data, i, t), t is in data at offset i.  A record has its fields at  *)
(* their offsets (RecordSize), so reading gives them back (RecordRead);    *)
(* the writer takes the first devices, up to the first that does not fit   *)
(* (FirstAreTaken), and the blob has each record after its length, one     *)
(* after the other (SavedLayout); so a reader that got to the n-th has     *)
(* read the first n devices (ReadsBack), and one whose blob ends before    *)
(* that has stopped.                                                       *)
(***************************************************************************)
EXTENDS DeviceStore, FlashFormat, FiniteSetTheorems, DataLemmas

----------------------------------------------------------------------------
(* What is written.                                                        *)

WritesTheStore == saving # 0 => item = devices

StoreInv == CleanMeansSaved /\ WritesTheStore

LEMMA StoreInitially == Init => StoreInv
BY DEF Init, StoreInv, CleanMeansSaved, WritesTheStore

LEMMA StoreStep == StoreInv /\ [Next]_vars => StoreInv'
<1> SUFFICES ASSUME StoreInv, [Next]_vars PROVE StoreInv'
  OBVIOUS
<1> USE DEF StoreInv, CleanMeansSaved, WritesTheStore
<1>1. ASSUME UNCHANGED <<devices, dirty, flash, saving, item>> PROVE StoreInv'
  BY <1>1
<1>2. ASSUME NEW d \in Device, Rotates(d) \/ Forgets(d) PROVE StoreInv'
  BY <1>1, <1>2 DEF Rotates, Forgets, storeVars
<1>3. ASSUME NEW d \in Device, NEW usable \in BOOLEAN, LinksUp(d, usable) PROVE StoreInv'
  BY <1>1, <1>3 DEF LinksUp, Encrypts, PairsAnew, storeVars
<1>4. CASE PersistDevice
  <2> DEFINE address == Head(connected)
             records == Bonded(Added(devices, address), address, bond_for_address(address))
  <2>1. /\ saving = 0 /\ devices' = records /\ item' = records /\ flash' = flash
        /\ dirty' = (dirty \/ devices # records)
    BY <1>4 DEF PersistDevice, Dirties
  <2> HIDE DEF records
  <2>2. CASE dirty'
    BY <2>1, <2>2
  <2>3. CASE ~dirty'
    BY <2>1, <2>3
  <2> QED
    BY <2>2, <2>3
<1>5. CASE WriteSucceeds
  BY <1>5 DEF WriteSucceeds
<1>6. CASE WriteFails
  BY <1>6 DEF WriteFails
<1>7. CASE Reboots(flash) \/ Reboots(item)
  BY <1>7 DEF Reboots
<1>8. CASE UNCHANGED vars
  BY <1>1, <1>8 DEF vars
<1> QED
  BY <1>2, <1>3, <1>4, <1>5, <1>6, <1>7, <1>8 DEF Next

\* A store that is not dirty is what the next boot will load, through any
\* sequence of pairings, failed writes and losses of power.
THEOREM CleanIsSaved == Spec => []CleanMeansSaved
<1>1. StoreInv => CleanMeansSaved
  BY DEF StoreInv
<1> QED
  BY StoreInitially, StoreStep, <1>1, PTL DEF Spec

----------------------------------------------------------------------------
(* The operators on sequences.                                             *)

\* First finds an entry, and none before it.
LEMMA FirstIsIn ==
  ASSUME NEW S \in SUBSET Nat, S # {}
  PROVE  First(S) \in S /\ \A i \in S : First(S) <= i
BY LeastExists DEF First

LEMMA DomainOf ==
  ASSUME NEW S, NEW q \in Seq(S)
  PROVE  /\ Len(q) \in Nat /\ DOMAIN q = 1 .. Len(q)
         /\ DOMAIN q \in SUBSET Nat
         /\ \A i \in DOMAIN q : q[i] \in S
OBVIOUS

\* The list p is q with x at its end and perhaps without its first entry.
Pushed(p, q, x) ==
    /\ Len(p) >= 1 /\ p[Len(p)] = x
    /\ \E k \in {0, 1} :
          /\ Len(p) = Len(q) - k + 1
          /\ \A i \in 1 .. Len(q) - k : p[i] = q[i + k]

LEMMA Evicts ==
  ASSUME NEW S, NEW q \in Seq(S), NEW x \in S, Len(q) <= MAX_PAIRED_DEVICES
  PROVE  /\ PushEvicting(q, x) \in Seq(S)
         /\ Len(PushEvicting(q, x)) \in 1 .. MAX_PAIRED_DEVICES
         /\ Pushed(PushEvicting(q, x), q, x)
<1> MAX_PAIRED_DEVICES \in Nat \ {0}
  BY DeviceStoreAssumption
<1>1. CASE Len(q) = MAX_PAIRED_DEVICES
  <2>1. /\ Tail(q) \in Seq(S) /\ Len(Tail(q)) = Len(q) - 1
        /\ \A i \in 1 .. Len(q) - 1 : Tail(q)[i] = q[i + 1]
    BY <1>1
  <2>2. PushEvicting(q, x) = Append(Tail(q), x)
    BY <1>1 DEF PushEvicting
  <2> HIDE DEF PushEvicting
  <2> QED
    BY <1>1, <2>1, <2>2 DEF Pushed
<1>2. CASE Len(q) # MAX_PAIRED_DEVICES
  <2>1. PushEvicting(q, x) = Append(q, x)
    BY <1>2 DEF PushEvicting
  <2> QED
    BY <1>2, <2>1 DEF Pushed
<1> QED
  BY <1>1, <1>2

\* In a set of n numbers there is one at each place from 1 to n.
LEMMA EveryRankIsTaken ==
  ASSUME NEW S \in SUBSET Nat, IsFiniteSet(S), NEW k \in 1 .. Cardinality(S)
  PROVE  \E i \in S : Cardinality({j \in S : j <= i}) = k
<1> DEFINE upTo(i) == {j \in S : j <= i}
           rank == [i \in S |-> Cardinality(upTo(i))]
           places == 1 .. Cardinality(S)
<1>1. Cardinality(S) \in Nat
  BY FS_CardinalityType
<1>2. ASSUME NEW i \in S
      PROVE  IsFiniteSet(upTo(i)) /\ Cardinality(upTo(i)) \in places
  <2>1. /\ IsFiniteSet(upTo(i)) /\ Cardinality(upTo(i)) <= Cardinality(S)
    BY FS_Subset
  <2>2. Cardinality(upTo(i)) \in Nat
    BY <2>1, FS_CardinalityType
  <2>3. i \in upTo(i)
    OBVIOUS
  <2>4. Cardinality(upTo(i)) # 0
    BY <2>1, <2>3, FS_EmptySet
  <2> QED
    BY <1>1, <2>1, <2>2, <2>4
<1>3. ASSUME NEW i \in S, NEW j \in S, i < j
      PROVE  rank[i] # rank[j]
  <2> i \in Nat /\ j \in Nat /\ \A s \in S : s \in Nat
    OBVIOUS
  <2>1. /\ \A s \in S : s <= i => s <= j
        /\ ~ (j <= i) /\ j <= j
    BY <1>3
  <2>4. upTo(i) \in SUBSET upTo(j) /\ j \in upTo(j) /\ j \notin upTo(i)
    BY <2>1
  <2>2. rank[i] = Cardinality(upTo(i)) /\ rank[j] = Cardinality(upTo(j))
    OBVIOUS
  <2>3. IsFiniteSet(upTo(j))
    BY <1>2
  <2> HIDE DEF upTo, rank
  <2> QED
    BY <2>2, <2>3, <2>4, FS_Subset
<1>4. rank \in Injection(S, places)
  <2>1. rank \in [S -> places]
    BY <1>2
  <2>2. ASSUME NEW i \in S, NEW j \in S, rank[i] = rank[j]
        PROVE  i = j
    <3>1. i < j \/ j < i \/ i = j
      OBVIOUS
    <3> HIDE DEF rank
    <3> QED
      BY <1>3, <2>2, <3>1
  <2> HIDE DEF rank
  <2> QED
    BY <2>1, <2>2 DEF Injection, IsInjective
<1>5. IsFiniteSet(places) /\ Cardinality(places) = Cardinality(S)
  BY <1>1, FS_Interval
<1>6. rank \in Surjection(S, places)
  BY <1>4, <1>5, FS_Injection
<1>7. PICK i \in S : rank[i] = k
  BY <1>6 DEF Surjection
<1> QED
  BY <1>7

----------------------------------------------------------------------------
(* The types of the operators.                                             *)

LEMMA BondFound ==
  ASSUME peers \in Seq(Bond), NEW address
  PROVE  /\ bond_for_address(address) \in Bond \cup {NoBond}
         /\ bond_for_address(address) # NoBond => is_match(bond_for_address(address), address)
<1>1. BondsFor(address) \in SUBSET Nat
      /\ \A i \in BondsFor(address) : peers[i] \in Bond /\ is_match(peers[i], address)
  BY DomainOf DEF BondsFor, Matching
<1>2. CASE BondsFor(address) # {}
  BY <1>1, <1>2, FirstIsIn DEF bond_for_address
<1>3. CASE BondsFor(address) = {}
  BY <1>3 DEF bond_for_address
<1> QED
  BY <1>2, <1>3

LEMMA BondsAreTyped ==
  ASSUME NEW q, IsRecords(q)
  PROVE  bonds(q) \in Seq(Bond) /\ Len(bonds(q)) <= MAX_PAIRED_DEVICES
<1> DEFINE bonded == {i \in DOMAIN q : q[i].bond # NoBond}
           n == Cardinality(bonded)
           nth(k) == CHOOSE i \in bonded : Cardinality({j \in bonded : j <= i}) = k
<1>1. /\ DOMAIN q = 1 .. Len(q) /\ Len(q) \in Nat /\ Len(q) <= MAX_PAIRED_DEVICES
      /\ MAX_PAIRED_DEVICES \in Nat
      /\ \A i \in DOMAIN q : q[i] \in Record
  BY DeviceStoreAssumption DEF IsRecords
<1>2. IsFiniteSet(DOMAIN q) /\ Cardinality(DOMAIN q) = Len(q)
  <2>1. ASSUME NEW k \in Nat
        PROVE  IsFiniteSet(1 .. k) /\ Cardinality(1 .. k) = k
    BY ONLY FS_Interval, <2>1
  <2> QED
    BY <1>1, <2>1
<1>3. IsFiniteSet(bonded) /\ n <= Len(q)
  BY <1>2, FS_Subset
<1>4. n \in Nat
  BY <1>3, FS_CardinalityType
<1>5. ASSUME NEW k \in 1 .. n
      PROVE  q[nth(k)].bond \in Bond
  <2>1. bonded \in SUBSET Nat
    BY <1>1
  <2>2. nth(k) \in bonded
    <3> HIDE DEF bonded
    <3> QED
      BY <1>3, <2>1, EveryRankIsTaken
  <2> QED
    BY <1>1, <2>2 DEF Record
<1>6. bonds(q) = [k \in 1 .. n |-> q[nth(k)].bond]
  BY DEF bonds
<1> HIDE DEF bonded, n, nth
<1>7. bonds(q) \in [1 .. n -> Bond]
  BY <1>5, <1>6
<1>8. bonds(q) \in Seq(Bond) /\ Len(bonds(q)) = n
  BY <1>4, <1>7
<1> QED
  BY <1>1, <1>3, <1>4, <1>8

LEMMA AddedTyped ==
  ASSUME NEW q, IsRecords(q), NEW address \in Address
  PROVE  IsRecords(Added(q, address))
<1>1. [address |-> address, bond |-> NoBond] \in Record
  BY DEF Record
<1> QED
  BY <1>1, Evicts DEF Added, IsRecords

\* The list with one record's bond replaced.
Rebond(q, k, bond) == [q EXCEPT ![k].bond = bond]

\* What set_bond_for_address does to the list.
LEMMA BondedChanges ==
  ASSUME NEW q, IsRecords(q), NEW address \in Address, NEW bond \in Bond \cup {NoBond}
  PROVE  \/ Bonded(q, address, bond) = q
            /\ (bond = NoBond
                  \/ \A i \in DOMAIN q : q[i].address # address /\ ~ is_match(bond, q[i].address))
         \/ \E k \in DOMAIN q :
               /\ bond # NoBond
               /\ q[k].address = address \/ is_match(bond, q[k].address)
               /\ \A i \in 1 .. k - 1 : ~is_match(bond, q[i].address)
               /\ Bonded(q, address, bond) = Rebond(q, k, bond)
<1> DEFINE fit == Matching(q, LAMBDA r : r.address = address \/ is_match(bond, r.address))
<1>1. fit = {i \in DOMAIN q : q[i].address = address \/ is_match(bond, q[i].address)}
  BY DEF Matching
<1>2. fit \in SUBSET Nat
  BY <1>1, DomainOf DEF IsRecords
<1>3. Bonded(q, address, bond) = IF bond = NoBond \/ fit = {} THEN q
                                 ELSE [q EXCEPT ![First(fit)].bond = bond]
  BY DEF Bonded
<1>4. fit # {} => First(fit) \in fit /\ \A i \in fit : First(fit) <= i
  BY <1>2, FirstIsIn
<1>7. q \in Seq(Record)
  BY DEF IsRecords
<1> HIDE DEF fit
<1>5. CASE bond = NoBond \/ fit = {}
  BY <1>1, <1>3, <1>5
<1>6. CASE bond # NoBond /\ fit # {}
  <2> DEFINE k == First(fit)
  <2>1. k \in fit /\ \A i \in fit : k <= i
    BY <1>4, <1>6
  <2>2. /\ k \in DOMAIN q /\ (q[k].address = address \/ is_match(bond, q[k].address))
        /\ Bonded(q, address, bond) = Rebond(q, k, bond)
    BY <1>1, <1>3, <1>6, <2>1 DEF Rebond
  <2> HIDE DEF k
  <2>3. ASSUME NEW i \in 1 .. k - 1 PROVE i \notin fit /\ i \in DOMAIN q
    BY <1>2, <1>7, <2>1, <2>2, <2>3
  <2>4. \A i \in 1 .. k - 1 : ~is_match(bond, q[i].address)
    BY <1>1, <2>3
  <2> QED
    BY <1>6, <2>2, <2>4
<1> QED
  BY <1>5, <1>6

LEMMA Rebonds ==
  ASSUME NEW q, IsRecords(q), NEW k \in DOMAIN q, NEW bond \in Bond \cup {NoBond}
  PROVE  /\ IsRecords(Rebond(q, k, bond))
         /\ DOMAIN Rebond(q, k, bond) = DOMAIN q
         /\ Rebond(q, k, bond)[k].bond = bond
         /\ \A i \in DOMAIN q :
              /\ Rebond(q, k, bond)[i].address = q[i].address
              /\ i # k => Rebond(q, k, bond)[i].bond = q[i].bond
<1> DEFINE new == [q[k] EXCEPT !.bond = bond]
<1>1. Rebond(q, k, bond) = [q EXCEPT ![k] = new]
  BY DEF Rebond
<1>2. q[k] \in Record
  BY DomainOf DEF IsRecords
<1>3. new \in Record /\ new.address = q[k].address /\ new.bond = bond
  BY <1>2 DEF Record
<1> HIDE DEF new
<1> QED
  BY <1>1, <1>3 DEF IsRecords

LEMMA BondedTyped ==
  ASSUME NEW q, IsRecords(q), NEW address \in Address, NEW bond \in Bond \cup {NoBond}
  PROVE  IsRecords(Bonded(q, address, bond))
BY BondedChanges, Rebonds

----------------------------------------------------------------------------
(* The type invariant.                                                     *)

LEMMA BondTaken ==
  ASSUME TypeOK, NEW bond \in Bond, on_bonded(bond)
  PROVE  peers' \in Seq(Bond) /\ Len(peers') <= MAX_PAIRED_DEVICES
<1> DEFINE same == Matching(peers, LAMBDA b : b.master_id = bond.master_id)
<1>1. same \in SUBSET DOMAIN peers
  BY DEF Matching
<1>2. peers \in Seq(Bond) /\ Len(peers) <= MAX_PAIRED_DEVICES
  BY DEF TypeOK
<1>3. peers' = IF same # {} THEN [peers EXCEPT ![First(same)] = bond]
               ELSE PushEvicting(peers, bond)
  BY DEF on_bonded
<1>4. same # {} => First(same) \in DOMAIN peers
  BY <1>1, <1>2, DomainOf, FirstIsIn
<1> HIDE DEF same
<1>5. CASE same # {}
  BY <1>2, <1>3, <1>4, <1>5
<1>6. CASE same = {}
  <2>1. /\ PushEvicting(peers, bond) \in Seq(Bond)
        /\ Len(PushEvicting(peers, bond)) \in 1 .. MAX_PAIRED_DEVICES
    BY <1>2, Evicts
  <2> QED
    BY <1>3, <1>6, <2>1, DeviceStoreAssumption
<1> QED
  BY <1>5, <1>6

LEMMA CurrentAddressType ==
  ASSUME TypeOK, NEW d \in Device
  PROVE  CurrentAddress(d) \in Address
BY DEF TypeOK, CurrentAddress, Address

LEMMA TypeInitially == Init => TypeOK
<1> SUFFICES ASSUME Init PROVE TypeOK
  OBVIOUS
<1>1. \A S : <<>> \in Seq(S) /\ Len(<<>>) = 0
  OBVIOUS
<1>2. 0 \in 0 .. MaxRotations /\ 0 \in 0 .. FLASH_WRITE_ATTEMPTS /\ 0 \in 0 .. MaxPairings
      /\ 0 <= MAX_PAIRED_DEVICES /\ 0 <= MAX_CONNECTIONS
  BY DeviceStoreAssumption
<1> QED
  BY <1>1, <1>2 DEF Init, TypeOK, IsRecords

LEMMA LinkTyped ==
  ASSUME TypeOK, NEW d \in Device, NEW usable \in BOOLEAN, LinksUp(d, usable)
  PROVE  TypeOK'
<1>1. connected' \in Seq(Address) /\ Len(connected') <= MAX_CONNECTIONS
  <2>1. /\ connected \in Seq(Address) /\ Len(connected) < MAX_CONNECTIONS
        /\ MAX_CONNECTIONS \in Nat
    BY DeviceStoreAssumption DEF LinksUp, TypeOK
  <2>2. connected' = Append(connected, CurrentAddress(d)) \/ connected' = connected
    BY DEF LinksUp, Encrypts, PairsAnew, ReportsConnected
  <2>3. CASE connected' = connected
    BY <2>1, <2>3
  <2>4. CASE connected' = Append(connected, CurrentAddress(d))
    BY <2>1, <2>4, CurrentAddressType
  <2> QED
    BY <2>2, <2>3, <2>4
<1>2. CASE Encrypts(d, usable)
  BY <1>1, <1>2 DEF Encrypts, storeVars, bonderVars, TypeOK
<1>3. CASE PairsAnew(d, usable)
  <2> DEFINE bond == [master_id |-> pairings + 1, peer_id |-> d]
  <2>1. pairings + 1 \in 1 .. MaxPairings
    BY <1>3, DeviceStoreAssumption DEF PairsAnew, TypeOK
  <2>2. bond \in Bond /\ on_bonded(bond) /\ holds' = [holds EXCEPT ![d] = bond]
    BY <1>3, <2>1 DEF PairsAnew, Bond
  <2> HIDE DEF bond
  <2>3. peers' \in Seq(Bond) /\ Len(peers') <= MAX_PAIRED_DEVICES
    BY <2>2, BondTaken
  <2>4. holds' \in [Device -> Bond \cup {NoBond}]
    BY <2>2 DEF TypeOK
  <2>5. pairings' \in 0 .. MaxPairings
    BY <1>3, <2>1 DEF PairsAnew
  <2> QED
    BY <1>1, <1>3, <2>3, <2>4, <2>5 DEF PairsAnew, storeVars, TypeOK
<1> QED
  BY <1>2, <1>3 DEF LinksUp

\* What PersistDevice makes of the records in RAM.
Persisted(address) == Bonded(Added(devices, address), address, bond_for_address(address))

LEMMA Persists ==
  ASSUME TypeOK, PersistDevice
  PROVE  /\ Head(connected) \in Address
         /\ devices' = Persisted(Head(connected)) /\ item' = devices'
         /\ IsRecords(devices')
<1>1. Head(connected) \in Address
  BY DEF PersistDevice, TypeOK
<1>2. devices' = Persisted(Head(connected)) /\ item' = devices'
  BY DEF PersistDevice, Persisted
<1>3. bond_for_address(Head(connected)) \in Bond \cup {NoBond}
  BY BondFound DEF TypeOK
<1>4. IsRecords(devices)
  BY DEF TypeOK
<1> QED
  BY <1>1, <1>2, <1>3, <1>4, AddedTyped, BondedTyped DEF Persisted

LEMMA TypeStep == TypeOK /\ [Next]_vars => TypeOK'
<1> SUFFICES ASSUME TypeOK, [Next]_vars PROVE TypeOK'
  OBVIOUS
<1>1. ASSUME NEW d \in Device, Rotates(d) PROVE TypeOK'
  <2>1. rotation[d] + 1 \in 0 .. MaxRotations
    BY <1>1, DeviceStoreAssumption DEF Rotates, TypeOK
  <2>2. rotation' \in [Device -> 0 .. MaxRotations]
    BY <1>1, <2>1 DEF Rotates, TypeOK
  <2> QED
    BY <1>1, <2>2 DEF Rotates, storeVars, TypeOK
<1>2. ASSUME NEW d \in Device, Forgets(d) PROVE TypeOK'
  BY <1>2 DEF Forgets, storeVars, TypeOK
<1>3. ASSUME NEW d \in Device, NEW usable \in BOOLEAN, LinksUp(d, usable) PROVE TypeOK'
  BY <1>3, LinkTyped
<1>4. CASE PersistDevice
  <2>1. connected' \in Seq(Address) /\ Len(connected') <= MAX_CONNECTIONS
    BY <1>4, DeviceStoreAssumption DEF PersistDevice, TypeOK
  <2>2. dirty' \in BOOLEAN /\ saving' \in 0 .. FLASH_WRITE_ATTEMPTS
    <3>1. dirty' \in BOOLEAN
      BY <1>4 DEF PersistDevice
    <3>2. saving' = 0 \/ saving' = 1
      BY <1>4 DEF PersistDevice
    <3> QED
      BY <3>1, <3>2, DeviceStoreAssumption
  <2>3. UNCHANGED <<bonderVars, flash>>
    BY <1>4 DEF PersistDevice
  <2> QED
    BY <1>4, <2>1, <2>2, <2>3, Persists DEF bonderVars, TypeOK
<1>5. CASE WriteSucceeds
  <2>1. IsRecords(<<>>) /\ 0 \in 0 .. FLASH_WRITE_ATTEMPTS
    BY DeviceStoreAssumption DEF IsRecords
  <2> QED
    BY <1>5, <2>1 DEF WriteSucceeds, bonderVars, TypeOK
<1>6. CASE WriteFails
  <2>1. IsRecords(<<>>)
    BY DeviceStoreAssumption DEF IsRecords
  <2>2. IsRecords(item')
    BY <1>6, <2>1 DEF WriteFails, TypeOK
  <2>3. saving' \in 0 .. FLASH_WRITE_ATTEMPTS
    BY <1>6, DeviceStoreAssumption DEF WriteFails, TypeOK
  <2> QED
    BY <1>6, <2>2, <2>3 DEF WriteFails, bonderVars, TypeOK
<1>7. ASSUME NEW survives \in {flash, item}, Reboots(survives) PROVE TypeOK'
  <2>1. IsRecords(<<>>) /\ 0 \in 0 .. FLASH_WRITE_ATTEMPTS /\ MAX_CONNECTIONS \in Nat
    BY DeviceStoreAssumption DEF IsRecords
  <2>2. IsRecords(survives)
    BY DEF TypeOK
  <2>3. bonds(survives) \in Seq(Bond) /\ Len(bonds(survives)) <= MAX_PAIRED_DEVICES
    BY <2>2, BondsAreTyped
  <2>4. <<>> \in Seq(Address) /\ Len(<<>>) <= MAX_CONNECTIONS
    BY <2>1
  <2> QED
    BY <1>7, <2>1, <2>2, <2>3, <2>4 DEF Reboots, TypeOK
<1>8. CASE UNCHANGED vars
  BY <1>8 DEF vars, TypeOK
<1> QED
  BY <1>1, <1>2, <1>3, <1>4, <1>5, <1>6, <1>7, <1>8 DEF Next

\* Records, bonds and addresses keep their types, and no list outgrows its
\* place: Vec<_, MAX_PAIRED_DEVICES> is never asked to hold more.
THEOREM StoreTypeCorrect == Spec => []TypeOK
BY TypeInitially, TypeStep, PTL DEF Spec

----------------------------------------------------------------------------
(* The records.                                                            *)

\* No bond recognises the address of an older record.
OldestBonded(q) ==
    \A i \in DOMAIN q : \A j \in 1 .. i - 1 :
        q[i].bond # NoBond => ~is_match(q[i].bond, q[j].address)

\* Bonds fit their addresses, no address is there twice, and a bond is where
\* set_bond_for_address would look for it.
Consistent(q) ==
    /\ \A i \in DOMAIN q :
        /\ q[i].bond # NoBond => is_match(q[i].bond, q[i].address)
        /\ \A j \in DOMAIN q : q[i].address = q[j].address => i = j
    /\ OldestBonded(q)

\* An address its device has, or had: `has' numbers the current ones.
Seen(address, has) == address[2] <= has[address[1]]

SeenAll(q, has) == \A i \in DOMAIN q : Seen(q[i].address, has)

ConsistentInv == Consistent(devices) /\ Consistent(flash) /\ Consistent(item)

SeenInv ==
    /\ SeenAll(devices, rotation) /\ SeenAll(flash, rotation) /\ SeenAll(item, rotation)
    /\ \A i \in DOMAIN connected : Seen(connected[i], rotation)

RecordsInv == TypeOK /\ ConsistentInv /\ SeenInv

\* add keeps a list consistent.
LEMMA AddedConsistent ==
  ASSUME NEW q, IsRecords(q), Consistent(q), NEW address \in Address
  PROVE  /\ Consistent(Added(q, address))
         /\ \A i \in DOMAIN Added(q, address) :
              \/ Added(q, address)[i].address = address
              \/ \E j \in DOMAIN q : Added(q, address)[i].address = q[j].address
         /\ \E i \in DOMAIN Added(q, address) : Added(q, address)[i].address = address
<1> DEFINE old == RecordsOf(q, address)
           new == [address |-> address, bond |-> NoBond]
           p == PushEvicting(q, new)
<1>1. old = {i \in DOMAIN q : q[i].address = address}
  BY DEF RecordsOf, Matching
<1>2. CASE old # {}
  BY <1>1, <1>2 DEF Added
<1>3. CASE old = {}
  <2>1. Added(q, address) = p
    BY <1>3 DEF Added
  <2>2. new \in Record /\ new.address = address /\ new.bond = NoBond
    BY DEF Record
  <2>3. /\ q \in Seq(Record) /\ Len(q) <= MAX_PAIRED_DEVICES
        /\ DOMAIN q = 1 .. Len(q) /\ Len(q) \in Nat
    BY DEF IsRecords
  <2> HIDE DEF new
  <2>10. p \in Seq(Record) /\ Pushed(p, q, new)
    BY <2>2, <2>3, Evicts
  <2> HIDE DEF p
  <2>4. /\ p \in Seq(Record)
        /\ Len(p) >= 1
        /\ p[Len(p)] = new
        /\ \E k \in {0, 1} : /\ Len(p) = Len(q) - k + 1
                             /\ \A i \in 1 .. Len(q) - k : p[i] = q[i + k]
    BY <2>10 DEF Pushed
  <2> HIDE DEF old
  <2>5. DOMAIN p = 1 .. Len(p) /\ Len(p) \in Nat
    BY <2>4
  <2>6. PICK k \in {0, 1} : /\ Len(p) = Len(q) - k + 1
                            /\ \A i \in 1 .. Len(q) - k : p[i] = q[i + k]
    BY <2>4
  <2>7. ASSUME NEW i \in DOMAIN p, i # Len(p)
        PROVE  i + k \in DOMAIN q /\ p[i] = q[i + k] /\ p[i].address # address
    <3>1. i \in 1 .. Len(q) - k /\ i + k \in 1 .. Len(q)
      BY <2>3, <2>5, <2>6, <2>7
    <3> QED
      BY <1>1, <1>3, <2>3, <2>6, <3>1
  <2>8. Consistent(p)
    <3> SUFFICES ASSUME NEW i \in DOMAIN p
                 PROVE  /\ p[i].bond # NoBond => is_match(p[i].bond, p[i].address)
                        /\ \A j \in DOMAIN p : p[i].address = p[j].address => i = j
                        /\ \A j \in 1 .. i - 1 :
                              p[i].bond # NoBond => ~is_match(p[i].bond, p[j].address)
      BY DEF Consistent, OldestBonded
    <3>1. p[i].bond # NoBond => is_match(p[i].bond, p[i].address)
      <4>1. CASE i = Len(p)
        BY <2>2, <2>4, <4>1
      <4>2. CASE i # Len(p)
        BY <2>7, <4>2 DEF Consistent
      <4> QED
        BY <4>1, <4>2
    <3>2. ASSUME NEW j \in DOMAIN p, p[i].address = p[j].address
          PROVE  i = j
      <4>1. i = Len(p) <=> j = Len(p)
        BY <2>2, <2>4, <2>7, <3>2
      <4>2. CASE i # Len(p)
        <5>1. i + k \in DOMAIN q /\ j + k \in DOMAIN q
              /\ q[i + k].address = q[j + k].address
          BY <2>7, <3>2, <4>1, <4>2
        <5>2. i + k = j + k
          BY <5>1 DEF Consistent
        <5>3. i \in Int /\ j \in Int /\ k \in Int
          BY <2>5
        <5>4. \A x, y, z \in Int : x + z = y + z => x = y
          OBVIOUS
        <5> QED
          BY <5>2, <5>3, <5>4, Zenon
      <4> QED
        BY <4>1, <4>2
    <3>3. ASSUME NEW j \in 1 .. i - 1, p[i].bond # NoBond
          PROVE  ~is_match(p[i].bond, p[j].address)
      <4>1. i # Len(p)
        BY <2>2, <2>4, <3>3
      <4>2. j \in DOMAIN p /\ j # Len(p)
        <5>1. i \in 1 .. Len(p) /\ Len(p) \in Nat
          BY <2>5
        <5>2. \A n \in Nat : \A x \in 1 .. n : \A y \in 1 .. x - 1 : y \in 1 .. n /\ y # n
          OBVIOUS
        <5>3. j \in 1 .. Len(p) /\ j # Len(p)
          BY ONLY <3>3, <5>1, <5>2, Zenon
        <5> QED
          BY <2>5, <5>3
      <4>3. /\ i + k \in DOMAIN q /\ p[i] = q[i + k]
            /\ j + k \in DOMAIN q /\ p[j] = q[j + k]
        BY <2>7, <4>1, <4>2
      <4>4. j + k \in 1 .. (i + k) - 1
        BY <2>3, <2>5, <3>3, <4>3
      <4> QED
        BY <3>3, <4>3, <4>4 DEF Consistent, OldestBonded
    <3> QED
      BY <3>1, <3>2, <3>3
  <2>9. Len(p) \in DOMAIN p
    BY <2>4, <2>5
  <2> QED
    BY <2>1, <2>2, <2>4, <2>7, <2>8, <2>9
<1> QED
  BY <1>2, <1>3

\* set_bond_for_address keeps a list consistent, and its addresses.
LEMMA BondedConsistent ==
  ASSUME NEW q, IsRecords(q), Consistent(q), NEW address \in Address,
         NEW bond \in Bond \cup {NoBond}, bond # NoBond => is_match(bond, address)
  PROVE  /\ Consistent(Bonded(q, address, bond))
         /\ DOMAIN Bonded(q, address, bond) = DOMAIN q
         /\ \A i \in DOMAIN q : Bonded(q, address, bond)[i].address = q[i].address
<1>1. CASE Bonded(q, address, bond) = q
  BY <1>1
<1>2. ASSUME NEW k \in DOMAIN q, bond # NoBond,
             q[k].address = address \/ is_match(bond, q[k].address),
             \A i \in 1 .. k - 1 : ~is_match(bond, q[i].address),
             Bonded(q, address, bond) = Rebond(q, k, bond)
      PROVE  /\ Consistent(Bonded(q, address, bond))
             /\ DOMAIN Bonded(q, address, bond) = DOMAIN q
             /\ \A i \in DOMAIN q : Bonded(q, address, bond)[i].address = q[i].address
  <2> DEFINE p == Rebond(q, k, bond)
  <2>1. /\ DOMAIN p = DOMAIN q /\ p[k].bond = bond
        /\ \A i \in DOMAIN q : p[i].address = q[i].address /\ (i # k => p[i].bond = q[i].bond)
    BY Rebonds
  <2>2. Bonded(q, address, bond) = p
    BY <1>2
  <2> HIDE DEF p
  <2>3. OldestBonded(p)
    <3> SUFFICES ASSUME NEW i \in DOMAIN p, NEW j \in 1 .. i - 1, p[i].bond # NoBond
                 PROVE  ~is_match(p[i].bond, p[j].address)
      BY DEF OldestBonded
    <3>1. q \in Seq(Record)
      BY DEF IsRecords
    <3>2. i \in DOMAIN q /\ j \in DOMAIN q /\ p[j].address = q[j].address
      BY <2>1, <3>1
    <3>3. CASE i = k
      BY <1>2, <2>1, <3>2, <3>3
    <3>4. CASE i # k
      <4>1. p[i].bond = q[i].bond
        BY <2>1, <3>2, <3>4
      <4> QED
        BY <3>2, <4>1 DEF Consistent, OldestBonded
    <3> QED
      BY <3>3, <3>4
  <2>4. Consistent(p)
    BY <1>2, <2>1, <2>3 DEF Consistent
  <2> QED
    BY <2>1, <2>2, <2>4
<1> QED
  BY <1>1, <1>2, BondedChanges

\* PersistDevice keeps the records consistent.
LEMMA PersistedConsistent ==
  ASSUME TypeOK, Consistent(devices), NEW address \in Address
  PROVE  /\ Consistent(Persisted(address))
         /\ \A i \in DOMAIN Persisted(address) :
              \/ Persisted(address)[i].address = address
              \/ \E j \in DOMAIN devices : Persisted(address)[i].address = devices[j].address
<1> DEFINE added == Added(devices, address)
           bond == bond_for_address(address)
<1>1. IsRecords(devices) /\ peers \in Seq(Bond)
  BY DEF TypeOK
<1>2. bond \in Bond \cup {NoBond} /\ (bond # NoBond => is_match(bond, address))
  BY <1>1, BondFound
<1>3. IsRecords(added) /\ Consistent(added)
      /\ \A i \in DOMAIN added :
           \/ added[i].address = address
           \/ \E j \in DOMAIN devices : added[i].address = devices[j].address
  BY <1>1, AddedTyped, AddedConsistent
<1>4. Persisted(address) = Bonded(added, address, bond)
  BY DEF Persisted
<1> HIDE DEF added, bond
<1>5. /\ Consistent(Bonded(added, address, bond))
      /\ DOMAIN Bonded(added, address, bond) = DOMAIN added
      /\ \A i \in DOMAIN added : Bonded(added, address, bond)[i].address = added[i].address
  BY <1>2, <1>3, BondedConsistent
<1> QED
  BY <1>3, <1>4, <1>5

LEMMA AddressParts ==
  ASSUME NEW address \in Address
  PROVE  address[1] \in Device /\ address[2] \in 0 .. MaxRotations
BY DEF Address

\* What a device had it has had when it takes another address.
LEMMA StaysSeen ==
  ASSUME TypeOK, NEW d \in Device, Rotates(d), NEW address \in Address, Seen(address, rotation)
  PROVE  Seen(address, rotation')
<1>1. /\ address[1] \in Device /\ address[2] \in Nat
      /\ rotation' = [rotation EXCEPT ![d] = @ + 1]
      /\ rotation \in [Device -> Nat]
  BY AddressParts, DeviceStoreAssumption DEF Rotates, TypeOK
<1>2. rotation'[address[1]] >= rotation[address[1]] /\ rotation'[address[1]] \in Nat
  BY <1>1
<1> QED
  BY <1>1, <1>2 DEF Seen

LEMMA RecordsInitially == Init => RecordsInv
<1> SUFFICES ASSUME Init PROVE RecordsInv
  OBVIOUS
<1>1. \A i \in DOMAIN <<>> : FALSE
  OBVIOUS
<1>2. Consistent(<<>>) /\ SeenAll(<<>>, rotation)
  BY <1>1 DEF Consistent, OldestBonded, SeenAll
<1> QED
  BY <1>1, <1>2, TypeInitially DEF Init, RecordsInv, ConsistentInv, SeenInv

LEMMA RecordsStep == RecordsInv /\ [Next]_vars => RecordsInv'
<1> SUFFICES ASSUME RecordsInv, [Next]_vars PROVE RecordsInv'
  OBVIOUS
<1>1. TypeOK /\ TypeOK'
  BY TypeStep DEF RecordsInv
<1>2. \A i \in DOMAIN <<>> : FALSE
  OBVIOUS
<1>3. Consistent(<<>>) /\ \A has : SeenAll(<<>>, has)
  BY <1>2 DEF Consistent, OldestBonded, SeenAll
<1> SUFFICES ConsistentInv' /\ SeenInv'
  BY <1>1 DEF RecordsInv
<1>4. ASSUME NEW d \in Device, Rotates(d) PROVE ConsistentInv' /\ SeenInv'
  <2>1. /\ devices' = devices /\ flash' = flash /\ item' = item /\ connected' = connected
    BY <1>4 DEF Rotates, storeVars
  <2>2. ASSUME NEW q, IsRecords(q), SeenAll(q, rotation)
        PROVE  SeenAll(q, rotation')
    <3>1. \A i \in DOMAIN q : q[i] \in Record
      BY <2>2, DomainOf DEF IsRecords
    <3> QED
      BY <1>1, <1>4, <2>2, <3>1, StaysSeen DEF SeenAll, Record
  <2>3. \A i \in DOMAIN connected : connected[i] \in Address
    BY <1>1 DEF TypeOK
  <2>4. \A i \in DOMAIN connected : Seen(connected[i], rotation')
    BY <1>1, <1>4, <2>3, StaysSeen DEF RecordsInv, SeenInv
  <2> QED
    BY <1>1, <2>1, <2>2, <2>4 DEF RecordsInv, ConsistentInv, SeenInv, TypeOK
<1>5. ASSUME NEW d \in Device, Forgets(d) PROVE ConsistentInv' /\ SeenInv'
  BY <1>5 DEF Forgets, storeVars, RecordsInv, ConsistentInv, SeenInv
<1>6. ASSUME NEW d \in Device, NEW usable \in BOOLEAN, LinksUp(d, usable)
      PROVE  ConsistentInv' /\ SeenInv'
  <2>1. /\ UNCHANGED storeVars /\ rotation' = rotation
        /\ connected' = Append(connected, CurrentAddress(d)) \/ connected' = connected
    BY <1>6 DEF LinksUp, Encrypts, PairsAnew, ReportsConnected, bonderVars
  <2>2. Seen(CurrentAddress(d), rotation)
    <3>1. rotation[d] \in Nat
      BY <1>1, DeviceStoreAssumption DEF TypeOK
    <3> QED
      BY <3>1 DEF Seen, CurrentAddress
  <2>3. connected \in Seq(Address) /\ CurrentAddress(d) \in Address
    BY <1>1, CurrentAddressType DEF TypeOK
  <2>4. \A i \in DOMAIN connected : Seen(connected[i], rotation)
    BY DEF RecordsInv, SeenInv
  <2>5. \A i \in DOMAIN connected' : Seen(connected'[i], rotation)
    <3>1. CASE connected' = connected
      BY <2>4, <3>1
    <3>2. CASE connected' = Append(connected, CurrentAddress(d))
      <4>1. ASSUME NEW i \in DOMAIN connected'
            PROVE  \/ connected'[i] = CurrentAddress(d)
                   \/ i \in DOMAIN connected /\ connected'[i] = connected[i]
        BY <2>3, <3>2
      <4> QED
        BY <2>2, <2>4, <4>1
    <3> QED
      BY <2>1, <3>1, <3>2
  <2> QED
    BY <2>1, <2>5 DEF storeVars, RecordsInv, ConsistentInv, SeenInv
<1>7. CASE PersistDevice
  <2> DEFINE address == Head(connected)
  <2>1. /\ devices' = Persisted(address) /\ item' = devices' /\ address \in Address
        /\ flash' = flash /\ rotation' = rotation
        /\ connected # <<>> /\ connected' = Tail(connected)
    BY <1>1, <1>7, Persists DEF PersistDevice, bonderVars
  <2>2. connected \in Seq(Address)
    BY <1>1 DEF TypeOK
  <2>3. /\ address = connected[1] /\ 1 \in DOMAIN connected
        /\ \A i \in DOMAIN Tail(connected) :
              i + 1 \in DOMAIN connected /\ Tail(connected)[i] = connected[i + 1]
    BY <2>1, <2>2
  <2> HIDE DEF address
  <2>4. Seen(address, rotation) /\ \A i \in DOMAIN connected' : Seen(connected'[i], rotation)
    BY <2>1, <2>3 DEF RecordsInv, SeenInv
  <2>5. /\ Consistent(Persisted(address))
        /\ \A i \in DOMAIN Persisted(address) :
              \/ Persisted(address)[i].address = address
              \/ \E j \in DOMAIN devices : Persisted(address)[i].address = devices[j].address
    BY <1>1, <2>1, PersistedConsistent DEF RecordsInv, ConsistentInv
  <2>6. SeenAll(Persisted(address), rotation)
    BY <2>4, <2>5 DEF RecordsInv, SeenInv, SeenAll
  <2> QED
    BY <2>1, <2>4, <2>5, <2>6 DEF RecordsInv, ConsistentInv, SeenInv
<1>8. CASE WriteSucceeds
  BY <1>3, <1>8 DEF WriteSucceeds, bonderVars, RecordsInv, ConsistentInv, SeenInv
<1>9. CASE WriteFails
  BY <1>3, <1>9 DEF WriteFails, bonderVars, RecordsInv, ConsistentInv, SeenInv
<1>10. ASSUME NEW survives \in {flash, item}, Reboots(survives)
       PROVE  ConsistentInv' /\ SeenInv'
  BY <1>2, <1>3, <1>10 DEF Reboots, RecordsInv, ConsistentInv, SeenInv
<1>11. CASE UNCHANGED vars
  BY <1>11 DEF vars, RecordsInv, ConsistentInv, SeenInv
<1> QED
  BY <1>4, <1>5, <1>6, <1>7, <1>8, <1>9, <1>10, <1>11 DEF Next

\* The inductive invariant of the records holds.
THEOREM RecordsInductive == Spec => []RecordsInv
BY RecordsInitially, RecordsStep, PTL DEF Spec

\* No device is given the key of another, in RAM or in flash, and no address
\* has two records: add refuses a stored address, and set_bond_for_address
\* looks for the address or for what the bond's identity key recognises.  It
\* takes the oldest such record, so no bond recognises an older one's address.
THEOREM RecordsStayConsistent == Spec => []RecordsAreConsistent
<1>1. RecordsInv => RecordsAreConsistent
  BY DEF RecordsInv, ConsistentInv, Consistent, OldestBonded, RecordsAreConsistent
<1> QED
  BY RecordsInductive, <1>1, PTL

\* When PersistDevice has handled a device that was not reset meanwhile, some
\* record has the bond that device holds.
THEOREM BondIsPersisted == Spec => PersistedBondIsCurrent
<1>1. RecordsInv /\ [Next]_vars =>
        [PersistDevice =>
           LET d == Head(connected)[1]
           IN  holds[d] # NoBond /\ bond_for_address(Head(connected)) = holds[d]
                 => \E i \in DOMAIN devices' : devices'[i].bond = holds[d]]_vars
  <2> DEFINE address == Head(connected)
             bond == holds[address[1]]
             added == Added(devices, address)
  <2> SUFFICES ASSUME RecordsInv, PersistDevice, bond # NoBond, bond_for_address(address) = bond
               PROVE  \E i \in DOMAIN devices' : devices'[i].bond = bond
    OBVIOUS
  <2> TypeOK /\ Consistent(devices)
    BY DEF RecordsInv, ConsistentInv
  <2>1. address \in Address /\ devices' = Bonded(added, address, bond)
    BY Persists DEF Persisted
  <2>2. bond \in Bond \cup {NoBond}
    BY BondFound DEF TypeOK
  <2>3. IsRecords(added) /\ \E i \in DOMAIN added : added[i].address = address
    <3>1. IsRecords(devices)
      BY DEF TypeOK
    <3>2. IsRecords(added)
      BY <2>1, <3>1, AddedTyped
    <3>3. \E i \in DOMAIN added : added[i].address = address
      BY <2>1, <3>1, AddedConsistent
    <3> QED
      BY <3>2, <3>3
  <2> HIDE DEF address, bond, added
  <2>4. PICK k \in DOMAIN added : Bonded(added, address, bond) = Rebond(added, k, bond)
    BY <2>1, <2>2, <2>3, BondedChanges
  <2>5. k \in DOMAIN Rebond(added, k, bond) /\ Rebond(added, k, bond)[k].bond = bond
    BY <2>2, <2>3, Rebonds
  <2> QED
    BY <2>1, <2>4, <2>5
<1> QED
  BY <1>1, RecordsInitially, RecordsStep, PTL DEF Spec, PersistedBondIsCurrent

----------------------------------------------------------------------------
(* What boot goes through.                                                 *)

\* Flash has no more records than devices if none of these changed its
\* address.
LEMMA OneRecordEach ==
  ASSUME RecordsInv, \A d \in Stored : rotation[d] = 0
  PROVE  /\ \A i \in DOMAIN flash : flash[i].address = CurrentAddress(flash[i].address[1])
         /\ Len(flash) <= Cardinality(Stored) /\ Cardinality(Stored) \in Nat
<1>1. /\ IsRecords(flash) /\ DOMAIN flash = 1 .. Len(flash) /\ Len(flash) \in Nat
      /\ \A i \in DOMAIN flash : flash[i].address \in Address
  <2>1. flash \in Seq(Record)
    BY DEF RecordsInv, TypeOK, IsRecords
  <2>2. \A i \in DOMAIN flash : flash[i] \in Record
    BY <2>1, DomainOf
  <2> QED
    BY <2>1, <2>2, DomainOf DEF RecordsInv, TypeOK, Record
<1>2. ASSUME NEW i \in DOMAIN flash
      PROVE  flash[i].address = CurrentAddress(flash[i].address[1])
  <2> DEFINE address == flash[i].address
  <2>1. address \in Address /\ address[1] \in Stored /\ Seen(address, rotation)
    BY <1>1 DEF Stored, RecordsInv, SeenInv, SeenAll
  <2> HIDE DEF address
  <2>2. rotation[address[1]] = 0
    BY <2>1
  <2>3. address[2] \in Nat /\ address[2] <= 0 /\ address = <<address[1], address[2]>>
    BY <2>1, <2>2 DEF Address, Seen
  <2>4. address[2] = 0
    BY <2>3
  <2>5. address = CurrentAddress(address[1])
    BY <2>2, <2>3, <2>4 DEF CurrentAddress
  <2> QED
    BY <2>5 DEF address
<1> DEFINE owner == [i \in DOMAIN flash |-> flash[i].address[1]]
<1>3. IsFiniteSet(DOMAIN flash) /\ Cardinality(DOMAIN flash) = Len(flash)
  <2>1. ASSUME NEW k \in Nat
        PROVE  IsFiniteSet(1 .. k) /\ Cardinality(1 .. k) = k
    BY ONLY FS_Interval, <2>1
  <2> QED
    BY <1>1, <2>1
<1>4. owner \in Surjection(DOMAIN flash, Stored)
  BY DEF Surjection, Stored
<1>5. IsFiniteSet(Stored)
  BY <1>3, <1>4, FS_Surjection
<1>6. owner \in Injection(DOMAIN flash, Stored)
  <2>1. ASSUME NEW i \in DOMAIN flash, NEW j \in DOMAIN flash, owner[i] = owner[j]
        PROVE  i = j
    <3>1. flash[i].address = flash[j].address
      BY <1>2, <2>1
    <3> QED
      BY <3>1 DEF RecordsInv, ConsistentInv, Consistent
  <2>2. owner \in [DOMAIN flash -> Stored]
    BY <1>4 DEF Surjection
  <2> HIDE DEF owner
  <2> QED
    BY <2>1, <2>2 DEF Injection, IsInjective
<1>7. Len(flash) <= Cardinality(Stored) /\ Cardinality(Stored) \in Nat
  BY <1>3, <1>5, <1>6, FS_Injection, FS_CardinalityType
<1> QED
  BY <1>2, <1>7

\* Boot goes through every record if there are no more than slots.
LEMMA BootTakesAll ==
  ASSUME TypeOK, Len(flash) <= MAX_CONNECTIONS, NEW i \in DOMAIN flash
  PROVE  Len(flash) - i + 1 \in DOMAIN BootRecords /\ BootRecords[Len(flash) - i + 1] = flash[i]
<1>1. /\ flash \in Seq(Record) /\ DOMAIN flash = 1 .. Len(flash) /\ Len(flash) \in Nat
      /\ MAX_CONNECTIONS \in Nat
  BY DeviceStoreAssumption DEF TypeOK, IsRecords
<1>2. /\ Reverse(flash) \in Seq(Record) /\ Len(Reverse(flash)) = Len(flash)
      /\ \A j \in 1 .. Len(flash) : Reverse(flash)[j] = flash[Len(flash) - j + 1]
  BY <1>1 DEF Reverse
<1> DEFINE back == Reverse(flash)
<1> HIDE DEF back
<1>3. BootRecords = SubSeq(back, 1, Len(flash))
  <2>1. \A m, n \in Nat : n <= m => (IF n < m THEN n ELSE m) = n
    OBVIOUS
  <2>2. (IF Len(flash) < MAX_CONNECTIONS THEN Len(flash) ELSE MAX_CONNECTIONS) = Len(flash)
    BY <1>1, <2>1
  <2> QED
    BY <2>2 DEF BootRecords, back
<1>4. SubSeq(back, 1, Len(flash)) = back
  BY <1>1, <1>2, SubSeqFull DEF back
<1>5. Len(flash) - i + 1 \in 1 .. Len(flash) /\ Len(flash) - (Len(flash) - i + 1) + 1 = i
  BY <1>1
<1>6. back[Len(flash) - i + 1] = flash[i] /\ Len(flash) - i + 1 \in DOMAIN back
  BY <1>1, <1>2, <1>5 DEF back
<1> QED
  BY <1>3, <1>4, <1>6

\* Boot goes through the newest records, the newest first.
LEMMA BootTakesNewest ==
  ASSUME TypeOK, NEW i \in DOMAIN BootRecords
  PROVE  /\ i \in 1 .. Len(flash) /\ Len(flash) - i + 1 \in DOMAIN flash
         /\ BootRecords[i] = flash[Len(flash) - i + 1]
<1> DEFINE back == Reverse(flash)
           n == IF Len(flash) < MAX_CONNECTIONS THEN Len(flash) ELSE MAX_CONNECTIONS
<1>1. /\ flash \in Seq(Record) /\ DOMAIN flash = 1 .. Len(flash) /\ Len(flash) \in Nat
      /\ MAX_CONNECTIONS \in Nat
  BY DeviceStoreAssumption DEF TypeOK, IsRecords
<1>2. /\ back \in Seq(Record) /\ Len(back) = Len(flash)
      /\ \A j \in 1 .. Len(flash) : back[j] = flash[Len(flash) - j + 1]
  BY <1>1 DEF Reverse
<1>3. n \in 0 .. Len(flash)
  BY <1>1
<1>4. BootRecords = SubSeq(back, 1, n)
  BY DEF BootRecords
<1> HIDE DEF back, n
<1>5. DOMAIN SubSeq(back, 1, n) = 1 .. n /\ \A j \in 1 .. n : SubSeq(back, 1, n)[j] = back[j]
  BY <1>1, <1>2, <1>3
<1>6. i \in 1 .. n
  BY <1>4, <1>5
<1>7. i \in 1 .. Len(flash) /\ Len(flash) - i + 1 \in 1 .. Len(flash)
  BY <1>1, <1>3, <1>6
<1> QED
  BY <1>1, <1>2, <1>4, <1>5, <1>6, <1>7

\* The boot lists as MultiConn's PeerLists has them: no address is there
\* twice, and no bond recognises the address of an older record, which comes
\* after it.
BootListIsAllowed ==
    \A i, j \in DOMAIN BootRecords : i < j =>
        /\ BootRecords[i].address # BootRecords[j].address
        /\ BootRecords[i].bond # NoBond =>
              ~is_match(BootRecords[i].bond, BootRecords[j].address)

\* What boot goes through (multi_conn.rs:193-205) is a list that MultiConn
\* assumes, whatever was paired, rotated, evicted or lost before: the bonds
\* were attached to the oldest record they recognise (storage.rs:399-405).
THEOREM BootListsAreAsAssumed == Spec => []BootListIsAllowed
<1>1. ASSUME RecordsInv, NEW i \in DOMAIN BootRecords, NEW j \in DOMAIN BootRecords, i < j
      PROVE  /\ BootRecords[i].address # BootRecords[j].address
             /\ BootRecords[i].bond # NoBond =>
                   ~is_match(BootRecords[i].bond, BootRecords[j].address)
  <2> DEFINE x == Len(flash) - i + 1
             y == Len(flash) - j + 1
  <2>1. /\ i \in 1 .. Len(flash) /\ x \in DOMAIN flash /\ BootRecords[i] = flash[x]
        /\ j \in 1 .. Len(flash) /\ y \in DOMAIN flash /\ BootRecords[j] = flash[y]
    BY <1>1, BootTakesNewest DEF RecordsInv
  <2>2. Len(flash) \in Nat
    BY <1>1 DEF RecordsInv, TypeOK, IsRecords
  <2>3. y \in 1 .. x - 1 /\ x # y
    BY <1>1, <2>1, <2>2
  <2> HIDE DEF x, y
  <2> QED
    BY <1>1, <2>1, <2>3 DEF RecordsInv, ConsistentInv, Consistent, OldestBonded
<1>2. RecordsInv => BootListIsAllowed
  BY <1>1 DEF BootListIsAllowed
<1> QED
  BY RecordsInductive, <1>2, PTL

\* As long as no more devices are stored than there are slots, and none of
\* them changed its address, boot finds every one, whatever was paired anew,
\* written or lost on the way (multi_conn.rs:191-192).
THEOREM SteadyDevicesAreFound == Spec => []SteadyDevicesComeBack
<1>1. RecordsInv => SteadyDevicesComeBack
  <2> SUFFICES ASSUME RecordsInv, Cardinality(Stored) <= MAX_CONNECTIONS,
                      \A d \in Stored : rotation[d] = 0,
                      NEW d \in Stored
               PROVE  BootFinds(d)
    BY DEF SteadyDevicesComeBack
  <2>1. PICK i \in DOMAIN flash : d = flash[i].address[1]
    BY DEF Stored
  <2>2. flash[i].address = CurrentAddress(d)
    BY <2>1, OneRecordEach
  <2>3. Len(flash) <= Cardinality(Stored) /\ Len(flash) \in Nat
    BY OneRecordEach DEF RecordsInv, TypeOK, IsRecords
  <2>4. Cardinality(Stored) \in Int /\ MAX_CONNECTIONS \in Int
    BY OneRecordEach, DeviceStoreAssumption
  <2>5. Len(flash) <= MAX_CONNECTIONS
    BY <2>3, <2>4
  <2>6. /\ Len(flash) - i + 1 \in DOMAIN BootRecords
        /\ BootRecords[Len(flash) - i + 1] = flash[i]
    BY <2>5, BootTakesAll DEF RecordsInv
  <2> QED
    BY <2>2, <2>6 DEF BootFinds
<1> QED
  BY RecordsInductive, <1>1, PTL

----------------------------------------------------------------------------
(* Records as bytes.                                                       *)

\* The sizes, as numbers.
LEMMA Sizes ==
  /\ ADDR_BYTES \in 1 .. 255 /\ NAME_CAP \in 1 .. 255
  /\ KEY_BYTES \in 1 .. 255 /\ IRK_BYTES \in 1 .. 255
  /\ BaseSize = ADDR_BYTES + 3 /\ ADDRESS_RECORD_SIZE = ADDR_BYTES + 1
  /\ BOND_RECORD_SIZE = 2 + KEY_BYTES + 1 + IRK_BYTES + (ADDR_BYTES + 1)
  /\ BaseSize \in Nat /\ BOND_RECORD_SIZE \in Nat
<1>1. /\ ADDR_BYTES \in 1 .. 255 /\ NAME_CAP \in 1 .. 255
      /\ KEY_BYTES \in 1 .. 255 /\ IRK_BYTES \in 1 .. 255
  BY FlashFormatAssumption
<1> QED
  BY <1>1 DEF BaseSize, ADDRESS_RECORD_SIZE, BOND_RECORD_SIZE

\* The type of an address is read as it was written.
LEMMA TypesAsBytes ==
  /\ \A t \in Range(AddressTypes) :
        /\ address_type_to_byte(t) \in 0 .. 4
        /\ byte_to_address_type(address_type_to_byte(t)) = t
  /\ \A b \in Byte : byte_to_address_type(b) \in Range(AddressTypes)
<1>1. /\ AddressTypes \in [1 .. 5 -> Range(AddressTypes)]
      /\ Range(AddressTypes) = {AddressTypes[k] : k \in 1 .. 5}
      /\ AddressTypes[2] = "RandomStatic"
  BY DEF AddressTypes, Range
<1>2. ASSUME NEW t \in Range(AddressTypes)
      PROVE  /\ address_type_to_byte(t) \in 0 .. 4
             /\ byte_to_address_type(address_type_to_byte(t)) = t
  <2> DEFINE n == CHOOSE k \in 1 .. 5 : AddressTypes[k] = t
  <2>1. n \in 1 .. 5 /\ AddressTypes[n] = t
    BY <1>1
  <2> HIDE DEF n
  <2>2. n - 1 \in 0 .. 4 /\ n - 1 < 5 /\ (n - 1) + 1 = n
    BY <2>1
  <2>3. address_type_to_byte(t) = n - 1
    BY DEF n, address_type_to_byte
  <2> QED
    BY <2>1, <2>2, <2>3 DEF byte_to_address_type
<1>3. ASSUME NEW b \in Byte PROVE byte_to_address_type(b) \in Range(AddressTypes)
  <2>1. CASE b < 5
    <3>1. b + 1 \in 1 .. 5
      BY <2>1 DEF Byte
    <3> QED
      BY <1>1, <2>1, <3>1 DEF byte_to_address_type
  <2>2. CASE ~ (b < 5)
    BY <1>1, <2>2 DEF byte_to_address_type
  <2> QED
    BY <2>1, <2>2
<1> QED
  BY <1>2, <1>3

\* The fields of an address.
LEMMA AddressFields ==
  ASSUME NEW a \in AddressRecord
  PROVE  /\ a.bytes \in Data /\ Size(a.bytes) = ADDR_BYTES /\ a.type \in Range(AddressTypes)
         /\ a = [bytes |-> a.bytes, type |-> a.type]
<1>1. /\ a.bytes \in Bytes(ADDR_BYTES) /\ a.type \in Range(AddressTypes)
      /\ a = [bytes |-> a.bytes, type |-> a.type]
  BY DEF AddressRecord
<1> QED
  BY <1>1 DEF Bytes, Data, Size

\* Where the parts of an address are.
LEMMA AddressBytes ==
  ASSUME NEW a \in AddressRecord
  PROVE  /\ serialize_address(a) \in Data /\ Size(serialize_address(a)) = ADDR_BYTES + 1
         /\ address_type_to_byte(a.type) \in Byte
         /\ Has(serialize_address(a), 0, a.bytes)
         /\ Has(serialize_address(a), ADDR_BYTES, <<address_type_to_byte(a.type)>>)
<1>1. a.bytes \in Data /\ Size(a.bytes) = ADDR_BYTES
  BY AddressFields
<1>2. address_type_to_byte(a.type) \in Byte
  <2>1. address_type_to_byte(a.type) \in 0 .. 4
    BY AddressFields, TypesAsBytes
  <2> QED
    BY <2>1 DEF Byte
<1>3. /\ <<address_type_to_byte(a.type)>> \in Data
      /\ Size(<<address_type_to_byte(a.type)>>) = 1
  BY <1>2, OneByte
<1>4. serialize_address(a) = a.bytes \o <<address_type_to_byte(a.type)>>
  BY <1>1, <1>2, AppendIsConcat DEF serialize_address, Data
<1>5. /\ a.bytes \o <<address_type_to_byte(a.type)>> \in Data
      /\ Size(a.bytes \o <<address_type_to_byte(a.type)>>) = ADDR_BYTES + 1
      /\ Has(a.bytes \o <<address_type_to_byte(a.type)>>, 0, a.bytes)
      /\ Has(a.bytes \o <<address_type_to_byte(a.type)>>, ADDR_BYTES,
             <<address_type_to_byte(a.type)>>)
  BY <1>1, <1>3, TwoParts
<1> QED
  BY <1>2, <1>4, <1>5

\* Reading an address from anything that begins with its bytes.
LEMMA AddressRead ==
  ASSUME NEW a \in AddressRecord, NEW data \in Data, Has(data, 0, serialize_address(a))
  PROVE  deserialize_address(data) = a
<1>1. /\ a.bytes \in Data /\ Size(a.bytes) = ADDR_BYTES /\ ADDR_BYTES \in Nat
      /\ a = [bytes |-> a.bytes, type |-> a.type] /\ a.type \in Range(AddressTypes)
  BY AddressFields, Sizes
<1>2. /\ address_type_to_byte(a.type) \in Byte
      /\ <<address_type_to_byte(a.type)>> \in Data
      /\ Has(data, 0, a.bytes) /\ Has(data, ADDR_BYTES, <<address_type_to_byte(a.type)>>)
  <2>1. 0 + 0 = 0 /\ 0 + ADDR_BYTES = ADDR_BYTES
    BY <1>1
  <2>2. <<address_type_to_byte(a.type)>> \in Data
    BY AddressBytes, OneByte
  <2>3. /\ serialize_address(a) \in Data /\ address_type_to_byte(a.type) \in Byte
        /\ Has(serialize_address(a), 0, a.bytes)
        /\ Has(serialize_address(a), ADDR_BYTES, <<address_type_to_byte(a.type)>>)
    BY AddressBytes
  <2>4. Has(data, 0 + 0, a.bytes)
    BY <1>1, <2>3, HasWithin
  <2>5. Has(data, 0 + ADDR_BYTES, <<address_type_to_byte(a.type)>>)
    BY <1>1, <2>2, <2>3, HasWithin
  <2> QED
    BY <2>1, <2>2, <2>3, <2>4, <2>5
<1>3. Slice(data, 0, ADDR_BYTES) = a.bytes
  <2>1. ADDR_BYTES = 0 + Size(a.bytes)
    BY <1>1
  <2> QED
    BY <1>1, <1>2, <2>1, HasSlice
<1>4. byte_to_address_type(At(data, ADDR_BYTES)) = a.type
  <2>1. At(data, ADDR_BYTES) = address_type_to_byte(a.type)
    BY <1>1, <1>2, HasByte
  <2> QED
    BY <1>1, <2>1, TypesAsBytes
<1> QED
  BY <1>1, <1>3, <1>4 DEF deserialize_address

\* The fields of a bond.
LEMMA BondFields ==
  ASSUME NEW b \in BondRecord
  PROVE  /\ b.ediv \in Word /\ b.flags \in Byte /\ b.addr \in AddressRecord
         /\ b.key \in Data /\ Size(b.key) = KEY_BYTES
         /\ b.irk \in Data /\ Size(b.irk) = IRK_BYTES
         /\ b = [ediv |-> b.ediv, key |-> b.key, flags |-> b.flags, irk |-> b.irk,
                 addr |-> b.addr]
<1>1. /\ b.ediv \in Word /\ b.flags \in Byte /\ b.addr \in AddressRecord
      /\ b.key \in Bytes(KEY_BYTES) /\ b.irk \in Bytes(IRK_BYTES)
      /\ b = [ediv |-> b.ediv, key |-> b.key, flags |-> b.flags, irk |-> b.irk, addr |-> b.addr]
  BY DEF BondRecord
<1>2. Bytes(KEY_BYTES) \subseteq Data /\ Bytes(IRK_BYTES) \subseteq Data
  BY DEF Bytes, Data, Size
<1>3. Size(b.key) = KEY_BYTES /\ Size(b.irk) = IRK_BYTES
  BY <1>1 DEF Bytes, Size
<1> QED
  BY <1>1, <1>2, <1>3

\* A word is its two bytes.
LEMMA EdivBytes ==
  ASSUME NEW e \in Word
  PROVE  /\ e % 256 \in Byte /\ e \div 256 \in Byte /\ e = (e % 256) + 256 * (e \div 256)
BY DEF Byte, Word

\* Where the parts of a bond are.
LEMMA BondBytes ==
  ASSUME NEW b \in BondRecord
  PROVE  /\ serialize_bond(b) \in Data /\ Size(serialize_bond(b)) = BOND_RECORD_SIZE
         /\ Has(serialize_bond(b), 0, <<b.ediv % 256, b.ediv \div 256>>)
         /\ Has(serialize_bond(b), 2, b.key)
         /\ Has(serialize_bond(b), 2 + KEY_BYTES, <<b.flags>>)
         /\ Has(serialize_bond(b), 2 + KEY_BYTES + 1, b.irk)
         /\ Has(serialize_bond(b), 2 + KEY_BYTES + 1 + IRK_BYTES, serialize_address(b.addr))
<1> DEFINE ediv == <<b.ediv % 256, b.ediv \div 256>>
           upToKey == ediv \o b.key
           flags == <<b.flags>>
           upToFlags == upToKey \o flags
           upToIrk == upToFlags \o b.irk
           addr == serialize_address(b.addr)
           bond == upToIrk \o addr
<1>1. /\ KEY_BYTES \in Nat /\ IRK_BYTES \in Nat /\ ADDR_BYTES \in Nat
      /\ BOND_RECORD_SIZE = 2 + KEY_BYTES + 1 + IRK_BYTES + (ADDR_BYTES + 1)
  BY Sizes
<1>2. ediv \in Data /\ Size(ediv) = 2
  <2>1. b.ediv % 256 \in Byte /\ b.ediv \div 256 \in Byte
    BY BondFields, EdivBytes
  <2> QED
    BY <2>1, TwoBytes
<1>3. b.key \in Data /\ Size(b.key) = KEY_BYTES /\ b.irk \in Data /\ Size(b.irk) = IRK_BYTES
  BY BondFields
<1>4. flags \in Data /\ Size(flags) = 1
  <2>1. b.flags \in Byte
    BY BondFields
  <2> QED
    BY <2>1, OneByte
<1>5. addr \in Data /\ Size(addr) = ADDR_BYTES + 1
  <2>1. b.addr \in AddressRecord
    BY BondFields
  <2> QED
    BY <2>1, AddressBytes
<1>6. serialize_bond(b) = bond
  BY Zenon DEF serialize_bond, bond, upToIrk, upToFlags, upToKey, ediv, addr, flags
<1> HIDE DEF ediv, flags, addr
<1>7. /\ upToKey \in Data /\ Size(upToKey) = 2 + KEY_BYTES
      /\ Has(upToKey, 0, ediv) /\ Has(upToKey, 2, b.key)
  BY <1>2, <1>3, TwoParts
<1> HIDE DEF upToKey
<1>8. /\ upToFlags \in Data /\ Size(upToFlags) = 2 + KEY_BYTES + 1
      /\ Has(upToFlags, 2 + KEY_BYTES, flags)
      /\ Has(upToFlags, 0, ediv) /\ Has(upToFlags, 2, b.key)
  <2>1. /\ upToFlags \in Data /\ Size(upToFlags) = 2 + KEY_BYTES + 1
        /\ Has(upToFlags, 2 + KEY_BYTES, flags)
    BY <1>4, <1>7, TwoParts
  <2>2. Has(upToFlags, 0, ediv)
    BY <1>2, <1>4, <1>7, HasFirst
  <2>3. Has(upToFlags, 2, b.key)
    BY <1>3, <1>4, <1>7, HasFirst
  <2> QED
    BY <2>1, <2>2, <2>3
<1> HIDE DEF upToFlags
<1>9. /\ upToIrk \in Data /\ Size(upToIrk) = 2 + KEY_BYTES + 1 + IRK_BYTES
      /\ Has(upToIrk, 2 + KEY_BYTES + 1, b.irk)
      /\ Has(upToIrk, 0, ediv) /\ Has(upToIrk, 2, b.key) /\ Has(upToIrk, 2 + KEY_BYTES, flags)
  <2>1. /\ upToIrk \in Data /\ Size(upToIrk) = 2 + KEY_BYTES + 1 + IRK_BYTES
        /\ Has(upToIrk, 2 + KEY_BYTES + 1, b.irk)
    BY <1>3, <1>8, TwoParts
  <2>2. Has(upToIrk, 0, ediv)
    BY <1>2, <1>3, <1>8, HasFirst
  <2>3. Has(upToIrk, 2, b.key)
    BY <1>3, <1>8, HasFirst
  <2>4. Has(upToIrk, 2 + KEY_BYTES, flags)
    <3>1. 2 + KEY_BYTES \in Nat
      BY <1>1
    <3> QED
      BY <1>3, <1>4, <1>8, <3>1, HasFirst
  <2> QED
    BY <2>1, <2>2, <2>3, <2>4
<1> HIDE DEF upToIrk
<1>10. /\ bond \in Data /\ Size(bond) = BOND_RECORD_SIZE
       /\ Has(bond, 2 + KEY_BYTES + 1 + IRK_BYTES, addr)
       /\ Has(bond, 0, ediv) /\ Has(bond, 2, b.key)
       /\ Has(bond, 2 + KEY_BYTES, flags) /\ Has(bond, 2 + KEY_BYTES + 1, b.irk)
  <2>1. /\ bond \in Data /\ Size(bond) = BOND_RECORD_SIZE
        /\ Has(bond, 2 + KEY_BYTES + 1 + IRK_BYTES, addr)
    BY <1>1, <1>5, <1>9, TwoParts
  <2>2. Has(bond, 0, ediv)
    BY <1>2, <1>5, <1>9, HasFirst
  <2>3. Has(bond, 2, b.key)
    BY <1>3, <1>5, <1>9, HasFirst
  <2>4. Has(bond, 2 + KEY_BYTES, flags)
    <3>1. 2 + KEY_BYTES \in Nat
      BY <1>1
    <3> QED
      BY <1>4, <1>5, <1>9, <3>1, HasFirst
  <2>5. Has(bond, 2 + KEY_BYTES + 1, b.irk)
    <3>1. 2 + KEY_BYTES + 1 \in Nat
      BY <1>1
    <3> QED
      BY <1>3, <1>5, <1>9, <3>1, HasFirst
  <2> QED
    BY <2>1, <2>2, <2>3, <2>4, <2>5
<1> QED
  BY <1>6, <1>10 DEF ediv, flags, addr

\* A bond is read as it was written.
LEMMA BondRead ==
  ASSUME NEW b \in BondRecord
  PROVE  deserialize_bond(serialize_bond(b)) = b
<1> DEFINE data == serialize_bond(b)
           irk == 2 + KEY_BYTES + 1
<1>1. /\ KEY_BYTES \in Nat /\ IRK_BYTES \in Nat /\ ADDR_BYTES \in Nat
      /\ BOND_RECORD_SIZE = irk + IRK_BYTES + (ADDR_BYTES + 1) /\ irk \in Nat
      /\ irk - 1 = 2 + KEY_BYTES
  BY Sizes
<1>2. /\ b.key \in Data /\ Size(b.key) = KEY_BYTES /\ b.irk \in Data /\ Size(b.irk) = IRK_BYTES
      /\ b.flags \in Byte /\ b.ediv \in Word /\ b.addr \in AddressRecord
  BY BondFields
<1>3. /\ data \in Data /\ Size(data) = BOND_RECORD_SIZE
      /\ Has(data, 0, <<b.ediv % 256, b.ediv \div 256>>) /\ Has(data, 2, b.key)
      /\ Has(data, 2 + KEY_BYTES, <<b.flags>>) /\ Has(data, irk, b.irk)
      /\ Has(data, irk + IRK_BYTES, serialize_address(b.addr))
  BY BondBytes
<1> HIDE DEF data, irk
<1>4. At(data, 0) + 256 * At(data, 1) = b.ediv
  <2>1. At(data, 0) = b.ediv % 256 /\ At(data, 0 + 1) = b.ediv \div 256 /\ 0 + 1 = 1
    BY <1>2, <1>3, EdivBytes, HasTwo
  <2> QED
    BY <1>2, <2>1, EdivBytes
<1>5. Slice(data, 2, 2 + KEY_BYTES) = b.key
  <2>1. 2 + KEY_BYTES = 2 + Size(b.key) /\ 2 \in Nat
    BY <1>2
  <2> QED
    BY <1>2, <1>3, <2>1, HasSlice
<1>6. At(data, irk - 1) = b.flags
  <2>1. 2 + KEY_BYTES \in Nat
    BY <1>1
  <2> QED
    BY <1>1, <1>2, <1>3, <2>1, HasByte
<1>7. Slice(data, irk, irk + IRK_BYTES) = b.irk
  <2>1. irk + IRK_BYTES = irk + Size(b.irk)
    BY <1>2, Zenon
  <2> QED
    BY <1>1, <1>2, <1>3, <2>1, HasSlice
<1>8. Slice(data, irk + IRK_BYTES, BOND_RECORD_SIZE) = serialize_address(b.addr)
  <2>1. serialize_address(b.addr) \in Data /\ Size(serialize_address(b.addr)) = ADDR_BYTES + 1
    BY <1>2, AddressBytes
  <2>2. /\ BOND_RECORD_SIZE = (irk + IRK_BYTES) + Size(serialize_address(b.addr))
        /\ irk + IRK_BYTES \in Nat
    BY <1>1, <2>1
  <2> QED
    BY <1>3, <2>1, <2>2, HasSlice
<1>9. deserialize_address(serialize_address(b.addr)) = b.addr
  <2>1. serialize_address(b.addr) \in Data
    BY <1>2, AddressBytes
  <2> QED
    BY <1>2, <2>1, HasAll, AddressRead
<1>10. deserialize_bond(data)
         = [ediv |-> b.ediv, key |-> b.key, flags |-> b.flags, irk |-> b.irk, addr |-> b.addr]
  BY <1>4, <1>5, <1>6, <1>7, <1>8, <1>9 DEF deserialize_bond, irk
<1> QED
  BY <1>10, BondFields DEF data

\* The fields of a device.
LEMMA DeviceFields ==
  ASSUME NEW d \in DeviceRecord
  PROVE  /\ d.address \in AddressRecord /\ d.last_rssi \in -128 .. 127
         /\ d.name \in Data /\ Size(d.name) \in 0 .. NAME_CAP
         /\ \A k \in DOMAIN d.name : d.name[k] < 128
         /\ d.bond = <<>> \/ \E b \in BondRecord : d.bond = <<b>>
         /\ d = [address |-> d.address, last_rssi |-> d.last_rssi, name |-> d.name,
                 bond |-> d.bond]
<1>1. /\ d.address \in AddressRecord /\ d.last_rssi \in -128 .. 127
      /\ d.name \in Names /\ d.bond \in MaybeBond
      /\ d = [address |-> d.address, last_rssi |-> d.last_rssi, name |-> d.name,
              bond |-> d.bond]
  BY DEF DeviceRecord
<1>2. d.name \in Seq(0 .. 127) /\ Len(d.name) <= NAME_CAP
  BY <1>1 DEF Names
<1>3. d.name \in Data /\ \A k \in DOMAIN d.name : d.name[k] < 128
  <2>1. 0 .. 127 \subseteq Byte
    BY DEF Byte
  <2>2. d.name \in Seq(Byte)
    BY <1>2, <2>1, SeqMonotonic
  <2>3. \A k \in DOMAIN d.name : d.name[k] \in 0 .. 127
    BY <1>2, ElementsOf
  <2>4. \A n \in 0 .. 127 : n < 128
    OBVIOUS
  <2> QED
    BY <2>2, <2>3, <2>4 DEF Data
<1>4. Size(d.name) \in 0 .. NAME_CAP
  BY <1>2, Sizes DEF Size
<1>5. d.bond = <<>> \/ \E b \in BondRecord : d.bond = <<b>>
  <2>1. d.bond \in Seq(BondRecord) /\ Len(d.bond) <= 1
    BY <1>1 DEF MaybeBond
  <2>2. CASE Len(d.bond) = 0
    BY <2>1, <2>2, EmptySeq
  <2>3. CASE Len(d.bond) = 1
    <3>1. d.bond[1] \in BondRecord
      BY <2>1, <2>3
    <3>2. <<d.bond[1]>> \in Seq(BondRecord) /\ Len(<<d.bond[1]>>) = 1
      BY <3>1
    <3>3. d.bond = <<d.bond[1]>>
      BY <2>1, <2>3, <3>2, SeqEqual
    <3> QED
      BY <3>1, <3>3
  <2> QED
    BY <2>1, <2>2, <2>3
<1> QED
  BY <1>1, <1>3, <1>4, <1>5

\* A signal strength is read as it was written.
LEMMA RssiAsByte ==
  ASSUME NEW r \in -128 .. 127
  PROVE  as_u8(r) \in Byte /\ as_i8(as_u8(r)) = r
BY DEF as_u8, as_i8, Byte

\* Where the parts of a record are, up to the name.
LEMMA BaseBytes ==
  ASSUME NEW d \in DeviceRecord
  PROVE  /\ serialize_base(d) \in Data
         /\ Size(serialize_base(d)) = BaseSize + Size(d.name)
         /\ Has(serialize_base(d), 0, serialize_address(d.address))
         /\ Has(serialize_base(d), ADDR_BYTES + 1, <<as_u8(d.last_rssi), Size(d.name)>>)
         /\ Has(serialize_base(d), BaseSize, d.name)
<1> DEFINE addr == serialize_address(d.address)
           two == <<as_u8(d.last_rssi), Size(d.name)>>
           upToLength == addr \o two
           base == upToLength \o d.name
<1>1. ADDR_BYTES \in Nat /\ ADDR_BYTES + 1 \in Nat /\ BaseSize = ADDR_BYTES + 3
  BY Sizes
<1>2. addr \in Data /\ Size(addr) = ADDR_BYTES + 1
  <2>1. d.address \in AddressRecord
    BY DeviceFields
  <2> QED
    BY <2>1, AddressBytes
<1>3. d.name \in Data /\ Size(d.name) \in Byte
  <2>1. d.name \in Data /\ Size(d.name) \in 0 .. NAME_CAP
    BY DeviceFields
  <2> QED
    BY <2>1, Sizes DEF Byte
<1>4. two \in Data /\ Size(two) = 2
  <2>1. as_u8(d.last_rssi) \in Byte
    BY DeviceFields, RssiAsByte
  <2> QED
    BY <1>3, <2>1, TwoBytes
<1>5. serialize_base(d) = base
  BY Zenon DEF serialize_base, Size
<1> HIDE DEF addr, two
<1>6. /\ upToLength \in Data /\ Size(upToLength) = BaseSize
      /\ Has(upToLength, 0, addr) /\ Has(upToLength, ADDR_BYTES + 1, two)
  BY <1>1, <1>2, <1>4, TwoParts
<1> HIDE DEF upToLength
<1>7. /\ base \in Data /\ Size(base) = BaseSize + Size(d.name)
      /\ Has(base, BaseSize, d.name)
  BY <1>3, <1>6, TwoParts
<1>8. Has(base, 0, addr)
  BY <1>2, <1>3, <1>6, HasFirst
<1>9. Has(base, ADDR_BYTES + 1, two)
  BY <1>1, <1>3, <1>4, <1>6, HasFirst
<1> QED
  BY <1>5, <1>7, <1>8, <1>9 DEF addr, two

\* The record up to the name is read as it was written, whatever follows it.
LEMMA BaseRead ==
  ASSUME NEW d \in DeviceRecord, NEW data \in Data, Has(data, 0, serialize_base(d))
  PROVE  /\ deserialize_base(data) = <<[d EXCEPT !.bond = <<>>]>>
         /\ At(data, BaseSize - 1) = Size(d.name)
<1>1. /\ ADDR_BYTES \in Nat /\ ADDR_BYTES + 1 \in Nat /\ BaseSize \in Nat
      /\ BaseSize - 1 = (ADDR_BYTES + 1) + 1 /\ ADDRESS_RECORD_SIZE = ADDR_BYTES + 1
      /\ NAME_CAP \in 1 .. 255
  BY Sizes
<1>2. /\ d.address \in AddressRecord /\ d.last_rssi \in -128 .. 127
      /\ d.name \in Data /\ Size(d.name) \in 0 .. NAME_CAP
      /\ \A k \in DOMAIN d.name : d.name[k] < 128
      /\ as_u8(d.last_rssi) \in Byte
  BY DeviceFields, RssiAsByte
<1>3. Size(d.name) \in Byte /\ Size(d.name) \in Nat
  BY <1>1, <1>2 DEF Byte
<1>4. /\ serialize_base(d) \in Data /\ Size(serialize_base(d)) = BaseSize + Size(d.name)
      /\ serialize_address(d.address) \in Data
      /\ <<as_u8(d.last_rssi), Size(d.name)>> \in Data
  BY <1>2, <1>3, BaseBytes, AddressBytes, TwoBytes
<1>5. Has(data, 0 + 0, serialize_address(d.address))
  <2>1. Has(serialize_base(d), 0, serialize_address(d.address))
    BY BaseBytes
  <2> QED
    BY <1>4, <2>1, HasWithin
<1>6. Has(data, 0 + (ADDR_BYTES + 1), <<as_u8(d.last_rssi), Size(d.name)>>)
  <2>1. Has(serialize_base(d), ADDR_BYTES + 1, <<as_u8(d.last_rssi), Size(d.name)>>)
    BY BaseBytes
  <2> QED
    BY <1>1, <1>4, <2>1, HasWithin
<1>7. Has(data, 0 + BaseSize, d.name)
  <2>1. Has(serialize_base(d), BaseSize, d.name)
    BY BaseBytes
  <2> QED
    BY <1>1, <1>2, <1>4, <2>1, HasWithin
<1>8. /\ 0 + 0 = 0 /\ 0 + (ADDR_BYTES + 1) = ADDR_BYTES + 1 /\ 0 + BaseSize = BaseSize
  BY <1>1
<1>9. deserialize_address(data) = d.address
  BY <1>2, <1>5, <1>8, AddressRead
<1>10. At(data, ADDRESS_RECORD_SIZE) = as_u8(d.last_rssi) /\ At(data, BaseSize - 1) = Size(d.name)
  <2>1. /\ At(data, ADDR_BYTES + 1) = as_u8(d.last_rssi)
        /\ At(data, (ADDR_BYTES + 1) + 1) = Size(d.name)
    BY <1>1, <1>2, <1>3, <1>6, <1>8, HasTwo
  <2> QED
    BY <1>1, <2>1
<1>11. /\ Slice(data, BaseSize, BaseSize + Size(d.name)) = d.name
       /\ BaseSize + Size(d.name) <= Size(data)
  BY <1>1, <1>2, <1>7, <1>8, HasSlice
<1>12. NameFrom(d.name) = d.name
  <2>1. ~ \E b \in Range(d.name) : b >= 128
    <3>1. Range(d.name) = {d.name[k] : k \in DOMAIN d.name}
      BY DEF Range
    <3>2. \A k \in DOMAIN d.name : d.name[k] \in Byte /\ d.name[k] < 128
      BY <1>2, Elements
    <3>3. ASSUME NEW b \in Range(d.name) PROVE ~ (b >= 128)
      BY <3>1, <3>2, <3>3 DEF Byte
    <3> QED
      BY <3>3
  <2>2. (IF Len(d.name) < NAME_CAP THEN Len(d.name) ELSE NAME_CAP) = Len(d.name)
    <3> DEFINE n == Len(d.name)
    <3>1. n \in 0 .. NAME_CAP /\ NAME_CAP \in 1 .. 255
      <4>1. n = Size(d.name)
        BY DEF Size
      <4> HIDE DEF n
      <4> QED
        BY <1>1, <1>2, <4>1, Zenon
    <3> HIDE DEF n
    <3>2. (IF n < NAME_CAP THEN n ELSE NAME_CAP) = n
      BY ONLY <3>1
    <3> QED
      BY <3>2 DEF n
  <2>3. SubSeq(d.name, 1, Len(d.name)) = d.name
    BY <1>2, SubSeqFull DEF Data
  <2> QED
    BY <2>1, <2>2, <2>3 DEF NameFrom
<1>13. ~ (Len(data) < BaseSize) /\ ~ (Len(data) < BaseSize + Size(d.name))
  <2>1. Size(data) \in Nat
    BY Elements
  <2> QED
    BY <1>1, <1>3, <1>11, <2>1 DEF Size
<1>14. deserialize_base(data)
         = <<[address |-> d.address, last_rssi |-> d.last_rssi, name |-> d.name, bond |-> <<>>]>>
  <2>1. as_i8(as_u8(d.last_rssi)) = d.last_rssi
    BY <1>2, RssiAsByte
  <2>2. /\ At(data, ADDRESS_RECORD_SIZE) = as_u8(d.last_rssi)
        /\ At(data, BaseSize - 1) = Size(d.name)
    BY <1>10
  <2> QED
    BY <1>9, <1>11, <1>12, <1>13, <2>1, <2>2, Zenon DEF deserialize_base
<1>15. [d EXCEPT !.bond = <<>>]
         = [address |-> d.address, last_rssi |-> d.last_rssi, name |-> d.name, bond |-> <<>>]
  <2>1. d = [address |-> d.address, last_rssi |-> d.last_rssi, name |-> d.name, bond |-> d.bond]
    BY DeviceFields
  <2> QED
    BY ONLY <2>1
<1> QED
  BY <1>10, <1>14, <1>15, Zenon

\* Where the parts of a record are; a byte is enough for its length.
LEMMA RecordSize ==
  ASSUME NEW d \in DeviceRecord
  PROVE  /\ RecordBytes(d) \in Data
         /\ Size(RecordBytes(d)) \in 1 .. 255
         /\ Has(RecordBytes(d), 0, serialize_base(d))
         /\ d.bond = <<>> => Has(RecordBytes(d), BaseSize + Size(d.name), <<0>>)
         /\ \A b \in BondRecord :
               d.bond = <<b>> =>
                 /\ Has(RecordBytes(d), BaseSize + Size(d.name), <<1>>)
                 /\ Has(RecordBytes(d), BaseSize + Size(d.name) + 1, serialize_bond(b))
                 /\ Size(RecordBytes(d)) = BaseSize + Size(d.name) + 1 + BOND_RECORD_SIZE
<1> DEFINE base == serialize_base(d)
           end == BaseSize + Size(d.name)
<1>1. /\ BaseSize \in Nat /\ BOND_RECORD_SIZE \in Nat /\ NAME_CAP \in 1 .. 255
      /\ BaseSize + NAME_CAP + 1 + BOND_RECORD_SIZE <= 255
  BY Sizes, RecordsAssumption
<1>2. /\ base \in Data /\ Size(base) = end /\ Size(d.name) \in 0 .. NAME_CAP /\ end \in Nat
      /\ end + 1 \in Nat /\ end + 1 + BOND_RECORD_SIZE <= 255
  <2>1. base \in Data /\ Size(base) = end /\ Size(d.name) \in 0 .. NAME_CAP
    BY BaseBytes, DeviceFields
  <2> HIDE DEF base
  <2> QED
    BY <1>1, <2>1
<1>3. /\ <<0>> \in Data /\ Size(<<0>>) = 1 /\ <<1>> \in Data /\ Size(<<1>>) = 1
  <2>1. 0 \in Byte /\ 1 \in Byte
    BY DEF Byte
  <2> QED
    BY <2>1, OneByte
<1> HIDE DEF end, base
<1>4. CASE d.bond = <<>>
  <2>1. RecordBytes(d) = base \o <<0>>
    BY <1>4, Zenon DEF RecordBytes, base
  <2>2. /\ base \o <<0>> \in Data /\ Size(base \o <<0>>) = end + 1
        /\ Has(base \o <<0>>, 0, base) /\ Has(base \o <<0>>, end, <<0>>)
    BY <1>2, <1>3, TwoParts
  <2>3. end + 1 \in 1 .. 255
    BY <1>1, <1>2
  <2>4. \A b \in BondRecord : d.bond # <<b>>
    BY <1>4
  <2> QED
    BY <1>4, <2>1, <2>2, <2>3, <2>4 DEF end, base
<1>5. ASSUME NEW b \in BondRecord, d.bond = <<b>>
      PROVE  /\ RecordBytes(d) \in Data
             /\ Size(RecordBytes(d)) = end + 1 + BOND_RECORD_SIZE
             /\ Has(RecordBytes(d), 0, base)
             /\ Has(RecordBytes(d), end, <<1>>)
             /\ Has(RecordBytes(d), end + 1, serialize_bond(b))
  <2> DEFINE bond == serialize_bond(b)
             rest == <<1>> \o bond
             all == base \o rest
  <2>1. bond \in Data /\ Size(bond) = BOND_RECORD_SIZE
    BY BondBytes
  <2>2. RecordBytes(d) = all
    <3>1. d.bond # <<>> /\ d.bond[1] = b
      BY <1>5
    <3> QED
      BY <3>1, Zenon DEF RecordBytes, base, all, rest, bond
  <2> HIDE DEF bond
  <2>3. /\ rest \in Data /\ Size(rest) = 1 + BOND_RECORD_SIZE
        /\ Has(rest, 0, <<1>>) /\ Has(rest, 1, bond)
    BY <1>3, <2>1, TwoParts
  <2> HIDE DEF rest
  <2>4. /\ all \in Data /\ Size(all) = end + (1 + BOND_RECORD_SIZE)
        /\ Has(all, 0, base) /\ Has(all, end, rest)
    BY <1>2, <2>3, TwoParts
  <2> HIDE DEF all
  <2>5. Has(all, end + 0, <<1>>)
    BY <1>2, <1>3, <2>3, <2>4, HasWithin
  <2>6. Has(all, end + 1, bond)
    BY <1>2, <2>1, <2>3, <2>4, HasWithin
  <2>7. end + 0 = end /\ end + (1 + BOND_RECORD_SIZE) = end + 1 + BOND_RECORD_SIZE
    BY <1>1, <1>2
  <2> QED
    BY <2>2, <2>4, <2>5, <2>6, <2>7 DEF bond
<1>6. CASE d.bond # <<>>
  <2>1. PICK b \in BondRecord : d.bond = <<b>>
    BY <1>6, DeviceFields
  <2>2. /\ RecordBytes(d) \in Data /\ Size(RecordBytes(d)) = end + 1 + BOND_RECORD_SIZE
        /\ Has(RecordBytes(d), 0, base)
    BY <1>5, <2>1
  <2>3. Size(RecordBytes(d)) \in 1 .. 255
    BY <1>1, <1>2, <2>2
  <2> QED
    BY <1>5, <1>6, <2>2, <2>3 DEF end, base
<1> QED
  BY <1>4, <1>6

\* A record is read as it was written.
LEMMA RecordRead ==
  ASSUME NEW d \in DeviceRecord
  PROVE  deserialize(RecordBytes(d)) = <<d>>
<1> DEFINE data == RecordBytes(d)
           base == [d EXCEPT !.bond = <<>>]
           end == BaseSize + Size(d.name)
<1>1. data \in Data /\ Has(data, 0, serialize_base(d))
  BY RecordSize
<1>2. deserialize_base(data) = <<base>> /\ At(data, BaseSize - 1) = Size(d.name)
  BY <1>1, BaseRead
<1>3. BaseSize \in Nat /\ BOND_RECORD_SIZE \in Nat /\ Size(d.name) \in Nat /\ Size(data) \in Nat
  BY <1>1, Sizes, DeviceFields, Elements
<1>4. end \in Nat /\ end + 1 \in Nat /\ BaseSize + At(data, BaseSize - 1) = end
  BY <1>2, <1>3
<1>5. d = [address |-> d.address, last_rssi |-> d.last_rssi, name |-> d.name, bond |-> d.bond]
  BY DeviceFields
<1>6. CASE d.bond = <<>>
  <2>1. Has(data, end, <<0>>) /\ 0 \in Byte
    BY <1>6, RecordSize DEF Byte
  <2>2. At(data, end) = 0
    BY <1>1, <1>4, <2>1, HasByte
  <2>3. base = d
    BY ONLY <1>5, <1>6
  <2>4. <<base>> # <<>>
    OBVIOUS
  <2> HIDE DEF base, end, data
  <2>5. deserialize(data) = <<base>>
    BY <1>2, <1>4, <2>2, <2>4, Zenon DEF deserialize
  <2> QED
    BY <2>3, <2>5 DEF data
<1>7. CASE d.bond # <<>>
  <2>1. PICK b \in BondRecord : d.bond = <<b>>
    BY <1>7, DeviceFields
  <2>2. /\ Has(data, end, <<1>>) /\ Has(data, end + 1, serialize_bond(b))
        /\ Size(data) = end + 1 + BOND_RECORD_SIZE /\ 1 \in Byte
    BY <2>1, RecordSize DEF Byte
  <2>3. At(data, end) = 1
    BY <1>1, <1>4, <2>2, HasByte
  <2>4. serialize_bond(b) \in Data /\ Size(serialize_bond(b)) = BOND_RECORD_SIZE
    BY BondBytes
  <2>5. Slice(data, end + 1, end + 1 + BOND_RECORD_SIZE) = serialize_bond(b)
    <3>1. end + 1 + BOND_RECORD_SIZE = (end + 1) + Size(serialize_bond(b))
      BY <2>4
    <3> QED
      BY <1>1, <1>4, <2>2, <2>4, <3>1, HasSlice
  <2>6. deserialize_bond(serialize_bond(b)) = b
    BY BondRead
  <2>7. ~ (end >= Len(data)) /\ ~ (end + 1 + BOND_RECORD_SIZE > Len(data))
    BY <1>3, <1>4, <2>2 DEF Size
  <2>8. <<base>> # <<>> /\ <<base>>[1] = base
    OBVIOUS
  <2>9. [base EXCEPT !.bond = <<b>>] = d
    BY ONLY <1>5, <2>1
  <2> HIDE DEF base, end, data
  <2>10. At(data, end) # 0
    BY <2>3
  <2>11. deserialize(data) = <<[base EXCEPT !.bond = <<b>>]>>
    BY <1>2, <1>4, <2>5, <2>6, <2>7, <2>8, <2>10, Zenon DEF deserialize
  <2> QED
    BY <2>9, <2>11 DEF data
<1> QED
  BY <1>6, <1>7

----------------------------------------------------------------------------
(* Whatever bytes are read, what is read are records.                      *)

\* Bytes of the right number are an address.
LEMMA AnyAddress ==
  ASSUME NEW data \in Data, ADDR_BYTES + 1 <= Size(data)
  PROVE  deserialize_address(data) \in AddressRecord
<1>1. ADDR_BYTES \in Nat /\ ADDR_BYTES + 1 \in 1 .. Size(data) /\ Size(data) \in Nat
  BY Sizes, Elements
<1>2. Slice(data, 0, ADDR_BYTES) \in Data /\ Size(Slice(data, 0, ADDR_BYTES)) = ADDR_BYTES - 0
  BY <1>1, SliceType
<1>3. Slice(data, 0, ADDR_BYTES) \in Bytes(ADDR_BYTES)
  <2>1. ADDR_BYTES - 0 = ADDR_BYTES
    BY <1>1
  <2> QED
    BY <1>2, <2>1 DEF Bytes, Data, Size
<1>4. byte_to_address_type(At(data, ADDR_BYTES)) \in Range(AddressTypes)
  <2>1. At(data, ADDR_BYTES) \in Byte
    BY <1>1, Elements DEF At
  <2> QED
    BY <2>1, TypesAsBytes
<1> QED
  BY <1>3, <1>4 DEF deserialize_address, AddressRecord

LEMMA WordIf ==
  ASSUME NEW v \in Int, 0 <= v, v <= 65535
  PROVE  v \in Word
BY DEF Word

\* Bytes of the right number are a bond.
LEMMA AnyBond ==
  ASSUME NEW data \in Data, Size(data) = BOND_RECORD_SIZE
  PROVE  deserialize_bond(data) \in BondRecord
<1> DEFINE irk == 2 + KEY_BYTES + 1
           upTo == irk + IRK_BYTES
<1>1. /\ KEY_BYTES \in Nat /\ IRK_BYTES \in Nat /\ ADDR_BYTES \in Nat /\ irk \in Nat /\ upTo \in Nat
      /\ Size(data) = upTo + (ADDR_BYTES + 1) /\ Size(data) \in Nat
  BY Sizes, Elements
<1>2. {1, 2, irk} \subseteq 1 .. Size(data) /\ (irk - 1) + 1 = irk
  BY <1>1
<1>3. At(data, 0) \in Byte /\ At(data, 1) \in Byte /\ At(data, irk - 1) \in Byte
  <2>1. At(data, 0) = data[1] /\ At(data, 1) = data[2] /\ At(data, irk - 1) = data[irk]
    BY <1>2 DEF At
  <2> HIDE DEF irk
  <2> QED
    BY <1>2, <2>1, Elements
<1>4. At(data, 0) + 256 * At(data, 1) \in Word
  <2> DEFINE x == At(data, 0)
             y == At(data, 1)
  <2>1. x \in Byte /\ y \in Byte
    BY <1>3
  <2> HIDE DEF x, y
  <2>2. x \in Int /\ y \in Int /\ 0 <= x /\ x <= 255 /\ 0 <= y /\ y <= 255
    BY <2>1 DEF Byte
  <2>3. x + 256 * y \in Int /\ 0 <= x + 256 * y /\ x + 256 * y <= 65535
    BY ONLY <2>2
  <2>4. x + 256 * y \in Word
    BY <2>3, WordIf
  <2> QED
    BY <2>4 DEF x, y
<1>5. Slice(data, 2, 2 + KEY_BYTES) \in Bytes(KEY_BYTES)
  <2>1. 2 + KEY_BYTES \in Nat /\ 2 <= 2 + KEY_BYTES /\ 2 + KEY_BYTES <= Size(data)
    BY <1>1
  <2>2. /\ Slice(data, 2, 2 + KEY_BYTES) \in Data
        /\ Size(Slice(data, 2, 2 + KEY_BYTES)) = (2 + KEY_BYTES) - 2
    BY <2>1, SliceType
  <2>3. (2 + KEY_BYTES) - 2 = KEY_BYTES
    BY <1>1
  <2> QED
    BY <2>2, <2>3 DEF Bytes, Data, Size
<1>6. Slice(data, irk, upTo) \in Bytes(IRK_BYTES)
  <2>1. irk <= upTo /\ upTo <= Size(data) /\ upTo - irk = IRK_BYTES
    BY <1>1
  <2> HIDE DEF irk, upTo
  <2>2. Slice(data, irk, upTo) \in Data /\ Size(Slice(data, irk, upTo)) = upTo - irk
    BY <1>1, <2>1, SliceType
  <2> QED
    BY <2>1, <2>2 DEF Bytes, Data, Size
<1>7. deserialize_address(Slice(data, upTo, BOND_RECORD_SIZE)) \in AddressRecord
  <2>1. /\ upTo <= BOND_RECORD_SIZE /\ BOND_RECORD_SIZE <= Size(data)
        /\ BOND_RECORD_SIZE - upTo = ADDR_BYTES + 1 /\ BOND_RECORD_SIZE \in Nat
        /\ ADDR_BYTES + 1 <= ADDR_BYTES + 1
    BY <1>1
  <2> HIDE DEF upTo
  <2>2. /\ Slice(data, upTo, BOND_RECORD_SIZE) \in Data
        /\ Size(Slice(data, upTo, BOND_RECORD_SIZE)) = BOND_RECORD_SIZE - upTo
    BY <1>1, <2>1, SliceType
  <2> QED
    BY <2>1, <2>2, AnyAddress
<1>8. deserialize_bond(data)
        = [ediv |-> At(data, 0) + 256 * At(data, 1), key |-> Slice(data, 2, 2 + KEY_BYTES),
           flags |-> At(data, irk - 1), irk |-> Slice(data, irk, upTo),
           addr |-> deserialize_address(Slice(data, upTo, BOND_RECORD_SIZE))]
  BY DEF deserialize_bond
<1> HIDE DEF irk, upTo
<1> QED
  BY <1>3, <1>4, <1>5, <1>6, <1>7, <1>8 DEF BondRecord

LEMMA SmallBytes ==
  ASSUME NEW b \in Byte, ~ (b >= 128)
  PROVE  b \in 0 .. 127
BY DEF Byte

\* Whatever the bytes, the name has at most NAME_CAP of them, all ASCII.
LEMMA AnyName ==
  ASSUME NEW data \in Data
  PROVE  NameFrom(data) \in Names
<1>1. <<>> \in Names
  <2>1. <<>> \in Seq(0 .. 127) /\ Len(<<>>) = 0
    OBVIOUS
  <2>2. 0 <= NAME_CAP
    BY Sizes
  <2> QED
    BY <2>1, <2>2 DEF Names
<1>2. CASE \E b \in Range(data) : b >= 128
  BY <1>1, <1>2 DEF NameFrom
<1>3. CASE ~ \E b \in Range(data) : b >= 128
  <2> DEFINE m == IF Len(data) < NAME_CAP THEN Len(data) ELSE NAME_CAP
  <2>1. m \in 0 .. Len(data) /\ m <= NAME_CAP /\ m \in Nat
    <3>1. Len(data) \in Nat /\ NAME_CAP \in Nat
      BY Sizes, Elements DEF Size
    <3> QED
      BY <3>1
  <2>2. \A k \in 1 .. Len(data) : data[k] \in 0 .. 127
    <3>1. ASSUME NEW k \in 1 .. Len(data) PROVE data[k] \in 0 .. 127
      <4>1. data[k] \in Byte /\ k \in DOMAIN data
        BY Elements DEF Size
      <4>2. data[k] \in Range(data)
        BY <4>1 DEF Range
      <4>3. ~ (data[k] >= 128)
        BY <1>3, <4>2
      <4> QED
        BY <4>1, <4>3, SmallBytes
    <3> QED
      BY <3>1
  <2>3. data \in Seq(0 .. 127)
    BY <2>2, AlsoSeqOf DEF Data
  <2> HIDE DEF m
  <2>4. SubSeq(data, 1, m) \in Seq(0 .. 127) /\ Len(SubSeq(data, 1, m)) <= NAME_CAP
    BY <2>1, <2>3, FirstOf
  <2>5. NameFrom(data) = SubSeq(data, 1, m)
    BY <1>3 DEF NameFrom, m
  <2> QED
    BY <2>4, <2>5 DEF Names
<1> QED
  BY <1>2, <1>3

LEMMA BytesCount == \A b \in Byte : b \in Nat
BY DEF Byte

LEMMA AnyRssi ==
  ASSUME NEW b \in Byte
  PROVE  as_i8(b) \in -128 .. 127
BY DEF as_i8, Byte

\* Enough bytes for the name they announce are a record.
LEMMA AnyBase ==
  ASSUME NEW data \in Data
  PROVE  \/ deserialize_base(data) = <<>>
         \/ /\ BaseSize <= Size(data) /\ BaseSize + At(data, BaseSize - 1) <= Size(data)
            /\ At(data, BaseSize - 1) \in Byte
            /\ \E d \in DeviceRecord : deserialize_base(data) = <<d>> /\ d.bond = <<>>
<1> SUFFICES ASSUME ~ (Len(data) < BaseSize \/ Len(data) < BaseSize + At(data, BaseSize - 1))
             PROVE  /\ BaseSize <= Size(data) /\ BaseSize + At(data, BaseSize - 1) <= Size(data)
                    /\ At(data, BaseSize - 1) \in Byte
                    /\ \E d \in DeviceRecord : deserialize_base(data) = <<d>> /\ d.bond = <<>>
  BY DEF deserialize_base
<1> DEFINE end == BaseSize + At(data, BaseSize - 1)
<1>1. /\ ADDR_BYTES \in Nat /\ BaseSize = ADDR_BYTES + 3 /\ BaseSize \in Nat
      /\ ADDRESS_RECORD_SIZE = ADDR_BYTES + 1 /\ Size(data) \in Nat /\ Len(data) = Size(data)
  BY Sizes, Elements DEF Size
<1>2. BaseSize <= Size(data)
  BY <1>1
<1>3. At(data, BaseSize - 1) \in Byte /\ At(data, ADDRESS_RECORD_SIZE) \in Byte
  <2>1. /\ BaseSize \in 1 .. Size(data) /\ ADDRESS_RECORD_SIZE + 1 \in 1 .. Size(data)
        /\ (BaseSize - 1) + 1 = BaseSize
    BY <1>1, <1>2
  <2> QED
    BY <2>1, Elements DEF At
<1>4. end \in Nat /\ BaseSize <= end /\ end <= Size(data)
  <2>1. At(data, BaseSize - 1) \in Nat
    BY <1>3, BytesCount
  <2> QED
    BY <1>1, <2>1
<1>5. deserialize_address(data) \in AddressRecord
  <2>1. ADDR_BYTES + 1 <= Size(data)
    BY <1>1, <1>2
  <2> QED
    BY <2>1, AnyAddress
<1> HIDE DEF end
<1>6. NameFrom(Slice(data, BaseSize, end)) \in Names
  <2>1. Slice(data, BaseSize, end) \in Data
    BY <1>1, <1>4, SliceType
  <2> QED
    BY <2>1, AnyName
<1> DEFINE d == [address |-> deserialize_address(data),
                 last_rssi |-> as_i8(At(data, ADDRESS_RECORD_SIZE)),
                 name |-> NameFrom(Slice(data, BaseSize, end)), bond |-> <<>>]
<1>7. d \in DeviceRecord
  <2>1. <<>> \in MaybeBond
    <3>1. <<>> \in Seq(BondRecord) /\ Len(<<>>) = 0 /\ 0 <= 1
      OBVIOUS
    <3> QED
      BY <3>1 DEF MaybeBond
  <2> QED
    BY <1>3, <1>5, <1>6, <2>1, AnyRssi DEF DeviceRecord
<1>8. deserialize_base(data) = <<d>>
  BY DEF deserialize_base, end
<1>9. d.bond = <<>>
  OBVIOUS
<1> HIDE DEF d
<1> QED
  BY <1>2, <1>3, <1>4, <1>7, <1>8, <1>9 DEF end

\* Nothing, or one record.
AtMostOne == {found \in Seq(DeviceRecord) : Len(found) <= 1}

LEMMA NoneOrOne == <<>> \in AtMostOne /\ \A d \in DeviceRecord : <<d>> \in AtMostOne
BY DEF AtMostOne

LEMMA AnyBaseFound ==
  ASSUME NEW data \in Data
  PROVE  deserialize_base(data) \in AtMostOne
BY AnyBase, NoneOrOne

\* Whatever the bytes, they are one record or none.
LEMMA AnyRecord ==
  ASSUME NEW data \in Data
  PROVE  deserialize(data) \in AtMostOne
<1>1. CASE deserialize_base(data) = <<>>
  <2>1. deserialize(data) = <<>>
    BY <1>1, Zenon DEF deserialize
  <2> QED
    BY <2>1, NoneOrOne
<1>2. CASE deserialize_base(data) # <<>>
  <2> DEFINE end == BaseSize + At(data, BaseSize - 1)
             from == end + 1
             to == end + 1 + BOND_RECORD_SIZE
  <2>1. end <= Size(data) /\ At(data, BaseSize - 1) \in Byte
    BY <1>2, AnyBase
  <2>2. PICK d \in DeviceRecord : deserialize_base(data) = <<d>> /\ d.bond = <<>>
    BY <1>2, AnyBase
  <2>3. /\ end \in Nat /\ from \in Nat /\ to \in Nat /\ from <= to /\ Size(data) \in Nat
        /\ to - from = BOND_RECORD_SIZE
    <3>1. BaseSize \in Nat /\ BOND_RECORD_SIZE \in Nat /\ At(data, BaseSize - 1) \in Nat
      BY <2>1, Sizes, BytesCount
    <3>2. Size(data) \in Nat
      BY Elements
    <3> DEFINE length == At(data, BaseSize - 1)
    <3> HIDE DEF length
    <3>3. end = BaseSize + length /\ length \in Nat
      BY <3>1 DEF length
    <3> QED
      BY <3>1, <3>2, <3>3
  <2>4. <<d>>[1] = d
    OBVIOUS
  <2> DEFINE full == [d EXCEPT !.bond = <<deserialize_bond(Slice(data, from, to))>>]
  <2>5. deserialize(data) \in {<<d>>, <<>>} \/ (~ (to > Len(data)) /\ deserialize(data) = <<full>>)
    BY <1>2, <2>2, <2>4, Zenon DEF deserialize
  <2>6. CASE deserialize(data) \in {<<d>>, <<>>}
    BY <2>6, NoneOrOne
  <2>7. CASE ~ (to > Len(data)) /\ deserialize(data) = <<full>>
    <3>1. to <= Size(data)
      BY <2>3, <2>7 DEF Size
    <3> HIDE DEF from, to
    <3>2. Slice(data, from, to) \in Data /\ Size(Slice(data, from, to)) = BOND_RECORD_SIZE
      BY <2>3, <3>1, SliceType
    <3>3. deserialize_bond(Slice(data, from, to)) \in BondRecord
      BY <3>2, AnyBond
    <3> DEFINE b == deserialize_bond(Slice(data, from, to))
    <3> HIDE DEF b
    <3>4. <<b>> \in MaybeBond
      <4>1. b \in BondRecord
        BY <3>3 DEF b
      <4>2. <<b>> \in Seq(BondRecord) /\ Len(<<b>>) = 1 /\ 1 <= 1
        BY <4>1
      <4> QED
        BY <4>2 DEF MaybeBond
    <3>5. full \in DeviceRecord
      <4>1. full = [d EXCEPT !.bond = <<b>>]
        BY DEF b
      <4> HIDE DEF full
      <4> QED
        BY <3>4, <4>1 DEF DeviceRecord
    <3> HIDE DEF full
    <3> QED
      BY <2>7, <3>5, NoneOrOne
  <2> QED
    BY <2>5, <2>6, <2>7
<1> QED
  BY <1>1, <1>2

----------------------------------------------------------------------------
(* The writer.                                                             *)

\* The states of the writer.
Writers == [body : Data, count : Nat, full : BOOLEAN]

\* Whether a record is taken, in terms of the bytes there are.
Accepts(writer, d) ==
    /\ ~ writer.full /\ writer.count # 255
    /\ Size(writer.body) + 4 + Size(RecordBytes(d)) <= MAX_RECORD_SIZE

\* A body with one more record.
With(body, record) == (body \o <<Size(record)>>) \o record

\* A body with one more record.
LEMMA WithRecord ==
  ASSUME NEW body \in Data, NEW d \in DeviceRecord
  PROVE  LET r == RecordBytes(d) IN
         /\ With(body, r) \in Data /\ Size(With(body, r)) = Size(body) + 1 + Size(r)
         /\ Has(With(body, r), 0, body)
         /\ Has(With(body, r), Size(body), <<Size(r)>>)
         /\ Has(With(body, r), Size(body) + 1, r)
         /\ <<Size(r)>> \in Data
<1> DEFINE r == RecordBytes(d)
           length == <<Size(r)>>
           upTo == body \o length
<1>1. r \in Data /\ Size(r) \in Byte
  <2>1. r \in Data /\ Size(r) \in 1 .. 255
    BY RecordSize
  <2> QED
    BY <2>1 DEF Byte
<1>2. length \in Data /\ Size(length) = 1
  BY <1>1, OneByte
<1>3. Size(body) \in Nat
  BY Elements
<1>4. With(body, r) = upTo \o r
  BY DEF With
<1> HIDE DEF r, length
<1>5. /\ upTo \in Data /\ Size(upTo) = Size(body) + 1
      /\ Has(upTo, 0, body) /\ Has(upTo, Size(body), length)
  BY <1>2, TwoParts
<1> HIDE DEF upTo
<1>6. /\ upTo \o r \in Data /\ Size(upTo \o r) = Size(body) + 1 + Size(r)
      /\ Has(upTo \o r, Size(body) + 1, r)
  BY <1>1, <1>5, TwoParts
<1>7. Has(upTo \o r, 0, body)
  BY <1>1, <1>5, HasFirst
<1>8. Has(upTo \o r, Size(body), length)
  BY <1>1, <1>2, <1>3, <1>5, HasFirst
<1> QED
  BY <1>2, <1>4, <1>6, <1>7, <1>8 DEF r, length

\* What Writer::push does, and what it needs to take a record.
LEMMA PushTakes ==
  ASSUME NEW w \in Writers, NEW d \in DeviceRecord
  PROVE  /\ push(w, d) \in Writers
         /\ Accepts(w, d) => push(w, d) = [body |-> With(w.body, RecordBytes(d)),
                                          count |-> w.count + 1, full |-> FALSE]
         /\ ~ Accepts(w, d) => push(w, d) = [body |-> w.body, count |-> w.count, full |-> TRUE]
<1> DEFINE r == RecordBytes(d)
           room == Room(w.body)
           record == serialize(d, room)
           refused == w.full \/ w.count = 255 \/ room < 1 \/ Len(record) \notin 1 .. 255
<1>1. /\ w.body \in Data /\ w.count \in Nat /\ w.full \in BOOLEAN
      /\ w = [body |-> w.body, count |-> w.count, full |-> w.full]
  BY DEF Writers
<1>2. r \in Data /\ Size(r) \in 1 .. 255
  BY RecordSize
<1>3. Size(w.body) \in Nat /\ MAX_RECORD_SIZE \in Nat
  BY <1>1, Elements, FlashFormatAssumption
<1>4. room = MAX_RECORD_SIZE - Size(w.body) - 4
  BY DEF Room, Size
<1>5. record = IF Size(r) <= room THEN r ELSE <<>>
  BY DEF serialize, Size
<1>6. push(w, d) = IF refused THEN [w EXCEPT !.full = TRUE]
                   ELSE [w EXCEPT !.body = (@ \o <<Len(record)>>) \o record, !.count = @ + 1]
  BY DEF push
<1> HIDE DEF r, room, record
<1>7. CASE Accepts(w, d)
  <2>1. ~ w.full /\ w.count # 255 /\ Size(w.body) + 4 + Size(r) <= MAX_RECORD_SIZE
    BY <1>7 DEF Accepts, r
  <2>2. Size(r) <= room /\ ~ (room < 1)
    BY <1>2, <1>3, <1>4, <2>1
  <2>3. record = r /\ Len(record) = Size(r)
    BY <1>5, <2>2 DEF Size
  <2>4. ~ refused
    BY <1>2, <2>1, <2>2, <2>3
  <2>5. push(w, d) = [w EXCEPT !.body = (@ \o <<Size(r)>>) \o r, !.count = @ + 1]
    BY <1>6, <2>3, <2>4
  <2>6. push(w, d) = [body |-> With(w.body, r), count |-> w.count + 1, full |-> FALSE]
    <3>1. w.full = FALSE
      BY <1>1, <2>1
    <3> QED
      BY <1>1, <2>5, <3>1 DEF With
  <2>7. With(w.body, r) \in Data
    BY <1>1, WithRecord DEF r
  <2>8. push(w, d) \in Writers
    BY <1>1, <2>6, <2>7 DEF Writers
  <2> QED
    BY <1>7, <2>6, <2>8 DEF r
<1>8. CASE ~ Accepts(w, d)
  <2>1. refused
    <3> SUFFICES ASSUME ~ w.full, w.count # 255 PROVE refused
      OBVIOUS
    <3>1. ~ (Size(w.body) + 4 + Size(r) <= MAX_RECORD_SIZE)
      BY <1>8 DEF Accepts, r
    <3>2. ~ (Size(r) <= room)
      BY <1>2, <1>3, <1>4, <3>1
    <3>3. Len(record) = 0
      BY <1>5, <3>2
    <3> QED
      BY <3>3
  <2>2. push(w, d) = [w EXCEPT !.full = TRUE]
    BY <1>6, <2>1
  <2>3. push(w, d) = [body |-> w.body, count |-> w.count, full |-> TRUE]
    BY <1>1, <2>2
  <2>4. push(w, d) \in Writers
    BY <1>1, <2>3 DEF Writers
  <2> QED
    BY <1>8, <2>3, <2>4
<1> QED
  BY <1>7, <1>8

\* The devices of a store.
LEMMA StoreIs ==
  ASSUME NEW list \in Store
  PROVE  /\ list \in Seq(DeviceRecord) /\ Len(list) \in Nat /\ Len(list) \in 0 .. STORE_CAP
         /\ \A i \in 1 .. Len(list) : list[i] \in DeviceRecord
         /\ STORE_CAP \in 1 .. 177
<1>1. STORE_CAP \in 1 .. 177
  BY FlashFormatAssumption
<1>2. list \in Seq(DeviceRecord) /\ Len(list) <= STORE_CAP
  BY DEF Store
<1> QED
  BY <1>1, <1>2

\* w[n] is the writer after n devices.
WriterRun(list, w) ==
    /\ w \in [0 .. Len(list) -> Writers]
    /\ w[0] = EmptyWriter
    /\ \A n \in 1 .. Len(list) : w[n] = push(w[n - 1], list[n])

\* serialize_all is what the writer has after all devices.
LEMMA WriterRuns ==
  ASSUME NEW list \in Store
  PROVE  \E w : /\ WriterRun(list, w)
               /\ serialize_all(list)
                    = IF MAX_RECORD_SIZE < 3 THEN <<>>
                      ELSE <<MAGIC, VERSION, w[Len(list)].count>> \o w[Len(list)].body
<1> DEFINE N == Len(list)
           Solves(w) == w = [n \in 0 .. N |-> IF n = 0 THEN EmptyWriter
                                               ELSE push(w[n - 1], list[n])]
           writer == CHOOSE w : Solves(w)
           step == [n \in 1 .. N |-> [x \in Writers |-> push(x, list[n])]]
<1>1. N \in Nat /\ \A i \in 1 .. N : list[i] \in DeviceRecord
  BY StoreIs
<1>2. EmptyWriter \in Writers
  <2>1. <<>> \in Data
    BY DEF Data
  <2> QED
    BY <2>1 DEF EmptyWriter, Writers
<1>3. \A n \in 1 .. N : \A x \in Writers : step[n][x] = push(x, list[n]) /\ step[n][x] \in Writers
  BY <1>1, PushTakes
<1>4. serialize_all(list) = IF MAX_RECORD_SIZE < 3 THEN <<>>
                            ELSE <<MAGIC, VERSION, writer[N].count>> \o writer[N].body
  BY DEF serialize_all
<1> HIDE DEF N, step
<1>5. PICK w : /\ w \in [0 .. N -> Writers] /\ w[0] = EmptyWriter
               /\ \A n \in 1 .. N : w[n] = step[n][w[n - 1]]
  <2>1. Within(step, N, Writers)
    BY <1>3 DEF Within
  <2>2. \E w : Follows(w, N, Writers, EmptyWriter, step)
    BY <1>1, <1>2, <2>1, StepByStep
  <2> QED
    BY <2>2 DEF Follows
<1>6. \A n \in 1 .. N : n - 1 \in 0 .. N /\ w[n] = push(w[n - 1], list[n])
  <2>1. \A n \in 1 .. N : n - 1 \in 0 .. N
    BY <1>1
  <2> QED
    BY <1>3, <1>5, <2>1
<1>7. Solves(w)
  <2>1. w = [n \in 0 .. N |-> w[n]]
    BY <1>5
  <2>2. \A n \in 0 .. N : w[n] = IF n = 0 THEN EmptyWriter ELSE push(w[n - 1], list[n])
    <3>1. \A n \in 0 .. N : n = 0 \/ n \in 1 .. N
      BY <1>1
    <3> QED
      BY <1>5, <1>6, <3>1
  <2> QED
    BY <2>1, <2>2
<1>8. Solves(writer)
  <2> HIDE DEF Solves
  <2> QED
    BY <1>7
<1> HIDE DEF writer
<1>9. writer[0] = EmptyWriter /\ \A n \in 1 .. N : writer[n] = push(writer[n - 1], list[n])
  <2>1. \A n \in 1 .. N : n \in 0 .. N /\ n # 0
    BY <1>1
  <2>2. 0 \in 0 .. N
    BY <1>1
  <2> QED
    BY <1>8, <2>1, <2>2
<1>10. \A n \in 0 .. N : writer[n] = w[n]
  <2> DEFINE S == {n \in 0 .. N : writer[n] = w[n]}
  <2>1. 0 \in S
    BY <1>1, <1>5, <1>9
  <2>2. ASSUME NEW n \in 1 .. N, n - 1 \in S PROVE n \in S
    <3>1. n \in 0 .. N
      BY <1>1
    <3> QED
      BY <1>6, <1>9, <2>2, <3>1
  <2> HIDE DEF S
  <2>3. \A n \in 0 .. N : n \in S
    BY <1>1, <2>1, <2>2, UpTo
  <2> QED
    BY <2>3 DEF S
<1>11. writer[N] = w[N]
  BY <1>1, <1>10
<1>12. WriterRun(list, w)
  BY <1>5, <1>6 DEF WriterRun, N
<1> QED
  BY <1>4, <1>11, <1>12 DEF N

\* z[n] is what the first n records take in a blob.
SizeRun(list, z) ==
    /\ z \in [0 .. Len(list) -> Nat]
    /\ z[0] = 3
    /\ \A n \in 1 .. Len(list) : z[n] = z[n - 1] + 1 + Size(RecordBytes(list[n]))

\* BlobSize in terms of sizes.
LEMMA SizeRuns ==
  ASSUME NEW list \in Store
  PROVE  \E z : SizeRun(list, z) /\ \A k \in 0 .. Len(list) : BlobSize(list, k) = z[k]
<1> DEFINE N == Len(list)
           r(n) == Size(RecordBytes(list[n]))
           Solves(z) == z = [n \in 0 .. N |-> IF n = 0 THEN 3
                                               ELSE z[n - 1] + 1 + Len(RecordBytes(list[n]))]
           size == CHOOSE z : Solves(z)
           step == [n \in 1 .. N |-> [x \in Nat |-> x + 1 + r(n)]]
<1>1. N \in Nat
  BY StoreIs
<1>2. \A n \in 1 .. N : r(n) \in Nat /\ r(n) = Len(RecordBytes(list[n]))
  <2> SUFFICES ASSUME NEW n \in 1 .. N PROVE r(n) \in Nat /\ r(n) = Len(RecordBytes(list[n]))
    OBVIOUS
  <2>1. list[n] \in DeviceRecord
    BY StoreIs
  <2>2. Size(RecordBytes(list[n])) \in 1 .. 255
    BY <2>1, RecordSize
  <2> QED
    BY <2>2 DEF Size
<1>3. \A k : BlobSize(list, k) = size[k]
  BY DEF BlobSize
<1>4. \A z : Solves(z) <=> z = [n \in 0 .. N |-> IF n = 0 THEN 3 ELSE z[n - 1] + 1 + r(n)]
  BY DEF Size
<1> HIDE DEF N, r
<1>5. \A n \in 1 .. N : \A x \in Nat : step[n][x] = x + 1 + r(n) /\ step[n][x] \in Nat
  BY <1>2
<1> HIDE DEF step
<1>6. PICK w : /\ w \in [0 .. N -> Nat] /\ w[0] = 3
               /\ \A n \in 1 .. N : w[n] = step[n][w[n - 1]]
  <2>1. Within(step, N, Nat) /\ 3 \in Nat
    BY <1>5 DEF Within
  <2>2. \E w : Follows(w, N, Nat, 3, step)
    BY <1>1, <2>1, StepByStep
  <2> QED
    BY <2>2 DEF Follows
<1>7. \A n \in 1 .. N : n - 1 \in 0 .. N /\ w[n] = w[n - 1] + 1 + r(n)
  <2>1. \A n \in 1 .. N : n - 1 \in 0 .. N
    BY <1>1
  <2> QED
    BY <1>5, <1>6, <2>1
<1>8. Solves(w)
  <2>1. w = [n \in 0 .. N |-> w[n]]
    BY <1>6
  <2>2. \A n \in 0 .. N : w[n] = IF n = 0 THEN 3 ELSE w[n - 1] + 1 + r(n)
    <3>1. \A n \in 0 .. N : n = 0 \/ n \in 1 .. N
      BY <1>1
    <3> QED
      BY <1>6, <1>7, <3>1
  <2>3. w = [n \in 0 .. N |-> IF n = 0 THEN 3 ELSE w[n - 1] + 1 + r(n)]
    BY <2>1, <2>2
  <2> HIDE DEF Solves
  <2> QED
    BY <1>4, <2>3
<1> HIDE DEF Solves
<1>9. Solves(size)
  BY <1>8
<1> HIDE DEF size
<1>10. size[0] = 3 /\ \A n \in 1 .. N : size[n] = size[n - 1] + 1 + r(n)
  <2>1. size = [n \in 0 .. N |-> IF n = 0 THEN 3 ELSE size[n - 1] + 1 + r(n)]
    BY <1>4, <1>9
  <2>2. \A n \in 1 .. N : n \in 0 .. N /\ n # 0
    BY <1>1
  <2>3. 0 \in 0 .. N
    BY <1>1
  <2> QED
    BY <2>1, <2>2, <2>3
<1>11. \A n \in 0 .. N : size[n] = w[n]
  <2> DEFINE S == {n \in 0 .. N : size[n] = w[n]}
  <2>1. 0 \in S
    BY <1>1, <1>6, <1>10
  <2>2. ASSUME NEW n \in 1 .. N, n - 1 \in S PROVE n \in S
    <3>1. n \in 0 .. N
      BY <1>1
    <3> QED
      BY <1>7, <1>10, <2>2, <3>1
  <2> HIDE DEF S
  <2>3. \A n \in 0 .. N : n \in S
    BY <1>1, <2>1, <2>2, UpTo
  <2> QED
    BY <2>3 DEF S
<1>12. SizeRun(list, w)
  BY <1>6, <1>7 DEF SizeRun, N, r
<1> QED
  BY <1>3, <1>11, <1>12 DEF N

\* The writer has taken the first c of n records: all of them, or those before
\* the first that does not fit.
Taken(list, w, z, n, c) ==
    /\ c \in 0 .. n
    /\ \A i \in 0 .. c : ~ w[i].full /\ w[i].count = i /\ Size(w[i].body) + 3 = z[i]
    /\ w[n].count = c /\ w[n].body = w[c].body
    /\ w[n].full <=> c < n
    /\ c < n => ~ Accepts(w[c], list[c + 1])

\* At each device, the writer has taken the first ones.
LEMMA FirstAreTaken ==
  ASSUME NEW list \in Store, NEW w, WriterRun(list, w), NEW z, SizeRun(list, z)
  PROVE  \A n \in 0 .. Len(list) : \E c : Taken(list, w, z, n, c)
<1> DEFINE N == Len(list)
           S == {n \in 0 .. N : \E c : Taken(list, w, z, n, c)}
<1>1. N \in Nat /\ \A i \in 1 .. N : list[i] \in DeviceRecord
  BY StoreIs
<1>2. /\ w \in [0 .. N -> Writers] /\ w[0] = EmptyWriter
      /\ \A n \in 1 .. N : w[n] = push(w[n - 1], list[n])
  BY DEF WriterRun
<1>3. /\ z \in [0 .. N -> Nat] /\ z[0] = 3
      /\ \A n \in 1 .. N : z[n] = z[n - 1] + 1 + Size(RecordBytes(list[n]))
  BY DEF SizeRun
<1> HIDE DEF N
<1>4. 0 \in S
  <2>1. EmptyWriter.body = <<>> /\ EmptyWriter.count = 0 /\ EmptyWriter.full = FALSE
    BY DEF EmptyWriter
  <2>2. Size(<<>>) = 0
    BY DEF Size
  <2>3. 0 .. 0 = {0} /\ 0 \in 0 .. N
    BY <1>1
  <2>4. Taken(list, w, z, 0, 0)
    <3>1. ~ w[0].full /\ w[0].count = 0 /\ Size(w[0].body) + 3 = z[0]
      BY <1>2, <1>3, <2>1, <2>2
    <3>2. 0 \in 0 .. 0 /\ ~ (0 < 0)
      OBVIOUS
    <3> QED
      BY <2>3, <3>1, <3>2 DEF Taken
  <2> HIDE DEF Taken
  <2> QED
    BY <2>3, <2>4
<1>5. ASSUME NEW n \in 1 .. N, n - 1 \in S PROVE n \in S
  <2>1. PICK c : Taken(list, w, z, n - 1, c)
    BY <1>5
  <2>2. /\ n \in Nat /\ n - 1 \in Nat /\ n - 1 \in 0 .. N /\ n \in 0 .. N /\ n - 1 < n
        /\ (n - 1) + 1 = n
    BY <1>1
  <2>3. w[n - 1] \in Writers /\ list[n] \in DeviceRecord /\ w[n] = push(w[n - 1], list[n])
    BY <1>1, <1>2, <2>2
  <2>4. /\ c \in 0 .. n - 1 /\ c \in 0 .. n /\ c \in Nat
        /\ \A i \in 0 .. c : ~ w[i].full /\ w[i].count = i /\ Size(w[i].body) + 3 = z[i]
        /\ w[n - 1].count = c /\ w[n - 1].body = w[c].body
        /\ w[n - 1].full <=> c < n - 1
        /\ c < n - 1 => ~ Accepts(w[c], list[c + 1])
    BY <2>1, <2>2 DEF Taken
  <2>5. CASE Accepts(w[n - 1], list[n])
    <3>1. ~ w[n - 1].full
      BY <2>5 DEF Accepts
    <3>2. c = n - 1
      BY <2>2, <2>4, <3>1
    <3>3. /\ w[n].body = With(w[n - 1].body, RecordBytes(list[n])) /\ w[n].count = n
          /\ w[n].full = FALSE
      <4>1. w[n] = [body |-> With(w[n - 1].body, RecordBytes(list[n])),
                    count |-> w[n - 1].count + 1, full |-> FALSE]
        BY <2>3, <2>5, PushTakes
      <4>2. w[n - 1].count + 1 = n
        BY <2>2, <2>4, <3>2
      <4> QED
        BY <4>1, <4>2
    <3>4. Size(w[n].body) + 3 = z[n]
      <4>1. w[n - 1].body \in Data
        BY <2>3 DEF Writers
      <4>2. Size(w[n].body) = Size(w[n - 1].body) + 1 + Size(RecordBytes(list[n]))
        BY <2>3, <3>3, <4>1, WithRecord
      <4>3. Size(w[n - 1].body) + 3 = z[n - 1]
        <5>1. n - 1 \in 0 .. c
          BY <2>4, <3>2
        <5> QED
          BY <2>4, <5>1
      <4>4. /\ z[n] = z[n - 1] + 1 + Size(RecordBytes(list[n]))
            /\ z[n - 1] \in Nat /\ Size(w[n - 1].body) \in Nat
        BY <1>3, <2>2, <4>1, Elements
      <4>5. Size(RecordBytes(list[n])) \in Nat
        <5>1. Size(RecordBytes(list[n])) \in 1 .. 255
          BY <2>3, RecordSize
        <5> QED
          BY <5>1
      <4> QED
        BY <4>2, <4>3, <4>4, <4>5
    <3>5. \A i \in 0 .. n : i = n \/ i \in 0 .. c
      BY <2>2, <3>2
    <3>6. \A i \in 0 .. n : ~ w[i].full /\ w[i].count = i /\ Size(w[i].body) + 3 = z[i]
      BY <2>4, <3>3, <3>4, <3>5
    <3>7. n \in 0 .. n /\ ~ (n < n)
      BY <2>2
    <3>8. Taken(list, w, z, n, n)
      BY <3>3, <3>6, <3>7 DEF Taken
    <3> HIDE DEF Taken
    <3> QED
      BY <2>2, <3>8
  <2>6. CASE ~ Accepts(w[n - 1], list[n])
    <3>1. w[n].body = w[n - 1].body /\ w[n].count = w[n - 1].count /\ w[n].full = TRUE
      <4>1. w[n] = [body |-> w[n - 1].body, count |-> w[n - 1].count, full |-> TRUE]
        BY <2>3, <2>6, PushTakes
      <4> QED
        BY <4>1
    <3>2. c < n
      BY <2>2, <2>4
    <3>3. ~ Accepts(w[c], list[c + 1])
      <4>1. CASE c < n - 1
        BY <2>4, <4>1
      <4>2. CASE ~ (c < n - 1)
        <5>1. c = n - 1 /\ c + 1 = n
          BY <2>2, <2>4, <4>2
        <5> QED
          BY <2>6, <5>1
      <4> QED
        BY <4>1, <4>2
    <3>4. Taken(list, w, z, n, c)
      BY <2>4, <3>1, <3>2, <3>3 DEF Taken
    <3> HIDE DEF Taken
    <3> QED
      BY <2>2, <3>4
  <2> QED
    BY <2>5, <2>6
<1> HIDE DEF S
<1>6. \A n \in 0 .. N : n \in S
  BY <1>1, <1>4, <1>5, UpTo
<1> QED
  BY <1>6 DEF S, N

\* How many are taken: those up to which everything fits.
LEMMA TakenFit ==
  ASSUME NEW list \in Store, NEW w, WriterRun(list, w), NEW z, SizeRun(list, z),
         \A k \in 0 .. Len(list) : BlobSize(list, k) = z[k],
         NEW c, Taken(list, w, z, Len(list), c)
  PROVE  \A k \in 0 .. Len(list) : (\A j \in 0 .. k : Fits(list, j)) <=> k <= c
<1> DEFINE N == Len(list)
<1>1. /\ N \in Nat /\ N \in 0 .. STORE_CAP /\ STORE_CAP \in 1 .. 177
      /\ \A i \in 1 .. N : list[i] \in DeviceRecord
  BY StoreIs
<1>2. /\ w \in [0 .. N -> Writers]
      /\ \A n \in 1 .. N : w[n] = push(w[n - 1], list[n])
  BY DEF WriterRun
<1>3. /\ z \in [0 .. N -> Nat]
      /\ \A n \in 1 .. N : z[n] = z[n - 1] + 1 + Size(RecordBytes(list[n]))
  BY DEF SizeRun
<1>4. /\ c \in 0 .. N
      /\ \A i \in 0 .. c : ~ w[i].full /\ w[i].count = i /\ Size(w[i].body) + 3 = z[i]
      /\ c < N => ~ Accepts(w[c], list[c + 1])
  BY DEF Taken
<1>5. \A k \in 1 .. N : Fits(list, k) <=> z[k] <= MAX_RECORD_SIZE
  <2> SUFFICES ASSUME NEW k \in 1 .. N PROVE Fits(list, k) <=> z[k] <= MAX_RECORD_SIZE
    OBVIOUS
  <2>1. k \in 0 .. N /\ k # 0
    BY <1>1
  <2> QED
    BY <2>1 DEF Fits
<1>6. ASSUME NEW n \in 1 .. N, n - 1 \in 0 .. c
      PROVE  Accepts(w[n - 1], list[n]) <=> z[n] <= MAX_RECORD_SIZE
  <2>1. /\ ~ w[n - 1].full /\ w[n - 1].count = n - 1 /\ Size(w[n - 1].body) + 3 = z[n - 1]
        /\ n - 1 # 255 /\ n - 1 \in 0 .. N
    BY <1>1, <1>4, <1>6
  <2>2. w[n - 1].body \in Data /\ list[n] \in DeviceRecord
    BY <1>1, <1>2, <2>1 DEF Writers
  <2>3. /\ Size(w[n - 1].body) \in Nat /\ Size(RecordBytes(list[n])) \in Nat
        /\ MAX_RECORD_SIZE \in Nat
    BY <2>2, Elements, RecordSize, FlashFormatAssumption
  <2>4. z[n] = z[n - 1] + 1 + Size(RecordBytes(list[n])) /\ z[n - 1] \in Nat
    BY <1>3, <2>1
  <2>5. Size(w[n - 1].body) + 4 + Size(RecordBytes(list[n])) = z[n]
    BY <2>1, <2>3, <2>4
  <2> QED
    BY <2>1, <2>5 DEF Accepts
<1> HIDE DEF N
<1>7. ASSUME NEW j \in 0 .. c PROVE Fits(list, j)
  <2>1. CASE j = 0
    BY <2>1 DEF Fits
  <2>2. CASE j # 0
    <3>1. j \in 1 .. N /\ j - 1 \in 0 .. c
      BY <1>1, <1>4, <2>2
    <3>2. w[j - 1] \in Writers /\ list[j] \in DeviceRecord /\ w[j] = push(w[j - 1], list[j])
      BY <1>1, <1>2, <1>4, <3>1
    <3>3. Accepts(w[j - 1], list[j])
      <4> SUFFICES ASSUME ~ Accepts(w[j - 1], list[j]) PROVE FALSE
        OBVIOUS
      <4>1. push(w[j - 1], list[j]).full = TRUE
        BY <3>2, PushTakes
      <4> QED
        BY <1>4, <3>2, <4>1
    <3> QED
      BY <1>5, <1>6, <3>1, <3>3
  <2> QED
    BY <2>1, <2>2
<1>8. ASSUME c < N PROVE ~ Fits(list, c + 1) /\ c + 1 \in 1 .. N
  <2>1. c + 1 \in 1 .. N /\ (c + 1) - 1 = c /\ c \in 0 .. c
    BY <1>1, <1>4, <1>8
  <2>2. ~ Accepts(w[(c + 1) - 1], list[c + 1])
    BY <1>4, <1>8, <2>1
  <2> QED
    BY <1>5, <1>6, <2>1, <2>2
<1>9. ASSUME NEW k \in 0 .. N
      PROVE  (\A j \in 0 .. k : Fits(list, j)) <=> k <= c
  <2>1. CASE k <= c
    <3>1. \A j \in 0 .. k : j \in 0 .. c
      BY <1>1, <1>4, <2>1
    <3> QED
      BY <1>7, <2>1, <3>1
  <2>2. CASE ~ (k <= c)
    <3>1. c < N /\ c + 1 \in 0 .. k
      BY <1>1, <1>4, <2>2
    <3> QED
      BY <1>8, <2>2, <3>1
  <2> QED
    BY <2>1, <2>2
<1> QED
  BY <1>9 DEF N

\* The three bytes before the body.
LEMMA Header ==
  ASSUME NEW a \in Byte, NEW b \in Byte, NEW c \in Byte, NEW body \in Data
  PROVE  LET B == <<a, b, c>> \o body IN
         /\ B \in Data /\ Size(B) = 3 + Size(body) /\ Has(B, 3, body)
         /\ At(B, 0) = a /\ At(B, 1) = b /\ At(B, 2) = c
<1> DEFINE h == <<a, b, c>>
           B == h \o body
<1>1. h \in Data /\ Size(h) = 3 /\ h[1] = a /\ h[2] = b /\ h[3] = c
  BY DEF Data, Size
<1> HIDE DEF h
<1>2. B \in Data /\ Size(B) = 3 + Size(body) /\ Has(B, 3, body)
  BY <1>1, TwoParts
<1>3. \A i \in 1 .. 3 : B[i] = h[i]
  <2>1. Has(B, 0, h)
    BY <1>1, HasParts
  <2> HIDE DEF B
  <2>2. \A i \in 1 .. 3 : B[0 + i] = h[i] /\ 0 + i = i
    BY <1>1, <2>1 DEF Has
  <2> QED
    BY <2>2
<1>4. At(B, 0) = a /\ At(B, 1) = b /\ At(B, 2) = c
  <2>1. At(B, 0) = B[1] /\ At(B, 1) = B[2] /\ At(B, 2) = B[3]
    BY DEF At
  <2>2. 1 \in 1 .. 3 /\ 2 \in 1 .. 3 /\ 3 \in 1 .. 3
    OBVIOUS
  <2> HIDE DEF B
  <2> QED
    BY <1>1, <1>3, <2>1, <2>2
<1> QED
  BY <1>2, <1>4 DEF h

\* Where each record is in the body of the writer that took it, and after.
LEMMA BodyHas ==
  ASSUME NEW list \in Store, NEW w, WriterRun(list, w), NEW z, SizeRun(list, z),
         NEW c, Taken(list, w, z, Len(list), c)
  PROVE  \A j \in 0 .. c : \A i \in 1 .. j :
            /\ Has(w[j].body, z[i - 1] - 3, <<Size(RecordBytes(list[i]))>>)
            /\ Has(w[j].body, z[i - 1] - 2, RecordBytes(list[i]))
<1> DEFINE N == Len(list)
           Placed(j, i) == /\ Has(w[j].body, z[i - 1] - 3, <<Size(RecordBytes(list[i]))>>)
                           /\ Has(w[j].body, z[i - 1] - 2, RecordBytes(list[i]))
           S == {j \in 0 .. c : \A i \in 1 .. j : Placed(j, i)}
<1>1. N \in Nat /\ \A i \in 1 .. N : list[i] \in DeviceRecord
  BY StoreIs
<1>2. /\ w \in [0 .. N -> Writers]
      /\ \A n \in 1 .. N : w[n] = push(w[n - 1], list[n])
  BY DEF WriterRun
<1>3. /\ c \in 0 .. N /\ c \in Nat
      /\ \A i \in 0 .. c : ~ w[i].full /\ Size(w[i].body) + 3 = z[i]
  BY <1>1 DEF Taken
<1> HIDE DEF N
<1>4. 0 \in S
  BY <1>3
<1>5. ASSUME NEW j \in 1 .. c, j - 1 \in S PROVE j \in S
  <2>1. j - 1 \in 0 .. c /\ j - 1 \in 0 .. N /\ j \in 1 .. N /\ j \in 0 .. c /\ j \in Nat
    BY <1>1, <1>3
  <2>2. w[j - 1] \in Writers /\ list[j] \in DeviceRecord /\ w[j] = push(w[j - 1], list[j])
    BY <1>1, <1>2, <2>1
  <2>3. w[j].body = With(w[j - 1].body, RecordBytes(list[j]))
    <3>1. Accepts(w[j - 1], list[j])
      <4> SUFFICES ASSUME ~ Accepts(w[j - 1], list[j]) PROVE FALSE
        OBVIOUS
      <4>1. push(w[j - 1], list[j]).full = TRUE
        BY <2>2, PushTakes
      <4> QED
        BY <1>3, <2>1, <2>2, <4>1
    <3>2. push(w[j - 1], list[j]) = [body |-> With(w[j - 1].body, RecordBytes(list[j])),
                                     count |-> w[j - 1].count + 1, full |-> FALSE]
      BY <2>2, <3>1, PushTakes
    <3> QED
      BY <2>2, <3>2
  <2> DEFINE old == w[j - 1].body
             new == w[j].body
             r == RecordBytes(list[j])
  <2>4. old \in Data
    BY <2>2 DEF Writers
  <2>5. /\ new \in Data /\ Has(new, 0, old) /\ Has(new, Size(old), <<Size(r)>>)
        /\ Has(new, Size(old) + 1, r)
    BY <2>2, <2>3, <2>4, WithRecord
  <2>6. Size(old) + 3 = z[j - 1] /\ Size(old) \in Nat
    BY <1>3, <2>1, <2>4, Elements
  <2>7. z[j - 1] - 3 = Size(old) /\ z[j - 1] - 2 = Size(old) + 1
    BY <2>6
  <2>8. Placed(j, j)
    BY <2>5, <2>7
  <2>9. ASSUME NEW i \in 1 .. j - 1 PROVE Placed(j, i)
    <3>1. i \in 1 .. N /\ i - 1 \in 0 .. c /\ i - 1 \in 0 .. N
      BY <1>1, <1>3, <2>1
    <3>2. Has(old, z[i - 1] - 3, <<Size(RecordBytes(list[i]))>>) /\ Has(old, z[i - 1] - 2, RecordBytes(list[i]))
      BY <1>5, <2>9
    <3>3. list[i] \in DeviceRecord /\ w[i - 1].body \in Data
      BY <1>1, <1>2, <3>1 DEF Writers
    <3>4. RecordBytes(list[i]) \in Data /\ <<Size(RecordBytes(list[i]))>> \in Data
      BY <3>3, RecordSize, WithRecord
    <3>5. z[i - 1] - 3 \in Nat /\ z[i - 1] - 2 \in Nat
      <4>1. Size(w[i - 1].body) + 3 = z[i - 1] /\ Size(w[i - 1].body) \in Nat
        BY <1>3, <3>1, <3>3, Elements
      <4> QED
        BY <4>1
    <3> HIDE DEF old, new
    <3>6. /\ Has(new, 0 + (z[i - 1] - 3), <<Size(RecordBytes(list[i]))>>)
          /\ Has(new, 0 + (z[i - 1] - 2), RecordBytes(list[i]))
      BY <2>4, <2>5, <3>2, <3>4, <3>5, HasWithin
    <3>7. 0 + (z[i - 1] - 3) = z[i - 1] - 3 /\ 0 + (z[i - 1] - 2) = z[i - 1] - 2
      BY <3>5
    <3> QED
      BY <3>6, <3>7 DEF new
  <2>10. \A i \in 1 .. j : i = j \/ i \in 1 .. j - 1
    BY <2>1
  <2> HIDE DEF Placed
  <2> QED
    BY <2>1, <2>8, <2>9, <2>10
<1> HIDE DEF S
<1>6. \A j \in 0 .. c : j \in S
  BY <1>3, <1>4, <1>5, UpTo
<1> QED
  BY <1>6 DEF S

\* What a blob of the first c devices of a list looks like.
Laid(list, z, c, B) ==
    /\ Size(B) = z[c]
    /\ At(B, 0) = MAGIC /\ At(B, 1) = VERSION /\ At(B, 2) = c
    /\ \A i \in 1 .. c :
          /\ Has(B, z[i - 1], <<Size(RecordBytes(list[i]))>>)
          /\ Has(B, z[i - 1] + 1, RecordBytes(list[i]))

\* A blob is the first devices of the list, those that fit, in their order.
LEMMA SavedLayout ==
  ASSUME NEW list \in Store
  PROVE  \E z, c :
            /\ SizeRun(list, z) /\ c \in 0 .. Len(list)
            /\ \A k \in 0 .. Len(list) : (\A j \in 0 .. k : Fits(list, j)) <=> k <= c
            /\ serialize_all(list) \in Data
            /\ (serialize_all(list) = <<>> /\ c = 0) \/ Laid(list, z, c, serialize_all(list))
<1> DEFINE N == Len(list)
           B == serialize_all(list)
<1>1. PICK w : /\ WriterRun(list, w)
               /\ B = IF MAX_RECORD_SIZE < 3 THEN <<>>
                      ELSE <<MAGIC, VERSION, w[N].count>> \o w[N].body
  BY WriterRuns
<1>2. PICK z : SizeRun(list, z) /\ \A k \in 0 .. N : BlobSize(list, k) = z[k]
  BY SizeRuns
<1>3. N \in Nat /\ N <= 177 /\ \A i \in 1 .. N : list[i] \in DeviceRecord
  <2>1. N \in Nat /\ N \in 0 .. STORE_CAP /\ STORE_CAP \in 1 .. 177
    BY StoreIs
  <2> HIDE DEF N
  <2>2. N <= 177
    BY <2>1
  <2> QED
    BY <2>1, <2>2, StoreIs DEF N
<1>4. PICK c : Taken(list, w, z, N, c)
  <2>1. N \in 0 .. N
    BY <1>3
  <2> QED
    BY <1>1, <1>2, <2>1, FirstAreTaken
<1>5. /\ c \in 0 .. N /\ c \in Nat /\ c \in Byte
      /\ w[N].count = c /\ w[N].body = w[c].body /\ Size(w[c].body) + 3 = z[c]
  <2>1. c \in 0 .. N /\ w[N].count = c /\ w[N].body = w[c].body
    BY <1>4 DEF Taken
  <2>2. c \in 0 .. c
    BY <1>3, <2>1
  <2>3. Size(w[c].body) + 3 = z[c]
    BY <1>4, <2>2 DEF Taken
  <2>4. c \in Nat /\ c <= 177
    <3>1. c \in 0 .. N
      BY <2>1
    <3> HIDE DEF N
    <3> QED
      BY <1>3, <3>1
  <2>5. c \in Byte
    BY <2>4 DEF Byte
  <2> QED
    BY <2>1, <2>3, <2>4, <2>5
<1>6. \A k \in 0 .. N : (\A j \in 0 .. k : Fits(list, j)) <=> k <= c
  BY <1>1, <1>2, <1>4, TakenFit
<1>7. w[c].body \in Data /\ Size(w[c].body) \in Nat
  <2>1. w[c].body \in Data
    BY <1>1, <1>5 DEF WriterRun, Writers
  <2> QED
    BY <2>1, Elements
<1>8. CASE MAX_RECORD_SIZE < 3
  <2>1. B = <<>> /\ <<>> \in Data
    BY <1>1, <1>8 DEF Data
  <2>2. c = 0
    <3> SUFFICES ASSUME c # 0 PROVE FALSE
      OBVIOUS
    <3>1. 1 \in 0 .. N /\ 1 <= c /\ 1 \in 0 .. 1 /\ 1 \in 1 .. N
      BY <1>3, <1>5
    <3>2. Fits(list, 1)
      BY <1>6, <3>1
    <3>3. z[1] <= MAX_RECORD_SIZE
      BY <1>2, <3>1, <3>2 DEF Fits
    <3>4. z[1] = z[1 - 1] + 1 + Size(RecordBytes(list[1])) /\ 1 - 1 = 0 /\ z[0] = 3
      BY <1>2, <3>1 DEF SizeRun
    <3>5. Size(RecordBytes(list[1])) \in 1 .. 255
      BY <1>3, <3>1, RecordSize
    <3>6. MAX_RECORD_SIZE \in Nat
      BY FlashFormatAssumption
    <3> QED
      BY <1>8, <3>3, <3>4, <3>5, <3>6
  <2> QED
    BY <1>2, <1>5, <1>6, <2>1, <2>2
<1>9. CASE ~ (MAX_RECORD_SIZE < 3)
  <2>1. B = <<MAGIC, VERSION, c>> \o w[c].body
    BY <1>1, <1>5, <1>9
  <2>2. MAGIC \in Byte /\ VERSION \in Byte
    BY DEF MAGIC, VERSION, Byte
  <2>3. /\ B \in Data /\ Size(B) = 3 + Size(w[c].body) /\ Has(B, 3, w[c].body)
        /\ At(B, 0) = MAGIC /\ At(B, 1) = VERSION /\ At(B, 2) = c
    BY <1>5, <1>7, <2>1, <2>2, Header
  <2> HIDE DEF B
  <2>4. Size(B) = z[c]
    BY <1>5, <1>7, <2>3
  <2>5. ASSUME NEW i \in 1 .. c
        PROVE  /\ Has(B, z[i - 1], <<Size(RecordBytes(list[i]))>>)
               /\ Has(B, z[i - 1] + 1, RecordBytes(list[i]))
    <3>1. i \in 1 .. N /\ i - 1 \in 0 .. c /\ i - 1 \in 0 .. N /\ c \in 0 .. c
      BY <1>3, <1>5
    <3>2. /\ Has(w[c].body, z[i - 1] - 3, <<Size(RecordBytes(list[i]))>>)
          /\ Has(w[c].body, z[i - 1] - 2, RecordBytes(list[i]))
      BY <1>1, <1>2, <1>4, <2>5, <3>1, BodyHas
    <3>3. list[i] \in DeviceRecord /\ w[i - 1].body \in Data
      BY <1>1, <1>3, <3>1 DEF WriterRun, Writers
    <3>4. RecordBytes(list[i]) \in Data /\ <<Size(RecordBytes(list[i]))>> \in Data
      BY <3>3, RecordSize, WithRecord
    <3>5. Size(w[i - 1].body) + 3 = z[i - 1] /\ Size(w[i - 1].body) \in Nat
      <4>1. Size(w[i - 1].body) + 3 = z[i - 1]
        BY <1>4, <3>1 DEF Taken
      <4> QED
        BY <3>3, <4>1, Elements
    <3>6. /\ z[i - 1] - 3 \in Nat /\ z[i - 1] - 2 \in Nat
          /\ 3 + (z[i - 1] - 3) = z[i - 1] /\ 3 + (z[i - 1] - 2) = z[i - 1] + 1
      BY <3>5
    <3>7. /\ Has(B, 3 + (z[i - 1] - 3), <<Size(RecordBytes(list[i]))>>)
          /\ Has(B, 3 + (z[i - 1] - 2), RecordBytes(list[i]))
      BY <1>7, <2>3, <3>2, <3>4, <3>6, HasWithin
    <3> QED
      BY <3>6, <3>7
  <2>6. Laid(list, z, c, B)
    BY <2>3, <2>4, <2>5 DEF Laid
  <2> HIDE DEF Laid
  <2> QED
    BY <1>2, <1>5, <1>6, <2>3, <2>6 DEF B
<1> QED
  BY <1>8, <1>9

----------------------------------------------------------------------------
(* The readers.                                                            *)

\* The states of a reader.
Readers == [offset : Nat, devices : Store, done : BOOLEAN]

\* A reader that meets any bytes keeps at most STORE_CAP devices.
LEMMA ReadersType ==
  /\ ReaderAt(3) \in Readers /\ ReaderAt(1) \in Readers
  /\ \A x \in Readers : \A data \in Data :
        next_record(x, data) \in Readers /\ next_legacy(x, data) \in Readers
<1>1. <<>> \in Store
  <2>1. <<>> \in Seq(DeviceRecord) /\ Len(<<>>) = 0
    BY EmptySeq
  <2>2. 0 <= STORE_CAP
    BY FlashFormatAssumption
  <2> QED
    BY <2>1, <2>2 DEF Store
<1>2. ReaderAt(3) \in Readers /\ ReaderAt(1) \in Readers
  BY <1>1 DEF ReaderAt, Readers
<1>3. ASSUME NEW x \in Readers PROVE Stops(x) \in Readers
  BY DEF Stops, Readers
<1>4. ASSUME NEW x \in Readers, NEW end \in Nat, NEW found \in AtMostOne
      PROVE  Moves(x, end, found) \in Readers
  <2> DEFINE more == IF Len(x.devices) < STORE_CAP THEN x.devices \o found ELSE x.devices
  <2>1. more \in Store
    <3>1. x.devices \in Store
      BY DEF Readers
    <3> DEFINE old == x.devices
    <3> HIDE DEF old
    <3>2. old \in Seq(DeviceRecord) /\ Len(old) <= STORE_CAP
      BY <3>1 DEF Store, old
    <3>3. found \in Seq(DeviceRecord) /\ Len(found) <= 1
      BY DEF AtMostOne
    <3>4. CASE Len(old) < STORE_CAP
      <4>1. old \o found \in Seq(DeviceRecord) /\ Len(old \o found) = Len(old) + Len(found)
        BY <3>2, <3>3, ConcatProperties
      <4>2. Len(old) \in Nat /\ Len(found) \in Nat /\ STORE_CAP \in Int
        BY <3>2, <3>3, FlashFormatAssumption
      <4>3. Len(old \o found) <= STORE_CAP
        BY <3>3, <3>4, <4>1, <4>2
      <4>4. old \o found \in Store
        BY <4>1, <4>3 DEF Store
      <4> QED
        BY <3>4, <4>4 DEF old
    <3>5. CASE ~ (Len(old) < STORE_CAP)
      BY <3>1, <3>5 DEF old
    <3> QED
      BY <3>4, <3>5
  <2>2. Moves(x, end, found) = [x EXCEPT !.offset = end, !.devices = more]
    BY DEF Moves
  <2> HIDE DEF more
  <2> QED
    BY <2>1, <2>2 DEF Readers
<1>5. ASSUME NEW x \in Readers, NEW data \in Data PROVE next_record(x, data) \in Readers
  <2> DEFINE i == x.offset
             end == RecordEnd(data, i)
             found == deserialize(Slice(data, i + 1, end))
  <2>1. i \in Nat /\ Size(data) \in Nat /\ Len(data) = Size(data)
    BY Elements DEF Readers, Size
  <2>2. CASE x.done \/ i >= Len(data) \/ At(data, i) = 0 \/ end > Len(data)
    <3>1. next_record(x, data) = Stops(x)
      BY <2>2 DEF next_record
    <3> QED
      BY <1>3, <3>1
  <2>3. CASE ~ (x.done \/ i >= Len(data) \/ At(data, i) = 0 \/ end > Len(data))
    <3>1. next_record(x, data) = Moves(x, end, found)
      BY <2>3 DEF next_record
    <3>2. At(data, i) \in Byte
      <4>1. i + 1 \in 1 .. Size(data)
        BY <2>1, <2>3
      <4> QED
        BY <4>1, Elements DEF At
    <3>3. At(data, i) \in Nat
      BY <3>2, BytesCount
    <3>4. end \in Nat /\ i + 1 \in Nat /\ i + 1 <= end /\ end <= Size(data)
      <4> DEFINE length == At(data, i)
      <4>1. end = i + 1 + length
        BY DEF RecordEnd
      <4>2. length \in Nat /\ ~ (end > Len(data))
        BY <2>3, <3>3
      <4> HIDE DEF length, end, i
      <4> QED
        BY <2>1, <4>1, <4>2
    <3> HIDE DEF i, end
    <3>5. found \in AtMostOne
      <4>1. Slice(data, i + 1, end) \in Data
        BY <3>4, SliceType
      <4> QED
        BY <4>1, AnyRecord
    <3> HIDE DEF found
    <3> QED
      BY <1>4, <3>1, <3>4, <3>5
  <2> QED
    BY <2>2, <2>3
<1>6. ASSUME NEW x \in Readers, NEW data \in Data PROVE next_legacy(x, data) \in Readers
  <2> DEFINE i == x.offset
             size == LegacySize(data, i)
             end == i + size
             found == deserialize_base(Slice(data, i, end))
  <2>1. i \in Nat /\ Size(data) \in Nat /\ Len(data) = Size(data) /\ BaseSize \in Nat /\ BaseSize >= 1
    BY Elements, Sizes DEF Readers, Size
  <2>2. CASE x.done \/ i + BaseSize > Len(data) \/ end > Len(data)
    <3>1. next_legacy(x, data) = Stops(x)
      BY <2>2 DEF next_legacy
    <3> QED
      BY <1>3, <3>1
  <2>3. CASE ~ (x.done \/ i + BaseSize > Len(data) \/ end > Len(data))
    <3>1. next_legacy(x, data) = Moves(x, end, found)
      BY <2>3 DEF next_legacy
    <3>2. At(data, i + BaseSize - 1) \in Byte
      <4>1. (i + BaseSize - 1) + 1 \in 1 .. Size(data)
        BY <2>1, <2>3
      <4> QED
        BY <4>1, Elements DEF At
    <3>3. At(data, i + BaseSize - 1) \in Nat
      BY <3>2, BytesCount
    <3>4. end \in Nat /\ i <= end /\ end <= Size(data)
      <4> DEFINE length == At(data, i + BaseSize - 1)
      <4>1. end = i + (BaseSize + length)
        BY DEF LegacySize
      <4>2. length \in Nat /\ ~ (end > Len(data))
        BY <2>3, <3>3
      <4> HIDE DEF length, end, i
      <4> QED
        BY <2>1, <4>1, <4>2
    <3> HIDE DEF end
    <3>5. found \in AtMostOne
      <4>1. Slice(data, i, end) \in Data
        BY <2>1, <3>4, SliceType
      <4> QED
        BY <4>1, AnyBaseFound
    <3> HIDE DEF found
    <3> QED
      BY <1>4, <3>1, <3>4, <3>5
  <2> QED
    BY <2>2, <2>3
<1> QED
  BY <1>2, <1>5, <1>6

\* r[n] is the reader after n rounds.
VersionedRun(data, r) ==
    /\ r \in [0 .. Size(data) -> Readers]
    /\ r[0] = ReaderAt(3)
    /\ \A n \in 1 .. Size(data) : r[n] = next_record(r[n - 1], data)

\* deserialize_versioned is what its reader has after all rounds.
LEMMA VersionedRuns ==
  ASSUME NEW data \in Data, At(data, 2) \in Byte
  PROVE  \E r : /\ VersionedRun(data, r)
               /\ Rounds(At(data, 2), data) \in 0 .. Size(data)
               /\ deserialize_versioned(data) = r[Rounds(At(data, 2), data)].devices
<1> DEFINE N == Size(data)
           rounds == Rounds(At(data, 2), data)
           Solves(r) == r = [n \in 0 .. N |-> IF n = 0 THEN ReaderAt(3)
                                               ELSE next_record(r[n - 1], data)]
           reader == CHOOSE r : Solves(r)
           step == [n \in 1 .. N |-> [x \in Readers |-> next_record(x, data)]]
<1>1. N \in Nat
  BY Elements
<1>2. rounds \in 0 .. N
  <2>1. At(data, 2) \in Nat
    BY BytesCount
  <2> QED
    BY <1>1, <2>1 DEF Rounds, Size
<1>3. \A n \in 1 .. N : \A x \in Readers : step[n][x] = next_record(x, data) /\ step[n][x] \in Readers
  BY ReadersType
<1>4. deserialize_versioned(data) = reader[rounds].devices
  BY DEF deserialize_versioned, Size
<1> HIDE DEF N, step, rounds
<1>5. PICK r : /\ r \in [0 .. N -> Readers] /\ r[0] = ReaderAt(3)
               /\ \A n \in 1 .. N : r[n] = step[n][r[n - 1]]
  <2>1. Within(step, N, Readers)
    BY <1>3 DEF Within
  <2>2. \E r : Follows(r, N, Readers, ReaderAt(3), step)
    BY <1>1, <2>1, ReadersType, StepByStep
  <2> QED
    BY <2>2 DEF Follows
<1>6. \A n \in 1 .. N : n - 1 \in 0 .. N /\ r[n] = next_record(r[n - 1], data)
  <2>1. \A n \in 1 .. N : n - 1 \in 0 .. N
    BY <1>1
  <2> QED
    BY <1>3, <1>5, <2>1
<1>7. Solves(r)
  <2>1. r = [n \in 0 .. N |-> r[n]]
    BY <1>5
  <2>2. \A n \in 0 .. N : r[n] = IF n = 0 THEN ReaderAt(3) ELSE next_record(r[n - 1], data)
    <3>1. \A n \in 0 .. N : n = 0 \/ n \in 1 .. N
      BY <1>1
    <3> QED
      BY <1>5, <1>6, <3>1
  <2> QED
    BY <2>1, <2>2
<1>8. Solves(reader)
  <2> HIDE DEF Solves
  <2> QED
    BY <1>7
<1> HIDE DEF reader
<1>9. reader[0] = ReaderAt(3) /\ \A n \in 1 .. N : reader[n] = next_record(reader[n - 1], data)
  <2>1. \A n \in 1 .. N : n \in 0 .. N /\ n # 0
    BY <1>1
  <2>2. 0 \in 0 .. N
    BY <1>1
  <2> QED
    BY <1>8, <2>1, <2>2
<1>10. \A n \in 0 .. N : reader[n] = r[n]
  <2> DEFINE S == {n \in 0 .. N : reader[n] = r[n]}
  <2>1. 0 \in S
    BY <1>1, <1>5, <1>9
  <2>2. ASSUME NEW n \in 1 .. N, n - 1 \in S PROVE n \in S
    <3>1. n \in 0 .. N
      BY <1>1
    <3> QED
      BY <1>6, <1>9, <2>2, <3>1
  <2> HIDE DEF S
  <2>3. \A n \in 0 .. N : n \in S
    BY <1>1, <2>1, <2>2, UpTo
  <2> QED
    BY <2>3 DEF S
<1>11. VersionedRun(data, r)
  BY <1>5, <1>6 DEF VersionedRun, N
<1> QED
  BY <1>2, <1>4, <1>10, <1>11 DEF N, rounds

\* r[n] is the reader of the older format after n rounds.
LegacyRun(data, r) ==
    /\ r \in [0 .. Size(data) -> Readers]
    /\ r[0] = ReaderAt(1)
    /\ \A n \in 1 .. Size(data) : r[n] = next_legacy(r[n - 1], data)

\* deserialize_legacy is what its reader has after all rounds.
LEMMA LegacyRuns ==
  ASSUME NEW data \in Data, At(data, 0) \in Byte
  PROVE  \E r : /\ LegacyRun(data, r)
               /\ Rounds(At(data, 0), data) \in 0 .. Size(data)
               /\ deserialize_legacy(data) = r[Rounds(At(data, 0), data)].devices
<1> DEFINE N == Size(data)
           rounds == Rounds(At(data, 0), data)
           Solves(r) == r = [n \in 0 .. N |-> IF n = 0 THEN ReaderAt(1)
                                               ELSE next_legacy(r[n - 1], data)]
           reader == CHOOSE r : Solves(r)
           step == [n \in 1 .. N |-> [x \in Readers |-> next_legacy(x, data)]]
<1>1. N \in Nat
  BY Elements
<1>2. rounds \in 0 .. N
  <2>1. At(data, 0) \in Nat
    BY BytesCount
  <2> QED
    BY <1>1, <2>1 DEF Rounds, Size
<1>3. \A n \in 1 .. N : \A x \in Readers : step[n][x] = next_legacy(x, data) /\ step[n][x] \in Readers
  BY ReadersType
<1>4. deserialize_legacy(data) = reader[rounds].devices
  BY DEF deserialize_legacy, Size
<1> HIDE DEF N, step, rounds
<1>5. PICK r : /\ r \in [0 .. N -> Readers] /\ r[0] = ReaderAt(1)
               /\ \A n \in 1 .. N : r[n] = step[n][r[n - 1]]
  <2>1. Within(step, N, Readers)
    BY <1>3 DEF Within
  <2>2. \E r : Follows(r, N, Readers, ReaderAt(1), step)
    BY <1>1, <2>1, ReadersType, StepByStep
  <2> QED
    BY <2>2 DEF Follows
<1>6. \A n \in 1 .. N : n - 1 \in 0 .. N /\ r[n] = next_legacy(r[n - 1], data)
  <2>1. \A n \in 1 .. N : n - 1 \in 0 .. N
    BY <1>1
  <2> QED
    BY <1>3, <1>5, <2>1
<1>7. Solves(r)
  <2>1. r = [n \in 0 .. N |-> r[n]]
    BY <1>5
  <2>2. \A n \in 0 .. N : r[n] = IF n = 0 THEN ReaderAt(1) ELSE next_legacy(r[n - 1], data)
    <3>1. \A n \in 0 .. N : n = 0 \/ n \in 1 .. N
      BY <1>1
    <3> QED
      BY <1>5, <1>6, <3>1
  <2> QED
    BY <2>1, <2>2
<1>8. Solves(reader)
  <2> HIDE DEF Solves
  <2> QED
    BY <1>7
<1> HIDE DEF reader
<1>9. reader[0] = ReaderAt(1) /\ \A n \in 1 .. N : reader[n] = next_legacy(reader[n - 1], data)
  <2>1. \A n \in 1 .. N : n \in 0 .. N /\ n # 0
    BY <1>1
  <2>2. 0 \in 0 .. N
    BY <1>1
  <2> QED
    BY <1>8, <2>1, <2>2
<1>10. \A n \in 0 .. N : reader[n] = r[n]
  <2> DEFINE S == {n \in 0 .. N : reader[n] = r[n]}
  <2>1. 0 \in S
    BY <1>1, <1>5, <1>9
  <2>2. ASSUME NEW n \in 1 .. N, n - 1 \in S PROVE n \in S
    <3>1. n \in 0 .. N
      BY <1>1
    <3> QED
      BY <1>6, <1>9, <2>2, <3>1
  <2> HIDE DEF S
  <2>3. \A n \in 0 .. N : n \in S
    BY <1>1, <2>1, <2>2, UpTo
  <2> QED
    BY <2>3 DEF S
<1>11. LegacyRun(data, r)
  BY <1>5, <1>6 DEF LegacyRun, N
<1> QED
  BY <1>2, <1>4, <1>10, <1>11 DEF N, rounds

\* Whatever is in flash, what is loaded is a store.
LEMMA AnyBytes ==
  ASSUME NEW data \in Data
  PROVE  deserialize_all(data) \in Store
<1>1. Len(data) \in Nat /\ Len(data) = Size(data)
  BY Elements DEF Size
<1>2. CASE data = <<>>
  <2>1. deserialize_all(data) = <<>>
    BY <1>2 DEF deserialize_all
  <2>2. <<>> \in Store
    BY ReadersType DEF ReaderAt, Readers
  <2> QED
    BY <2>1, <2>2
<1>3. CASE data # <<>> /\ is_versioned(data)
  <2>1. deserialize_all(data) = deserialize_versioned(data)
    BY <1>3 DEF deserialize_all
  <2>2. At(data, 2) \in Byte
    <3>1. 2 + 1 \in 1 .. Size(data)
      BY <1>1, <1>3 DEF is_versioned
    <3> QED
      BY <3>1, Elements DEF At
  <2>3. PICK r : /\ VersionedRun(data, r) /\ Rounds(At(data, 2), data) \in 0 .. Size(data)
                 /\ deserialize_versioned(data) = r[Rounds(At(data, 2), data)].devices
    BY <2>2, VersionedRuns
  <2> QED
    BY <2>1, <2>3 DEF VersionedRun, Readers
<1>4. CASE data # <<>> /\ ~ is_versioned(data)
  <2>1. deserialize_all(data) = deserialize_legacy(data)
    BY <1>4 DEF deserialize_all
  <2>2. At(data, 0) \in Byte
    <3>1. Len(data) # 0
      BY <1>4, EmptySeq DEF Data
    <3>2. 0 + 1 \in 1 .. Size(data)
      BY <1>1, <3>1
    <3> QED
      BY <3>2, Elements DEF At
  <2>3. PICK r : /\ LegacyRun(data, r) /\ Rounds(At(data, 0), data) \in 0 .. Size(data)
                 /\ deserialize_legacy(data) = r[Rounds(At(data, 0), data)].devices
    BY <2>2, LegacyRuns
  <2> QED
    BY <2>1, <2>3 DEF LegacyRun, Readers
<1> QED
  BY <1>2, <1>3, <1>4

LEMMA SomeBytes == \A v \in 1 .. 255 : v \in Nat /\ v >= 1
OBVIOUS

\* A record takes at least a byte.
LEMMA SizesGrow ==
  ASSUME NEW list \in Store, NEW z, SizeRun(list, z)
  PROVE  \A n \in 0 .. Len(list) : z[n] \in Nat /\ z[n] >= n + 3
<1> DEFINE N == Len(list)
           S == {n \in 0 .. N : z[n] \in Nat /\ z[n] >= n + 3}
<1>1. N \in Nat /\ \A i \in 1 .. N : list[i] \in DeviceRecord
  BY StoreIs
<1>2. /\ z \in [0 .. N -> Nat] /\ z[0] = 3
      /\ \A n \in 1 .. N : z[n] = z[n - 1] + 1 + Size(RecordBytes(list[n]))
  BY DEF SizeRun
<1> HIDE DEF N
<1>3. 0 \in S
  BY <1>1, <1>2
<1>4. ASSUME NEW n \in 1 .. N, n - 1 \in S PROVE n \in S
  <2>1. n \in 0 .. N /\ n \in Nat
    BY <1>1
  <2>2. z[n] = z[n - 1] + 1 + Size(RecordBytes(list[n])) /\ z[n - 1] \in Nat /\ z[n - 1] >= (n - 1) + 3
    BY <1>2, <1>4
  <2>3. Size(RecordBytes(list[n])) \in 1 .. 255
    BY <1>1, RecordSize
  <2>4. z[n] \in Nat /\ z[n] >= n + 3
    BY <2>1, <2>2, <2>3
  <2> QED
    BY <2>1, <2>4
<1> HIDE DEF S
<1>5. \A n \in 0 .. N : n \in S
  BY <1>1, <1>3, <1>4, UpTo
<1> QED
  BY <1>5 DEF S, N

\* What is read of a blob, all of it or its first m bytes.
LEMMA ReadsBack ==
  ASSUME NEW list \in Store, NEW z, SizeRun(list, z), NEW c \in 0 .. Len(list),
         NEW B \in Data, Laid(list, z, c, B), NEW m \in 3 .. Size(B)
  PROVE  \E j \in 0 .. c :
            /\ deserialize_versioned(SubSeq(B, 1, m)) = SubSeq(list, 1, j)
            /\ m = Size(B) => j = c
<1> DEFINE data == SubSeq(B, 1, m)
           N == Len(list)
           rounds == Rounds(At(data, 2), data)
<1>1. /\ N \in Nat /\ N <= STORE_CAP /\ STORE_CAP \in Nat /\ list \in Seq(DeviceRecord)
      /\ \A i \in 1 .. N : list[i] \in DeviceRecord
  <2>1. N \in 0 .. STORE_CAP /\ STORE_CAP \in 1 .. 177
    BY StoreIs
  <2> HIDE DEF N
  <2>2. N \in Nat /\ N <= STORE_CAP /\ STORE_CAP \in Nat
    BY <2>1
  <2> QED
    BY <2>2, StoreIs DEF N
<1>2. Size(B) \in Nat /\ m \in Nat /\ m \in 0 .. Size(B) /\ m >= 3 /\ c \in Nat /\ c <= N
  BY <1>1, Elements
<1>3. /\ data \in Data /\ Size(data) = m /\ Len(data) = m
      /\ \A i \in Nat : i < m => At(data, i) = At(B, i)
      /\ \A i \in Nat : \A t \in Data : Has(B, i, t) /\ i + Size(t) <= m => Has(data, i, t)
  BY <1>2, PrefixHas DEF Size
<1> HIDE DEF data
<1>4. At(data, 2) = c /\ c \in Byte /\ rounds \in 0 .. c /\ rounds \in 0 .. m
      /\ (c <= m => rounds = c)
  <2>1. At(data, 2) = c
    BY <1>2, <1>3 DEF Laid
  <2>2. c <= 177
    BY <1>1, <1>2, FlashFormatAssumption
  <2>3. c \in Byte
    BY <1>2, <2>2 DEF Byte
  <2> QED
    BY <1>2, <1>3, <2>1, <2>3 DEF Rounds
<1>5. PICK r : VersionedRun(data, r) /\ deserialize_versioned(data) = r[rounds].devices
  BY <1>3, <1>4, VersionedRuns
<1>6. /\ r \in [0 .. m -> Readers] /\ r[0] = ReaderAt(3)
      /\ \A n \in 1 .. m : r[n] = next_record(r[n - 1], data)
  BY <1>3, <1>5 DEF VersionedRun
<1> HIDE DEF rounds, N
<1> DEFINE Read(n, j) == /\ j \in 0 .. n
                         /\ r[n].devices = SubSeq(list, 1, j)
                         /\ r[n].done \/ (j = n /\ r[n].offset = z[n])
                         /\ m = Size(B) => ~ r[n].done
           S == {n \in 0 .. rounds : \E j : Read(n, j)}
<1>7. 0 \in S
  <2>1. /\ r[0].devices = <<>> /\ r[0].done = FALSE /\ r[0].offset = 3 /\ z[0] = 3
    BY <1>6 DEF ReaderAt, SizeRun
  <2>2. SubSeq(list, 1, 0) = <<>>
    BY <1>1, SubSeqEmpty
  <2>3. Read(0, 0)
    BY <2>1, <2>2
  <2> HIDE DEF Read
  <2> QED
    BY <1>4, <2>3
<1>8. ASSUME NEW n \in 1 .. rounds, n - 1 \in S PROVE n \in S
  <2>1. PICK j : Read(n - 1, j)
    BY <1>8
  <2>2. /\ n \in Nat /\ n \in 1 .. c /\ n \in 1 .. m /\ n \in 1 .. N /\ n \in 0 .. rounds /\ n - 1 \in 0 .. m
        /\ n - 1 \in 0 .. N /\ n - 1 < STORE_CAP
    BY <1>1, <1>2, <1>4
  <2> DEFINE x == r[n - 1]
             i == z[n - 1]
             rec == RecordBytes(list[n])
  <2>3. x \in Readers /\ r[n] = next_record(x, data)
    BY <1>6, <2>2
  <2>4. /\ j \in 0 .. n - 1 /\ x.devices = SubSeq(list, 1, j)
        /\ x.done \/ (j = n - 1 /\ x.offset = i)
        /\ m = Size(B) => ~ x.done
    BY <2>1
  <2> HIDE DEF x
  \* The reader stops: what it has so far is all.
  <2>5. ASSUME r[n] = Stops(x), m # Size(B) PROVE n \in S
    <3>1. r[n].devices = x.devices /\ r[n].done = TRUE
      BY <2>3, <2>5 DEF Stops, Readers
    <3>2. j \in 0 .. n
      BY <2>2, <2>4
    <3>3. Read(n, j)
      BY <2>4, <2>5, <3>1, <3>2
    <3> HIDE DEF Read
    <3> QED
      BY <2>2, <3>3
  <2>6. CASE x.done
    <3>1. next_record(x, data) = Stops(x)
      BY <2>6 DEF next_record
    <3> QED
      BY <2>3, <2>4, <2>5, <2>6, <3>1
  <2>7. CASE ~ x.done
    <3>1. j = n - 1 /\ x.offset = i /\ i \in Nat
      <4>1. z[n - 1] \in Nat
        BY <2>2, SizesGrow DEF N
      <4> QED
        BY <2>4, <2>7, <4>1
    <3>2. /\ Has(B, i, <<Size(rec)>>) /\ Has(B, i + 1, rec)
      BY <2>2 DEF Laid
    <3>3. rec \in Data /\ Size(rec) \in 1 .. 255 /\ Size(rec) \in Nat /\ Size(rec) >= 1
          /\ list[n] \in DeviceRecord /\ deserialize(rec) = <<list[n]>>
      <4>1. list[n] \in DeviceRecord
        BY <1>1, <2>2
      <4>2. rec \in Data /\ Size(rec) \in 1 .. 255
        BY <4>1, RecordSize
      <4>3. Size(rec) \in Nat /\ Size(rec) >= 1
        BY <4>2, SomeBytes, Zenon
      <4> QED
        BY <4>1, <4>2, <4>3, RecordRead
    <3>4. z[n] = i + 1 + Size(rec)
      BY <2>2 DEF SizeRun, N
    <3> HIDE DEF rec, i
    <3>5. z[n] <= Size(B) /\ z[n] \in Nat /\ i < z[n]
      <4>1. (i + 1) + Size(rec) <= Size(B)
        BY <3>2 DEF Has
      <4> QED
        BY <3>1, <3>3, <3>4, <4>1
    <3>6. CASE i >= m
      <4>1. m # Size(B)
        BY <1>2, <3>1, <3>5, <3>6
      <4>2. next_record(x, data) = Stops(x)
        BY <1>3, <3>1, <3>6 DEF next_record
      <4> QED
        BY <2>3, <2>5, <4>1, <4>2
    <3>7. CASE ~ (i >= m)
      <4>1. At(data, i) = Size(rec)
        <5>1. At(B, i) = Size(rec)
          <6>1. Size(rec) \in Byte
            BY <3>3 DEF Byte
          <6> QED
            BY <3>1, <3>2, <6>1, HasByte
        <5>2. i < m
          BY <1>2, <3>1, <3>7
        <5> QED
          BY <1>3, <3>1, <5>1, <5>2
      <4>2. RecordEnd(data, i) = z[n] /\ At(data, i) # 0
        BY <3>3, <3>4, <4>1 DEF RecordEnd
      <4>3. CASE z[n] > m
        <5>1. m # Size(B)
          BY <1>2, <3>5, <4>3
        <5>2. next_record(x, data) = Stops(x)
          BY <1>3, <3>1, <4>2, <4>3 DEF next_record
        <5> QED
          BY <2>3, <2>5, <5>1, <5>2
      <4>4. CASE ~ (z[n] > m)
        <5>1. Has(data, i + 1, rec)
          <6>1. (i + 1) + Size(rec) <= m /\ i + 1 \in Nat
            BY <1>2, <3>1, <3>3, <3>4, <3>5, <4>4
          <6> QED
            BY <1>3, <3>2, <3>3, <6>1
        <5>2. Slice(data, i + 1, z[n]) = rec
          <6>1. z[n] = (i + 1) + Size(rec) /\ i + 1 \in Nat
            BY <3>1, <3>3, <3>4
          <6> QED
            BY <1>3, <3>3, <5>1, <6>1, HasSlice
        <5>3. next_record(x, data) = Moves(x, z[n], <<list[n]>>)
          <6>1. ~ (x.done \/ i >= Len(data)) /\ ~ (At(data, i) = 0 \/ RecordEnd(data, i) > Len(data))
            BY <1>3, <2>7, <3>7, <4>2, <4>4
          <6>2. next_record(x, data)
                  = Moves(x, RecordEnd(data, i), deserialize(Slice(data, i + 1, RecordEnd(data, i))))
            BY <3>1, <6>1, Zenon DEF next_record
          <6> QED
            BY <3>3, <4>2, <5>2, <6>2
        <5>4. /\ x.devices = SubSeq(list, 1, n - 1) /\ Len(x.devices) < STORE_CAP
              /\ x.devices \o <<list[n]>> = SubSeq(list, 1, n)
          <6>1. /\ SubSeq(list, 1, n) = SubSeq(list, 1, n - 1) \o <<list[n]>>
                /\ Len(SubSeq(list, 1, n - 1)) = n - 1
            BY <1>1, <2>2, NextOf DEF N
          <6> QED
            BY <2>2, <2>4, <3>1, <6>1, Zenon
        <5>5. /\ r[n].devices = SubSeq(list, 1, n) /\ r[n].offset = z[n] /\ r[n].done = x.done
          <6>1. r[n] = [x EXCEPT !.offset = z[n],
                                 !.devices = IF Len(@) < STORE_CAP THEN @ \o <<list[n]>> ELSE @]
            BY <2>3, <5>3 DEF Moves
          <6>2. r[n] = [x EXCEPT !.offset = z[n], !.devices = SubSeq(list, 1, n)]
            BY <5>4, <6>1, Zenon
          <6> QED
            BY <2>3, <6>2 DEF Readers
        <5>6. n \in 0 .. n /\ ~ r[n].done
          BY <2>2, <2>7, <5>5
        <5>7. Read(n, n)
          BY <5>5, <5>6
        <5> HIDE DEF Read
        <5> QED
          BY <2>2, <5>7
      <4> QED
        BY <4>3, <4>4
    <3> QED
      BY <3>6, <3>7
  <2> QED
    BY <2>6, <2>7
<1> HIDE DEF S
<1>9. rounds \in S
  <2>1. rounds \in Nat
    BY <1>4
  <2>2. \A n \in 0 .. rounds : n \in S
    BY <1>7, <1>8, <2>1, UpTo
  <2> QED
    BY <2>1, <2>2
<1>10. PICK j : Read(rounds, j)
  BY <1>9 DEF S
<1>11. j \in 0 .. c
  BY <1>2, <1>4, <1>10
<1>12. ASSUME m = Size(B) PROVE j = c
  <2>1. z[c] \in Nat /\ z[c] >= c + 3
    BY SizesGrow
  <2>2. Size(B) = z[c]
    BY DEF Laid
  <2>3. rounds = c
    BY <1>2, <1>4, <1>12, <2>1, <2>2
  <2> QED
    BY <1>10, <1>12, <2>3
<1> QED
  BY <1>5, <1>10, <1>11, <1>12 DEF data

----------------------------------------------------------------------------
(* What older firmware wrote.                                              *)

\* y[n] is what older firmware had written after n devices.
OlderRun(list, y) ==
    /\ y \in [0 .. Len(list) -> Data]
    /\ y[0] = <<Len(list)>>
    /\ \A n \in 1 .. Len(list) : y[n] = y[n - 1] \o serialize_base(list[n])

\* The count of an older blob is never taken for the magic byte.
LEMMA CountIsByte ==
  ASSUME NEW list \in Store
  PROVE  Len(list) \in Byte /\ Len(list) # MAGIC
<1> DEFINE N == Len(list)
<1>1. N \in 0 .. STORE_CAP /\ STORE_CAP \in 1 .. 177
  BY StoreIs
<1> HIDE DEF N
<1>2. N \in Nat /\ N <= 177
  BY <1>1
<1>3. N \in Byte /\ N # MAGIC
  BY <1>2 DEF Byte, MAGIC
<1> QED
  BY <1>3 DEF N

\* OlderBlob is what older firmware had after all devices.
LEMMA OlderRuns ==
  ASSUME NEW list \in Store
  PROVE  \E y : OlderRun(list, y) /\ OlderBlob(list) = y[Len(list)]
<1> DEFINE N == Len(list)
           first == <<N>>
           Solves(y) == y = [n \in 0 .. N |-> IF n = 0 THEN <<Len(list)>>
                                               ELSE y[n - 1] \o serialize_base(list[n])]
           bytes == CHOOSE y : Solves(y)
           step == [n \in 1 .. N |-> [x \in Data |-> x \o serialize_base(list[n])]]
<1>1. N \in Nat /\ first \in Data
  BY StoreIs, CountIsByte, OneByte
<1>2. ASSUME NEW n \in 1 .. N, NEW x \in Data
      PROVE  step[n][x] = x \o serialize_base(list[n]) /\ step[n][x] \in Data
  <2>1. serialize_base(list[n]) \in Data
    BY StoreIs, BaseBytes
  <2>2. x \o serialize_base(list[n]) \in Data
    BY <2>1, Joins
  <2> QED
    BY <2>2
<1>3. OlderBlob(list) = bytes[N]
  BY DEF OlderBlob
<1>4. \A y : Solves(y) <=> y = [n \in 0 .. N |-> IF n = 0 THEN first
                                                 ELSE y[n - 1] \o serialize_base(list[n])]
  OBVIOUS
<1> HIDE DEF N, first, step
<1>5. PICK y : /\ y \in [0 .. N -> Data] /\ y[0] = first
               /\ \A n \in 1 .. N : y[n] = step[n][y[n - 1]]
  <2>1. Within(step, N, Data)
    BY <1>2 DEF Within
  <2>2. \E y : Follows(y, N, Data, first, step)
    BY <1>1, <2>1, StepByStep
  <2> QED
    BY <2>2 DEF Follows
<1>6. \A n \in 1 .. N : n - 1 \in 0 .. N /\ y[n] = y[n - 1] \o serialize_base(list[n])
  <2>1. \A n \in 1 .. N : n - 1 \in 0 .. N
    BY <1>1
  <2> QED
    BY <1>2, <1>5, <2>1
<1>7. Solves(y)
  <2>1. y = [n \in 0 .. N |-> y[n]]
    BY <1>5
  <2>2. \A n \in 0 .. N : y[n] = IF n = 0 THEN first ELSE y[n - 1] \o serialize_base(list[n])
    <3>1. \A n \in 0 .. N : n = 0 \/ n \in 1 .. N
      BY <1>1
    <3> QED
      BY <1>5, <1>6, <3>1
  <2>3. y = [n \in 0 .. N |-> IF n = 0 THEN first ELSE y[n - 1] \o serialize_base(list[n])]
    BY <2>1, <2>2
  <2> HIDE DEF Solves
  <2> QED
    BY <1>4, <2>3
<1> HIDE DEF Solves
<1>8. Solves(bytes)
  BY <1>7
<1> HIDE DEF bytes
<1>9. bytes[0] = first /\ \A n \in 1 .. N : bytes[n] = bytes[n - 1] \o serialize_base(list[n])
  <2>1. bytes = [n \in 0 .. N |-> IF n = 0 THEN first ELSE bytes[n - 1] \o serialize_base(list[n])]
    BY <1>4, <1>8
  <2>2. \A n \in 1 .. N : n \in 0 .. N /\ n # 0
    BY <1>1
  <2>3. 0 \in 0 .. N
    BY <1>1
  <2> QED
    BY <2>1, <2>2, <2>3
<1>10. \A n \in 0 .. N : bytes[n] = y[n]
  <2> DEFINE S == {n \in 0 .. N : bytes[n] = y[n]}
  <2>1. 0 \in S
    BY <1>1, <1>5, <1>9
  <2>2. ASSUME NEW n \in 1 .. N, n - 1 \in S PROVE n \in S
    <3>1. n \in 0 .. N
      BY <1>1
    <3> QED
      BY <1>6, <1>9, <2>2, <3>1
  <2> HIDE DEF S
  <2>3. \A n \in 0 .. N : n \in S
    BY <1>1, <2>1, <2>2, UpTo
  <2> QED
    BY <2>3 DEF S
<1>11. OlderRun(list, y)
  BY <1>5, <1>6 DEF OlderRun, N, first
<1>12. bytes[N] = y[N]
  BY <1>1, <1>10
<1> QED
  BY <1>3, <1>11, <1>12 DEF N

\* Where each record is in what older firmware wrote.
LEMMA OlderHas ==
  ASSUME NEW list \in Store, NEW y, OlderRun(list, y)
  PROVE  \A j \in 0 .. Len(list) :
            /\ y[j] \in Data /\ Size(y[j]) \in Nat /\ Size(y[j]) > j
            /\ Has(y[j], 0, <<Len(list)>>)
            /\ \A i \in 1 .. j :
                  /\ Has(y[j], Size(y[i - 1]), serialize_base(list[i]))
                  /\ Size(y[i]) = Size(y[i - 1]) + Size(serialize_base(list[i]))
<1> DEFINE N == Len(list)
           first == <<N>>
           base(i) == serialize_base(list[i])
           Good(j) == /\ y[j] \in Data /\ Size(y[j]) \in Nat /\ Size(y[j]) > j
                      /\ Has(y[j], 0, first)
                      /\ \A i \in 1 .. j : /\ Has(y[j], Size(y[i - 1]), base(i))
                                           /\ Size(y[i]) = Size(y[i - 1]) + Size(base(i))
           S == {j \in 0 .. N : Good(j)}
<1>1. N \in Nat /\ first \in Data /\ Size(first) = 1
  BY StoreIs, CountIsByte, OneByte
<1>2. ASSUME NEW i \in 1 .. N PROVE base(i) \in Data /\ Size(base(i)) \in Nat /\ Size(base(i)) >= 1
  <2>1. list[i] \in DeviceRecord
    BY StoreIs
  <2>2. base(i) \in Data /\ Size(base(i)) = BaseSize + Size(list[i].name)
    BY <2>1, BaseBytes
  <2>3. Size(list[i].name) \in Nat
    BY <2>1, DeviceFields, Elements
  <2> HIDE DEF base
  <2>4. BaseSize \in Nat /\ BaseSize >= 1
    BY Sizes
  <2> QED
    BY <2>2, <2>3, <2>4
<1>3. /\ y \in [0 .. N -> Data] /\ y[0] = first
      /\ \A n \in 1 .. N : y[n] = y[n - 1] \o base(n)
  BY DEF OlderRun
<1> HIDE DEF N, first, base
<1>4. 0 \in S
  <2>1. y[0] \in Data /\ Size(y[0]) = 1 /\ Has(y[0], 0, first)
    BY <1>1, <1>3, HasAll
  <2>2. 0 \in 0 .. N /\ 1 .. 0 = {}
    BY <1>1
  <2> QED
    BY <2>1, <2>2
<1>5. ASSUME NEW j \in 1 .. N, j - 1 \in S PROVE j \in S
  <2>1. j \in 0 .. N /\ j \in Nat
    BY <1>1
  <2>2. Good(j - 1)
    BY <1>5
  <2> DEFINE old == y[j - 1]
             new == y[j]
  <2>3. /\ old \in Data /\ Size(old) \in Nat /\ Size(old) > j - 1 /\ Has(old, 0, first)
        /\ \A i \in 1 .. j - 1 : /\ Has(old, Size(y[i - 1]), base(i))
                                 /\ Size(y[i]) = Size(y[i - 1]) + Size(base(i))
    BY <2>2
  <2>4. base(j) \in Data /\ Size(base(j)) \in Nat /\ Size(base(j)) >= 1
    BY <1>2
  <2>5. new = old \o base(j)
    BY <1>3
  <2>6. /\ new \in Data /\ Size(new) = Size(old) + Size(base(j))
        /\ Has(new, 0, old) /\ Has(new, Size(old), base(j))
    <3>1. /\ old \o base(j) \in Data /\ Size(old \o base(j)) = Size(old) + Size(base(j))
          /\ Has(old \o base(j), 0, old) /\ Has(old \o base(j), Size(old), base(j))
      BY <2>3, <2>4, Joins, HasParts
    <3> QED
      BY ONLY <2>5, <3>1, Zenon
  <2>7. Size(new) \in Nat /\ Size(new) > j
    BY <2>1, <2>3, <2>4, <2>6
  <2>8. Has(new, 0, first)
    <3>1. Has(new, 0 + 0, first)
      BY <1>1, <2>3, <2>6, HasWithin
    <3> QED
      BY <3>1
  <2>9. ASSUME NEW i \in 1 .. j
        PROVE  /\ Has(new, Size(y[i - 1]), base(i))
               /\ Size(y[i]) = Size(y[i - 1]) + Size(base(i))
    <3>1. CASE i = j
      BY <2>6, <3>1
    <3>2. CASE i # j
      <4>1. i \in 1 .. j - 1 /\ i \in 1 .. N /\ i - 1 \in 0 .. N
        BY <1>1, <2>1, <3>2
      <4>2. Has(old, Size(y[i - 1]), base(i)) /\ Size(y[i]) = Size(y[i - 1]) + Size(base(i))
        BY <2>3, <4>1
      <4>3. base(i) \in Data /\ Size(y[i - 1]) \in Nat
        BY <1>2, <1>3, <4>1, Elements
      <4> HIDE DEF old, new
      <4>4. Has(new, 0 + Size(y[i - 1]), base(i))
        BY <2>3, <2>6, <4>2, <4>3, HasWithin
      <4>5. 0 + Size(y[i - 1]) = Size(y[i - 1])
        BY <4>3
      <4> QED
        BY <4>2, <4>4, <4>5
    <3> QED
      BY <3>1, <3>2
  <2>10. Good(j)
    BY <2>6, <2>7, <2>8, <2>9
  <2> HIDE DEF Good
  <2> QED
    BY <2>1, <2>10
<1> HIDE DEF S
<1>6. \A j \in 0 .. N : j \in S
  BY <1>1, <1>4, <1>5, UpTo
<1> QED
  BY <1>6 DEF S, N, first, base

\* What is left of a list in the older format.
WithoutBonds(list) == [k \in DOMAIN list |-> [list[k] EXCEPT !.bond = <<>>]]

\* Devices without bonds are devices.
LEMMA BondlessStore ==
  ASSUME NEW list \in Store
  PROVE  /\ WithoutBonds(list) \in Seq(DeviceRecord) /\ Len(WithoutBonds(list)) = Len(list)
         /\ \A k \in 1 .. Len(list) : WithoutBonds(list)[k] = [list[k] EXCEPT !.bond = <<>>]
<1> DEFINE N == Len(list)
<1>1. list \in Seq(DeviceRecord) /\ N \in Nat /\ \A k \in 1 .. N : list[k] \in DeviceRecord
  BY StoreIs
<1>2. DOMAIN list = 1 .. N
  BY <1>1
<1>3. <<>> \in MaybeBond
  <2>1. <<>> \in Seq(BondRecord) /\ Len(<<>>) = 0 /\ 0 <= 1
    OBVIOUS
  <2> QED
    BY <2>1 DEF MaybeBond
<1>4. ASSUME NEW d \in DeviceRecord PROVE [d EXCEPT !.bond = <<>>] \in DeviceRecord
  <2> DEFINE A == AddressRecord
             R == -128 .. 127
             M == Names
             O == MaybeBond
  <2>1. DeviceRecord = [address : A, last_rssi : R, name : M, bond : O]
    BY DEF DeviceRecord
  <2>2. <<>> \in O
    BY <1>3
  <2> HIDE DEF A, R, M, O
  <2> QED
    BY ONLY <2>1, <2>2, d \in DeviceRecord
<1> HIDE DEF N
<1>5. WithoutBonds(list) = [k \in 1 .. N |-> [list[k] EXCEPT !.bond = <<>>]]
  BY <1>2 DEF WithoutBonds
<1>6. \A k \in 1 .. N : [list[k] EXCEPT !.bond = <<>>] \in DeviceRecord
  BY <1>1, <1>4
<1>7. WithoutBonds(list) \in Seq(DeviceRecord) /\ Len(WithoutBonds(list)) = N
  BY <1>1, <1>5, <1>6
<1> QED
  BY <1>5, <1>7 DEF N

\* What older firmware wrote is read as it was, without bonds.
LEMMA ReadsOlder ==
  ASSUME NEW list \in Store
  PROVE  OlderBlob(list) \in Data /\ deserialize_all(OlderBlob(list)) = WithoutBonds(list)
<1> DEFINE N == Len(list)
           data == OlderBlob(list)
           known == WithoutBonds(list)
           base(n) == serialize_base(list[n])
<1>1. PICK y : OlderRun(list, y) /\ data = y[N]
  BY OlderRuns
<1>2. N \in Nat /\ N <= STORE_CAP /\ STORE_CAP \in Nat /\ \A i \in 1 .. N : list[i] \in DeviceRecord
  <2>1. N \in 0 .. STORE_CAP /\ STORE_CAP \in 1 .. 177
    BY StoreIs
  <2> HIDE DEF N
  <2>2. N \in Nat /\ N <= STORE_CAP /\ STORE_CAP \in Nat
    BY <2>1
  <2> QED
    BY <2>2, StoreIs DEF N
<1>3. /\ data \in Data /\ Size(data) \in Nat /\ Size(data) > N /\ Has(data, 0, <<N>>)
      /\ \A i \in 1 .. N : /\ Has(data, Size(y[i - 1]), base(i))
                           /\ Size(y[i]) = Size(y[i - 1]) + Size(base(i))
  <2>1. N \in 0 .. N
    BY <1>2
  <2> QED
    BY <1>1, <2>1, OlderHas
<1>4. \A j \in 0 .. N : Size(y[j]) \in Nat
  BY <1>1, OlderHas
<1>5. Size(y[0]) = 1
  <2>1. y[0] = <<N>>
    BY <1>1 DEF OlderRun
  <2>2. Size(<<N>>) = 1
    BY CountIsByte, OneByte
  <2> QED
    BY <2>1, <2>2
<1>6. At(data, 0) = N /\ N \in Byte /\ N # MAGIC
  BY <1>3, CountIsByte, HasByte
<1>7. /\ known \in Seq(DeviceRecord) /\ Len(known) = N
      /\ \A k \in 1 .. N : known[k] = [list[k] EXCEPT !.bond = <<>>]
  BY BondlessStore
<1> HIDE DEF data, known, N
<1>8. deserialize_all(data) = deserialize_legacy(data)
  <2>1. data # <<>>
    <3>1. Size(<<>>) = 0
      BY DEF Size
    <3> QED
      BY <1>2, <1>3, <3>1
  <2>2. ~ is_versioned(data)
    BY <1>6 DEF is_versioned
  <2> QED
    BY <2>1, <2>2 DEF deserialize_all
<1>9. PICK r : LegacyRun(data, r) /\ deserialize_legacy(data) = r[N].devices
  <2>1. Rounds(At(data, 0), data) = N
    BY <1>2, <1>3, <1>6 DEF Rounds, Size
  <2> QED
    BY <1>3, <1>6, <2>1, LegacyRuns
<1>10. /\ r \in [0 .. Size(data) -> Readers] /\ r[0] = ReaderAt(1)
       /\ \A n \in 1 .. Size(data) : r[n] = next_legacy(r[n - 1], data)
  BY <1>9 DEF LegacyRun
<1> DEFINE S == {n \in 0 .. N : /\ r[n].devices = SubSeq(known, 1, n)
                                /\ r[n].offset = Size(y[n]) /\ r[n].done = FALSE}
<1>11. 0 \in S
  <2>1. r[0].devices = <<>> /\ r[0].done = FALSE /\ r[0].offset = 1
    BY <1>10 DEF ReaderAt
  <2>2. SubSeq(known, 1, 0) = <<>>
    BY <1>7, SubSeqEmpty
  <2>3. 0 \in 0 .. N
    BY <1>2
  <2>4. /\ r[0].devices = SubSeq(known, 1, 0)
        /\ r[0].offset = Size(y[0]) /\ r[0].done = FALSE
    BY ONLY <1>5, <2>1, <2>2
  <2> QED
    BY ONLY <2>3, <2>4
<1>12. ASSUME NEW n \in 1 .. N, n - 1 \in S PROVE n \in S
  <2>1. /\ n \in Nat /\ n \in 0 .. N /\ n - 1 \in 0 .. N /\ n - 1 \in 0 .. Size(data)
        /\ n \in 1 .. Size(data) /\ n - 1 < STORE_CAP
    BY <1>2, <1>3
  <2> DEFINE x == r[n - 1]
             i == Size(y[n - 1])
             b == base(n)
             d == list[n]
  <2>2. x \in Readers /\ r[n] = next_legacy(x, data)
    BY <1>10, <2>1
  <2>3. x.devices = SubSeq(known, 1, n - 1) /\ x.offset = i /\ x.done = FALSE
    BY <1>12
  <2>4. d \in DeviceRecord /\ i \in Nat /\ Has(data, i, b) /\ Size(y[n]) = i + Size(b)
    BY <1>2, <1>3, <1>4, <2>1
  <2>5. b \in Data /\ Size(b) = BaseSize + Size(d.name) /\ Has(b, 0, b) /\ BaseSize \in Nat /\ BaseSize >= 3
        /\ Size(d.name) \in Nat
    <3>1. b \in Data /\ Size(b) = BaseSize + Size(d.name)
      BY <2>4, BaseBytes
    <3>2. BaseSize \in Nat /\ BaseSize >= 3
      BY Sizes
    <3>3. Size(d.name) \in Nat
      BY <2>4, DeviceFields, Elements
    <3> HIDE DEF b
    <3> QED
      BY <3>1, <3>2, <3>3, HasAll
  <2>6. deserialize_base(b) = <<known[n]>> /\ At(b, BaseSize - 1) = Size(d.name)
    <3>1. deserialize_base(b) = <<[d EXCEPT !.bond = <<>>]>> /\ At(b, BaseSize - 1) = Size(d.name)
      BY <2>4, <2>5, BaseRead
    <3> QED
      BY <1>7, <3>1
  <2> HIDE DEF x, i, b, d
  <2>7. Slice(data, i, i + Size(b)) = b /\ i + Size(b) <= Size(data)
    BY <1>3, <2>4, <2>5, HasSlice
  <2>8. LegacySize(data, i) = Size(b)
    <3>1. data[i + BaseSize] = b[BaseSize]
      <4>1. BaseSize \in 1 .. Size(b)
        BY <2>5
      <4> QED
        BY <2>4, <4>1 DEF Has
    <3>2. At(data, i + BaseSize - 1) = data[i + BaseSize] /\ At(b, BaseSize - 1) = b[BaseSize]
      <4>1. (i + BaseSize - 1) + 1 = i + BaseSize /\ (BaseSize - 1) + 1 = BaseSize
        BY <2>4, <2>5
      <4> QED
        BY <4>1 DEF At
    <3> QED
      BY <2>5, <2>6, <3>1, <3>2 DEF LegacySize
  <2>9. next_legacy(x, data) = Moves(x, i + Size(b), <<known[n]>>)
    <3>1. ~ (i + BaseSize > Len(data)) /\ ~ (i + Size(b) > Len(data))
      <4>1. Len(data) = Size(data)
        BY DEF Size
      <4> QED
        BY <1>3, <2>4, <2>5, <2>7, <4>1
    <3>2. ~ (x.done \/ i + BaseSize > Len(data)) /\ ~ (i + LegacySize(data, i) > Len(data))
      BY <2>3, <2>8, <3>1, Zenon
    <3>3. next_legacy(x, data)
            = Moves(x, i + LegacySize(data, i), deserialize_base(Slice(data, i, i + LegacySize(data, i))))
      BY <2>3, <3>2, Zenon DEF next_legacy
    <3> QED
      BY <2>6, <2>7, <2>8, <3>3, Zenon
  <2>10. Len(x.devices) < STORE_CAP /\ x.devices \o <<known[n]>> = SubSeq(known, 1, n)
    <3>1. /\ SubSeq(known, 1, n) = SubSeq(known, 1, n - 1) \o <<known[n]>>
          /\ Len(SubSeq(known, 1, n - 1)) = n - 1
      BY <1>7, NextOf
    <3> QED
      BY <2>1, <2>3, <3>1, Zenon
  <2>11. r[n].devices = SubSeq(known, 1, n) /\ r[n].offset = i + Size(b) /\ r[n].done = FALSE
    <3>1. r[n] = [x EXCEPT !.offset = i + Size(b),
                           !.devices = IF Len(@) < STORE_CAP THEN @ \o <<known[n]>> ELSE @]
      BY <2>2, <2>9 DEF Moves
    <3>2. r[n] = [x EXCEPT !.offset = i + Size(b), !.devices = SubSeq(known, 1, n)]
      BY <2>10, <3>1, Zenon
    <3> QED
      BY <2>2, <2>3, <3>2 DEF Readers
  <2> QED
    BY <2>1, <2>4, <2>11
<1> HIDE DEF S
<1>13. N \in S
  <2>1. \A n \in 0 .. N : n \in S
    BY <1>2, <1>11, <1>12, UpTo
  <2> QED
    BY <1>2, <2>1
<1>14. SubSeq(known, 1, N) = known
  BY <1>7, SubSeqFull
<1> QED
  BY <1>3, <1>8, <1>9, <1>13, <1>14 DEF S, data, known
----------------------------------------------------------------------------
(* What the flash holds, and what a load makes of it.                      *)

\* The blob is what was saved or the beginning of it, or what older firmware
\* wrote, and the store and what was written are lists the store may hold.
FormatInv ==
    /\ {cache, written} \subseteq Store
    /\ blob \in Data
    /\ \/ origin = "nobody" /\ blob = <<>>
       \/ origin = "older" /\ blob = OlderBlob(written)
       \/ /\ origin = "save"
          /\ \E m \in 0 .. Size(serialize_all(written)) : blob = SubSeq(serialize_all(written), 1, m)

\* Nothing is a store, and nothing is bytes.
LEMMA NoBytes ==
  <<>> \in Store /\ <<>> \in Data /\ Size(<<>>) = 0
<1>1. <<>> \in Seq(DeviceRecord) /\ Len(<<>>) = 0
  OBVIOUS
<1>2. STORE_CAP \in Nat /\ 0 <= STORE_CAP
  <2>1. STORE_CAP \in 1 .. 177
    BY FlashFormatAssumption
  <2> QED
    BY <2>1
<1>3. <<>> \in Store
  BY <1>1, <1>2 DEF Store
<1>4. <<>> \in Data /\ Size(<<>>) = 0
  BY DEF Data, Size
<1> QED
  BY <1>3, <1>4

\* What is saved is bytes.
LEMMA SavedBytes ==
  ASSUME NEW list \in Store
  PROVE  serialize_all(list) \in Data /\ Size(serialize_all(list)) \in Nat
<1>1. serialize_all(list) \in Data
  BY SavedLayout
<1> QED
  BY <1>1, Elements

\* Fewer bytes than a header and no record of the older format either.
LEMMA ShortBlobs ==
  ASSUME NEW data \in Data, Size(data) < 3
  PROVE  deserialize_all(data) = <<>>
<1>1. Size(data) \in Nat /\ Len(data) = Size(data)
  BY Elements DEF Size
<1>2. CASE data = <<>>
  BY <1>2 DEF deserialize_all
<1>3. CASE data # <<>>
  <2>1. Size(data) \in 1 .. 2
    <3>1. Size(data) # 0
      BY <1>3 DEF Data, Size
    <3> QED
      BY <1>1, <3>1
  <2>2. deserialize_all(data) = deserialize_legacy(data)
    BY <1>1, <1>3 DEF deserialize_all, is_versioned
  <2>3. At(data, 0) \in Byte
    BY <2>1, Elements DEF At
  <2>4. PICK r : /\ LegacyRun(data, r)
                 /\ Rounds(At(data, 0), data) \in 0 .. Size(data)
                 /\ deserialize_legacy(data) = r[Rounds(At(data, 0), data)].devices
    BY <2>3, LegacyRuns
  <2> DEFINE n == Rounds(At(data, 0), data)
  <2>5. /\ r[0] = ReaderAt(1)
        /\ \A k \in 1 .. Size(data) : r[k] = next_legacy(r[k - 1], data)
    BY <2>4 DEF LegacyRun
  <2>6. r[0].offset = 1 /\ r[0].devices = <<>>
    BY <2>5 DEF ReaderAt
  <2>7. r[1] = Stops(r[0]) /\ r[1].devices = <<>> /\ r[1].done
    <3>1. r[1] = next_legacy(r[0], data)
      BY <2>1, <2>5
    <3>2. 1 + BaseSize > Len(data)
      BY <1>1, <2>1, Sizes
    <3>3. next_legacy(r[0], data) = Stops(r[0])
      BY <2>6, <3>2 DEF next_legacy
    <3>4. r[1] = Stops(r[0])
      BY <3>1, <3>3
    <3>5. Stops(r[0]).devices = <<>> /\ Stops(r[0]).done
      BY <2>5 DEF Stops, ReaderAt
    <3> QED
      BY <3>4, <3>5
  <2>8. Size(data) = 2 => r[2].devices = <<>>
    <3>1. Size(data) = 2 => r[2] = next_legacy(r[1], data)
      BY <2>5
    <3>2. next_legacy(r[1], data) = Stops(r[1])
      BY <2>7 DEF next_legacy
    <3>3. Stops(r[1]).devices = <<>>
      BY <2>5, <2>7 DEF Stops, ReaderAt
    <3> QED
      BY <3>1, <3>2, <3>3
  <2>9. n = 0 \/ n = 1 \/ (n = 2 /\ Size(data) = 2)
    BY <2>1, <2>4
  <2> QED
    BY <2>2, <2>4, <2>6, <2>7, <2>8, <2>9
<1> QED
  BY <1>2, <1>3

\* The blob holds what was saved, or its beginning, in every reachable state.
LEMMA FormatInductive == FormatSpec => []FormatInv
<1>1. FormatInit => FormatInv
  <2> SUFFICES ASSUME FormatInit PROVE FormatInv
    OBVIOUS
  <2>1. cache \in Store /\ written \in Store
    BY NoBytes, RecordsAssumption DEF FormatInit
  <2>2. CASE origin = "nobody" /\ written = <<>> /\ blob = <<>>
    BY <2>1, <2>2, NoBytes DEF FormatInv
  <2>3. CASE origin = "older" /\ blob = OlderBlob(written)
    BY <2>1, <2>3, ReadsOlder DEF FormatInv
  <2> QED
    BY <2>2, <2>3 DEF FormatInit
<1>2. FormatInv /\ [FormatNext]_formatVars => FormatInv'
  <2> SUFFICES ASSUME FormatInv, [FormatNext]_formatVars PROVE FormatInv'
    OBVIOUS
  <2>1. cache \in Store /\ written \in Store /\ blob \in Data
    BY DEF FormatInv
  <2> DEFINE Held == \/ origin = "nobody" /\ blob = <<>>
                     \/ origin = "older" /\ blob = OlderBlob(written)
                     \/ /\ origin = "save"
                        /\ \E m \in 0 .. Size(serialize_all(written)) :
                              blob = SubSeq(serialize_all(written), 1, m)
  <2>2. Held
    BY DEF FormatInv
  <2>3. ASSUME cache' \in Store, UNCHANGED <<blob, origin, written>> PROVE FormatInv'
    <3>1. Held'
      BY <2>2, <2>3
    <3> HIDE DEF Held
    <3>2. written' \in Store /\ blob' \in Data
      BY <2>1, <2>3
    <3> QED
      BY <2>3, <3>1, <3>2 DEF FormatInv, Held
  <2>4. CASE Boots
    <3>1. cache' \in Store
      BY <2>1, <2>4, AnyBytes DEF Boots
    <3> QED
      BY <2>3, <2>4, <3>1 DEF Boots
  <2>5. CASE Saves
    <3>1. blob' = serialize_all(cache) /\ origin' = "save" /\ written' = cache /\ cache' = cache
      BY <2>5 DEF Saves
    <3> DEFINE B == serialize_all(cache)
    <3>2. B \in Data /\ B = SubSeq(B, 1, Size(B)) /\ Size(B) \in 0 .. Size(B)
      BY <2>1, SavedBytes, AllIsFirst
    <3>3. serialize_all(written') = B
      BY <3>1
    <3> HIDE DEF B
    <3>4. blob' = B
      BY <3>1 DEF B
    <3>5. \E m \in 0 .. Size(serialize_all(written')) : blob' = SubSeq(serialize_all(written'), 1, m)
      BY <3>2, <3>3, <3>4
    <3> QED
      BY <2>1, <3>1, <3>2, <3>4, <3>5 DEF FormatInv
  <2>6. CASE Changes
    <3>1. cache' \in Store
      BY <2>6, RecordsAssumption DEF Changes
    <3> QED
      BY <2>3, <2>6, <3>1 DEF Changes
  <2>7. CASE LosesTail
    <3>1. origin = "save" /\ cache' = cache /\ origin' = origin /\ written' = written
      BY <2>7 DEF LosesTail
    <3> DEFINE B == serialize_all(written)
    <3>2. B \in Data /\ Size(B) \in Nat
      BY <2>1, SavedBytes
    <3>3. PICK m \in 0 .. Size(B) : blob = SubSeq(B, 1, m)
      BY <2>2, <3>1
    <3> HIDE DEF B
    <3>4. Len(blob) = m
      BY <3>2, <3>3, PrefixHas DEF Size
    <3>5. PICK n \in 0 .. m - 1 : blob' = SubSeq(blob, 1, n)
      BY <2>7, <3>4 DEF LosesTail
    <3>6. n \in 0 .. m /\ n \in 0 .. Size(B)
      BY <3>2, <3>5
    <3>7. blob' = SubSeq(B, 1, n)
      BY <3>2, <3>3, <3>5, <3>6, FirstOfFirst
    <3>8. blob' \in Data
      BY <3>2, <3>6, <3>7, PrefixHas
    <3>9. serialize_all(written') = B
      BY <3>1 DEF B
    <3>10. \E k \in 0 .. Size(serialize_all(written')) : blob' = SubSeq(serialize_all(written'), 1, k)
      BY <3>6, <3>7, <3>9
    <3> QED
      BY <2>1, <3>1, <3>8, <3>10 DEF FormatInv
  <2>8. CASE UNCHANGED formatVars
    <3>1. cache' \in Store /\ UNCHANGED <<blob, origin, written>>
      BY <2>1, <2>8 DEF formatVars
    <3> QED
      BY <2>3, <3>1
  <2> QED
    BY <2>4, <2>5, <2>6, <2>7, <2>8 DEF FormatNext
<1> QED
  BY <1>1, <1>2, PTL DEF FormatSpec

\* The cache and what was written are always lists the store may hold, and
\* the blob always bytes: no sequence of saves, losses and loads, whatever the
\* bytes mean, puts an impossible device in the store (load_from_flash,
\* storage.rs, over framing.rs and codec.rs).
THEOREM FormatTypeCorrect == FormatSpec => []FormatTypeOK
<1>1. FormatInv => FormatTypeOK
  BY DEF FormatInv, FormatTypeOK, Data
<1> QED
  BY <1>1, FormatInductive, PTL

\* The first records of a list are a prefix of it.
LEMMA FirstArePrefix ==
  ASSUME NEW list \in Store, NEW j \in 0 .. Len(list)
  PROVE  IsPrefix(SubSeq(list, 1, j), list) /\ Len(SubSeq(list, 1, j)) = j
<1> DEFINE s == SubSeq(list, 1, j)
<1>1. list \in Seq(DeviceRecord) /\ Len(list) \in Nat
  BY StoreIs
<1>2. s \in Seq(DeviceRecord) /\ Len(s) = j
  BY <1>1, FirstOf
<1>3. SubSeq(s, 1, Len(s)) = s
  <2> HIDE DEF s
  <2>1. j \in 0 .. Len(s)
    BY <1>1, <1>2
  <2>2. /\ SubSeq(s, 1, j) \in Seq(DeviceRecord) /\ Len(SubSeq(s, 1, j)) = j
        /\ \A k \in 1 .. j : SubSeq(s, 1, j)[k] = s[k]
    BY <1>2, <2>1, FirstOf
  <2> QED
    BY <1>2, <2>2
<1>4. j <= Len(list)
  BY <1>1
<1> QED
  BY <1>2, <1>3, <1>4 DEF IsPrefix

\* Whatever is saved is loaded byte for byte and in order: all the devices
\* that fit the buffer, and of a blob that lost its end some of the first,
\* for every buffer, capacity and list of devices (serialize_all and
\* deserialize_all, storage.rs:274-340; framing.rs:50-118).
THEOREM SavedIsLoaded == FormatSpec => []LoadsWhatWasSaved
<1>1. FormatInv => LoadsWhatWasSaved
  <2> SUFFICES ASSUME FormatInv, origin = "save" PROVE LoadsWhatWasSaved
    BY DEF LoadsWhatWasSaved
  <2> DEFINE list == written
             B == serialize_all(written)
             loaded == deserialize_all(blob)
             N == Len(list)
             Prefix == \A k \in 0 .. N : (\A j \in 0 .. k : Fits(list, j)) <=> k <= Len(loaded)
  <2>1. list \in Store
    BY DEF FormatInv
  <2>2. PICK m \in 0 .. Size(B) : blob = SubSeq(B, 1, m)
    BY DEF FormatInv
  <2>3. PICK z, c : /\ SizeRun(list, z) /\ c \in 0 .. N
                    /\ \A k \in 0 .. N : (\A j \in 0 .. k : Fits(list, j)) <=> k <= c
                    /\ B \in Data
                    /\ (B = <<>> /\ c = 0) \/ Laid(list, z, c, B)
    BY <2>1, SavedLayout
  <2>4. Size(B) \in Nat /\ m \in Nat /\ N \in Nat /\ c \in Nat /\ 0 \in 0 .. N
    BY <2>1, <2>3, Elements, StoreIs
  <2>5. SUFFICES \E j \in 0 .. N : loaded = SubSeq(list, 1, j) /\ (blob = B => j = c)
    <3>1. PICK j \in 0 .. N : loaded = SubSeq(list, 1, j) /\ (blob = B => j = c)
      BY <2>5
    <3>2. IsPrefix(loaded, list) /\ Len(loaded) = j
      BY <2>1, <3>1, FirstArePrefix
    <3>3. blob = B => Prefix
      BY <2>3, <3>1, <3>2
    <3> HIDE DEF Prefix
    <3>4. IsPrefix(loaded, list) /\ (blob = B => Prefix)
      BY <3>2, <3>3
    <3> QED
      BY <3>4, Zenon DEF LoadsWhatWasSaved, Prefix
  <2> HIDE DEF B
  <2>6. blob \in Data /\ Size(blob) = m /\ \A i \in Nat : i < m => At(blob, i) = At(B, i)
    BY <2>2, <2>3, PrefixHas
  <2>7. blob = B => m = Size(B)
    BY <2>6
  <2>8. SubSeq(list, 1, 0) = <<>>
    <3>1. list \in Seq(DeviceRecord)
      BY <2>1, StoreIs
    <3> QED
      BY <3>1, SubSeqEmpty
  <2>9. CASE B = <<>> /\ c = 0
    <3>1. Size(B) = 0
      BY <2>9, NoBytes
    <3>2. m = 0
      BY <2>4, <3>1
    <3>3. loaded = <<>>
      BY <2>6, <3>2, ShortBlobs
    <3> QED
      BY <2>4, <2>8, <2>9, <3>3
  <2>10. CASE Laid(list, z, c, B)
    <3>1. Size(B) = z[c] /\ At(B, 0) = MAGIC /\ At(B, 1) = VERSION
      BY <2>10 DEF Laid
    <3>2. Size(B) >= 3
      <4>1. z[c] \in Nat /\ z[c] >= c + 3
        BY <2>1, <2>3, SizesGrow
      <4> QED
        BY <2>4, <3>1, <4>1
    <3>3. CASE m < 3
      <4>1. loaded = <<>>
        BY <2>6, <3>3, ShortBlobs
      <4>2. blob # B
        BY <2>4, <2>7, <3>2, <3>3
      <4> QED
        BY <2>4, <2>8, <4>1, <4>2
    <3>4. CASE m >= 3
      <4>1. m \in 3 .. Size(B)
        BY <2>2, <2>4, <3>4
      <4>2. PICK j \in 0 .. c : /\ deserialize_versioned(SubSeq(B, 1, m)) = SubSeq(list, 1, j)
                                /\ m = Size(B) => j = c
        BY <2>1, <2>3, <2>10, <4>1, ReadsBack
      <4>3. is_versioned(blob) /\ blob # <<>>
        <5>1. Len(blob) >= 3 /\ blob # <<>>
          BY <2>6, <3>4, NoBytes DEF Size
        <5>2. At(blob, 0) = MAGIC /\ At(blob, 1) = VERSION
          BY <2>4, <2>6, <3>1, <3>4
        <5> QED
          BY <5>1, <5>2 DEF is_versioned
      <4>4. loaded = deserialize_versioned(blob)
        BY <4>3 DEF deserialize_all
      <4>5. j \in 0 .. N
        BY <2>3, <2>4
      <4> QED
        BY <2>2, <2>7, <4>2, <4>4, <4>5
    <3> QED
      BY <2>4, <3>3, <3>4
  <2> QED
    BY <2>3, <2>9, <2>10
<1> QED
  BY <1>1, FormatInductive, PTL

\* What older firmware wrote comes back complete, without bonds, and is never
\* taken for the versioned format (deserialize_legacy, storage.rs:310-340).
THEOREM OlderIsLoaded == FormatSpec => []OlderRecordsComeBack
<1>1. FormatInv => OlderRecordsComeBack
  <2> SUFFICES ASSUME FormatInv, origin = "older" PROVE OlderRecordsComeBack
    BY DEF OlderRecordsComeBack
  <2>1. written \in Store /\ blob = OlderBlob(written)
    BY DEF FormatInv
  <2>2. deserialize_all(blob) = WithoutBonds(written)
    BY <2>1, ReadsOlder
  <2> QED
    BY <2>2 DEF OlderRecordsComeBack, WithoutBonds
<1> QED
  BY <1>1, FormatInductive, PTL
\* A product, one factor at a time.
LEMMA ProductStep ==
  ASSUME NEW n \in Nat, n >= 1, NEW K \in Nat
  PROVE  n * K = (n - 1) * K + K /\ n * K \in Nat /\ (n - 1) * K \in Nat
OBVIOUS

LEMMA ProductGrows ==
  ASSUME NEW n \in Nat, NEW m \in Nat, n <= m, NEW K \in Nat
  PROVE  n * K \in Nat /\ n * K <= m * K /\ m * K \in Nat
OBVIOUS

\* The longest record has the longest name and a bond.
LEMMA LongestRecord ==
  ASSUME NEW d \in DeviceRecord
  PROVE  /\ Size(RecordBytes(d)) \in Nat
         /\ Size(RecordBytes(d)) <= BaseSize + NAME_CAP + 1 + BOND_RECORD_SIZE
<1> DEFINE s == Size(RecordBytes(d))
           n == Size(d.name)
<1>1. BaseSize \in Nat /\ BOND_RECORD_SIZE \in Nat /\ NAME_CAP \in Nat
  <2>1. NAME_CAP \in 1 .. 255
    BY Sizes
  <2> QED
    BY <2>1, Sizes
<1>2. n \in Nat /\ n <= NAME_CAP
  <2>1. n \in 0 .. NAME_CAP
    BY DeviceFields
  <2> HIDE DEF n
  <2> QED
    BY <1>1, <2>1
<1>3. s = BaseSize + n + 1 \/ s = BaseSize + n + 1 + BOND_RECORD_SIZE
  <2>1. CASE d.bond = <<>>
    <3>1. RecordBytes(d) = serialize_base(d) \o <<0>>
      BY <2>1, Zenon DEF RecordBytes
    <3>2. serialize_base(d) \in Data /\ Size(serialize_base(d)) = BaseSize + n
      BY BaseBytes
    <3>3. <<0>> \in Data /\ Size(<<0>>) = 1
      <4>1. 0 \in Byte
        BY DEF Byte
      <4> QED
        BY <4>1, OneByte
    <3>4. Size(serialize_base(d) \o <<0>>) = Size(serialize_base(d)) + Size(<<0>>)
      BY <3>2, <3>3, Joins
    <3> QED
      BY <3>1, <3>2, <3>3, <3>4
  <2>2. CASE d.bond # <<>>
    <3>1. PICK b \in BondRecord : d.bond = <<b>>
      BY <2>2, DeviceFields
    <3> QED
      BY <3>1, RecordSize
  <2> QED
    BY <2>1, <2>2
<1> HIDE DEF s, n
<1>4. s \in Nat /\ s <= BaseSize + NAME_CAP + 1 + BOND_RECORD_SIZE
  BY <1>1, <1>2, <1>3
<1> QED
  BY <1>4 DEF s

\* n records take no more bytes than n of the longest.
LEMMA SizesBounded ==
  ASSUME NEW list \in Store, NEW z, SizeRun(list, z),
         NEW K \in Nat, K = BaseSize + NAME_CAP + BOND_RECORD_SIZE + 2
  PROVE  \A n \in 0 .. Len(list) : z[n] \in Nat /\ z[n] <= 3 + n * K
<1> DEFINE N == Len(list)
           S == {n \in 0 .. N : z[n] \in Nat /\ z[n] <= 3 + n * K}
<1>1. N \in Nat /\ \A i \in 1 .. N : list[i] \in DeviceRecord
  BY StoreIs
<1> HIDE DEF N
<1>2. 0 \in S
  <2>1. z[0] = 3 /\ 0 * K = 0 /\ 0 \in 0 .. N
    BY <1>1 DEF SizeRun
  <2> QED
    BY <2>1
<1>3. ASSUME NEW n \in 1 .. N, n - 1 \in S PROVE n \in S
  <2>1. z[n] = z[n - 1] + 1 + Size(RecordBytes(list[n]))
    BY <1>3 DEF SizeRun, N
  <2>2. /\ Size(RecordBytes(list[n])) \in Nat
        /\ 1 + Size(RecordBytes(list[n])) <= K
    <3> DEFINE r == Size(RecordBytes(list[n]))
    <3>1. r \in Nat /\ r <= BaseSize + NAME_CAP + 1 + BOND_RECORD_SIZE
      BY <1>1, LongestRecord
    <3>2. BaseSize \in Nat /\ BOND_RECORD_SIZE \in Nat /\ NAME_CAP \in 1 .. 255
      BY Sizes
    <3> HIDE DEF r
    <3>3. 1 + r <= K
      BY <3>1, <3>2
    <3> QED
      BY <3>1, <3>3 DEF r
  <2>3. z[n - 1] \in Nat /\ z[n - 1] <= 3 + (n - 1) * K
    BY <1>3
  <2>4. n * K = (n - 1) * K + K /\ n * K \in Nat /\ (n - 1) * K \in Nat
    BY <1>1, ProductStep
  <2>5. n \in 0 .. N
    BY <1>1
  <2> DEFINE a == (n - 1) * K
             b == n * K
             s == Size(RecordBytes(list[n]))
  <2>6. b = a + K /\ a \in Nat /\ z[n] = z[n - 1] + 1 + s /\ s \in Nat /\ 1 + s <= K
        /\ z[n - 1] \in Nat /\ z[n - 1] <= 3 + a
    BY <2>1, <2>2, <2>3, <2>4
  <2> HIDE DEF a, b, s
  <2>7. z[n] \in Nat /\ z[n] <= 3 + b
    BY <2>6
  <2> QED
    BY <2>5, <2>7 DEF b
<1> HIDE DEF S
<1>4. \A n \in 0 .. N : n \in S
  BY <1>1, <1>2, <1>3, UpTo
<1> QED
  BY <1>4 DEF S, N

\* With room for STORE_CAP of the longest records nothing is left out, so what
\* is saved without damage comes back complete: the buffer of the firmware
\* (512 bytes for 4 records of at most 92) has it (storage.rs:48-50).
THEOREM EveryStoreFits ==
  ASSUME MAX_RECORD_SIZE >= 3 + STORE_CAP * (BaseSize + NAME_CAP + BOND_RECORD_SIZE + 2)
  PROVE  FormatSpec => []NothingIsLeftOut
<1>1. FormatInv /\ LoadsWhatWasSaved => NothingIsLeftOut
  <2> SUFFICES ASSUME FormatInv, LoadsWhatWasSaved, origin = "save", blob = serialize_all(written)
               PROVE  deserialize_all(blob) = written
    BY DEF NothingIsLeftOut
  <2> DEFINE list == written
             N == Len(list)
             loaded == deserialize_all(blob)
             K == BaseSize + NAME_CAP + BOND_RECORD_SIZE + 2
  <2>1. /\ list \in Store /\ loaded \in Store /\ list \in Seq(DeviceRecord) /\ N \in Nat
        /\ N <= STORE_CAP /\ STORE_CAP \in Nat
        /\ loaded \in Seq(DeviceRecord) /\ Len(loaded) \in Nat
    <3>1. list \in Store /\ blob \in Data
      BY DEF FormatInv
    <3>2. loaded \in Store
      BY <3>1, AnyBytes
    <3>3. N \in 0 .. STORE_CAP /\ STORE_CAP \in 1 .. 177
      BY <3>1, StoreIs
    <3>4. N \in Nat /\ N <= STORE_CAP /\ STORE_CAP \in Nat
      BY ONLY <3>3
    <3> QED
      BY <3>1, <3>2, <3>4, StoreIs
  <2>2. IsPrefix(loaded, list) /\ \A k \in 0 .. N : (\A j \in 0 .. k : Fits(list, j)) <=> k <= Len(loaded)
    BY DEF LoadsWhatWasSaved
  <2>3. PICK z : SizeRun(list, z) /\ \A k \in 0 .. N : BlobSize(list, k) = z[k]
    BY <2>1, SizeRuns
  <2>4. K \in Nat
    BY Sizes
  <2>5. \A n \in 0 .. N : z[n] \in Nat /\ z[n] <= 3 + n * K
    <3> HIDE DEF list
    <3> QED
      BY <2>1, <2>3, <2>4, SizesBounded
  <2>6. ASSUME NEW j \in 0 .. N PROVE Fits(list, j)
    <3>1. j \in Nat /\ j <= STORE_CAP
      BY <2>1
    <3>2. j * K \in Nat /\ j * K <= STORE_CAP * K /\ STORE_CAP * K \in Nat
      BY <2>1, <2>4, <3>1, ProductGrows
    <3>3. MAX_RECORD_SIZE \in Nat /\ MAX_RECORD_SIZE >= 3 + STORE_CAP * K
      BY FlashFormatAssumption
    <3>4. BlobSize(list, j) \in Nat /\ BlobSize(list, j) <= 3 + j * K
      BY <2>3, <2>5
    <3> DEFINE a == j * K
               b == STORE_CAP * K
    <3> HIDE DEF K, list, a, b
    <3>5. a \in Nat /\ b \in Nat /\ a <= b /\ MAX_RECORD_SIZE >= 3 + b /\ BlobSize(list, j) <= 3 + a
      BY <3>2, <3>3, <3>4 DEF a, b
    <3>6. BlobSize(list, j) <= MAX_RECORD_SIZE
      BY <3>3, <3>4, <3>5
    <3> QED
      BY <3>6 DEF Fits
  <2>7. N <= Len(loaded)
    <3>1. N \in 0 .. N /\ \A j \in 0 .. N : j \in 0 .. N
      BY <2>1
    <3>2. \A j \in 0 .. N : Fits(list, j)
      BY <2>6
    <3> HIDE DEF loaded, N
    <3> QED
      BY <2>2, <3>1, <3>2
  <2>8. Len(loaded) = N /\ SubSeq(loaded, 1, Len(loaded)) = SubSeq(list, 1, Len(loaded))
    <3>1. Len(loaded) <= N /\ SubSeq(loaded, 1, Len(loaded)) = SubSeq(list, 1, Len(loaded))
      BY <2>2 DEF IsPrefix
    <3> HIDE DEF loaded, N
    <3> QED
      BY <2>1, <2>7, <3>1
  <2> HIDE DEF list, loaded
  <2>9. SubSeq(loaded, 1, N) = loaded /\ SubSeq(list, 1, N) = list
    BY <2>1, <2>8, WholeSubSeq
  <2>10. loaded = list
    BY <2>8, <2>9
  <2> QED
    BY <2>10 DEF loaded, list
<1> QED
  BY <1>1, FormatInductive, SavedIsLoaded, PTL
=============================================================================
