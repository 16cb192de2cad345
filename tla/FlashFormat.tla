---------------------------- MODULE FlashFormat ----------------------------
(***************************************************************************)
(* The paired devices as bytes in flash: the records of                    *)
(* src/src/storage.rs, the codec of src/src/storage/codec.rs and the       *)
(* framing of src/src/storage/framing.rs, with the format of older         *)
(* firmware that is still read.  Which devices are in the store is module  *)
(* DeviceStore's; here it is any list.  Offsets count from 0, as in the    *)
(* code; a value that may be missing is a sequence of at most one.         *)
(***************************************************************************)
EXTENDS ByteStrings, SequencesExt

CONSTANTS
    MAX_RECORD_SIZE,      \* bytes of the buffer a blob is built in (512)
    STORE_CAP,            \* MAX_PAIRED_DEVICES, records in the store (4)
    NAME_CAP,             \* bytes in a name (32)
    ADDR_BYTES,           \* bytes in an address (6)
    KEY_BYTES,            \* bytes in a bond's rand and ltk (8 + 16)
    IRK_BYTES,            \* bytes in its identity key (16)
    Caches                \* the lists of devices that are ever in the store

ASSUME FlashFormatAssumption ==
    /\ MAX_RECORD_SIZE \in Nat /\ STORE_CAP \in 1 .. 177
    /\ {NAME_CAP, ADDR_BYTES, KEY_BYTES, IRK_BYTES} \subseteq 1 .. 255

VARIABLES
    cache,      \* the store's records
    blob,       \* the bytes under KEY_PAIRED_DEVICES
    origin,     \* history: who wrote them, "nobody", "save" or "older"
    written     \* history: the devices they were made from

formatVars == <<cache, blob, origin, written>>

----------------------------------------------------------------------------
(* The codec.                                                              *)

AddressTypes ==
    <<"Public", "RandomStatic", "RandomPrivateResolvable", "RandomPrivateNonResolvable",
      "Anonymous">>

address_type_to_byte(t) == (CHOOSE k \in 1 .. 5 : AddressTypes[k] = t) - 1

byte_to_address_type(b) == IF b < 5 THEN AddressTypes[b + 1] ELSE "RandomStatic"

ADDRESS_RECORD_SIZE == ADDR_BYTES + 1

serialize_address(a) == Append(a.bytes, address_type_to_byte(a.type))

deserialize_address(data) ==
    [bytes |-> Slice(data, 0, ADDR_BYTES), type |-> byte_to_address_type(At(data, ADDR_BYTES))]

BOND_RECORD_SIZE == 2 + KEY_BYTES + 1 + IRK_BYTES + ADDRESS_RECORD_SIZE

serialize_bond(b) ==
    <<b.ediv % 256, b.ediv \div 256>> \o b.key \o <<b.flags>> \o b.irk
        \o serialize_address(b.addr)

deserialize_bond(data) ==
    LET irk == 2 + KEY_BYTES + 1 IN
    [ediv  |-> At(data, 0) + 256 * At(data, 1),
     key   |-> Slice(data, 2, 2 + KEY_BYTES),
     flags |-> At(data, irk - 1),
     irk   |-> Slice(data, irk, irk + IRK_BYTES),
     addr  |-> deserialize_address(Slice(data, irk + IRK_BYTES, BOND_RECORD_SIZE))]

----------------------------------------------------------------------------
(* Records.  An RSSI is an i8.                                             *)

as_u8(r) == r % 256

as_i8(b) == IF b < 128 THEN b ELSE b - 256

serialize_base(d) ==
    serialize_address(d.address) \o <<as_u8(d.last_rssi), Len(d.name)>> \o d.name

RecordBytes(d) ==
    serialize_base(d) \o (IF d.bond = <<>> THEN <<0>> ELSE <<1>> \o serialize_bond(d.bond[1]))

\* Nothing is written where there is no room for all of the record.
serialize(d, room) == IF Len(RecordBytes(d)) <= room THEN RecordBytes(d) ELSE <<>>

BaseSize == ADDRESS_RECORD_SIZE + 2

\* The name is kept if it is UTF-8; sequences of more bytes are left out.
NameFrom(bytes) ==
    IF \E b \in Range(bytes) : b >= 128 THEN <<>>
    ELSE SubSeq(bytes, 1, IF Len(bytes) < NAME_CAP THEN Len(bytes) ELSE NAME_CAP)

deserialize_base(data) ==
    IF Len(data) < BaseSize \/ Len(data) < BaseSize + At(data, BaseSize - 1) THEN <<>>
    ELSE LET end == BaseSize + At(data, BaseSize - 1) IN
         <<[address   |-> deserialize_address(data),
            last_rssi |-> as_i8(At(data, ADDRESS_RECORD_SIZE)),
            name      |-> NameFrom(Slice(data, BaseSize, end)),
            bond      |-> <<>>]>>

\* A record that should hold a bond and does not is no record.
deserialize(data) ==
    LET base == deserialize_base(data) IN
    IF base = <<>> THEN <<>>
    ELSE LET end == BaseSize + At(data, BaseSize - 1) IN
         IF end >= Len(data) \/ At(data, end) = 0 THEN base
         ELSE IF end + 1 + BOND_RECORD_SIZE > Len(data) THEN <<>>
         ELSE <<[base[1] EXCEPT !.bond =
                    <<deserialize_bond(Slice(data, end + 1, end + 1 + BOND_RECORD_SIZE))>>]>>

----------------------------------------------------------------------------
(* The framing.                                                            *)

MAGIC == 178
VERSION == 1

is_versioned(data) == Len(data) >= 3 /\ At(data, 0) = MAGIC /\ At(data, 1) = VERSION

\* What is left of the buffer for a record, after the header, the body so far
\* and the record's length.
Room(body) == MAX_RECORD_SIZE - Len(body) - 4

\* Mutant: a record that does not fit is passed over.
PassesOver(writer, d) ==
    LET record == serialize(d, Room(writer.body)) IN
    IF writer.count = 255 \/ Room(writer.body) < 1 \/ Len(record) \notin 1 .. 255
      THEN writer
      ELSE [writer EXCEPT !.body = @ \o <<Len(record)>> \o record, !.count = @ + 1]

\* Writer::push, and serialize_all's break at the first record refused.
push(writer, d) ==
    LET record == serialize(d, Room(writer.body)) IN
    IF writer.full \/ writer.count = 255 \/ Room(writer.body) < 1 \/ Len(record) \notin 1 .. 255
      THEN [writer EXCEPT !.full = TRUE]
      ELSE [writer EXCEPT !.body = @ \o <<Len(record)>> \o record, !.count = @ + 1]

EmptyWriter == [body |-> <<>>, count |-> 0, full |-> FALSE]

serialize_all(list) ==
    LET writer[n \in 0 .. Len(list)] ==
            IF n = 0 THEN EmptyWriter ELSE push(writer[n - 1], list[n])
        all == writer[Len(list)]
    IN  IF MAX_RECORD_SIZE < 3 THEN <<>> ELSE <<MAGIC, VERSION, all.count>> \o all.body

ReaderAt(i) == [offset |-> i, devices |-> <<>>, done |-> FALSE]

Stops(reader) == [reader EXCEPT !.done = TRUE]

\* Devices beyond the store's capacity are dropped.
Moves(reader, end, found) ==
    [reader EXCEPT !.offset = end,
                   !.devices = IF Len(@) < STORE_CAP THEN @ \o found ELSE @]

\* Records::next: the end of a record at offset i, and the first length that is
\* zero or runs out of the data.
RecordEnd(data, i) == i + 1 + At(data, i)

next_record(reader, data) ==
    LET i == reader.offset IN
    IF reader.done \/ i >= Len(data) THEN Stops(reader)
    ELSE IF At(data, i) = 0 \/ RecordEnd(data, i) > Len(data) THEN Stops(reader)
    ELSE Moves(reader, RecordEnd(data, i), deserialize(Slice(data, i + 1, RecordEnd(data, i))))

\* At most as many records as were declared; a record takes some bytes, so
\* there are no more than bytes.
Rounds(count, data) == IF count < Len(data) THEN count ELSE Len(data)

deserialize_versioned(data) ==
    LET reader[n \in 0 .. Len(data)] ==
            IF n = 0 THEN ReaderAt(3) ELSE next_record(reader[n - 1], data)
    IN  reader[Rounds(At(data, 2), data)].devices

\* Mutant: the length of the name is not counted.
LegacyBase(data, i) == BaseSize

\* The size of the older record at offset i.
LegacySize(data, i) == BaseSize + At(data, i + BaseSize - 1)

\* The older format: a count, then records without length or bond.
next_legacy(reader, data) ==
    LET i == reader.offset IN
    IF reader.done \/ i + BaseSize > Len(data) THEN Stops(reader)
    ELSE IF i + LegacySize(data, i) > Len(data) THEN Stops(reader)
    ELSE Moves(reader, i + LegacySize(data, i),
               deserialize_base(Slice(data, i, i + LegacySize(data, i))))

deserialize_legacy(data) ==
    LET reader[n \in 0 .. Len(data)] ==
            IF n = 0 THEN ReaderAt(1) ELSE next_legacy(reader[n - 1], data)
    IN  reader[Rounds(At(data, 0), data)].devices

deserialize_all(data) ==
    IF data = <<>> THEN <<>>
    ELSE IF is_versioned(data) THEN deserialize_versioned(data) ELSE deserialize_legacy(data)

----------------------------------------------------------------------------
(* The store.                                                              *)

Bytes(n) == {bytes \in Seq(Byte) : Len(bytes) = n}

AddressRecord == [bytes : Bytes(ADDR_BYTES), type : Range(AddressTypes)]

BondRecord ==
    [ediv : Word, key : Bytes(KEY_BYTES), flags : Byte, irk : Bytes(IRK_BYTES),
     addr : AddressRecord]

Names == {name \in Seq(0 .. 127) : Len(name) <= NAME_CAP}

MaybeBond == {bond \in Seq(BondRecord) : Len(bond) <= 1}

DeviceRecord ==
    [address : AddressRecord, last_rssi : -128 .. 127, name : Names, bond : MaybeBond]

Store == {list \in Seq(DeviceRecord) : Len(list) <= STORE_CAP}

\* A byte is enough for the length of every record (92 in the firmware).
ASSUME RecordsAssumption ==
    /\ BaseSize + NAME_CAP + 1 + BOND_RECORD_SIZE <= 255
    /\ Caches \subseteq Store

\* What older firmware wrote: no bonds.
OlderBlob(list) ==
    LET bytes[n \in 0 .. Len(list)] ==
            IF n = 0 THEN <<Len(list)>> ELSE bytes[n - 1] \o serialize_base(list[n])
    IN  bytes[Len(list)]

FormatInit ==
    /\ cache = <<>>
    /\ written \in Caches
    /\ \/ origin = "nobody" /\ written = <<>> /\ blob = <<>>
       \/ origin = "older" /\ blob = OlderBlob(written)

\* load_from_flash.
Boots ==
    /\ cache' = deserialize_all(blob)
    /\ UNCHANGED <<blob, origin, written>>

\* save_to_flash, when a write succeeds.
Saves ==
    /\ blob' = serialize_all(cache)
    /\ origin' = "save" /\ written' = cache
    /\ UNCHANGED cache

\* add and set_bond_for_address.
Changes ==
    /\ cache' \in Caches
    /\ UNCHANGED <<blob, origin, written>>

\* Flash that lost the end of a blob.
LosesTail ==
    /\ origin = "save"
    /\ \E n \in 0 .. Len(blob) - 1 : blob' = SubSeq(blob, 1, n)
    /\ UNCHANGED <<cache, origin, written>>

FormatNext == Boots \/ Saves \/ Changes \/ LosesTail

FormatSpec == FormatInit /\ [][FormatNext]_formatVars

----------------------------------------------------------------------------
(* Properties.                                                             *)

\* Every byte is one, and no list is longer than the store.
FormatTypeOK == blob \in Seq(Byte) /\ {cache, written} \subseteq Store

\* The bytes that the first k records of a list take in a blob.
BlobSize(list, k) ==
    LET size[n \in 0 .. Len(list)] ==
            IF n = 0 THEN 3 ELSE size[n - 1] + 1 + Len(RecordBytes(list[n]))
    IN  size[k]

Fits(list, k) == k = 0 \/ BlobSize(list, k) <= MAX_RECORD_SIZE

\* Loading gives back, byte for byte and in order, the devices that were
\* saved: all that fit the buffer, and of a blob that lost its end some of the
\* first ("a corrupt blob yields a prefix of valid records", framing.rs:81-83;
\* "a full buffer truncates cleanly rather than corrupting the blob",
\* framing.rs:53-55).
LoadsWhatWasSaved ==
    origin = "save" =>
        LET loaded == deserialize_all(blob)
            intact == blob = serialize_all(written)
        IN  /\ IsPrefix(loaded, written)
            /\ intact =>
                 \A k \in 0 .. Len(written) :
                    (\A j \in 0 .. k : Fits(written, j)) <=> k <= Len(loaded)

\* Records of older firmware come back, without bonds, and are never taken
\* for the versioned format.
OlderRecordsComeBack ==
    origin = "older" =>
        deserialize_all(blob) = [k \in DOMAIN written |-> [written[k] EXCEPT !.bond = <<>>]]

\* The buffer has room for every store (storage.rs:48-49: "4 devices x
\* (address/name metadata + BLE bond keys) plus versioning overhead"), so what
\* is saved without damage comes back complete.
NothingIsLeftOut ==
    origin = "save" /\ blob = serialize_all(written) => deserialize_all(blob) = written
=============================================================================
