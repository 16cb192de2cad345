----------------------------- MODULE AdvParser -----------------------------
(***************************************************************************)
(* What the scanner reads out of one packet (src/src/ble/adv_parser.rs).   *)
(* A packet is a sequence of bytes that should hold AD structures, each a  *)
(* length, a type and a payload.  Offsets count from 0, as in the code.    *)
(***************************************************************************)
EXTENDS ByteStrings

CONSTANT NAME_CAP      \* bytes in a device name (32)

ASSUME NameCapAssumption == NAME_CAP \in Nat

HID_SERVICE == 6162      \* 0x1812

\* The offset of the structure behind the one at offset i.
NextOffset(data, i) == i + At(data, i) + 1

\* The walk stops at a length of zero and at a structure that is cut off.
IsBroken(data, i) == At(data, i) = 0 \/ i + At(data, i) >= Len(data)

StructureAt(data, i) ==
    [type |-> At(data, i + 1), payload |-> Slice(data, i + 2, NextOffset(data, i))]

AtStart == [offset |-> 0, seen |-> <<>>]

\* One round of the loops of both functions, which may have come to their end.
Walks(loop, data) ==
    LET i == loop.offset IN
    IF i >= Len(data) \/ IsBroken(data, i) THEN loop
    ELSE [offset |-> NextOffset(data, i), seen |-> Append(loop.seen, StructureAt(data, i))]

\* The structures that the loops go through.
Structures(data) ==
    LET loop[n \in 0 .. Len(data)] == IF n = 0 THEN AtStart ELSE Walks(loop[n - 1], data)
    IN  loop[Len(data)].seen

\* chunks_exact(2), each chunk a little-endian UUID.
Uuids(payload) ==
    {payload[2 * k - 1] + 256 * payload[2 * k] : k \in 1 .. Len(payload) \div 2}

contains_hid_service_uuid(data) ==
    LET structures == Structures(data)
    IN  \E k \in DOMAIN structures :
           structures[k].type \in {2, 3} /\ HID_SERVICE \in Uuids(structures[k].payload)

\* A byte becomes the character of that number, of one or two bytes in UTF-8.
CharLen(b) == IF b < 128 THEN 1 ELSE 2

Utf8Len(bytes) ==
    LET upTo[k \in 0 .. Len(bytes)] == IF k = 0 THEN 0 ELSE upTo[k - 1] + CharLen(bytes[k])
    IN  upTo[Len(bytes)]

\* The characters up to the first that does not fit.
PushAll(bytes) ==
    LET fits == {k \in 0 .. Len(bytes) : Utf8Len(SubSeq(bytes, 1, k)) <= NAME_CAP}
    IN  SubSeq(bytes, 1, CHOOSE k \in fits : \A j \in fits : j <= k)

Unknown == <<85, 110, 107, 110, 111, 119, 110>>

\* The first name, shortened or complete.
extract_device_name(data) ==
    LET structures == Structures(data)
        names == {k \in DOMAIN structures : structures[k].type \in {8, 9}}
    IN  IF names = {} THEN Unknown
        ELSE PushAll(structures[CHOOSE k \in names : \A j \in names : k <= j].payload)
=============================================================================
