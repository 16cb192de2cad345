--------------------------- MODULE MCFlashFormat ---------------------------
(* Instances of FlashFormat for TLC.                                       *)
EXTENDS FlashFormat

Filled(n, byte) == [k \in 1 .. n |-> byte]

AddressOf(byte, type) == [bytes |-> Filled(ADDR_BYTES, byte), type |-> type]

DeviceOf(byte, type, rssi, name, bond) ==
    [address |-> AddressOf(byte, type), last_rssi |-> rssi, name |-> name, bond |-> bond]

BondOf(byte, type) ==
    <<[ediv |-> 513, key |-> Filled(KEY_BYTES, byte), flags |-> 0,
       irk |-> Filled(IRK_BYTES, 255), addr |-> AddressOf(byte, type)]>>

\* A long name and a bond; no name; a name without bond; bytes that look like
\* the header.
Full     == DeviceOf(1, "RandomStatic", -42, Filled(NAME_CAP, 75), BondOf(9, "Public"))
Nameless == DeviceOf(0, "Public", 0, <<>>, BondOf(0, "RandomPrivateResolvable"))
Unbonded == DeviceOf(178, "RandomPrivateNonResolvable", -128, <<77>>, <<>>)
Headed   == DeviceOf(178, "Anonymous", 127, <<1>>, BondOf(178, "RandomStatic"))

Distinct(list) == \A j, k \in DOMAIN list : j # k => list[j] # list[k]

SmallCaches ==
    {list \in UNION {[1 .. n -> {Full, Nameless, Unbonded, Headed}] :
                        n \in 0 .. STORE_CAP} : Distinct(list)}

\* Records of every size, in any places of the store.
AtPlace(k, d) == [d EXCEPT !.address = AddressOf(k, "RandomStatic")]

FullCaches ==
    {[k \in DOMAIN list |-> AtPlace(k, list[k])] :
        list \in UNION {[1 .. n -> {Full, Unbonded}] : n \in 0 .. STORE_CAP}}

\* Nothing is lost.
IntactSpec == FormatInit /\ [][Boots \/ Saves \/ Changes]_formatVars
=============================================================================
