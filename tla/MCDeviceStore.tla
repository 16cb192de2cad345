--------------------------- MODULE MCDeviceStore ---------------------------
(***************************************************************************)
(* Instances of DeviceStore and FlashFormat for TLC.  The one says which   *)
(* records are where, the other how records become bytes; they share no    *)
(* state, so a behaviour here is one of either, and the other's variables  *)
(* stay as they are.                                                       *)
(***************************************************************************)
EXTENDS DeviceStore, MCFlashFormat, TLC

CONSTANTS kb, mouse, pad

TwoDevices == {kb, mouse}
ThreeDevices == {kb, mouse, pad}
Keyboard == {kb}

OthersAlike == Permutations({mouse, pad})

VARIABLE part
storageVars == <<vars, formatVars, part>>

StorageInit ==
    /\ part \in {"records", "bytes"}
    /\ Init /\ FormatInit
    /\ part = "records" => origin = "nobody"

StorageNext ==
    \/ part = "records" /\ Next /\ UNCHANGED <<formatVars, part>>
    \/ part = "bytes" /\ FormatNext /\ UNCHANGED <<vars, part>>

StorageSpec == StorageInit /\ [][StorageNext]_storageVars
=============================================================================
