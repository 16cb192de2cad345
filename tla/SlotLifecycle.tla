--------------------------- MODULE SlotLifecycle ---------------------------
(***************************************************************************)
(* What the connection manager promises of its slots, without channels,    *)
(* workers or scans.  A slot is reserved for an address no other slot      *)
(* holds, becomes connected for that same address, and is freed.  Nothing  *)
(* else changes a slot, and one slot changes at a time.                    *)
(***************************************************************************)
EXTENDS Naturals

CONSTANTS MAX_CONNECTIONS, Address, NoAddress

VARIABLE table

Slots == 0 .. MAX_CONNECTIONS - 1

Free == [address |-> NoAddress, phase |-> "empty"]

Init == table = [s \in Slots |-> Free]

Reserve(s, a) ==
    /\ table[s] = Free
    /\ \A t \in Slots : table[t].address # a
    /\ table' = [table EXCEPT ![s] = [address |-> a, phase |-> "connecting"]]

Establish(s) ==
    /\ table[s].phase = "connecting"
    /\ table' = [table EXCEPT ![s] = [address |-> table[s].address, phase |-> "connected"]]

Release(s) ==
    /\ table[s] # Free
    /\ table' = [table EXCEPT ![s] = Free]

Next ==
    \E s \in Slots : Establish(s) \/ Release(s) \/ \E a \in Address : Reserve(s, a)

Spec == Init /\ [][Next]_table
=============================================================================
