------------------------------- MODULE MCRing -------------------------------
(***************************************************************************)
(* The system of module Bridge with the channels of the firmware, in a     *)
(* crowded place: a scan fills the list of devices.  To keep it small the  *)
(* environment is narrowed, so every behaviour here is one of Bridge: the  *)
(* two stored peers are always reached, at most one link closes by itself, *)
(* and the user presses at most MaxPresses buttons that do something.      *)
(***************************************************************************)
EXTENDS Bridge

CONSTANTS a1, a2, a3, a4, a5, a6, a7, a8, MaxPresses

EightAddresses == {a1, a2, a3, a4, a5, a6, a7, a8}
Crowd  == <<a1, a2, a3, a4, a5, a6, a7, a8>>
Stored == <<a1, a2>>

NoIrk == {}
OneError == {"ConnectFailed"}

VARIABLES presses, closed
ringVars == <<bridgeVars, presses, closed>>

RingInit == BridgeInit /\ presses = 0 /\ closed = FALSE

Presses(btn) ==
    /\ presses < MaxPresses
    /\ UiTakesButton(btn)
    /\ presses' = presses + 1
    /\ UNCHANGED closed

BootsWithPeers == BootLoadsPeers /\ todo' = <<Emit(ScanStarted), Scan(Stored)>>

CoordinatorRuns ==
    \/ BootsWithPeers \/ BootReservesAndConnects
    \/ ScanFinds(Crowd) \/ ScanFails
    \/ SendsConnect \/ SendsDisconnect \/ Persists \/ Emits
    \/ ReceivesCommand \/ ReceivesSlotEvent

WorkerRuns(s) ==
    \/ TakesCommand(s) \/ Announces(s) \/ IsSuperseded(s) \/ Reports(s)
    \/ At(s, "connecting") /\ MovesTo(s, "securing")
    \/ At(s, "securing") /\ MovesTo(s, "announcing")

RingNext ==
    \/ \E btn \in ButtonEvent : Presses(btn)
    \/ (UiSendsCommand \/ UiTakesEvent) /\ UNCHANGED <<presses, closed>>
    \/ /\ CoordinatorRuns \/ \E s \in Slots : WorkerRuns(s)
       /\ UNCHANGED <<ui, picked, presses, closed>>
    \/ /\ ~closed /\ closed' = TRUE
       /\ \E s \in Slots : LinkCloses(s)
       /\ UNCHANGED <<ui, picked, presses>>

RingSpec == RingInit /\ [][RingNext]_ringVars

\* The UI and the coordinator never wait for each other: the UI for room for
\* a command, which only the coordinator makes, and the coordinator for room
\* for an event, which only the UI makes (the UI "can never hang" on a scan,
\* scanner.rs:94).
NobodyWaitsOnEachOther ==
    ~ /\ ~UiLoops /\ Len(cmdQ) = BLE_CMD_CAP
      /\ Upcoming("Emit") /\ Len(evQ) = BLE_EVENT_CAP
=============================================================================
