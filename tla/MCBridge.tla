------------------------------ MODULE MCBridge ------------------------------
(* Instances of Bridge for TLC.                                            *)
EXTENDS Bridge, TLC

CONSTANTS a1, a2

TwoAddresses == {a1, a2}

NoIrk == {}

OneError == {"ConnectFailed"}

\* The user presses at most MaxPresses buttons that do something.
CONSTANT MaxPresses
VARIABLE presses

MCInit == BridgeInit /\ presses = 0

Presses(btn) ==
    /\ presses < MaxPresses
    /\ UiTakesButton(btn)
    /\ presses' = presses + 1

MCNext ==
    \/ \E btn \in ButtonEvent : Presses(btn)
    \/ SystemStep /\ UNCHANGED presses

MCVars == <<bridgeVars, presses>>

MCSpec == MCInit /\ [][MCNext]_MCVars

MCFairSpec == MCSpec /\ BridgeFairness

\* Peers that may never answer a connection attempt.
MCSilentPeersSpec == MCSpec /\ UiFairness /\ TaskFairness

Symmetry2 == Permutations(TwoAddresses)
=============================================================================
