----------------------------- MODULE MCTargets -----------------------------
(***************************************************************************)
(* Both binaries that run the coordinator's reducers under the UI's: the   *)
(* firmware (instances of MCBridge) and the simulator (SimTarget).  A      *)
(* behaviour is one of either, and the other's variables stay as they are. *)
(***************************************************************************)
EXTENDS MCBridge, SimTarget

VARIABLE target
targetVars == <<MCVars, simVars, target>>

TargetInit == target \in {"firmware", "simulator"} /\ MCInit /\ SimInit

TargetNext ==
    \/ target = "firmware" /\ MCNext /\ UNCHANGED <<simVars, target>>
    \/ target = "simulator" /\ SimNext /\ UNCHANGED <<MCVars, target>>

TargetSpec == TargetInit /\ [][TargetNext]_targetVars
=============================================================================
