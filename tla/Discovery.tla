----------------------------- MODULE Discovery -----------------------------
(***************************************************************************)
(* What the connection manager relies on when it scans: the UI hears that  *)
(* a scan started; after a time of any length it hears either of distinct  *)
(* devices, at most MaxFound, and that the scan is complete, or of a       *)
(* failure; and the list the manager keeps is the one the UI was told.     *)
(* Module MultiConn uses these outcomes (ScanFinds, ScanFails).            *)
(***************************************************************************)
EXTENDS Naturals, Sequences

CONSTANTS Address, MaxFound

VARIABLES
    stage,    \* "idle", "scanning" or "telling"
    telling,  \* what the UI is still to be told
    list      \* the devices of the last scan, empty when it failed

vars == <<stage, telling, list>>

Lists ==
    {q \in UNION {[1 .. n -> Address] : n \in 0 .. MaxFound} :
        \A i, j \in DOMAIN q : i # j => q[i] # q[j]}

Found(q) == [i \in DOMAIN q |-> [kind |-> "DeviceFound", device |-> q[i]]]

Init == stage = "idle" /\ telling = <<>> /\ list = <<>>

Starts ==
    /\ stage = "idle" /\ stage' = "scanning"
    /\ telling' = <<[kind |-> "ScanStarted"]>>
    /\ UNCHANGED list

Ends ==
    /\ stage = "scanning" /\ telling = <<>>
    /\ stage' = "telling"
    /\ \/ \E q \in Lists : list' = q /\ telling' = Append(Found(q), [kind |-> "ScanComplete"])
       \/ list' = <<>> /\ telling' = <<[kind |-> "Error"]>>

Tells ==
    /\ telling # <<>>
    /\ telling' = Tail(telling)
    /\ stage' = IF stage = "telling" /\ Len(telling) = 1 THEN "idle" ELSE stage
    /\ UNCHANGED list

Next == Starts \/ Ends \/ Tells

\* A scan that started ends, and its outcome is told to the last event.
Spec == Init /\ [][Next]_vars /\ WF_vars(Ends) /\ WF_vars(Tells)
=============================================================================
