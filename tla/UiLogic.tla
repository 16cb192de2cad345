------------------------------ MODULE UiLogic ------------------------------
(***************************************************************************)
(* The UI's state machine: the button reducer of src/src/ui/ui_logic.rs    *)
(* and the event arms of the main loop in src/src/main.rs.  ui is the      *)
(* loop's local state; drawing is left out.                                *)
(*                                                                         *)
(*   screen          the view shown                                        *)
(*   selected        highlighted row, from 0                               *)
(*   device_count    rows the navigation believes in                       *)
(*   devices         the rows themselves (a device's address for its name) *)
(*   connected_name  what the last Connected event said, NoName if none    *)
(*   command         the command being sent to the coordinator             *)
(***************************************************************************)
EXTENDS Integers, Sequences

CONSTANTS
    MaxRows,      \* capacity of the device list (8)
    NoName,       \* the empty connected_name
    NoCommand     \* no command to send

Screen == {"Home", "Scanning", "DeviceList", "Connected", "Error"}

ButtonEvent == {"Up", "Down", "Select"}

InitialUi ==
    [screen |-> "Home", selected |-> 0, device_count |-> 0, devices |-> <<>>,
     connected_name |-> NoName, command |-> NoCommand]

\* Start a scan with an empty list.
Rescan(ui) ==
    [ui EXCEPT !.screen = "Scanning", !.selected = 0, !.device_count = 0,
               !.devices = <<>>, !.command = [kind |-> "StartScan"]]

\* The row below the highlighted one, or the last.
RowBelow(ui) == IF ui.selected + 1 < ui.device_count THEN ui.selected + 1 ELSE ui.selected

on_button(ui, btn) ==
    CASE ui.screen \in {"Home", "Error", "Connected"} /\ btn = "Select" ->
            Rescan(ui)
      [] ui.screen = "DeviceList" /\ btn = "Up" ->
            [ui EXCEPT !.selected = IF @ > 0 THEN @ - 1 ELSE 0]
      [] ui.screen = "DeviceList" /\ btn = "Down" ->
            [ui EXCEPT !.selected = RowBelow(ui)]
      [] ui.screen = "DeviceList" /\ btn = "Select" ->
            [ui EXCEPT !.screen = "Scanning",
                       !.command = [kind |-> "Connect", index |-> ui.selected]]
      [] ui.screen = "Connected" /\ btn = "Down" ->
            [ui EXCEPT !.screen = "Home", !.command = [kind |-> "Disconnect"]]
      [] OTHER -> ui

\* Mutant: a scan that found nothing leaves the screen as it is.
KeepsScanning(device_count) == IF device_count > 0 THEN "DeviceList" ELSE "Scanning"

on_scan_complete(device_count) == IF device_count > 0 THEN "DeviceList" ELSE "Error"

\* The row that is kept when the list turns out shorter than the selection.
ClampSelection(ui) ==
    LET last == IF ui.device_count > 0 THEN ui.device_count - 1 ELSE 0
    IN  IF ui.selected < last THEN ui.selected ELSE last

on_device_found(ui, a) ==
    LET rows == IF Len(ui.devices) < MaxRows THEN Append(ui.devices, a) ELSE ui.devices
    IN  [ui EXCEPT !.devices = rows, !.device_count = Len(rows)]

\* Mutant: a scan that starts later adds to the rows of the one before.
KeepsRows(ui) == [ui EXCEPT !.screen = "Scanning", !.selected = 0]

on_scan_started(ui) ==
    [ui EXCEPT !.screen = "Scanning", !.selected = 0, !.device_count = 0, !.devices = <<>>]

\* The match on BleEvent.  Connected clears the rows but not their number.
on_event(ui, e) ==
    CASE e.kind = "ScanStarted" -> on_scan_started(ui)
      [] e.kind = "DeviceFound" -> on_device_found(ui, e.device)
      [] e.kind = "ScanComplete" ->
            [ui EXCEPT !.screen = on_scan_complete(ui.device_count),
                       !.selected = IF ui.device_count > 0 THEN ClampSelection(ui) ELSE @]
      [] e.kind = "Connected" ->
            [ui EXCEPT !.screen = "Connected", !.devices = <<>>,
                       !.connected_name = e.summary]
      [] e.kind = "Disconnected" ->
            [ui EXCEPT !.screen = "Home", !.devices = <<>>, !.selected = 0,
                       !.device_count = 0, !.connected_name = NoName]
      [] e.kind = "Error" -> [ui EXCEPT !.screen = "Error"]
=============================================================================
