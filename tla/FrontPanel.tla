----------------------------- MODULE FrontPanel -----------------------------
(***************************************************************************)
(* What the user sees: the whole UI loop of src/src/main.rs (the button    *)
(* reducer and event arms of UiLogic under the display policy of Power)    *)
(* with what it draws (src/src/ui/display.rs).                             *)
(*                                                                         *)
(* The panel keeps its picture while it is dark, and drawing goes on then. *)
(* A picture is what can be read off it; labels that are always there and  *)
(* the layout are left out.  A command is sent at once: the channel to the *)
(* coordinator, and the coordinator itself, are in module Bridge.  Here    *)
(* the coordinator emits any events in an order it can emit them in.       *)
(***************************************************************************)
EXTENDS Power, UiLogic

CONSTANTS
    Name,          \* names of devices
    ROWS_SHOWN     \* rows that fit below the title (4)

ASSUME FrontPanelAssumption == ROWS_SHOWN \in Nat \ {0} /\ NoName \notin Name

VARIABLES
    ui,            \* the loop's local state (UiLogic)
    scan_dots,     \* the spinner
    picture,       \* what was drawn last
    scanning       \* the coordinator is between ScanStarted and ScanComplete

panelVars == <<power, hid, panel, timer, suspend, quiet, ui, scan_dots, picture, scanning>>

----------------------------------------------------------------------------
(* Drawing.  Every call clears the buffer first.                           *)

draw_home(connected, name) ==
    [view |-> "Home", connected |-> connected,
     name |-> IF connected THEN name ELSE NoName]

draw_scanning(dots) == [view |-> "Scanning", dots |-> dots % 4]

\* The names in the first rows, and the row that has the marker (0: none).
draw_device_list(devices, selected) ==
    LET shown == IF Len(devices) < ROWS_SHOWN THEN Len(devices) ELSE ROWS_SHOWN
    IN  [view |-> "DeviceList", rows |-> SubSeq(devices, 1, shown),
         marked |-> IF selected < shown THEN selected + 1 ELSE 0]

draw_connected(name) == [view |-> "Connected", name |-> name]

draw_error(message) == [view |-> "Error", message |-> message]

next_scan_dots(dots) == (dots + 1) % 4

\* A press that wakes the panel draws the screen anew.
Redrawn(u) ==
    CASE u.screen = "Home"       -> draw_home(u.connected_name # NoName, u.connected_name)
      [] u.screen = "Scanning"   -> draw_scanning(0)
      [] u.screen = "DeviceList" -> draw_device_list(u.devices, u.selected)
      [] u.screen = "Connected"  -> draw_connected(u.connected_name)
      [] u.screen = "Error"      -> draw_error("Ready")

\* Mutant: a new selection is not drawn.
DrawsNewScreen(u, v) == u.screen # v.screen

\* The redraw of a ButtonOutcome: whatever changed the screen or the
\* selection (Up draws the list even where it stays), nothing otherwise.
Redraws(u, v) == u.screen # v.screen \/ u.selected # v.selected

\* A ButtonOutcome never asks for the Connected or the Error screen.
AfterPress(v) ==
    CASE v.screen = "Scanning"   -> draw_scanning(0)
      [] v.screen = "DeviceList" -> draw_device_list(v.devices, v.selected)
      [] v.screen = "Home"       -> draw_home(FALSE, NoName)

----------------------------------------------------------------------------
FrontInit ==
    /\ Init
    /\ ui = InitialUi
    /\ scan_dots = 0
    /\ picture = draw_home(FALSE, NoName)
    /\ scanning = FALSE

Wakes ==
    /\ PressWakes
    /\ picture' = Redrawn(ui)
    /\ UNCHANGED <<ui, scan_dots, scanning>>

Acts(btn) ==
    LET v == on_button(ui, btn) IN
    /\ PressActs
    /\ ui' = [v EXCEPT !.command = NoCommand]
    /\ picture' = IF Redraws(ui, v) THEN AfterPress(v) ELSE picture
    /\ scan_dots' = IF v.screen = "Scanning" /\ ui.screen # "Scanning" THEN 0 ELSE scan_dots
    /\ UNCHANGED scanning

----------------------------------------------------------------------------
(* BLE events.  From ScanStarted to ScanComplete the coordinator emits     *)
(* nothing but the devices it found, or the error that ends the scan.      *)

Takes(e) == ui' = on_event(ui, e)

TakesScanStarted ==
    /\ ~scanning /\ scanning' = TRUE
    /\ ScanStarts
    /\ Takes([kind |-> "ScanStarted"])
    /\ scan_dots' = 0
    /\ picture' = draw_scanning(0)

TakesDeviceFound(name) ==
    /\ scanning
    /\ OtherEvent
    /\ Takes([kind |-> "DeviceFound", device |-> name])
    /\ UNCHANGED <<scanning, scan_dots, picture>>

TakesScanComplete ==
    /\ scanning /\ scanning' = FALSE
    /\ OtherEvent
    /\ Takes([kind |-> "ScanComplete"])
    /\ picture' = IF ui'.screen = "DeviceList"
                    THEN draw_device_list(ui'.devices, ui'.selected)
                    ELSE draw_error("No devices found")
    /\ UNCHANGED scan_dots

TakesConnected(name) ==
    /\ ~scanning
    /\ LinkUp
    /\ Takes([kind |-> "Connected", summary |-> name])
    /\ picture' = draw_connected(name)
    /\ UNCHANGED <<scanning, scan_dots>>

TakesDisconnected ==
    /\ ~scanning
    /\ LinkDown
    /\ Takes([kind |-> "Disconnected"])
    /\ picture' = draw_home(FALSE, NoName)
    /\ UNCHANGED <<scanning, scan_dots>>

\* ScanFailed ends a scan; the other tags come from a slot.
TakesError ==
    /\ scanning' = FALSE
    /\ OtherEvent
    /\ Takes([kind |-> "Error"])
    /\ picture' = draw_error(IF scanning THEN "Scan failed" ELSE "Connect failed")
    /\ UNCHANGED scan_dots

TakesEvent ==
    \/ TakesScanStarted \/ TakesScanComplete \/ TakesDisconnected \/ TakesError
    \/ \E name \in Name : TakesDeviceFound(name) \/ TakesConnected(name)

----------------------------------------------------------------------------
\* The spinner moves on a lit panel only.
Spins == ui.screen = "Scanning" /\ panel'

Ticks ==
    /\ Tick
    /\ scan_dots' = IF Spins THEN next_scan_dots(scan_dots) ELSE scan_dots
    /\ picture' = IF Spins THEN draw_scanning(scan_dots') ELSE picture
    /\ UNCHANGED <<ui, scanning>>

\* The suspend signal, HID traffic, the host and the clock draw nothing.
DrawsNothing ==
    /\ \/ TakesSuspend \/ HidReport \/ TimePasses
       \/ \E s \in {"suspended", "resumed"} : HostSignals(s)
    /\ UNCHANGED <<ui, scan_dots, picture, scanning>>

FrontNext ==
    \/ Wakes \/ (\E btn \in ButtonEvent : Acts(btn))
    \/ TakesEvent
    \/ Ticks
    \/ DrawsNothing

FrontSpec == FrontInit /\ [][FrontNext]_panelVars

FrontFairSpec == FrontSpec /\ LoopFairness

----------------------------------------------------------------------------
(* Properties.                                                             *)

FrontTypeOK ==
    /\ ui.screen \in Screen /\ ui.connected_name \in Name \cup {NoName}
    /\ ui.devices \in Seq(Name) /\ Len(ui.devices) <= MaxRows
    /\ ui.selected \in 0 .. MaxRows /\ ui.device_count \in 0 .. MaxRows
    /\ picture.view \in Screen
    /\ scan_dots \in 0 .. 3 /\ scanning \in BOOLEAN

\* The picture is the state that presses act on: the same screen, the rows
\* of the list from the first on with the marker at the selection if that is
\* on the panel, the name of the link that is up.  This holds on a dark panel
\* too, so a panel that lights up without a redraw is never out of date.
PictureIsCurrent ==
    /\ picture.view = ui.screen
    /\ ui.screen = "DeviceList" => picture = draw_device_list(ui.devices, ui.selected)
    /\ ui.screen = "Connected" => picture.name = ui.connected_name
    /\ ui.screen = "Home" /\ picture.connected => picture.name = ui.connected_name

\* A press acts on the row the user sees marked, or on none: "Render the
\* discovered-device list with current selection." (display.rs:94)
SelectionIsShown == picture.view = "DeviceList" => picture.marked # 0

\* A press that changes anything is made with the panel lit ("First touch
\* after wake is consumed for wake-up (prevents accidental actions).",
\* README.md:383).
NoBlindPress ==
    [][\A btn \in ButtonEvent : Acts(btn) /\ ui' # ui => panel]_panelVars
=============================================================================
