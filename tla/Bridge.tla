------------------------------- MODULE Bridge -------------------------------
(***************************************************************************)
(* The control side of the whole device: the connection manager of module  *)
(* MultiConn driven by the real UI loop (src/src/main.rs) instead of by an *)
(* arbitrary one.  The user presses any button at any time; a press that   *)
(* only wakes the display changes nothing here.                            *)
(***************************************************************************)
EXTENDS MultiConn, UiLogic

\* The UI's list has room for every device of a scan (both are 8), and its
\* markers for "nothing" are neither a name nor a command.
ASSUME RowsAssumption == MaxRows = BLE_MAX_DISCOVERED
ASSUME MarkersAssumption ==
    /\ NoName \notin Address /\ NoName \notin 0 .. MAX_CONNECTIONS
    /\ NoCommand \notin BleCommand

VARIABLES
    ui,       \* the UI loop's local state
    picked    \* history: the row highlighted when Connect was last pressed

bridgeVars == <<manager, last_scan, todo, cmdQ, evQ, slotQ, slotEvQ, worker, ui, picked>>

BridgeInit ==
    /\ Init
    /\ ui = InitialUi
    /\ picked = NoAddress

\* The loop awaits its own send, so it takes nothing while a command waits.
UiLoops == ui.command = NoCommand

UiTakesButton(btn) ==
    /\ UiLoops
    /\ on_button(ui, btn) # ui
    /\ ui' = on_button(ui, btn)
    /\ picked' = IF ui.screen = "DeviceList" /\ btn = "Select"
                   THEN (IF ui.selected + 1 \in DOMAIN ui.devices
                            THEN ui.devices[ui.selected + 1] ELSE NoAddress)
                   ELSE picked
    /\ UNCHANGED vars

\* Mutant: the command is sent again and again.
KeepsSending ==
    /\ ~UiLoops
    /\ UiSends(ui.command)
    /\ UNCHANGED <<ui, picked>>

UiSendsCommand ==
    /\ ~UiLoops
    /\ UiSends(ui.command)
    /\ ui' = [ui EXCEPT !.command = NoCommand]
    /\ UNCHANGED picked

UiTakesEvent ==
    /\ UiLoops
    /\ UiReceives
    /\ ui' = on_event(ui, Head(evQ))
    /\ UNCHANGED picked

SystemStep ==
    \/ UiSendsCommand
    \/ UiTakesEvent
    \/ BleStep /\ UNCHANGED <<ui, picked>>

BridgeNext == (\E btn \in ButtonEvent : UiTakesButton(btn)) \/ SystemStep

BridgeSpec == BridgeInit /\ [][BridgeNext]_bridgeVars

\* The UI task runs whenever it can; nothing is assumed of the user.
UiFairness == WF_bridgeVars(UiSendsCommand) /\ WF_bridgeVars(UiTakesEvent)

BridgeFairness == UiFairness /\ TaskFairness /\ PeersAnswer

----------------------------------------------------------------------------
(* Properties.                                                             *)

\* Nothing is in flight between the UI, the coordinator and the workers.
Quiescent ==
    /\ todo = <<>> /\ cmdQ = <<>> /\ evQ = <<>> /\ slotEvQ = <<>>
    /\ UiLoops

\* Type invariant of the UI loop.  The rows and their number fit the list.
Ui ==
    [screen : Screen, selected : 0 .. MaxRows, device_count : 0 .. MaxRows,
     devices : Seq(Address),
     connected_name : Address \cup (0 .. MAX_CONNECTIONS) \cup {NoName},
     command : BleCommand \cup {NoCommand}]

UiTypeOK == ui \in Ui /\ Len(ui.devices) <= MaxRows

\* The name on the screen is the state of the links: whatever order commands,
\* connections and failures came in, once all messages are handled the UI
\* names exactly the links the coordinator holds as connected.
StatusIsTruthful ==
    Quiescent =>
        ui.connected_name = IF active_count(manager) = 0 THEN NoName
                            ELSE connection_summary(manager)

\* The Connected screen is never left over from a link that is gone, and the
\* Home screen never hides a link that nobody is taking down.
ScreenIsTruthful ==
    Quiescent =>
        /\ ui.screen = "Connected" => active_count(manager) > 0
        /\ ui.screen = "Home" =>
              \A s \in ConnectedSlots(manager) : slotQ[s] # <<>> \/ ~At(s, "running")

\* The list on the screen is the list a Connect(index) will be looked up in,
\* and the highlighted row exists.
ListIsCurrent ==
    Quiescent /\ ui.screen = "DeviceList" =>
        /\ ui.devices = last_scan
        /\ ui.selected < Len(last_scan)

\* With nothing in flight the UI waits on the Scanning screen, where it
\* ignores every button, only for a slot that is connecting, or because the
\* device picked was connected already (plan_connect answers that with no
\* event at all).
ScanningIsExplained ==
    Quiescent /\ ui.screen = "Scanning" =>
        \/ \E s \in Slots : manager[s].phase = "connecting"
        \/ \E s \in ConnectedSlots(manager) : manager[s].address = picked

\* A Connect reaches the coordinator while its index still names the row the
\* user highlighted ("Connect to the highlighted device", ui_logic.rs:113).
ConnectsToHighlighted ==
    [][\A s \in Slots :
          manager[s].phase = "empty" /\ manager'[s].phase = "connecting" /\ cmdQ # cmdQ'
              => manager'[s].address = picked]_bridgeVars

\* The Scanning screen is always left again.
ScanningEnds == ui.screen = "Scanning" ~> ui.screen # "Scanning"

\* All that the user's presses set in motion comes to an end.
Settles == []<>Quiescent
----------------------------------------------------------------------------
(* The inductive invariant behind the safety properties.  It is about what *)
(* is coming to the UI: the events in the channel, then the rest of the    *)
(* handler the coordinator is executing.                                   *)

Sequel(events, work) ==
    [i \in 1 .. Len(events) + Len(work) |->
        IF i <= Len(events) THEN Emit(events[i]) ELSE work[i - Len(events)]]

Coming == Sequel(evQ, todo)

Shows(item, kinds) == item.kind = "Emit" /\ item.event.kind \in kinds

\* The last status that is coming, or else the one shown, is that of the links.
LinkName == IF active_count(manager) = 0 THEN NoName ELSE connection_summary(manager)

NameIn(event) == IF event.kind = "Connected" THEN event.summary ELSE NoName

IsStatus(item) == Shows(item, {"Connected", "Disconnected"})

StatusInv ==
    /\ \A i \in DOMAIN Coming :
          IsStatus(Coming[i]) /\ (\A j \in DOMAIN Coming : j > i => ~IsStatus(Coming[j]))
              => NameIn(Coming[i].event) = LinkName
    /\ (\A i \in DOMAIN Coming : ~IsStatus(Coming[i])) => ui.connected_name = LinkName

\* Home is reached over a link only by a Disconnect, which is still to be
\* carried out, unless a later link is about to be shown.
TakenDown(s) ==
    \/ \E i \in DOMAIN todo : todo[i].kind = "DisconnectSlots" /\ s \in todo[i].slots
    \/ slotQ[s] # <<>>
    \/ ~At(s, "running")

ScreenInv ==
    /\ ui.screen = "Connected" => ui.connected_name # NoName
    /\ ui.screen = "Home" /\ ui.connected_name # NoName =>
          \/ \E i \in DOMAIN Coming : Shows(Coming[i], {"Connected"})
          \/ ui.command = Disconnect \/ \E i \in DOMAIN cmdQ : cmdQ[i] = Disconnect
          \/ \A s \in ConnectedSlots(manager) : TakenDown(s)

\* No scan starts in what is coming from i on.
Newest(coming, i) == \A j \in DOMAIN coming : j >= i => ~Shows(coming[j], {"ScanStarted"})

\* Of the newest scan the UI has the first rows and the others are coming, in
\* order, up to the end of the scan at p; first is where the first row is or was.
RowsEndAt(p, first, coming, scan, shown) ==
    /\ \A j \in first .. p - 1 : j >= 1 => coming[j] = Emit(DeviceFound(scan[j - first + 1]))
    /\ first > 1 => Shows(coming[first - 1], {"ScanStarted"})
    /\ first <= 1 =>
          /\ shown.screen = "Scanning"
          /\ Len(shown.devices) = 1 - first /\ shown.device_count = 1 - first
          /\ \A i \in 1 .. 1 - first : shown.devices[i] = scan[i]

RowsInv ==
    /\ Len(last_scan) <= BLE_MAX_DISCOVERED
    /\ \A p \in DOMAIN Coming : Shows(Coming[p], {"ScanComplete"}) /\ Newest(Coming, p) =>
          RowsEndAt(p, p - Len(last_scan), Coming, last_scan, ui)
    /\ \A j \in DOMAIN Coming : Shows(Coming[j], {"DeviceFound"}) /\ Newest(Coming, j) =>
          \E p \in DOMAIN Coming : p > j /\ Shows(Coming[p], {"ScanComplete"})

\* With all of it there, the list is that of the newest scan.
ListInv ==
    ui.screen = "DeviceList" =>
        \/ \E i \in DOMAIN Coming : Shows(Coming[i], {"ScanStarted", "ScanComplete"})
        \/ /\ ui.devices = last_scan /\ ui.device_count = Len(last_scan)
           /\ ui.selected < Len(last_scan)

\* A scan is the last thing its handler does, right after it has said so.
ScanInv ==
    \A p \in DOMAIN Coming :
        /\ Coming[p].kind \in {"Boot", "Scan"} => \A j \in DOMAIN Coming : j <= p
        /\ Coming[p].kind = "Scan" =>
              IF p > 1 THEN Shows(Coming[p - 1], {"ScanStarted"})
              ELSE ui.screen = "Scanning" /\ ui.devices = <<>> /\ ui.device_count = 0

\* Something that ends the wait on the Scanning screen.
Resolves(item) ==
    item.kind = "Scan" \/ Shows(item, {"ScanComplete", "Error", "Connected", "Disconnected"})

\* The command names the row that was highlighted when it was given.
NamesPicked(cmd) ==
    /\ cmd.kind = "Connect"
    /\ cmd.index + 1 \in DOMAIN last_scan /\ last_scan[cmd.index + 1] = picked

LastCommandNamesPicked ==
    IF ui.command # NoCommand THEN NamesPicked(ui.command)
    ELSE cmdQ # <<>> /\ NamesPicked(cmdQ[Len(cmdQ)])

\* A scan that has been announced ends, well or not.
StartsInv ==
    \A i \in DOMAIN Coming : Shows(Coming[i], {"ScanStarted"}) =>
        \E j \in DOMAIN Coming : j > i /\ Resolves(Coming[j])

\* What will take the UI off the Scanning screen, or has been asked to.
WaitInv ==
    ui.screen = "Scanning" =>
        \/ \E i \in DOMAIN Coming : Resolves(Coming[i])
        \/ ui.command = StartScan \/ \E i \in DOMAIN cmdQ : cmdQ[i] = StartScan
        \/ LastCommandNamesPicked
        \/ \E s \in Slots : manager[s].phase = "connecting"
        \/ \E s \in ConnectedSlots(manager) : manager[s].address = picked

BridgeInv ==
    /\ UiTypeOK /\ StatusInv /\ ScreenInv
    /\ RowsInv /\ ListInv /\ ScanInv /\ StartsInv /\ WaitInv
=============================================================================
