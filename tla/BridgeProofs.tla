---------------------------- MODULE BridgeProofs ----------------------------
(***************************************************************************)
(* Proofs about module Bridge: the connection manager driven by the UI     *)
(* loop behaves as module MultiConn says, and what the screen shows is     *)
(* true of the links, the scan and the connection attempts.  And about     *)
(* module SimTarget: the script puts the same reducers through every step. *)
(***************************************************************************)
EXTENDS Bridge, MultiConnProofs, SimTarget, WellFoundedInduction

----------------------------------------------------------------------------
(* The UI loop.                                                            *)

LEMMA BleEventFields ==
    ASSUME NEW e \in BleEvent
    PROVE  /\ e.kind \in {"ScanStarted", "DeviceFound", "ScanComplete", "Connected",
                          "Disconnected", "Error"}
           /\ e.kind = "DeviceFound" => e.device \in Address
           /\ e.kind = "Connected" => e.summary \in Address \cup (0 .. MAX_CONNECTIONS)
BY DEF BleEvent, ScanStarted, ScanComplete, DeviceFound, UiConnected, UiDisconnected, UiError

LEMMA CommandTypes ==
    /\ [kind |-> "StartScan"] \in BleCommand /\ [kind |-> "Disconnect"] \in BleCommand
    /\ \A i \in 0 .. MaxRows : [kind |-> "Connect", index |-> i] \in BleCommand
BY RowsAssumption DEF BleCommand, StartScan, Disconnect, Connect

\* What a press can do, field by field.
SetsScreen(new, view, command) ==
    /\ new.screen = view /\ new.command = command
    /\ new.connected_name = ui.connected_name

KeepsList(new) ==
    new.devices = ui.devices /\ new.device_count = ui.device_count

Pressed(new, btn) ==
    \/ new = ui
    \/ /\ ui.screen \in {"Home", "Error", "Connected"}
       /\ SetsScreen(new, "Scanning", StartScan)
       /\ new.devices = <<>> /\ new.device_count = 0 /\ new.selected = 0
    \/ /\ ui.screen = "DeviceList" /\ btn # "Select"
       /\ SetsScreen(new, "DeviceList", ui.command) /\ KeepsList(new)
       /\ new.selected <= ui.selected \/ new.selected < ui.device_count
    \/ /\ ui.screen = "DeviceList" /\ btn = "Select"
       /\ SetsScreen(new, "Scanning", Connect(ui.selected)) /\ KeepsList(new)
       /\ new.selected = ui.selected
    \/ /\ ui.screen = "Connected"
       /\ SetsScreen(new, "Home", Disconnect) /\ KeepsList(new)
       /\ new.selected = ui.selected

LEMMA ButtonEffect ==
    ASSUME UiTypeOK, NEW btn \in ButtonEvent
    PROVE  /\ on_button(ui, btn) \in Ui
           /\ Len(on_button(ui, btn).devices) <= MaxRows
           /\ Pressed(on_button(ui, btn), btn)
<1> DEFINE new == on_button(ui, btn)
<1>1. MaxRows \in Nat /\ ui \in Ui /\ Len(ui.devices) <= MaxRows
    BY RowsAssumption, CapacityAssumption DEF UiTypeOK
<1>2. ui.selected \in 0 .. MaxRows /\ ui.device_count \in 0 .. MaxRows
    BY <1>1 DEF Ui
<1>8. 0 \in 0 .. MaxRows
    BY <1>1
<1>3. CASE ui.screen \in {"Home", "Error", "Connected"} /\ btn = "Select"
    <2>1. new = Rescan(ui)
        BY <1>3 DEF on_button
    <2>2. <<>> \in Seq(Address) /\ Len(<<>>) = 0
        OBVIOUS
    <2>3. new \in Ui
        BY <1>1, <1>8, <2>1, <2>2, CommandTypes DEF Rescan, Ui, Screen
    <2>5. new.devices = <<>>
        BY <1>1, <2>1 DEF Rescan, Ui
    <2>4. Pressed(new, btn)
        BY <1>1, <1>3, <2>1 DEF Rescan, Ui, Pressed, SetsScreen, StartScan
    <2> QED
        BY <1>1, <2>2, <2>3, <2>4, <2>5
<1>4. CASE ui.screen = "DeviceList" /\ btn # "Select"
    <2> DEFINE n == IF btn = "Up" THEN IF ui.selected > 0 THEN ui.selected - 1 ELSE 0
                    ELSE RowBelow(ui)
    <2>1. n \in 0 .. MaxRows /\ (n <= ui.selected \/ n < ui.device_count)
        BY <1>1, <1>2 DEF RowBelow
    <2>2. new = [ui EXCEPT !.selected = n]
        BY <1>4 DEF on_button, ButtonEvent
    <2> HIDE DEF n
    <2>3. new \in Ui /\ new.devices = ui.devices
        BY <1>1, <2>1, <2>2 DEF Ui
    <2>4. Pressed(new, btn)
        BY <1>1, <1>4, <2>1, <2>2 DEF Ui, Pressed, SetsScreen, KeepsList
    <2> QED
        BY <1>1, <2>3, <2>4
<1>5. CASE ui.screen = "DeviceList" /\ btn = "Select"
    <2>1. new = [ui EXCEPT !.screen = "Scanning", !.command = Connect(ui.selected)]
        BY <1>5 DEF on_button, Connect
    <2>2. Connect(ui.selected) \in BleCommand
        BY <1>2, CommandTypes DEF Connect
    <2>3. new \in Ui /\ new.devices = ui.devices
        BY <1>1, <2>1, <2>2 DEF Ui, Screen
    <2>4. Pressed(new, btn)
        BY <1>1, <1>5, <2>1 DEF Ui, Pressed, SetsScreen, KeepsList
    <2> QED
        BY <1>1, <2>3, <2>4
<1>6. CASE ui.screen = "Connected" /\ btn = "Down"
    <2>1. new = [ui EXCEPT !.screen = "Home", !.command = Disconnect]
        BY <1>6 DEF on_button, Disconnect
    <2>3. new \in Ui /\ new.devices = ui.devices
        BY <1>1, <2>1, CommandTypes DEF Ui, Screen, Disconnect
    <2>4. Pressed(new, btn)
        BY <1>1, <1>6, <2>1 DEF Ui, Pressed, SetsScreen, KeepsList
    <2> QED
        BY <1>1, <2>3, <2>4
<1>7. CASE /\ ~(ui.screen \in {"Home", "Error", "Connected"} /\ btn = "Select")
           /\ ui.screen # "DeviceList"
           /\ ~(ui.screen = "Connected" /\ btn = "Down")
    <2>1. new = ui
        BY <1>7 DEF on_button
    <2> QED
        BY <1>1, <2>1 DEF Pressed
<1> QED
    BY <1>3, <1>4, <1>5, <1>6, <1>7

\* What an event does, field by field.
Informed(new, e) ==
    /\ new.command = ui.command
    /\ CASE e.kind = "ScanStarted" ->
               /\ new.screen = "Scanning" /\ new.connected_name = ui.connected_name
               /\ new.devices = <<>> /\ new.device_count = 0
         [] e.kind = "DeviceFound" ->
               /\ new.screen = ui.screen /\ new.connected_name = ui.connected_name
               /\ new.device_count = Len(new.devices)
               /\ Len(ui.devices) < MaxRows => new.devices = Append(ui.devices, e.device)
         [] e.kind = "ScanComplete" ->
               /\ new.screen = IF ui.device_count > 0 THEN "DeviceList" ELSE "Error"
               /\ new.connected_name = ui.connected_name /\ KeepsList(new)
               /\ ui.device_count > 0 => new.selected < ui.device_count
         [] e.kind = "Connected" ->
               new.screen = "Connected" /\ new.connected_name = e.summary
         [] e.kind = "Disconnected" ->
               new.screen = "Home" /\ new.connected_name = NoName
         [] e.kind = "Error" ->
               new.screen = "Error" /\ new.connected_name = ui.connected_name

LEMMA EventEffect ==
    ASSUME UiTypeOK, NEW e \in BleEvent
    PROVE  /\ on_event(ui, e) \in Ui
           /\ Len(on_event(ui, e).devices) <= MaxRows
           /\ Informed(on_event(ui, e), e)
<1> DEFINE new == on_event(ui, e)
<1>1. MaxRows \in Nat /\ ui \in Ui /\ Len(ui.devices) <= MaxRows
    BY RowsAssumption, CapacityAssumption DEF UiTypeOK
<1>2. /\ ui.selected \in 0 .. MaxRows /\ ui.device_count \in 0 .. MaxRows
      /\ ui.devices \in Seq(Address)
    BY <1>1 DEF Ui
<1>3. <<>> \in Seq(Address) /\ Len(<<>>) = 0
    OBVIOUS
<1>a. 0 \in 0 .. MaxRows
    BY <1>1
<1>4. CASE e.kind = "ScanStarted"
    <2>1. new = [ui EXCEPT !.screen = "Scanning", !.selected = 0, !.device_count = 0,
                           !.devices = <<>>]
        BY <1>4 DEF on_event, on_scan_started
    <2>2. new \in Ui
        BY <1>1, <1>3, <1>a, <2>1 DEF Ui, Screen
    <2>4. new.devices = <<>>
        BY <1>1, <2>1 DEF Ui
    <2>3. Informed(new, e)
        BY <1>1, <1>4, <2>1 DEF Ui, Informed
    <2> QED
        BY <1>1, <1>3, <2>2, <2>3, <2>4
<1>5. CASE e.kind = "DeviceFound"
    <2> DEFINE rows == IF Len(ui.devices) < MaxRows THEN Append(ui.devices, e.device)
                       ELSE ui.devices
    <2>1. e.device \in Address
        BY <1>5, BleEventFields
    <2>2. rows \in Seq(Address) /\ Len(rows) \in 0 .. MaxRows
        BY <1>1, <1>2, <2>1
    <2>3. new = [ui EXCEPT !.devices = rows, !.device_count = Len(rows)]
        BY <1>5 DEF on_event, on_device_found
    <2>4. Len(ui.devices) < MaxRows => rows = Append(ui.devices, e.device)
        OBVIOUS
    <2> HIDE DEF rows
    <2>5. new \in Ui /\ new.devices = rows
        BY <1>1, <2>2, <2>3 DEF Ui
    <2>6. Informed(new, e)
        BY <1>1, <1>5, <2>3, <2>4 DEF Ui, Informed
    <2> QED
        BY <2>2, <2>5, <2>6
<1>6. CASE e.kind = "ScanComplete"
    <2> DEFINE n == IF ui.device_count > 0 THEN ClampSelection(ui) ELSE ui.selected
               view == IF ui.device_count > 0 THEN "DeviceList" ELSE "Error"
    <2>1. n \in 0 .. MaxRows /\ (ui.device_count > 0 => n < ui.device_count)
        BY <1>1, <1>2 DEF ClampSelection
    <2>2. new = [ui EXCEPT !.screen = view, !.selected = n]
        BY <1>6 DEF on_event, on_scan_complete
    <2>3. view \in Screen
        BY DEF Screen
    <2>4. view = IF ui.device_count > 0 THEN "DeviceList" ELSE "Error"
        OBVIOUS
    <2> HIDE DEF n, view
    <2>5. new \in Ui /\ new.devices = ui.devices
        BY <1>1, <2>1, <2>2, <2>3 DEF Ui
    <2>6. Informed(new, e)
        BY <1>1, <1>6, <2>1, <2>2, <2>4 DEF Ui, Informed, KeepsList
    <2> QED
        BY <1>1, <2>5, <2>6
<1>7. CASE e.kind = "Connected"
    <2>1. new = [ui EXCEPT !.screen = "Connected", !.devices = <<>>,
                           !.connected_name = e.summary]
        BY <1>7 DEF on_event
    <2>2. new \in Ui /\ new.devices = <<>>
        BY <1>1, <1>3, <1>7, <2>1, BleEventFields DEF Ui, Screen
    <2>3. Informed(new, e)
        BY <1>1, <1>7, <2>1 DEF Ui, Informed
    <2> QED
        BY <1>1, <1>3, <2>2, <2>3
<1>8. CASE e.kind = "Disconnected"
    <2>1. new = [ui EXCEPT !.screen = "Home", !.devices = <<>>, !.selected = 0,
                           !.device_count = 0, !.connected_name = NoName]
        BY <1>8 DEF on_event
    <2>2. new \in Ui
        BY <1>1, <1>3, <1>a, <2>1 DEF Ui, Screen
    <2>4. new.devices = <<>>
        BY <1>1, <2>1 DEF Ui
    <2>3. Informed(new, e)
        BY <1>1, <1>8, <2>1 DEF Ui, Informed
    <2> QED
        BY <1>1, <1>3, <2>2, <2>3, <2>4
<1>9. CASE e.kind = "Error"
    <2>1. new = [ui EXCEPT !.screen = "Error"]
        BY <1>9 DEF on_event
    <2>2. new \in Ui /\ new.devices = ui.devices
        BY <1>1, <2>1 DEF Ui, Screen
    <2>3. Informed(new, e)
        BY <1>1, <1>9, <2>1 DEF Ui, Informed
    <2> QED
        BY <1>1, <2>2, <2>3
<1> QED
    BY <1>4, <1>5, <1>6, <1>7, <1>8, <1>9, BleEventFields

----------------------------------------------------------------------------
(* What a step does to what is coming to the UI.                           *)

Count == Len(evQ) + Len(todo)

\* Nothing the UI or the scan depends on.
Inert(item) == item.kind \notin {"Emit", "Scan"}

\* The item at q goes.
ShrinksAt(q) ==
    /\ q \in 1 .. Count /\ Count' = Count - 1
    /\ \A i \in 1 .. q - 1 : Coming'[i] = Coming[i]
    /\ \A i \in q .. Count - 1 : Coming'[i] = Coming[i + 1]

\* One inert item takes the place of another.
SwapsAt(q) ==
    /\ q \in 1 .. Count /\ Count' = Count
    /\ \A i \in 1 .. Count : i # q => Coming'[i] = Coming[i]
    /\ Inert(Coming[q]) /\ Inert(Coming'[q])
    /\ Coming[q].kind # "Boot" /\ Coming'[q].kind # "Boot"

\* The first k items stay, all of them events, and then come others.
EndsIn(k, items) ==
    /\ k \in 0 .. Count /\ Count' = k + Len(items)
    /\ \A i \in 1 .. k : Coming'[i] = Coming[i] /\ Coming[i].kind = "Emit"
    /\ \A i \in 1 .. Len(items) : Coming'[k + i] = items[i]

LEMMA SequelItems ==
    ASSUME NEW events \in Seq(BleEvent), NEW work \in Seq(WorkItem)
    PROVE  /\ Len(events) \in Nat /\ Len(work) \in Nat
           /\ DOMAIN Sequel(events, work) = 1 .. Len(events) + Len(work)
           /\ \A i \in 1 .. Len(events) : Sequel(events, work)[i] = Emit(events[i])
           /\ \A i \in 1 .. Len(work) :
                 Sequel(events, work)[Len(events) + i] = work[i]
           /\ \A i \in 1 .. Len(events) + Len(work) : Sequel(events, work)[i] \in WorkItem
<1>1. Len(events) \in Nat /\ Len(work) \in Nat
    OBVIOUS
<1>2. DOMAIN Sequel(events, work) = 1 .. Len(events) + Len(work)
    BY DEF Sequel
<1>3. \A i \in 1 .. Len(events) : Sequel(events, work)[i] = Emit(events[i])
    BY <1>1 DEF Sequel
<1>4. ASSUME NEW i \in 1 .. Len(work)
      PROVE  Sequel(events, work)[Len(events) + i] = work[i]
    <2>1. /\ Len(events) + i \in 1 .. Len(events) + Len(work)
          /\ ~(Len(events) + i <= Len(events)) /\ Len(events) + i - Len(events) = i
        BY <1>1
    <2> QED
        BY <2>1 DEF Sequel
<1>5. ASSUME NEW i \in 1 .. Len(events) + Len(work)
      PROVE  Sequel(events, work)[i] \in WorkItem
    <2>1. CASE i <= Len(events)
        BY <1>1, <1>3, <2>1, WorkItemTypes
    <2>2. CASE ~(i <= Len(events))
        <3>1. i - Len(events) \in 1 .. Len(work) /\ i = Len(events) + (i - Len(events))
            BY <1>1, <2>2
        <3>2. Sequel(events, work)[i] = work[i - Len(events)]
            BY <1>4, <3>1
        <3> QED
            BY <3>1, <3>2
    <2> QED
        BY <2>1, <2>2
<1> QED
    BY <1>1, <1>2, <1>3, <1>4, <1>5

LEMMA ComingItems ==
    ASSUME TypeOK
    PROVE  /\ Count \in Nat /\ DOMAIN Coming = 1 .. Count
           /\ Len(evQ) \in Nat /\ Len(todo) \in Nat /\ Count = Len(evQ) + Len(todo)
           /\ \A i \in 1 .. Len(evQ) : Coming[i] = Emit(evQ[i])
           /\ \A i \in 1 .. Len(todo) : Coming[Len(evQ) + i] = todo[i]
           /\ \A i \in 1 .. Count : Coming[i] \in WorkItem
BY SequelItems DEF TypeOK, Coming, Count

LEMMA NextItems ==
    ASSUME TypeOK'
    PROVE  /\ Count' \in Nat /\ DOMAIN Coming' = 1 .. Count'
           /\ Len(evQ') \in Nat /\ Len(todo') \in Nat /\ Count' = Len(evQ') + Len(todo')
           /\ \A i \in 1 .. Len(evQ') : Coming'[i] = Emit(evQ'[i])
           /\ \A i \in 1 .. Len(todo') : Coming'[Len(evQ') + i] = todo'[i]
           /\ \A i \in 1 .. Count' : Coming'[i] \in WorkItem
BY SequelItems DEF TypeOK, Coming, Count

LEMMA EmitKind == \A e : Emit(e).kind = "Emit" /\ Emit(e).event = e
BY DEF Emit

LEMMA TakingShrinks ==
    ASSUME TypeOK, TypeOK', UiReceives
    PROVE  ShrinksAt(1) /\ Coming[1] = Emit(Head(evQ)) /\ Head(evQ) \in BleEvent
<1>1. /\ evQ # <<>> /\ evQ' = Tail(evQ) /\ todo' = todo
      /\ evQ \in Seq(BleEvent)
    BY DEF UiReceives, coVars, TypeOK
<1>2. /\ Head(evQ) \in BleEvent /\ Len(evQ') = Len(evQ) - 1 /\ Head(evQ) = evQ[1]
      /\ \A i \in 1 .. Len(evQ) - 1 : evQ'[i] = evQ[i + 1]
      /\ Len(evQ) \in Nat \ {0}
    BY <1>1
<1>3. Count' = Count - 1 /\ 1 \in 1 .. Count
    BY <1>1, <1>2, ComingItems, NextItems
<1>4. ASSUME NEW i \in 1 .. Count - 1 PROVE Coming'[i] = Coming[i + 1]
    <2>1. CASE i <= Len(evQ) - 1
        <3>1. /\ i \in 1 .. Len(evQ') /\ i + 1 \in 1 .. Len(evQ) /\ i \in 1 .. Len(evQ) - 1
            BY <1>2, <2>1, ComingItems
        <3>2. Coming'[i] = Emit(evQ'[i])
            BY <3>1, NextItems
        <3>3. Coming[i + 1] = Emit(evQ[i + 1])
            BY <3>1, ComingItems
        <3>4. evQ'[i] = evQ[i + 1]
            BY <1>2, <3>1
        <3> QED
            BY <3>2, <3>3, <3>4
    <2>2. CASE ~(i <= Len(evQ) - 1)
        <3> DEFINE j == i + 1 - Len(evQ)
        <3>1. j \in 1 .. Len(todo) /\ i = Len(evQ') + j /\ i + 1 = Len(evQ) + j
            BY <1>2, <2>2, ComingItems
        <3> HIDE DEF j
        <3> QED
            BY <1>1, <3>1, ComingItems, NextItems
    <2> QED
        BY <2>1, <2>2
<1> QED
    BY <1>2, <1>3, <1>4, ComingItems DEF ShrinksAt

LEMMA DroppingShrinks ==
    ASSUME TypeOK, TypeOK', todo # <<>>, todo' = Tail(todo), evQ' = evQ
    PROVE  /\ ShrinksAt(Len(evQ) + 1) /\ Coming[Len(evQ) + 1] = Head(todo)
<1>1. todo \in Seq(WorkItem)
    BY DEF TypeOK
<1>2. /\ Len(todo') = Len(todo) - 1 /\ Head(todo) = todo[1]
      /\ \A i \in 1 .. Len(todo) - 1 : todo'[i] = todo[i + 1]
      /\ Len(todo) \in Nat \ {0}
    BY <1>1
<1>3. Count' = Count - 1 /\ Len(evQ) + 1 \in 1 .. Count
    BY <1>2, ComingItems, NextItems
<1>4. \A i \in 1 .. Len(evQ) : Coming'[i] = Coming[i]
    BY ComingItems, NextItems
<1>5. ASSUME NEW i \in Len(evQ) + 1 .. Count - 1 PROVE Coming'[i] = Coming[i + 1]
    <2> DEFINE j == i - Len(evQ)
    <2>1. /\ j \in 1 .. Len(todo) - 1 /\ i = Len(evQ) + j /\ i + 1 = Len(evQ) + (j + 1)
          /\ j + 1 \in 1 .. Len(todo) /\ j \in 1 .. Len(todo')
        BY <1>2, ComingItems
    <2> HIDE DEF j
    <2>2. Coming'[i] = todo'[j]
        BY <2>1, NextItems
    <2>3. Coming[i + 1] = todo[j + 1]
        BY <2>1, ComingItems
    <2> QED
        BY <1>2, <2>1, <2>2, <2>3
<1>6. Coming[Len(evQ) + 1] = Head(todo)
    BY <1>2, ComingItems
<1> QED
    BY <1>3, <1>4, <1>5, <1>6, ComingItems DEF ShrinksAt

LEMMA SwappingSwaps ==
    ASSUME TypeOK, TypeOK', todo # <<>>, NEW item, todo' = [todo EXCEPT ![1] = item],
           evQ' = evQ, Inert(todo[1]), Inert(item),
           todo[1].kind # "Boot", item.kind # "Boot"
    PROVE  SwapsAt(Len(evQ) + 1)
<1>1. todo \in Seq(WorkItem)
    BY DEF TypeOK
<1>2. /\ Len(todo') = Len(todo) /\ Len(todo) \in Nat \ {0} /\ todo'[1] = item
      /\ \A i \in 1 .. Len(todo) : i # 1 => todo'[i] = todo[i]
    BY <1>1
<1>3. Count' = Count /\ Len(evQ) + 1 \in 1 .. Count
    BY <1>2, ComingItems, NextItems
<1>4. ASSUME NEW i \in 1 .. Count, i # Len(evQ) + 1 PROVE Coming'[i] = Coming[i]
    <2>1. CASE i <= Len(evQ)
        BY <2>1, ComingItems, NextItems
    <2>2. CASE ~(i <= Len(evQ))
        <3> DEFINE j == i - Len(evQ)
        <3>1. j \in 1 .. Len(todo) /\ i = Len(evQ) + j /\ j # 1
            BY <1>2, <1>4, <2>2, ComingItems
        <3> HIDE DEF j
        <3>2. Coming'[i] = todo'[j] /\ Coming[i] = todo[j]
            BY <1>2, <3>1, ComingItems, NextItems
        <3> QED
            BY <1>2, <3>1, <3>2
    <2> QED
        BY <2>1, <2>2
<1>5. Coming[Len(evQ) + 1] = todo[1] /\ Coming'[Len(evQ) + 1] = item
    BY <1>2, ComingItems, NextItems
<1> QED
    BY <1>3, <1>4, <1>5 DEF SwapsAt

LEMMA HandlingEnds ==
    ASSUME TypeOK, TypeOK', Len(todo) <= 1, evQ' = evQ
    PROVE  EndsIn(Len(evQ), todo')
<1>1. \A i \in 1 .. Len(evQ) : Coming'[i] = Coming[i] /\ Coming[i].kind = "Emit"
    BY ComingItems, NextItems, EmitKind
<1> QED
    BY <1>1, ComingItems, NextItems DEF EndsIn

LEMMA EmittingKeeps ==
    ASSUME TypeOK, TypeOK', Emits
    PROVE  Coming' = Coming
<1>1. /\ todo # <<>> /\ Head(todo).kind = "Emit" /\ evQ' = Append(evQ, Head(todo).event)
      /\ todo' = Tail(todo) /\ todo \in Seq(WorkItem) /\ evQ \in Seq(BleEvent)
    BY DEF Emits, Upcoming, TypeOK
<1>2. Head(todo) = Emit(Head(todo).event) /\ Head(todo).event \in BleEvent
    <2>1. Head(todo) \in WorkItem
        BY <1>1
    <2> QED
        BY <1>1, <2>1 DEF WorkItem, Boot, Scan, ReserveAndConnect, ConnectSlot,
                          DisconnectSlots, PersistDevice, Emit
<1>3. /\ Len(evQ') = Len(evQ) + 1 /\ evQ'[Len(evQ) + 1] = Head(todo).event
      /\ \A i \in 1 .. Len(evQ) : evQ'[i] = evQ[i]
    BY <1>1, <1>2
<1>4. /\ Len(todo') = Len(todo) - 1 /\ Head(todo) = todo[1]
      /\ \A i \in 1 .. Len(todo) - 1 : todo'[i] = todo[i + 1]
      /\ Len(todo) \in Nat \ {0}
    BY <1>1
<1>5. Count' = Count
    BY <1>3, <1>4, ComingItems, NextItems
<1>6. ASSUME NEW i \in 1 .. Count PROVE Coming'[i] = Coming[i]
    <2>1. CASE i <= Len(evQ)
        <3>1. i \in 1 .. Len(evQ) /\ i \in 1 .. Len(evQ')
            BY <1>3, <2>1, ComingItems
        <3>2. Coming[i] = Emit(evQ[i]) /\ Coming'[i] = Emit(evQ'[i])
            BY <3>1, ComingItems, NextItems
        <3> QED
            BY <1>3, <3>1, <3>2
    <2>2. CASE i = Len(evQ) + 1
        <3>1. Coming'[i] = Emit(evQ'[i]) /\ Coming[i] = todo[1]
            BY <1>3, <1>4, <2>2, ComingItems, NextItems
        <3> QED
            BY <1>2, <1>3, <1>4, <2>2, <3>1
    <2>3. CASE i > Len(evQ) + 1
        <3> DEFINE j == i - Len(evQ) - 1
        <3>1. /\ j \in 1 .. Len(todo) - 1 /\ i = Len(evQ') + j /\ i = Len(evQ) + (j + 1)
              /\ j + 1 \in 1 .. Len(todo) /\ j \in 1 .. Len(todo')
            BY <1>3, <1>4, <2>3, ComingItems
        <3> HIDE DEF j
        <3>2. Coming'[i] = todo'[j]
            BY <3>1, NextItems
        <3>3. Coming[i] = todo[j + 1]
            BY <3>1, ComingItems
        <3> QED
            BY <1>4, <3>1, <3>2, <3>3
    <2> QED
        BY <2>1, <2>2, <2>3, ComingItems
<1>7. Coming = [i \in DOMAIN Coming |-> Coming[i]] /\ Coming' = [i \in DOMAIN Coming' |-> Coming'[i]]
    BY DEF Coming, Sequel
<1> QED
    BY <1>5, <1>6, <1>7, ComingItems, NextItems

----------------------------------------------------------------------------
(* The status on the screen.                                               *)

\* LinkName is about the connected slots only.
LEMMA LinkNameFrame ==
    ASSUME ConnectedSlots(manager') = ConnectedSlots(manager),
           \A s \in ConnectedSlots(manager) : manager'[s].address = manager[s].address
    PROVE  LinkName' = LinkName
<1> DEFINE C == ConnectedSlots(manager)
<1>1. active_count(manager') = active_count(manager)
    BY DEF active_count
<1>2. CASE \E s \in Slots : C = {s}
    <2> DEFINE s == CHOOSE s \in Slots : C = {s}
    <2>1. s \in C
        BY <1>2
    <2> QED
        BY <1>1, <1>2, <2>1 DEF LinkName, connection_summary
<1>3. CASE ~ \E s \in Slots : C = {s}
    BY <1>1, <1>3 DEF LinkName, connection_summary
<1> QED
    BY <1>2, <1>3

LEMMA StatusFrame ==
    ASSUME TypeOK, TypeOK', StatusInv, LinkName' = LinkName,
           ui'.connected_name = ui.connected_name,
           Coming' = Coming
    PROVE  StatusInv'
BY DEF StatusInv

LEMMA StatusShrinks ==
    ASSUME TypeOK, TypeOK', StatusInv, LinkName' = LinkName,
           NEW q, ShrinksAt(q), q = 1 \/ ~IsStatus(Coming[q]),
           IF IsStatus(Coming[q]) THEN ui'.connected_name = NameIn(Coming[q].event)
           ELSE ui'.connected_name = ui.connected_name
    PROVE  StatusInv'
<1>1. /\ DOMAIN Coming = 1 .. Count /\ Count \in Nat
      /\ DOMAIN Coming' = 1 .. Count - 1 /\ q \in 1 .. Count
    BY ComingItems, NextItems DEF ShrinksAt
<1>2. ASSUME NEW i \in DOMAIN Coming', IsStatus(Coming'[i]),
             \A j \in DOMAIN Coming' : j > i => ~IsStatus(Coming'[j])
      PROVE  NameIn(Coming'[i].event) = LinkName'
    <2> DEFINE k == IF i < q THEN i ELSE i + 1
    <2>1. k \in DOMAIN Coming /\ Coming'[i] = Coming[k]
        BY <1>1 DEF ShrinksAt
    <2>2. ASSUME NEW j \in DOMAIN Coming, j > k PROVE ~IsStatus(Coming[j])
        <3>1. CASE j = q
            BY <1>1, <2>1, <2>2, <3>1
        <3>2. CASE j < q
            BY <1>1, <1>2, <2>2, <3>2 DEF ShrinksAt
        <3>3. CASE j > q
            <4>1. j - 1 \in DOMAIN Coming' /\ j - 1 >= q /\ j - 1 > i
                BY <1>1, <2>2, <3>3
            <4>2. Coming'[j - 1] = Coming[j]
                BY <1>1, <4>1 DEF ShrinksAt
            <4> QED
                BY <1>2, <4>1, <4>2
        <3> QED
            BY <1>1, <3>1, <3>2, <3>3
    <2> QED
        BY <1>2, <2>1, <2>2 DEF StatusInv
<1>3. ASSUME \A i \in DOMAIN Coming' : ~IsStatus(Coming'[i])
      PROVE  ui'.connected_name = LinkName'
    <2>1. ASSUME NEW j \in DOMAIN Coming, j # q PROVE ~IsStatus(Coming[j])
        <3>1. CASE j < q
            BY <1>1, <1>3, <3>1 DEF ShrinksAt
        <3>2. CASE j > q
            <4>1. j - 1 \in DOMAIN Coming' /\ j - 1 >= q
                BY <1>1, <3>2
            <4>2. Coming'[j - 1] = Coming[j]
                BY <1>1, <4>1 DEF ShrinksAt
            <4> QED
                BY <1>3, <4>1, <4>2
        <3> QED
            BY <1>1, <2>1, <3>1, <3>2
    <2>2. CASE IsStatus(Coming[q])
        BY <1>1, <2>1, <2>2 DEF StatusInv
    <2>3. CASE ~IsStatus(Coming[q])
        BY <1>1, <2>1, <2>3 DEF StatusInv
    <2> QED
        BY <2>2, <2>3
<1> QED
    BY <1>2, <1>3 DEF StatusInv

LEMMA StatusSwaps ==
    ASSUME TypeOK, TypeOK', StatusInv, LinkName' = LinkName,
           ui'.connected_name = ui.connected_name, NEW q, SwapsAt(q)
    PROVE  StatusInv'
<1>1. DOMAIN Coming = 1 .. Count /\ DOMAIN Coming' = 1 .. Count
    BY ComingItems, NextItems DEF SwapsAt
<1>2. ~IsStatus(Coming[q]) /\ ~IsStatus(Coming'[q])
    BY DEF SwapsAt, Inert, IsStatus, Shows
<1>3. \A i \in 1 .. Count : IsStatus(Coming'[i]) <=> IsStatus(Coming[i])
    BY <1>2 DEF SwapsAt
<1>4. \A i \in 1 .. Count : IsStatus(Coming[i]) => Coming'[i] = Coming[i]
    BY <1>2 DEF SwapsAt
<1> QED
    BY <1>1, <1>3, <1>4 DEF StatusInv

\* What is dropped from behind the first k items says nothing of the links.
LEMMA StatusEnds ==
    ASSUME TypeOK, TypeOK', StatusInv, LinkName' = LinkName,
           ui'.connected_name = ui.connected_name,
           NEW k, NEW items \in Seq(WorkItem), EndsIn(k, items),
           \A i \in k + 1 .. Count : ~IsStatus(Coming[i]),
           \A i \in 1 .. Len(items) : ~IsStatus(items[i])
    PROVE  StatusInv'
<1>1. /\ DOMAIN Coming = 1 .. Count /\ Count \in Nat /\ Len(items) \in Nat
      /\ DOMAIN Coming' = 1 .. k + Len(items) /\ k \in 0 .. Count
    BY ComingItems, NextItems DEF EndsIn
<1>2. ASSUME NEW i \in 1 .. k + Len(items), i > k PROVE ~IsStatus(Coming'[i])
    <2>1. i - k \in 1 .. Len(items) /\ i = k + (i - k)
        BY <1>1, <1>2
    <2>2. Coming'[i] = items[i - k]
        BY <2>1 DEF EndsIn
    <2> QED
        BY <2>1, <2>2
<1>3. \A i \in 1 .. k : Coming'[i] = Coming[i]
    BY DEF EndsIn
<1> QED
    BY <1>1, <1>2, <1>3 DEF StatusInv

LEMMA StatusSaid ==
    ASSUME TypeOK, TypeOK', NEW k, NEW items \in Seq(WorkItem), EndsIn(k, items),
           items # <<>>, IsStatus(items[Len(items)]),
           NameIn(items[Len(items)].event) = LinkName'
    PROVE  StatusInv'
<1>1. /\ Count \in Nat /\ Len(items) \in Nat \ {0}
      /\ DOMAIN Coming' = 1 .. k + Len(items) /\ k \in 0 .. Count
    BY ComingItems, NextItems DEF EndsIn
<1>2. Coming'[k + Len(items)] = items[Len(items)]
    BY <1>1 DEF EndsIn
<1>3. ASSUME NEW i \in DOMAIN Coming',
             \A j \in DOMAIN Coming' : j > i => ~IsStatus(Coming'[j])
      PROVE  i = k + Len(items)
    BY <1>1, <1>2, <1>3
<1> QED
    BY <1>1, <1>2, <1>3 DEF StatusInv

----------------------------------------------------------------------------
(* The rows of the newest scan.                                            *)

ListKept == ui'.devices = ui.devices /\ ui'.device_count = ui.device_count

RowsKept == ui.screen = "Scanning" => ui'.screen = "Scanning" /\ ListKept

LEMMA RowsFrame ==
    ASSUME RowsInv, Coming' = Coming, last_scan' = last_scan, RowsKept
    PROVE  RowsInv'
BY DEF RowsInv, RowsEndAt, Newest, RowsKept, ListKept

LEMMA NewestShrinks ==
    ASSUME TypeOK, TypeOK', NEW q, ShrinksAt(q), q = 1 \/ Inert(Coming[q]),
           NEW i \in DOMAIN Coming', Newest(Coming', i)
    PROVE  Newest(Coming, IF i < q THEN i ELSE i + 1)
<1>1. /\ DOMAIN Coming = 1 .. Count /\ Count \in Nat
      /\ DOMAIN Coming' = 1 .. Count - 1 /\ q \in 1 .. Count
    BY ComingItems, NextItems DEF ShrinksAt
<1> SUFFICES ASSUME NEW j \in DOMAIN Coming, j >= (IF i < q THEN i ELSE i + 1)
             PROVE  ~Shows(Coming[j], {"ScanStarted"})
    BY DEF Newest
<1>2. CASE j = q
    <2>1. Inert(Coming[q])
        BY <1>1, <1>2
    <2> QED
        BY <1>2, <2>1 DEF Inert, Shows
<1>3. CASE j < q
    <2>1. j \in DOMAIN Coming' /\ j >= i /\ Coming'[j] = Coming[j]
        BY <1>1, <1>3 DEF ShrinksAt
    <2> QED
        BY <2>1 DEF Newest
<1>4. CASE j > q
    <2>1. j - 1 \in DOMAIN Coming' /\ j - 1 >= i /\ j - 1 >= q
        BY <1>1, <1>4
    <2>2. Coming'[j - 1] = Coming[j]
        BY <1>1, <2>1 DEF ShrinksAt
    <2> QED
        BY <2>1, <2>2 DEF Newest
<1> QED
    BY <1>1, <1>2, <1>3, <1>4

LEMMA RowsDrop ==
    ASSUME TypeOK, TypeOK', RowsInv, last_scan' = last_scan, ui' = ui,
           NEW q, ShrinksAt(q), Inert(Coming[q])
    PROVE  RowsInv'
<1> DEFINE Old(i) == IF i < q THEN i ELSE i + 1
<1>1. /\ DOMAIN Coming = 1 .. Count /\ Count \in Nat
      /\ DOMAIN Coming' = 1 .. Count - 1 /\ q \in 1 .. Count
    BY ComingItems, NextItems DEF ShrinksAt
<1>2. \A i \in DOMAIN Coming' : Old(i) \in DOMAIN Coming /\ Coming'[i] = Coming[Old(i)]
    BY <1>1 DEF ShrinksAt
<1>3. Coming[q].kind # "Emit"
    BY DEF Inert
<1>4. Len(last_scan) \in Nat
    BY DEF TypeOK
<1>5. ASSUME NEW p \in DOMAIN Coming', Shows(Coming'[p], {"ScanComplete"}), Newest(Coming', p)
      PROVE  RowsEndAt(p, p - Len(last_scan), Coming', last_scan, ui')
    <2> DEFINE first == Old(p) - Len(last_scan)
    <2>1. Newest(Coming, Old(p))
        BY <1>5, NewestShrinks
    <2>2. RowsEndAt(Old(p), first, Coming, last_scan, ui)
        BY <1>2, <1>5, <2>1 DEF RowsInv
    <2>3. CASE p < q
        <3>1. Old(p) = p
            BY <2>3
        <3>2. /\ p \in 1 .. q - 1 /\ \A j \in 1 .. p : Coming'[j] = Coming[j]
            BY <1>1, <2>3 DEF ShrinksAt
        <3>3. \A j \in first .. p - 1 : j >= 1 => Coming'[j] = Coming[j]
            BY <1>1, <1>4, <3>1, <3>2
        <3>4. first > 1 => Coming'[first - 1] = Coming[first - 1]
            BY <1>1, <1>4, <3>1, <3>2
        <3> QED
            BY <2>2, <3>1, <3>3, <3>4 DEF RowsEndAt
    <2>4. CASE p >= q
        <3>1. Old(p) = p + 1 /\ first \in Int /\ first = p + 1 - Len(last_scan)
            BY <1>1, <1>4, <2>4
        <3> HIDE DEF first, Old
        <3>2. q < first
            <4> SUFFICES ASSUME q >= first PROVE FALSE
                BY <1>1, <3>1
            <4>1. q \in first .. Old(p) - 1 /\ q >= 1
                BY <1>1, <2>4, <3>1
            <4> QED
                BY <1>3, <2>2, <4>1, EmitKind DEF RowsEndAt
        <3>3. Shows(Coming[first - 1], {"ScanStarted"}) /\ q # first - 1
            BY <1>1, <1>3, <2>2, <3>1, <3>2 DEF RowsEndAt, Shows
        <3>4. first - 2 >= q /\ first - 2 \in q .. Count - 1
            BY <1>1, <1>4, <3>1, <3>2, <3>3
        <3>5. Coming'[first - 2] = Coming[first - 1]
            BY <3>1, <3>4 DEF ShrinksAt
        <3>6. ASSUME NEW j \in first - 1 .. p - 1
              PROVE  Coming'[j] = Emit(DeviceFound(last_scan[j - (first - 1) + 1]))
            <4>1. j \in q .. Count - 1 /\ j + 1 \in first .. Old(p) - 1 /\ j + 1 >= 1
                BY <1>1, <3>1, <3>4
            <4>2. Coming'[j] = Coming[j + 1]
                BY <4>1 DEF ShrinksAt
            <4>3. Coming[j + 1] = Emit(DeviceFound(last_scan[j + 1 - first + 1]))
                BY <2>2, <3>1, <4>1 DEF RowsEndAt
            <4>4. j + 1 - first + 1 = j - (first - 1) + 1
                BY <3>1
            <4> QED
                BY <4>2, <4>3, <4>4
        <3>7. /\ p - Len(last_scan) = first - 1 /\ first - 1 > 1
              /\ first - 1 - 1 = first - 2
            BY <1>1, <1>4, <3>1, <3>4
        <3>8. RowsEndAt(p, first - 1, Coming', last_scan, ui')
            BY <3>1, <3>3, <3>5, <3>6, <3>7 DEF RowsEndAt
        <3> QED
            BY <3>7, <3>8
    <2> QED
        BY <1>1, <2>3, <2>4
<1>6. ASSUME NEW j \in DOMAIN Coming', Shows(Coming'[j], {"DeviceFound"}), Newest(Coming', j)
      PROVE  \E p \in DOMAIN Coming' : p > j /\ Shows(Coming'[p], {"ScanComplete"})
    <2>1. Newest(Coming, Old(j))
        BY <1>6, NewestShrinks
    <2>2. PICK p \in DOMAIN Coming : p > Old(j) /\ Shows(Coming[p], {"ScanComplete"})
        BY <1>2, <1>6, <2>1 DEF RowsInv
    <2>3. p # q
        BY <1>3, <2>2 DEF Shows
    <2>4. CASE p < q
        BY <1>1, <2>2, <2>4 DEF ShrinksAt
    <2>5. CASE p > q
        <3>1. p - 1 \in DOMAIN Coming' /\ p - 1 > j /\ p - 1 >= q
            BY <1>1, <2>2, <2>5
        <3>2. Coming'[p - 1] = Coming[p]
            BY <1>1, <3>1 DEF ShrinksAt
        <3> QED
            BY <2>2, <3>1, <3>2
    <2> QED
        BY <1>1, <2>3, <2>4, <2>5
<1> QED
    BY <1>5, <1>6 DEF RowsInv

LEMMA RowsTaken ==
    ASSUME TypeOK, TypeOK', UiTypeOK, RowsInv, last_scan' = last_scan,
           ShrinksAt(1), NEW e, Coming[1] = Emit(e), Informed(ui', e)
    PROVE  RowsInv'
<1>1. /\ DOMAIN Coming = 1 .. Count /\ Count \in Nat \ {0}
      /\ DOMAIN Coming' = 1 .. Count - 1
    BY ComingItems, NextItems DEF ShrinksAt
<1>2. \A i \in DOMAIN Coming' : i + 1 \in DOMAIN Coming /\ Coming'[i] = Coming[i + 1]
    BY <1>1 DEF ShrinksAt
<1>3. ASSUME NEW i \in DOMAIN Coming', Newest(Coming', i) PROVE Newest(Coming, i + 1)
    BY <1>1, <1>3, NewestShrinks
<1>4. Len(last_scan) \in Nat /\ last_scan \in Seq(Address)
    BY DEF TypeOK
<1>5. ASSUME NEW p \in DOMAIN Coming', Shows(Coming'[p], {"ScanComplete"}), Newest(Coming', p)
      PROVE  RowsEndAt(p, p - Len(last_scan), Coming', last_scan, ui')
    <2> DEFINE first == p + 1 - Len(last_scan)
    <2>1. RowsEndAt(p + 1, first, Coming, last_scan, ui)
        <3> DEFINE k == p + 1
        <3>1. k \in DOMAIN Coming /\ Coming'[p] = Coming[k] /\ Newest(Coming, k)
            BY <1>2, <1>3, <1>5
        <3> HIDE DEF k
        <3>2. RowsEndAt(k, k - Len(last_scan), Coming, last_scan, ui)
            BY <1>5, <3>1 DEF RowsInv
        <3>3. k = p + 1 /\ k - Len(last_scan) = first
            BY <1>1, <1>4 DEF k
        <3> HIDE DEF first
        <3> QED
            BY <3>2, <3>3
    <2>2. first \in Int /\ p - Len(last_scan) = first - 1 /\ p \in Nat \ {0}
        BY <1>1, <1>4
    <2>3. first <= p + 1
        BY <1>4, <2>2
    <2>4. 2 - first <= Len(last_scan)
        BY <1>4, <2>2
    <2> HIDE DEF first
    <2>5. ASSUME NEW j \in first - 1 .. p - 1, j >= 1
          PROVE  Coming'[j] = Emit(DeviceFound(last_scan[j - (first - 1) + 1]))
        <3>1. j \in DOMAIN Coming' /\ j + 1 \in first .. p + 1 - 1 /\ j + 1 >= 1
            BY <1>1, <2>2, <2>5
        <3>2. Coming[j + 1] = Emit(DeviceFound(last_scan[j + 1 - first + 1]))
            <4> DEFINE k == j + 1
            <4>1. k \in first .. p + 1 - 1 /\ k >= 1
                BY <3>1
            <4> HIDE DEF k
            <4>2. Coming[k] = Emit(DeviceFound(last_scan[k - first + 1]))
                BY <2>1, <4>1 DEF RowsEndAt
            <4>3. k = j + 1 /\ j + 1 - first + 1 = k - first + 1
                BY <2>2, <3>1 DEF k
            <4> QED
                BY <4>2, <4>3
        <3>3. j + 1 - first + 1 = j - (first - 1) + 1
            BY <2>2
        <3> QED
            BY <1>2, <3>1, <3>2, <3>3
    <2>6. ASSUME first - 1 > 1 PROVE Shows(Coming'[first - 2], {"ScanStarted"})
        <3>1. first - 2 \in DOMAIN Coming' /\ first - 2 + 1 = first - 1 /\ first > 1
            BY <1>1, <2>2, <2>3, <2>6
        <3> QED
            BY <1>2, <2>1, <3>1 DEF RowsEndAt
    <2>7. ASSUME first - 1 <= 1
          PROVE  /\ ui'.screen = "Scanning"
                 /\ Len(ui'.devices) = 2 - first /\ ui'.device_count = 2 - first
                 /\ \A i \in 1 .. 2 - first : ui'.devices[i] = last_scan[i]
        <3>1. CASE first = 2
            <4>1. Shows(Coming[1], {"ScanStarted"})
                BY <2>1, <3>1 DEF RowsEndAt
            <4>2. e.kind = "ScanStarted"
                BY <4>1, EmitKind DEF Shows
            <4>3. /\ ui'.screen = "Scanning" /\ ui'.devices = <<>> /\ ui'.device_count = 0
                BY <4>2 DEF Informed
            <4> QED
                BY <3>1, <4>3
        <3>2. CASE first <= 1
            <4>1. 1 \in first .. p + 1 - 1
                BY <2>2, <3>2
            <4>2. Coming[1] = Emit(DeviceFound(last_scan[1 - first + 1]))
                BY <2>1, <2>2, <4>1 DEF RowsEndAt
            <4>3. e = DeviceFound(last_scan[2 - first])
                <5>1. 1 - first + 1 = 2 - first
                    BY <2>2
                <5>2. Emit(e) = Emit(DeviceFound(last_scan[2 - first]))
                    BY <4>2, <5>1
                <5> QED
                    BY <5>2 DEF Emit
            <4>4. e.kind = "DeviceFound" /\ e.device = last_scan[2 - first]
                BY <4>3 DEF DeviceFound
            <4>5. /\ ui.screen = "Scanning" /\ Len(ui.devices) = 1 - first
                  /\ \A i \in 1 .. 1 - first : ui.devices[i] = last_scan[i]
                BY <2>1, <3>2 DEF RowsEndAt
            <4>6. Len(ui.devices) < MaxRows
                BY <1>4, <2>2, <2>4, <4>5, RowsAssumption, CapacityAssumption DEF RowsInv
            <4>7. /\ ui'.screen = "Scanning" /\ ui'.device_count = Len(ui'.devices)
                  /\ ui'.devices = Append(ui.devices, e.device)
                BY <4>4, <4>5, <4>6 DEF Informed
            <4>8. ui.devices \in Seq(Address) /\ e.device \in Address
                <5>1. 2 - first \in 1 .. Len(last_scan)
                    BY <1>4, <2>2, <2>4, <3>2
                <5> QED
                    BY <1>4, <4>4, <5>1 DEF UiTypeOK, Ui
            <4>9. Len(ui'.devices) = 2 - first
                BY <2>2, <4>5, <4>7, <4>8
            <4>10. \A i \in 1 .. 2 - first : ui'.devices[i] = last_scan[i]
                <5>1. \A i \in 1 .. 1 - first : ui'.devices[i] = ui.devices[i]
                    BY <4>5, <4>7, <4>8
                <5>2. ui'.devices[2 - first] = e.device
                    <6>1. 2 - first = Len(ui.devices) + 1
                        BY <2>2, <4>5
                    <6> QED
                        BY <4>7, <4>8, <6>1
                <5>3. \A i \in 1 .. 2 - first : i \in 1 .. 1 - first \/ i = 2 - first
                    BY <2>2
                <5> QED
                    BY <4>4, <4>5, <5>1, <5>2, <5>3
            <4> QED
                BY <4>7, <4>9, <4>10
        <3> QED
            BY <2>2, <2>7, <3>1, <3>2
    <2>8. first - 1 - 1 = first - 2 /\ 1 - (first - 1) = 2 - first
        BY <2>2
    <2>9. RowsEndAt(p, first - 1, Coming', last_scan, ui')
        BY <2>5, <2>6, <2>7, <2>8 DEF RowsEndAt
    <2> QED
        BY <2>2, <2>9
<1>6. ASSUME NEW j \in DOMAIN Coming', Shows(Coming'[j], {"DeviceFound"}), Newest(Coming', j)
      PROVE  \E p \in DOMAIN Coming' : p > j /\ Shows(Coming'[p], {"ScanComplete"})
    <2>1. PICK p \in DOMAIN Coming : p > j + 1 /\ Shows(Coming[p], {"ScanComplete"})
        BY <1>2, <1>3, <1>6 DEF RowsInv
    <2>2. p - 1 \in DOMAIN Coming' /\ p - 1 > j /\ p - 1 + 1 = p
        BY <1>1, <2>1
    <2> QED
        BY <1>2, <2>1, <2>2
<1> QED
    BY <1>5, <1>6 DEF RowsInv

LEMMA RowsSwap ==
    ASSUME TypeOK, TypeOK', RowsInv, last_scan' = last_scan, ui' = ui, NEW q, SwapsAt(q)
    PROVE  RowsInv'
<1>1. DOMAIN Coming = 1 .. Count /\ DOMAIN Coming' = 1 .. Count
    BY ComingItems, NextItems DEF SwapsAt
<1>2. Coming[q].kind # "Emit" /\ Coming'[q].kind # "Emit"
    BY DEF SwapsAt, Inert
<1>3. \A i \in 1 .. Count : \A kinds : Shows(Coming'[i], kinds) <=> Shows(Coming[i], kinds)
    BY <1>2 DEF SwapsAt, Shows
<1>4. \A i : Newest(Coming', i) <=> Newest(Coming, i)
    BY <1>1, <1>3 DEF Newest
<1>5. ASSUME NEW p \in DOMAIN Coming, NEW first \in Int, first <= p,
             RowsEndAt(p, first, Coming, last_scan, ui)
      PROVE  RowsEndAt(p, first, Coming', last_scan, ui')
    <2>1. ASSUME NEW j \in first .. p - 1, j >= 1
          PROVE  Coming'[j] = Emit(DeviceFound(last_scan[j - first + 1]))
        <3>1. Coming[j] = Emit(DeviceFound(last_scan[j - first + 1]))
            BY <1>5, <2>1 DEF RowsEndAt
        <3>2. j # q
            BY <1>2, <3>1, EmitKind
        <3>3. j \in 1 .. Count
            BY <1>1, <2>1, ComingItems
        <3> QED
            BY <3>1, <3>2, <3>3 DEF SwapsAt
    <2>2. first > 1 => Shows(Coming'[first - 1], {"ScanStarted"})
        <3> SUFFICES ASSUME first > 1 PROVE Shows(Coming'[first - 1], {"ScanStarted"})
            OBVIOUS
        <3>1. Shows(Coming[first - 1], {"ScanStarted"})
            BY <1>5 DEF RowsEndAt
        <3>2. first - 1 \in 1 .. Count
            BY <1>1, <1>5, ComingItems
        <3> QED
            BY <1>3, <3>1, <3>2
    <2> QED
        BY <1>5, <2>1, <2>2 DEF RowsEndAt
<1>6. \A p \in DOMAIN Coming : p - Len(last_scan) \in Int /\ p - Len(last_scan) <= p
    BY <1>1 DEF TypeOK
<1> QED
    BY <1>1, <1>3, <1>4, <1>5, <1>6 DEF RowsInv

\* A handler that finds no device changes nothing.
LEMMA RowsEnd ==
    ASSUME TypeOK, TypeOK', RowsInv, last_scan' = last_scan, ui' = ui,
           NEW k, NEW items \in Seq(WorkItem), EndsIn(k, items),
           \A i \in k + 1 .. Count : Inert(Coming[i]),
           \A i \in 1 .. Len(items) : ~Shows(items[i], {"DeviceFound", "ScanComplete"})
    PROVE  RowsInv'
<1>1. /\ DOMAIN Coming = 1 .. Count /\ Count \in Nat /\ Len(items) \in Nat
      /\ DOMAIN Coming' = 1 .. k + Len(items) /\ k \in 0 .. Count
      /\ \A i \in 1 .. k : Coming'[i] = Coming[i]
    BY ComingItems, NextItems DEF EndsIn
<1>2. ASSUME NEW i \in DOMAIN Coming', Shows(Coming'[i], {"DeviceFound", "ScanComplete"})
      PROVE  i \in 1 .. k
    <2> SUFFICES ASSUME i > k PROVE FALSE
        BY <1>1
    <2>1. i - k \in 1 .. Len(items) /\ i = k + (i - k)
        BY <1>1
    <2>2. Coming'[i] = items[i - k]
        BY <2>1 DEF EndsIn
    <2> QED
        BY <1>2, <2>1, <2>2
<1>3. ASSUME NEW i \in 1 .. k, Newest(Coming', i) PROVE Newest(Coming, i)
    <2> SUFFICES ASSUME NEW j \in DOMAIN Coming, j >= i
                 PROVE  ~Shows(Coming[j], {"ScanStarted"})
        BY DEF Newest
    <2>1. CASE j <= k
        BY <1>1, <1>3, <2>1 DEF Newest
    <2>2. CASE j > k
        BY <1>1, <2>2 DEF Inert, Shows
    <2> QED
        BY <1>1, <2>1, <2>2
<1>4. Len(last_scan) \in Nat
    BY DEF TypeOK
<1>5. ASSUME NEW p \in DOMAIN Coming', Shows(Coming'[p], {"ScanComplete"}), Newest(Coming', p)
      PROVE  RowsEndAt(p, p - Len(last_scan), Coming', last_scan, ui')
    <2> DEFINE first == p - Len(last_scan)
    <2>1. p \in 1 .. k
        BY <1>2, <1>5 DEF Shows
    <2>2. RowsEndAt(p, first, Coming, last_scan, ui)
        BY <1>1, <1>3, <1>5, <2>1 DEF RowsInv
    <2>3. first \in Int /\ first <= p
        BY <1>1, <1>4, <2>1
    <2> HIDE DEF first
    <2>4. ASSUME NEW j \in first .. p - 1, j >= 1
          PROVE  Coming'[j] = Emit(DeviceFound(last_scan[j - first + 1]))
        <3>1. Coming'[j] = Coming[j]
            BY <1>1, <2>1, <2>3, <2>4
        <3> QED
            BY <2>2, <2>4, <3>1 DEF RowsEndAt
    <2>5. first > 1 => Coming'[first - 1] = Coming[first - 1]
        BY <1>1, <2>1, <2>3
    <2>6. RowsEndAt(p, first, Coming', last_scan, ui')
        BY <2>2, <2>4, <2>5 DEF RowsEndAt
    <2> QED
        BY <2>6 DEF first
<1>6. ASSUME NEW j \in DOMAIN Coming', Shows(Coming'[j], {"DeviceFound"}), Newest(Coming', j)
      PROVE  \E p \in DOMAIN Coming' : p > j /\ Shows(Coming'[p], {"ScanComplete"})
    <2>1. j \in 1 .. k
        BY <1>2, <1>6 DEF Shows
    <2>2. PICK p \in DOMAIN Coming : p > j /\ Shows(Coming[p], {"ScanComplete"})
        BY <1>1, <1>3, <1>6, <2>1 DEF RowsInv
    <2>3. p \in 1 .. k
        <3> SUFFICES ASSUME p > k PROVE FALSE
            BY <1>1, <2>2
        <3>1. Inert(Coming[p])
            BY <1>1
        <3> QED
            BY <2>2, <3>1 DEF Inert, Shows
    <2> QED
        BY <1>1, <2>2, <2>3
<1> QED
    BY <1>5, <1>6 DEF RowsInv

\* The scan ends: nothing is coming from behind its announcement but its end.
LEMMA RowsFound ==
    ASSUME TypeOK, TypeOK', NEW k, NEW items \in Seq(WorkItem), EndsIn(k, items),
           IF k > 0 THEN Shows(Coming[k], {"ScanStarted"})
           ELSE ui'.screen = "Scanning" /\ ui'.devices = <<>> /\ ui'.device_count = 0,
           Len(last_scan') <= BLE_MAX_DISCOVERED, Len(items) > Len(last_scan'),
           \A i \in 1 .. Len(last_scan') : items[i] = Emit(DeviceFound(last_scan'[i])),
           items[Len(last_scan') + 1] = Emit(ScanComplete),
           \A i \in Len(last_scan') + 2 .. Len(items) : Inert(items[i])
    PROVE  RowsInv'
<1> DEFINE n == Len(last_scan')
<1>1. /\ DOMAIN Coming = 1 .. Count /\ Count \in Nat /\ Len(items) \in Nat
      /\ DOMAIN Coming' = 1 .. k + Len(items) /\ k \in 0 .. Count
      /\ \A i \in 1 .. k : Coming'[i] = Coming[i]
      /\ \A i \in 1 .. Len(items) : Coming'[k + i] = items[i]
    BY ComingItems, NextItems DEF EndsIn
<1>7. n \in Nat /\ n < Len(items)
    BY DEF TypeOK
<1> HIDE DEF n
<1>2. ASSUME NEW i \in DOMAIN Coming', Newest(Coming', i) PROVE i > k
    <2> SUFFICES ASSUME i <= k PROVE FALSE
        BY <1>1
    <2>1. k \in DOMAIN Coming' /\ k >= i /\ Coming'[k] = Coming[k] /\ k > 0
        BY <1>1
    <2> QED
        BY <1>2, <2>1 DEF Newest
<1>3. ASSUME NEW i \in DOMAIN Coming', i > k
      PROVE  i - k \in 1 .. Len(items) /\ Coming'[i] = items[i - k]
    <2>1. i - k \in 1 .. Len(items) /\ i = k + (i - k)
        BY <1>1, <1>3
    <2> QED
        BY <1>1, <1>7, <2>1
<1>4. ASSUME NEW i \in 1 .. Len(items), Shows(items[i], {"ScanComplete"}) PROVE i = n + 1
    <2>1. CASE i <= n
        <3>1. items[i] = Emit(DeviceFound(last_scan'[i]))
            BY <1>1, <1>7, <2>1 DEF n
        <3> QED
            BY <1>4, <3>1, EmitKind DEF Shows, DeviceFound
    <2>2. CASE i > n + 1
        BY <1>1, <1>7, <1>4, <2>2 DEF Inert, Shows, n
    <2> QED
        BY <1>1, <1>7, <2>1, <2>2
<1>5. ASSUME NEW p \in DOMAIN Coming', Shows(Coming'[p], {"ScanComplete"}), Newest(Coming', p)
      PROVE  RowsEndAt(p, p - n, Coming', last_scan', ui')
    <2>1. p = k + (n + 1) /\ p - n = k + 1
        <3>1. p > k /\ p - k = n + 1
            BY <1>2, <1>3, <1>4, <1>5
        <3>2. p \in Int /\ k \in Int /\ n \in Int
            BY <1>1, <1>7
        <3>3. \A x, y, z \in Int : x - y = z + 1 => x = y + (z + 1) /\ x - z = y + 1
            OBVIOUS
        <3> QED
            BY <3>1, <3>2, <3>3
    <2>2. ASSUME NEW j \in k + 1 .. p - 1
          PROVE  Coming'[j] = Emit(DeviceFound(last_scan'[j - (k + 1) + 1]))
        <3>1. j - k \in 1 .. n /\ j - (k + 1) + 1 = j - k /\ j \in DOMAIN Coming' /\ j > k
            BY <1>1, <1>7, <2>1
        <3>2. Coming'[j] = items[j - k]
            BY <1>3, <3>1
        <3> QED
            BY <3>1, <3>2 DEF n
    <2>3. k + 1 > 1 => Shows(Coming'[k], {"ScanStarted"})
        BY <1>1
    <2>4. k + 1 <= 1 => k = 0 /\ Len(ui'.devices) = 0
        BY <1>1
    <2>5. k + 1 - 1 = k /\ 1 - (k + 1) = 0 - k
        BY <1>1
    <2>6. RowsEndAt(p, k + 1, Coming', last_scan', ui')
        BY <1>1, <2>2, <2>3, <2>4, <2>5 DEF RowsEndAt
    <2> QED
        BY <2>1, <2>6
<1>6. ASSUME NEW j \in DOMAIN Coming', Shows(Coming'[j], {"DeviceFound"}), Newest(Coming', j)
      PROVE  \E p \in DOMAIN Coming' : p > j /\ Shows(Coming'[p], {"ScanComplete"})
    <2>1. j > k /\ j - k \in 1 .. Len(items) /\ Coming'[j] = items[j - k]
        BY <1>2, <1>3, <1>6
    <2>2. items[n + 1] = Emit(ScanComplete)
        BY DEF n
    <2>3. j - k <= n
        <3>1. CASE j - k = n + 1
            BY <1>6, <2>1, <2>2, <3>1, EmitKind DEF Shows, ScanComplete
        <3>2. CASE j - k > n + 1
            BY <1>1, <1>7, <1>6, <2>1, <3>2 DEF Inert, Shows, n
        <3> QED
            BY <1>1, <1>7, <2>1, <3>1, <3>2
    <2>4. k + (n + 1) \in DOMAIN Coming' /\ k + (n + 1) > j /\ n + 1 \in 1 .. Len(items)
        BY <1>1, <1>7, <2>1, <2>3
    <2>5. Coming'[k + (n + 1)] = Emit(ScanComplete)
        BY <1>1, <1>7, <2>2, <2>4
    <2> QED
        BY <2>4, <2>5, EmitKind DEF Shows, ScanComplete
<1> QED
    BY <1>1, <1>5, <1>6 DEF RowsInv, n

LEMMA RowsFailed ==
    ASSUME TypeOK, TypeOK', NEW k, NEW items \in Seq(WorkItem), EndsIn(k, items),
           k > 0 => Shows(Coming[k], {"ScanStarted"}), last_scan' = <<>>,
           \A i \in 1 .. Len(items) : ~Shows(items[i], {"DeviceFound", "ScanComplete"})
    PROVE  RowsInv'
<1>1. /\ DOMAIN Coming = 1 .. Count /\ Count \in Nat /\ Len(items) \in Nat
      /\ DOMAIN Coming' = 1 .. k + Len(items) /\ k \in 0 .. Count
      /\ \A i \in 1 .. k : Coming'[i] = Coming[i]
      /\ \A i \in 1 .. Len(items) : Coming'[k + i] = items[i]
    BY ComingItems, NextItems DEF EndsIn
<1>2. ASSUME NEW i \in DOMAIN Coming', Newest(Coming', i) PROVE i > k
    <2> SUFFICES ASSUME i <= k PROVE FALSE
        BY <1>1
    <2>1. k \in DOMAIN Coming' /\ k >= i /\ Coming'[k] = Coming[k] /\ k > 0
        BY <1>1
    <2> QED
        BY <1>2, <2>1 DEF Newest
<1>3. ASSUME NEW i \in DOMAIN Coming', Newest(Coming', i)
      PROVE  ~Shows(Coming'[i], {"DeviceFound", "ScanComplete"})
    <2>1. i - k \in 1 .. Len(items) /\ i = k + (i - k)
        BY <1>1, <1>2, <1>3
    <2>2. Coming'[i] = items[i - k]
        BY <1>1, <2>1
    <2> QED
        BY <2>1, <2>2
<1>4. Len(last_scan') <= BLE_MAX_DISCOVERED
    BY CapacityAssumption
<1> QED
    BY <1>3, <1>4 DEF RowsInv, Shows

----------------------------------------------------------------------------
(* The list on the screen.                                                 *)

LEMMA ListFrame ==
    ASSUME ListInv, Coming' = Coming, last_scan' = last_scan,
           ui'.screen = "DeviceList" =>
               /\ ui.screen = "DeviceList" /\ ListKept
               /\ ui'.selected < ui.device_count \/ ui'.selected <= ui.selected,
           UiTypeOK, UiTypeOK', TypeOK
    PROVE  ListInv'
<1> SUFFICES ASSUME ui'.screen = "DeviceList",
                    \A i \in DOMAIN Coming :
                        ~Shows(Coming[i], {"ScanStarted", "ScanComplete"})
             PROVE  /\ ui'.devices = last_scan /\ ui'.device_count = Len(last_scan)
                    /\ ui'.selected < Len(last_scan)
    BY DEF ListInv
<1>1. /\ ui.devices = last_scan /\ ui.device_count = Len(last_scan)
      /\ ui.selected < Len(last_scan)
    BY DEF ListInv
<1>2. /\ ui.selected \in Int /\ ui'.selected \in Int /\ Len(last_scan) \in Int
    BY DEF UiTypeOK, Ui, TypeOK
<1> QED
    BY <1>1, <1>2 DEF ListKept

LEMMA ListDrop ==
    ASSUME TypeOK, TypeOK', ListInv, last_scan' = last_scan, ui' = ui,
           NEW q, ShrinksAt(q), Inert(Coming[q])
    PROVE  ListInv'
<1>1. /\ DOMAIN Coming = 1 .. Count /\ Count \in Nat
      /\ DOMAIN Coming' = 1 .. Count - 1 /\ q \in 1 .. Count
    BY ComingItems, NextItems DEF ShrinksAt
<1>2. ASSUME NEW i \in DOMAIN Coming, Shows(Coming[i], {"ScanStarted", "ScanComplete"})
      PROVE  \E j \in DOMAIN Coming' : Coming'[j] = Coming[i]
    <2>1. i # q
        BY <1>2 DEF Inert, Shows
    <2>2. CASE i < q
        BY <1>1, <2>2 DEF ShrinksAt
    <2>3. CASE i > q
        <3>1. i - 1 \in q .. Count - 1 /\ i - 1 + 1 = i
            BY <1>1, <2>3
        <3> QED
            BY <1>1, <3>1 DEF ShrinksAt
    <2> QED
        BY <1>1, <2>1, <2>2, <2>3
<1> QED
    BY <1>2 DEF ListInv

\* The end of a scan is handled when all its rows are there.
LEMMA ListTaken ==
    ASSUME TypeOK, TypeOK', UiTypeOK, UiTypeOK', RowsInv, ListInv, last_scan' = last_scan,
           ShrinksAt(1), NEW e \in BleEvent, Coming[1] = Emit(e), Informed(ui', e)
    PROVE  ListInv'
<1>1. /\ DOMAIN Coming = 1 .. Count /\ Count \in Nat \ {0}
      /\ DOMAIN Coming' = 1 .. Count - 1
    BY ComingItems, NextItems DEF ShrinksAt
<1>2. ASSUME NEW i \in DOMAIN Coming, i # 1
      PROVE  i - 1 \in DOMAIN Coming' /\ Coming'[i - 1] = Coming[i]
    <2>1. i - 1 \in 1 .. Count - 1 /\ i - 1 + 1 = i
        BY <1>1, <1>2
    <2> QED
        BY <1>1, <2>1 DEF ShrinksAt
<1> SUFFICES ASSUME ui'.screen = "DeviceList",
                    \A i \in DOMAIN Coming' :
                        ~Shows(Coming'[i], {"ScanStarted", "ScanComplete"})
             PROVE  /\ ui'.devices = last_scan /\ ui'.device_count = Len(last_scan)
                    /\ ui'.selected < Len(last_scan)
    BY DEF ListInv
<1>3. \A i \in DOMAIN Coming : i # 1 =>
         ~Shows(Coming[i], {"ScanStarted", "ScanComplete"})
    BY <1>2
<1>4. CASE e.kind = "ScanComplete"
    <2>1. Shows(Coming[1], {"ScanComplete"}) /\ 1 \in DOMAIN Coming
        BY <1>1, <1>4, EmitKind DEF Shows
    <2>2. Newest(Coming, 1)
        BY <1>3, <2>1 DEF Newest, Shows
    <2>3. RowsEndAt(1, 1 - Len(last_scan), Coming, last_scan, ui)
        BY <2>1, <2>2 DEF RowsInv
    <2>4. Len(last_scan) \in Nat /\ last_scan \in Seq(Address)
        BY DEF TypeOK
    <2>5. /\ Len(ui.devices) = Len(last_scan) /\ ui.device_count = Len(last_scan)
          /\ \A i \in 1 .. Len(last_scan) : ui.devices[i] = last_scan[i]
        <3>1. 1 - Len(last_scan) <= 1 /\ 1 - (1 - Len(last_scan)) = Len(last_scan)
            BY <2>4
        <3> QED
            BY <2>3, <3>1 DEF RowsEndAt
    <2>6. ui.devices \in Seq(Address)
        BY DEF UiTypeOK, Ui
    <2>7. ui.devices = last_scan
        BY <2>4, <2>5, <2>6
    <2>8. /\ ui.device_count > 0 /\ KeepsList(ui')
          /\ ui'.selected < ui.device_count
        BY <1>4 DEF Informed
    <2> QED
        BY <2>5, <2>7, <2>8 DEF KeepsList
<1>5. CASE e.kind = "DeviceFound"
    <2>1. ui.screen = "DeviceList"
        BY <1>5 DEF Informed
    <2>2. ~Shows(Coming[1], {"ScanStarted", "ScanComplete"})
        BY <1>5, EmitKind DEF Shows
    <2>3. Shows(Coming[1], {"DeviceFound"}) /\ Newest(Coming, 1)
        BY <1>3, <1>5, <2>2, EmitKind DEF Shows, Newest
    <2>4. PICK p \in DOMAIN Coming : p > 1 /\ Shows(Coming[p], {"ScanComplete"})
        BY <1>1, <2>3 DEF RowsInv
    <2> QED
        BY <1>1, <1>3, <2>4 DEF Shows
<1>6. CASE e.kind \notin {"ScanComplete", "DeviceFound"}
    BY <1>6, BleEventFields DEF Informed
<1> QED
    BY <1>4, <1>5, <1>6

LEMMA ListSwap ==
    ASSUME TypeOK, TypeOK', ListInv, last_scan' = last_scan, ui' = ui, NEW q, SwapsAt(q)
    PROVE  ListInv'
<1>1. DOMAIN Coming = 1 .. Count /\ DOMAIN Coming' = 1 .. Count
    BY ComingItems, NextItems DEF SwapsAt
<1>2. \A i \in 1 .. Count : \A kinds : Shows(Coming[i], kinds) => Shows(Coming'[i], kinds)
    BY DEF SwapsAt, Shows, Inert
<1> QED
    BY <1>1, <1>2 DEF ListInv

LEMMA ListEnd ==
    ASSUME TypeOK, TypeOK', ListInv, ui' = ui,
           NEW k, NEW items \in Seq(WorkItem), EndsIn(k, items),
           \/ /\ last_scan' = last_scan /\ \A i \in k + 1 .. Count : Inert(Coming[i])
           \/ k > 0 /\ Shows(Coming[k], {"ScanStarted"})
           \/ ui.screen # "DeviceList"
    PROVE  ListInv'
<1>1. /\ DOMAIN Coming = 1 .. Count /\ Count \in Nat /\ Len(items) \in Nat
      /\ DOMAIN Coming' = 1 .. k + Len(items) /\ k \in 0 .. Count
      /\ \A i \in 1 .. k : Coming'[i] = Coming[i]
    BY ComingItems, NextItems DEF EndsIn
<1>2. CASE last_scan' = last_scan /\ \A i \in k + 1 .. Count : Inert(Coming[i])
    <2>1. ASSUME NEW i \in DOMAIN Coming, Shows(Coming[i], {"ScanStarted", "ScanComplete"})
          PROVE  i \in DOMAIN Coming' /\ Coming'[i] = Coming[i]
        <3>1. i <= k
            BY <1>1, <1>2, <2>1 DEF Inert, Shows
        <3> QED
            BY <1>1, <3>1
    <2> QED
        BY <1>2, <2>1 DEF ListInv
<1>3. CASE k > 0 /\ Shows(Coming[k], {"ScanStarted"})
    <2>1. k \in DOMAIN Coming' /\ Shows(Coming'[k], {"ScanStarted", "ScanComplete"})
        BY <1>1, <1>3 DEF Shows
    <2> QED
        BY <2>1 DEF ListInv
<1>4. CASE ui.screen # "DeviceList"
    BY <1>4 DEF ListInv
<1> QED
    BY <1>2, <1>3, <1>4

----------------------------------------------------------------------------
(* The scan in the coordinator's handler, and the end of the wait for it.  *)

LEMMA ScanFrame ==
    ASSUME ScanInv, Coming' = Coming, ui.screen = "Scanning" => ui'.screen = "Scanning" /\ ListKept
    PROVE  ScanInv'
BY DEF ScanInv, ListKept

LEMMA ScanDrop ==
    ASSUME TypeOK, TypeOK', ScanInv, ui' = ui, NEW q, ShrinksAt(q), Inert(Coming[q])
    PROVE  ScanInv'
<1>1. /\ DOMAIN Coming = 1 .. Count /\ Count \in Nat
      /\ DOMAIN Coming' = 1 .. Count - 1 /\ q \in 1 .. Count
    BY ComingItems, NextItems DEF ShrinksAt
<1> SUFFICES ASSUME NEW p \in DOMAIN Coming', Coming'[p].kind \in {"Boot", "Scan"}
             PROVE  /\ \A j \in DOMAIN Coming' : j <= p
                    /\ Coming'[p].kind = "Scan" =>
                          IF p > 1 THEN Shows(Coming'[p - 1], {"ScanStarted"})
                          ELSE /\ ui'.screen = "Scanning" /\ ui'.devices = <<>>
                               /\ ui'.device_count = 0
    BY DEF ScanInv
<1>2. CASE p < q
    <2>1. Coming[p] = Coming'[p] /\ p \in DOMAIN Coming
        BY <1>1, <1>2 DEF ShrinksAt
    <2>2. q <= p
        BY <1>1, <2>1 DEF ScanInv
    <2> QED
        BY <1>1, <1>2, <2>2
<1>3. CASE p >= q
    <2>1. Coming[p + 1] = Coming'[p] /\ p + 1 \in DOMAIN Coming
        BY <1>1, <1>3 DEF ShrinksAt
    <2>2. \A j \in DOMAIN Coming : j <= p + 1
        BY <2>1 DEF ScanInv
    <2>3. \A j \in DOMAIN Coming' : j <= p
        <3>1. Count <= p + 1
            BY <1>1, <2>2
        <3> QED
            BY <1>1, <3>1
    <2>4. ASSUME Coming'[p].kind = "Scan"
          PROVE  p > 1 /\ Shows(Coming'[p - 1], {"ScanStarted"})
        <3>1. Shows(Coming[p], {"ScanStarted"})
            <4> DEFINE k == p + 1
            <4>1. k \in DOMAIN Coming /\ Coming[k].kind = "Scan" /\ k > 1 /\ k - 1 = p
                BY <1>1, <2>1, <2>4
            <4> HIDE DEF k
            <4>2. Shows(Coming[k - 1], {"ScanStarted"})
                BY <4>1 DEF ScanInv
            <4> QED
                BY <4>1, <4>2
        <3>2. p # q
            BY <3>1 DEF Shows, Inert
        <3>3. p - 1 \in q .. Count - 1 /\ p - 1 + 1 = p
            BY <1>1, <1>3, <3>2
        <3>4. Coming'[p - 1] = Coming[p]
            BY <3>3 DEF ShrinksAt
        <3> QED
            BY <1>1, <1>3, <3>1, <3>2, <3>4
    <2> QED
        BY <2>3, <2>4
<1> QED
    BY <1>1, <1>2, <1>3

LEMMA ScanTaken ==
    ASSUME TypeOK, TypeOK', ScanInv,
           ShrinksAt(1), NEW e, Coming[1] = Emit(e), Informed(ui', e)
    PROVE  ScanInv'
<1>1. /\ DOMAIN Coming = 1 .. Count /\ Count \in Nat \ {0}
      /\ DOMAIN Coming' = 1 .. Count - 1
    BY ComingItems, NextItems DEF ShrinksAt
<1> SUFFICES ASSUME NEW p \in DOMAIN Coming', Coming'[p].kind \in {"Boot", "Scan"}
             PROVE  /\ \A j \in DOMAIN Coming' : j <= p
                    /\ Coming'[p].kind = "Scan" =>
                          IF p > 1 THEN Shows(Coming'[p - 1], {"ScanStarted"})
                          ELSE /\ ui'.screen = "Scanning" /\ ui'.devices = <<>>
                               /\ ui'.device_count = 0
    BY DEF ScanInv
<1>2. Coming[p + 1] = Coming'[p] /\ p + 1 \in DOMAIN Coming
    BY <1>1 DEF ShrinksAt
<1>3. \A j \in DOMAIN Coming : j <= p + 1
    BY <1>2 DEF ScanInv
<1>4. \A j \in DOMAIN Coming' : j <= p
    <2>1. Count <= p + 1
        BY <1>1, <1>3
    <2> QED
        BY <1>1, <2>1
<1>5. ASSUME Coming'[p].kind = "Scan" PROVE Shows(Coming[p], {"ScanStarted"})
    <2> DEFINE k == p + 1
    <2>1. k \in DOMAIN Coming /\ Coming[k].kind = "Scan" /\ k > 1 /\ k - 1 = p
        BY <1>1, <1>2, <1>5
    <2> HIDE DEF k
    <2>2. Shows(Coming[k - 1], {"ScanStarted"})
        BY <2>1 DEF ScanInv
    <2> QED
        BY <2>1, <2>2
<1>6. CASE p > 1
    <2>1. p - 1 \in 1 .. Count - 1 /\ p - 1 + 1 = p
        BY <1>1, <1>6
    <2>2. Coming'[p - 1] = Coming[p]
        BY <2>1 DEF ShrinksAt
    <2> QED
        BY <1>4, <1>5, <1>6, <2>2
<1>7. CASE p = 1
    <2>1. ASSUME Coming'[p].kind = "Scan"
          PROVE  ui'.screen = "Scanning" /\ ui'.devices = <<>> /\ ui'.device_count = 0
        <3>1. e.kind = "ScanStarted"
            BY <1>5, <1>7, <2>1, EmitKind DEF Shows
        <3> QED
            BY <3>1 DEF Informed
    <2> QED
        BY <1>4, <1>7, <2>1
<1> QED
    BY <1>1, <1>6, <1>7

LEMMA ScanSwap ==
    ASSUME TypeOK, TypeOK', ScanInv, ui' = ui, NEW q, SwapsAt(q)
    PROVE  ScanInv'
<1>1. DOMAIN Coming = 1 .. Count /\ DOMAIN Coming' = 1 .. Count
    BY ComingItems, NextItems DEF SwapsAt
<1>2. \A i \in 1 .. Count : \A kinds : Shows(Coming[i], kinds) => Shows(Coming'[i], kinds)
    BY DEF SwapsAt, Shows, Inert
<1>3. ASSUME NEW i \in 1 .. Count, Coming'[i].kind \in {"Boot", "Scan"}
      PROVE  Coming'[i] = Coming[i]
    BY <1>3 DEF SwapsAt, Inert
<1>4. \A p \in 1 .. Count : p > 1 => p - 1 \in 1 .. Count
    BY ComingItems
<1> QED
    BY <1>1, <1>2, <1>3, <1>4 DEF ScanInv

\* A scan ends its handler, and follows its announcement.
ScanIsLast(items) ==
    \A i \in 1 .. Len(items) :
        /\ items[i].kind # "Boot"
        /\ items[i].kind = "Scan" =>
              i = Len(items) /\ i > 1 /\ Shows(items[i - 1], {"ScanStarted"})

LEMMA ScanEnd ==
    ASSUME TypeOK, TypeOK', NEW k, NEW items \in Seq(WorkItem), EndsIn(k, items),
           ScanIsLast(items)
    PROVE  ScanInv'
<1>1. /\ DOMAIN Coming = 1 .. Count /\ Count \in Nat /\ Len(items) \in Nat
      /\ DOMAIN Coming' = 1 .. k + Len(items) /\ k \in 0 .. Count
    BY ComingItems, NextItems DEF EndsIn
<1> SUFFICES ASSUME NEW p \in DOMAIN Coming', Coming'[p].kind \in {"Boot", "Scan"}
             PROVE  /\ \A j \in DOMAIN Coming' : j <= p
                    /\ p > 1 /\ Shows(Coming'[p - 1], {"ScanStarted"})
    BY DEF ScanInv
<1>2. p > k
    <2>1. CASE p <= k
        BY <1>1, <2>1 DEF EndsIn
    <2> QED
        BY <1>1, <2>1
<1> DEFINE i == p - k
<1>3. i \in 1 .. Len(items) /\ p = k + i
    BY <1>1, <1>2
<1> HIDE DEF i
<1>4. Coming'[p] = items[i]
    BY <1>3 DEF EndsIn
<1>5. i = Len(items) /\ i > 1 /\ Shows(items[i - 1], {"ScanStarted"})
    BY <1>3, <1>4 DEF ScanIsLast
<1>6. i - 1 \in 1 .. Len(items) /\ p - 1 = k + (i - 1)
    BY <1>1, <1>3, <1>5
<1>7. Coming'[p - 1] = items[i - 1]
    BY <1>6 DEF EndsIn
<1> QED
    BY <1>1, <1>3, <1>5, <1>7

LEMMA StartsDrop ==
    ASSUME TypeOK, TypeOK', StartsInv, NEW q, ShrinksAt(q), q = 1 \/ Inert(Coming[q])
    PROVE  StartsInv'
<1>1. /\ DOMAIN Coming = 1 .. Count /\ Count \in Nat
      /\ DOMAIN Coming' = 1 .. Count - 1 /\ q \in 1 .. Count
    BY ComingItems, NextItems DEF ShrinksAt
<1> SUFFICES ASSUME NEW i \in DOMAIN Coming', Shows(Coming'[i], {"ScanStarted"})
             PROVE  \E j \in DOMAIN Coming' : j > i /\ Resolves(Coming'[j])
    BY DEF StartsInv
<1> DEFINE k == IF i < q THEN i ELSE i + 1
<1>2. k \in DOMAIN Coming /\ Coming'[i] = Coming[k]
    BY <1>1 DEF ShrinksAt
<1>3. PICK j \in DOMAIN Coming : j > k /\ Resolves(Coming[j])
    BY <1>2 DEF StartsInv
<1>4. j # q
    <2>1. CASE q = 1
        BY <1>1, <1>3, <2>1
    <2>2. CASE Inert(Coming[q])
        BY <1>3, <2>2 DEF Inert, Resolves, Shows
    <2> QED
        BY <2>1, <2>2
<1>5. CASE j < q
    BY <1>1, <1>3, <1>5 DEF ShrinksAt
<1>6. CASE j > q
    <2>1. j - 1 \in q .. Count - 1 /\ j - 1 + 1 = j /\ j - 1 > i
        BY <1>1, <1>3, <1>6
    <2>2. Coming'[j - 1] = Coming[j]
        BY <2>1 DEF ShrinksAt
    <2> QED
        BY <1>1, <1>3, <2>1, <2>2
<1> QED
    BY <1>1, <1>4, <1>5, <1>6

LEMMA StartsSwap ==
    ASSUME TypeOK, TypeOK', StartsInv, NEW q, SwapsAt(q)
    PROVE  StartsInv'
<1>1. DOMAIN Coming = 1 .. Count /\ DOMAIN Coming' = 1 .. Count
    BY ComingItems, NextItems DEF SwapsAt
<1>2. \A i \in 1 .. Count : \A kinds : Shows(Coming[i], kinds) <=> Shows(Coming'[i], kinds)
    BY DEF SwapsAt, Shows, Inert
<1>3. \A i \in 1 .. Count : Resolves(Coming[i]) => Resolves(Coming'[i])
    BY DEF SwapsAt, Shows, Inert, Resolves
<1> QED
    BY <1>1, <1>2, <1>3 DEF StartsInv

LEMMA StartsEnd ==
    ASSUME TypeOK, TypeOK', StartsInv, NEW k, NEW items \in Seq(WorkItem), EndsIn(k, items),
           (\A i \in k + 1 .. Count : Inert(Coming[i]))
               \/ \E j \in 1 .. Len(items) : Resolves(items[j]),
           \A i \in 1 .. Len(items) : Shows(items[i], {"ScanStarted"}) =>
               \E j \in 1 .. Len(items) : j > i /\ Resolves(items[j])
    PROVE  StartsInv'
<1>1. /\ DOMAIN Coming = 1 .. Count /\ Count \in Nat /\ Len(items) \in Nat
      /\ DOMAIN Coming' = 1 .. k + Len(items) /\ k \in 0 .. Count
      /\ \A i \in 1 .. k : Coming'[i] = Coming[i]
      /\ \A i \in 1 .. Len(items) : Coming'[k + i] = items[i]
    BY ComingItems, NextItems DEF EndsIn
<1> SUFFICES ASSUME NEW i \in DOMAIN Coming', Shows(Coming'[i], {"ScanStarted"})
             PROVE  \E j \in DOMAIN Coming' : j > i /\ Resolves(Coming'[j])
    BY DEF StartsInv
<1>2. CASE i <= k
    <2>1. PICK j \in DOMAIN Coming : j > i /\ Resolves(Coming[j])
        BY <1>1, <1>2 DEF StartsInv
    <2>2. CASE j <= k
        BY <1>1, <2>1, <2>2
    <2>3. CASE j > k
        <3>1. ~Inert(Coming[j])
            BY <2>1 DEF Inert, Resolves, Shows
        <3>2. PICK l \in 1 .. Len(items) : Resolves(items[l])
            BY <1>1, <2>3, <3>1
        <3>3. k + l \in DOMAIN Coming' /\ k + l > i
            BY <1>1, <1>2, <3>2
        <3> QED
            BY <1>1, <3>2, <3>3
    <2> QED
        BY <1>1, <2>2, <2>3
<1>3. CASE i > k
    <2> DEFINE l == i - k
    <2>1. l \in 1 .. Len(items) /\ i = k + l
        BY <1>1, <1>3
    <2> HIDE DEF l
    <2>2. Coming'[i] = items[l]
        BY <1>1, <2>1
    <2>3. PICK j \in 1 .. Len(items) : j > l /\ Resolves(items[j])
        BY <2>1, <2>2
    <2>4. k + j \in DOMAIN Coming' /\ k + j > i
        BY <1>1, <2>1, <2>3
    <2> QED
        BY <1>1, <2>3, <2>4
<1> QED
    BY <1>1, <1>2, <1>3

----------------------------------------------------------------------------
(* The steps of the UI loop.                                               *)

Holds == IInv /\ BridgeInv

LEMMA ManagerFrame == UNCHANGED manager => LinkName' = LinkName
BY DEF LinkName

LEMMA TakesButtonKeeps ==
    ASSUME Holds, TypeOK', NEW btn \in ButtonEvent, UiTakesButton(btn)
    PROVE  BridgeInv'
<1>1. /\ UNCHANGED <<manager, last_scan, todo, cmdQ, evQ, slotQ, slotEvQ, worker>>
      /\ ui.command = NoCommand /\ ui' # ui /\ ui' = on_button(ui, btn)
    BY DEF UiTakesButton, UiLoops, vars
<1>2. /\ TypeOK /\ UiTypeOK /\ StatusInv /\ ScreenInv /\ RowsInv /\ ListInv /\ ScanInv
      /\ StartsInv /\ WaitInv
    BY DEF Holds, IInv, BridgeInv
<1>3. ui' \in Ui /\ Len(ui'.devices) <= MaxRows /\ Pressed(ui', btn)
    BY <1>1, <1>2, ButtonEffect
<1>4. Coming' = Coming
    BY <1>1 DEF Coming
<1>5. ui'.connected_name = ui.connected_name
    BY <1>1, <1>3 DEF Pressed, SetsScreen
<1>6. ui.screen # "Scanning"
    BY <1>1, <1>3 DEF Pressed
<1>7. UiTypeOK'
    BY <1>3 DEF UiTypeOK
<1>8. StatusInv'
    BY <1>1, <1>2, <1>4, <1>5, ManagerFrame, StatusFrame
<1>9. RowsInv' /\ ScanInv'
    BY <1>1, <1>2, <1>4, <1>6, RowsFrame, ScanFrame DEF RowsKept
<1>10. ListInv'
    <2>1. ui'.screen = "DeviceList" =>
             /\ ui.screen = "DeviceList" /\ ListKept
             /\ ui'.selected < ui.device_count \/ ui'.selected <= ui.selected
        BY <1>1, <1>3 DEF Pressed, SetsScreen, KeepsList, ListKept
    <2> QED
        BY <1>1, <1>2, <1>4, <1>7, <2>1, ListFrame
<1>11. StartsInv'
    BY <1>2, <1>4 DEF StartsInv
<1>12. ScreenInv'
    <2>1. ui'.screen # "Connected"
        BY <1>1, <1>3 DEF Pressed, SetsScreen
    <2>2. ui'.screen = "Home" => ui'.command = Disconnect
        BY <1>1, <1>3 DEF Pressed, SetsScreen
    <2> QED
        BY <2>1, <2>2 DEF ScreenInv
<1>13. WaitInv'
    <2> SUFFICES ASSUME ui'.screen = "Scanning", \A i \in DOMAIN Coming : ~Resolves(Coming[i]),
                        ui'.command # StartScan
                 PROVE  LastCommandNamesPicked'
        BY <1>4 DEF WaitInv
    <2>1. /\ ui.screen = "DeviceList" /\ btn = "Select"
          /\ ui'.command = Connect(ui.selected)
        BY <1>1, <1>3 DEF Pressed, SetsScreen
    <2>2. \A i \in DOMAIN Coming : ~Shows(Coming[i], {"ScanStarted", "ScanComplete"})
        BY <1>2 DEF StartsInv, Resolves, Shows
    <2>3. ui.devices = last_scan /\ ui.selected < Len(last_scan)
        BY <1>2, <2>1, <2>2 DEF ListInv
    <2>4. ui.selected + 1 \in DOMAIN last_scan
        BY <1>2, <2>3 DEF UiTypeOK, Ui, TypeOK
    <2>5. picked' = last_scan[ui.selected + 1]
        BY <2>1, <2>3, <2>4 DEF UiTakesButton
    <2>6. Connect(ui.selected) \in BleCommand
        BY <1>2, CommandTypes DEF UiTypeOK, Ui, Connect
    <2>7. ui'.command # NoCommand
        BY <2>1, <2>6, MarkersAssumption
    <2>8. NamesPicked(ui.command)'
        BY <1>1, <2>1, <2>4, <2>5 DEF NamesPicked, Connect
    <2> QED
        BY <2>7, <2>8 DEF LastCommandNamesPicked
<1> QED
    BY <1>7, <1>8, <1>9, <1>10, <1>11, <1>12, <1>13 DEF BridgeInv

LEMMA SendsCommandKeeps ==
    ASSUME Holds, TypeOK', UiSendsCommand
    PROVE  BridgeInv'
<1>1. /\ UNCHANGED <<manager, last_scan, todo, evQ, slotQ, slotEvQ, worker, picked>>
      /\ ui.command # NoCommand /\ cmdQ' = Append(cmdQ, ui.command)
      /\ ui' = [ui EXCEPT !.command = NoCommand]
    BY DEF UiSendsCommand, UiLoops, UiSends, coVars
<1>2. /\ TypeOK /\ UiTypeOK /\ StatusInv /\ ScreenInv /\ RowsInv /\ ListInv /\ ScanInv
      /\ StartsInv /\ WaitInv
    BY DEF Holds, IInv, BridgeInv
<1>3. /\ ui' \in Ui /\ ui'.screen = ui.screen /\ ui'.devices = ui.devices
      /\ ui'.device_count = ui.device_count /\ ui'.selected = ui.selected
      /\ ui'.connected_name = ui.connected_name /\ ui'.command = NoCommand
    BY <1>1, <1>2 DEF UiTypeOK, Ui
<1>4. Coming' = Coming
    BY <1>1 DEF Coming
<1>5. /\ cmdQ \in Seq(BleCommand) /\ ui.command \in BleCommand
    BY <1>1, <1>2 DEF TypeOK, UiTypeOK, Ui
<1>6. /\ Len(cmdQ') = Len(cmdQ) + 1 /\ cmdQ' # <<>> /\ Len(cmdQ) \in Nat
      /\ DOMAIN cmdQ' = 1 .. Len(cmdQ) + 1 /\ DOMAIN cmdQ = 1 .. Len(cmdQ)
      /\ cmdQ'[Len(cmdQ) + 1] = ui.command
      /\ \A i \in DOMAIN cmdQ : cmdQ'[i] = cmdQ[i]
    BY <1>1, <1>5
<1>7. UiTypeOK'
    BY <1>2, <1>3 DEF UiTypeOK
<1>8. StatusInv'
    BY <1>1, <1>2, <1>3, <1>4, ManagerFrame, StatusFrame
<1>9. RowsInv' /\ ScanInv'
    BY <1>1, <1>2, <1>3, <1>4, RowsFrame, ScanFrame DEF RowsKept, ListKept
<1>10. ListInv'
    <2>1. ui'.selected <= ui.selected
        BY <1>2, <1>3 DEF UiTypeOK, Ui
    <2> QED
        BY <1>1, <1>2, <1>3, <1>4, <1>7, <2>1, ListFrame DEF ListKept
<1>11. StartsInv'
    BY <1>2, <1>4 DEF StartsInv
<1>a. ASSUME NEW c, ui.command = c \/ \E i \in DOMAIN cmdQ : cmdQ[i] = c
      PROVE  \E i \in DOMAIN cmdQ' : cmdQ'[i] = c
    <2>1. CASE ui.command = c
        BY <1>6, <2>1
    <2>2. CASE \E i \in DOMAIN cmdQ : cmdQ[i] = c
        BY <1>6, <2>2
    <2> QED
        BY <1>a, <2>1, <2>2
<1>12. ScreenInv'
    <2>1. \A s \in Slots : TakenDown(s) => TakenDown(s)'
        BY <1>1 DEF TakenDown, At
    <2>2. \A s \in ConnectedSlots(manager) : s \in Slots
        BY DEF ConnectedSlots
    <2> SUFFICES ASSUME ui'.screen = "Home", ui'.connected_name # NoName
                 PROVE  \/ \E i \in DOMAIN Coming : Shows(Coming[i], {"Connected"})
                        \/ \E i \in DOMAIN cmdQ' : cmdQ'[i] = Disconnect
                        \/ \A s \in ConnectedSlots(manager) : TakenDown(s)
        BY <1>1, <1>2, <1>3, <1>4, <2>1, <2>2 DEF ScreenInv
    <2> QED
        BY <1>2, <1>3, <1>a DEF ScreenInv
<1>13. WaitInv'
    <2>1. LastCommandNamesPicked => LastCommandNamesPicked'
        BY <1>1, <1>3, <1>6 DEF LastCommandNamesPicked, NamesPicked
    <2> SUFFICES ASSUME ui'.screen = "Scanning"
                 PROVE  \/ \E i \in DOMAIN Coming : Resolves(Coming[i])
                        \/ \E i \in DOMAIN cmdQ' : cmdQ'[i] = StartScan
                        \/ LastCommandNamesPicked
                        \/ \E s \in Slots : manager[s].phase = "connecting"
                        \/ \E s \in ConnectedSlots(manager) : manager[s].address = picked
        BY <1>1, <1>4, <2>1 DEF WaitInv
    <2> QED
        BY <1>2, <1>3, <1>a DEF WaitInv
<1> QED
    BY <1>7, <1>8, <1>9, <1>10, <1>11, <1>12, <1>13 DEF BridgeInv

LEMMA TakesEventKeeps ==
    ASSUME Holds, TypeOK', UiTakesEvent
    PROVE  BridgeInv'
<1> DEFINE e == Head(evQ)
<1>1. /\ UNCHANGED <<manager, last_scan, todo, cmdQ, slotQ, slotEvQ, worker, picked>>
      /\ ui.command = NoCommand /\ UiReceives /\ ui' = on_event(ui, e)
    BY DEF UiTakesEvent, UiLoops, UiReceives, coVars
<1>2. /\ TypeOK /\ UiTypeOK /\ StatusInv /\ ScreenInv /\ RowsInv /\ ListInv /\ ScanInv
      /\ StartsInv /\ WaitInv
    BY DEF Holds, IInv, BridgeInv
<1>3. ShrinksAt(1) /\ Coming[1] = Emit(e) /\ e \in BleEvent
    BY <1>1, <1>2, TakingShrinks
<1> HIDE DEF e
<1>4. ui' \in Ui /\ Len(ui'.devices) <= MaxRows /\ Informed(ui', e)
    BY <1>1, <1>2, <1>3, EventEffect
<1>5. UiTypeOK'
    BY <1>4 DEF UiTypeOK
<1>6. /\ DOMAIN Coming = 1 .. Count /\ Count \in Nat \ {0}
      /\ DOMAIN Coming' = 1 .. Count - 1
    BY <1>2, <1>3, ComingItems, NextItems DEF ShrinksAt
<1>7. ASSUME NEW i \in DOMAIN Coming, i # 1
      PROVE  i - 1 \in DOMAIN Coming' /\ Coming'[i - 1] = Coming[i]
    <2>1. i - 1 \in 1 .. Count - 1 /\ i - 1 + 1 = i
        BY <1>6, <1>7
    <2> QED
        BY <1>3, <1>6, <2>1 DEF ShrinksAt
<1>8. StatusInv'
    <2>1. IF IsStatus(Coming[1]) THEN ui'.connected_name = NameIn(Coming[1].event)
          ELSE ui'.connected_name = ui.connected_name
        <3>1. Coming[1].kind = "Emit" /\ Coming[1].event = e
            BY <1>3, EmitKind
        <3> QED
            BY <1>3, <1>4, <3>1, BleEventFields DEF IsStatus, Shows, NameIn, Informed
    <2> QED
        BY <1>1, <1>2, <1>3, <2>1, ManagerFrame, StatusShrinks
<1>9. RowsInv' /\ ScanInv' /\ StartsInv'
    BY <1>1, <1>2, <1>3, <1>4, RowsTaken, ScanTaken, StartsDrop
<1>10. ListInv'
    BY <1>1, <1>2, <1>3, <1>4, <1>5, ListTaken
<1>11. e.kind = "DeviceFound" => \A i \in DOMAIN Coming : i = 1 =>
          ~Shows(Coming[i], {"Connected"}) /\ ~Resolves(Coming[i])
    BY <1>3, EmitKind DEF Shows, Resolves
<1>12. ScreenInv'
    <2>1. ui'.screen = "Connected" => ui'.connected_name # NoName
        BY <1>2, <1>3, <1>4, BleEventFields, MarkersAssumption DEF Informed, ScreenInv
    <2> SUFFICES ASSUME ui'.screen = "Home", ui'.connected_name # NoName
                 PROVE  \/ \E i \in DOMAIN Coming' : Shows(Coming'[i], {"Connected"})
                        \/ \E i \in DOMAIN cmdQ' : cmdQ'[i] = Disconnect
                        \/ \A s \in ConnectedSlots(manager') : TakenDown(s)'
        BY <2>1 DEF ScreenInv
    <2>2. /\ e.kind = "DeviceFound"
          /\ ui.screen = "Home" /\ ui.connected_name # NoName
        BY <1>3, <1>4, BleEventFields DEF Informed
    <2>3. CASE \E i \in DOMAIN Coming : Shows(Coming[i], {"Connected"})
        BY <1>7, <1>11, <2>2, <2>3
    <2>4. CASE \E i \in DOMAIN cmdQ : cmdQ[i] = Disconnect
        BY <1>1, <2>4
    <2>5. CASE \A s \in ConnectedSlots(manager) : TakenDown(s)
        BY <1>1, <2>5 DEF TakenDown, At
    <2>6. ui.command # Disconnect
        BY <1>1, CommandTypes, MarkersAssumption DEF Disconnect
    <2> QED
        BY <1>2, <2>2, <2>3, <2>4, <2>5, <2>6 DEF ScreenInv
<1>13. WaitInv'
    <2> SUFFICES ASSUME ui'.screen = "Scanning"
                 PROVE  \/ \E i \in DOMAIN Coming' : Resolves(Coming'[i])
                        \/ ui'.command = StartScan \/ \E i \in DOMAIN cmdQ' : cmdQ'[i] = StartScan
                        \/ LastCommandNamesPicked'
                        \/ \E s \in Slots : manager'[s].phase = "connecting"
                        \/ \E s \in ConnectedSlots(manager') : manager'[s].address = picked'
        BY DEF WaitInv
    <2>1. e.kind \in {"ScanStarted", "DeviceFound"}
        BY <1>3, <1>4, BleEventFields DEF Informed
    <2>2. CASE e.kind = "ScanStarted"
        <3>1. Shows(Coming[1], {"ScanStarted"}) /\ 1 \in DOMAIN Coming
            BY <1>3, <1>6, <2>2, EmitKind DEF Shows
        <3>2. PICK j \in DOMAIN Coming : j > 1 /\ Resolves(Coming[j])
            BY <1>2, <3>1 DEF StartsInv
        <3> QED
            BY <1>6, <1>7, <3>2
    <2>3. CASE e.kind = "DeviceFound"
        <3>1. ui.screen = "Scanning" /\ ui'.command = ui.command
            BY <1>4, <2>3 DEF Informed
        <3>2. (\E i \in DOMAIN Coming : Resolves(Coming[i])) =>
                 \E i \in DOMAIN Coming' : Resolves(Coming'[i])
            BY <1>7, <1>11, <2>3
        <3>3. LastCommandNamesPicked => LastCommandNamesPicked'
            BY <1>1, <3>1 DEF LastCommandNamesPicked, NamesPicked
        <3> QED
            BY <1>1, <1>2, <3>1, <3>2, <3>3 DEF WaitInv
    <2> QED
        BY <2>1, <2>2, <2>3
<1> QED
    BY <1>5, <1>8, <1>9, <1>10, <1>12, <1>13 DEF BridgeInv

----------------------------------------------------------------------------
(* The steps of the coordinator and the workers: the UI stands still.      *)

UiStill == UNCHANGED <<ui, picked>>

\* What is coming and matters stays, wherever it moves.
ItemsStay == \A i \in DOMAIN Coming : ~Inert(Coming[i]) =>
                 \E j \in DOMAIN Coming' : Coming'[j] = Coming[i]

LEMMA DropStays ==
    ASSUME TypeOK, TypeOK', NEW q, ShrinksAt(q), Inert(Coming[q])
    PROVE  ItemsStay
<1>1. /\ DOMAIN Coming = 1 .. Count /\ Count \in Nat
      /\ DOMAIN Coming' = 1 .. Count - 1 /\ q \in 1 .. Count
    BY ComingItems, NextItems DEF ShrinksAt
<1> SUFFICES ASSUME NEW i \in DOMAIN Coming, ~Inert(Coming[i])
             PROVE  \E j \in DOMAIN Coming' : Coming'[j] = Coming[i]
    BY DEF ItemsStay
<1>2. CASE i < q
    BY <1>1, <1>2 DEF ShrinksAt
<1>3. CASE i > q
    <2>1. i - 1 \in q .. Count - 1 /\ i - 1 + 1 = i
        BY <1>1, <1>3
    <2> QED
        BY <1>1, <2>1 DEF ShrinksAt
<1> QED
    BY <1>1, <1>2, <1>3

LEMMA SwapStays ==
    ASSUME TypeOK, TypeOK', NEW q, SwapsAt(q)
    PROVE  ItemsStay
BY ComingItems, NextItems DEF SwapsAt, ItemsStay

LEMMA EndStays ==
    ASSUME TypeOK, TypeOK', NEW k, NEW items \in Seq(WorkItem), EndsIn(k, items)
    PROVE  \A i \in DOMAIN Coming : i <= k => i \in DOMAIN Coming' /\ Coming'[i] = Coming[i]
<1>1. Len(items) \in Nat
    OBVIOUS
<1> QED
    BY <1>1, ComingItems, NextItems DEF EndsIn

LEMMA ScreenFrame ==
    ASSUME ScreenInv, UiStill, UNCHANGED cmdQ,
           \A i \in DOMAIN Coming : Coming[i].kind = "Emit" =>
               \E j \in DOMAIN Coming' : Coming'[j] = Coming[i],
           \A s \in ConnectedSlots(manager') :
               s \in ConnectedSlots(manager) /\ (TakenDown(s) => TakenDown(s)')
    PROVE  ScreenInv'
<1> SUFFICES ASSUME ui.screen = "Home", ui.connected_name # NoName
             PROVE  \/ \E i \in DOMAIN Coming' : Shows(Coming'[i], {"Connected"})
                    \/ ui.command = Disconnect \/ \E i \in DOMAIN cmdQ : cmdQ[i] = Disconnect
                    \/ \A s \in ConnectedSlots(manager') : TakenDown(s)'
    BY DEF ScreenInv, UiStill
<1>1. CASE \E i \in DOMAIN Coming : Shows(Coming[i], {"Connected"})
    BY <1>1 DEF Shows
<1>2. CASE \A s \in ConnectedSlots(manager) : TakenDown(s)
    BY <1>2
<1> QED
    BY <1>1, <1>2 DEF ScreenInv

LEMMA WaitFrame ==
    ASSUME WaitInv, UiStill, UNCHANGED <<cmdQ, last_scan>>,
           (\E i \in DOMAIN Coming : Resolves(Coming[i])) =>
               \E i \in DOMAIN Coming' : Resolves(Coming'[i]),
           \A s \in Slots : manager[s].phase # "empty" => manager'[s] = manager[s]
    PROVE  WaitInv'
<1>1. LastCommandNamesPicked => LastCommandNamesPicked'
    BY DEF LastCommandNamesPicked, NamesPicked, UiStill
<1>2. (\E s \in Slots : manager[s].phase = "connecting") =>
         \E s \in Slots : manager'[s].phase = "connecting"
    OBVIOUS
<1>3. (\E s \in ConnectedSlots(manager) : manager[s].address = picked) =>
         \E s \in ConnectedSlots(manager') : manager'[s].address = picked'
    BY DEF ConnectedSlots, UiStill
<1> QED
    BY <1>1, <1>2, <1>3 DEF WaitInv, UiStill

LEMMA ResolvesStays ==
    ASSUME ItemsStay
    PROVE  (\E i \in DOMAIN Coming : Resolves(Coming[i])) =>
               \E i \in DOMAIN Coming' : Resolves(Coming'[i])
BY DEF ItemsStay, Resolves, Shows, Inert

\* A step that leaves out or replaces an inert item.
Quiet == \E q : Inert(Coming[q]) /\ (ShrinksAt(q) \/ SwapsAt(q))

LEMMA QuietKeeps ==
    ASSUME Holds, TypeOK', UiStill, UNCHANGED <<cmdQ, last_scan>>,
           Quiet \/ Coming' = Coming,
           LinkName' = LinkName,
           \A s \in Slots : manager[s].phase # "empty" => manager'[s] = manager[s],
           \A s \in ConnectedSlots(manager') :
               s \in ConnectedSlots(manager) /\ (TakenDown(s) => TakenDown(s)')
    PROVE  BridgeInv'
<1>1. /\ TypeOK /\ UiTypeOK /\ StatusInv /\ ScreenInv /\ RowsInv /\ ListInv /\ ScanInv
      /\ StartsInv /\ WaitInv /\ ui' = ui
    BY DEF Holds, IInv, BridgeInv, UiStill
<1>2. ItemsStay
    <2>1. CASE Quiet
        BY <1>1, <2>1, DropStays, SwapStays DEF Quiet
    <2>2. CASE Coming' = Coming
        BY <2>2 DEF ItemsStay
    <2> QED
        BY <2>1, <2>2
<1>3. ScreenInv'
    BY <1>1, <1>2, ScreenFrame DEF ItemsStay, Inert
<1>4. WaitInv'
    BY <1>1, <1>2, ResolvesStays, WaitFrame
<1>5. UiTypeOK'
    BY <1>1 DEF UiTypeOK
<1>6. CASE Coming' = Coming
    <2>1. StatusInv' /\ RowsInv' /\ ScanInv' /\ StartsInv'
        BY <1>1, <1>6, StatusFrame, RowsFrame, ScanFrame DEF RowsKept, ListKept, StartsInv
    <2>2. ListInv'
        BY <1>1, <1>6 DEF ListInv
    <2> QED
        BY <1>3, <1>4, <1>5, <2>1, <2>2 DEF BridgeInv
<1>7. ASSUME NEW q, Inert(Coming[q]), ShrinksAt(q) PROVE BridgeInv'
    <2>1. ~IsStatus(Coming[q])
        BY <1>7 DEF Inert, IsStatus, Shows
    <2>2. StatusInv'
        BY <1>1, <1>7, <2>1, StatusShrinks
    <2>3. RowsInv' /\ ListInv' /\ ScanInv' /\ StartsInv'
        BY <1>1, <1>7, RowsDrop, ListDrop, ScanDrop, StartsDrop
    <2> QED
        BY <1>3, <1>4, <1>5, <2>2, <2>3 DEF BridgeInv
<1>8. ASSUME NEW q, SwapsAt(q) PROVE BridgeInv'
    <2>1. StatusInv' /\ RowsInv' /\ ListInv' /\ ScanInv' /\ StartsInv'
        BY <1>1, <1>8, StatusSwaps, RowsSwap, ListSwap, ScanSwap, StartsSwap
    <2> QED
        BY <1>3, <1>4, <1>5, <2>1 DEF BridgeInv
<1> QED
    BY <1>6, <1>7, <1>8 DEF Quiet

\* A worker whose slot is connected does not come to run a link: it runs one
\* or is past it.
LEMMA WorkerStepKeeps ==
    ASSUME Holds, TypeOK', NEW t \in Slots, WorkerStep(t), UiStill
    PROVE  BridgeInv'
<1>1. UNCHANGED <<manager, last_scan, todo, cmdQ, evQ>>
    BY DEF WorkerStep, TakesCommand, ConnectReturns, SecuringEnds, Announces, IsSuperseded,
           LinkCloses, Reports, MovesTo, EndsWith, Becomes, coVars
<1>2. \A s \in Slots : s # t => worker'[s] = worker[s] /\ slotQ'[s] = slotQ[s]
    <2>1. worker \in [Slots -> Worker] /\ slotQ \in [Slots -> Seq(SlotCommand)]
        BY DEF Holds, IInv, TypeOK
    <2> QED
        BY <2>1 DEF WorkerStep, TakesCommand, ConnectReturns, SecuringEnds, Announces,
                    IsSuperseded, LinkCloses, Reports, MovesTo, EndsWith, Becomes
<1>3. ASSUME manager[t].phase = "connected" PROVE worker'[t].pc # "running"
    <2>1. ~At(t, "announcing")
        <3> SUFFICES ASSUME At(t, "announcing") PROVE FALSE
            OBVIOUS
        <3>1. SlotInv(t) /\ Busy(t) /\ ~Linked(t)
            BY DEF Holds, IInv, Busy, Linked, At
        <3> QED
            BY <1>3, <3>1 DEF SlotInv
    <2>2. worker[t] \in Worker
        BY DEF Holds, IInv, TypeOK
    <2>3. \A w : Becomes(t, w) => worker'[t] = w
        BY WorkerNext DEF Holds
    <2>4. CASE TakesCommand(t)
        <3> DEFINE next(a) == [IdleWorker EXCEPT !.pc = "connecting", !.device = a]
        <3>1. IdleWorker.pc = "idle" /\ \A a : next(a).pc = "connecting"
            BY DEF IdleWorker
        <3> HIDE DEF next
        <3>2. Becomes(t, IdleWorker) \/ \E a : Becomes(t, next(a))
            BY <2>4 DEF TakesCommand, next
        <3> QED
            BY <2>3, <3>1, <3>2
    <2>5. ASSUME NEW pc, MovesTo(t, pc), pc # "running" PROVE worker'[t].pc # "running"
        BY <2>2, <2>3, <2>5 DEF MovesTo, Worker
    <2>6. ASSUME NEW outcome, EndsWith(t, outcome) PROVE worker'[t].pc # "running"
        BY <2>2, <2>3, <2>6 DEF EndsWith, Worker
    <2>7. CASE IsSuperseded(t)
        <3>1. PICK w : Becomes(t, w) /\ w.pc # "running"
            <4> DEFINE next(a) == [worker[t] EXCEPT !.pc = "reporting",
                                     !.outcome = "Disconnected", !.pending = a]
            <4>1. PICK a : Becomes(t, next(a))
                BY <2>7 DEF IsSuperseded
            <4>2. next(a).pc = "reporting"
                BY <2>2 DEF Worker
            <4> QED
                BY <4>1, <4>2
        <3> QED
            BY <2>3, <3>1
    <2>8. CASE Reports(t)
        <3>1. PICK w : Becomes(t, w) /\ w.pc # "running"
            BY <2>8 DEF Reports, IdleWorker
        <3> QED
            BY <2>3, <3>1
    <2> QED
        BY <2>1, <2>4, <2>5, <2>6, <2>7, <2>8 DEF WorkerStep, ConnectReturns, SecuringEnds,
           LinkCloses, Announces
<1>4. Coming' = Coming
    BY <1>1 DEF Coming
<1>5. ASSUME NEW s \in ConnectedSlots(manager'), TakenDown(s) PROVE TakenDown(s)'
    <2>1. s \in Slots /\ manager[s].phase = "connected"
        BY <1>1 DEF ConnectedSlots
    <2>2. CASE s = t
        BY <1>3, <2>1, <2>2 DEF TakenDown, At
    <2>3. CASE s # t
        BY <1>1, <1>2, <1>5, <2>1, <2>3 DEF TakenDown, At
    <2> QED
        BY <2>2, <2>3
<1> QED
    BY <1>1, <1>4, <1>5, ManagerFrame, QuietKeeps

\* Reserving a free slot takes no link away.
LEMMA ReserveKeeps ==
    ASSUME TypeOK, NEW s \in Slots, NEW a, ~is_occupied(manager[s]),
           manager' = reserve_slot(manager, s, a)
    PROVE  /\ LinkName' = LinkName
           /\ ConnectedSlots(manager') = ConnectedSlots(manager)
           /\ \A t \in Slots : manager[t].phase # "empty" => manager'[t] = manager[t]
           /\ manager'[s].phase = "connecting"
<1>1. manager \in [Slots -> Slot]
    BY DEF TypeOK
<1>2. \A t \in Slots : t # s => manager'[t] = manager[t]
    BY <1>1 DEF reserve_slot
<1>3. manager'[s].phase = "connecting" /\ manager[s].phase = "empty"
    BY <1>1 DEF reserve_slot, is_occupied, Slot, SlotPhase
<1>4. ConnectedSlots(manager') = ConnectedSlots(manager)
    BY <1>2, <1>3 DEF ConnectedSlots
<1>5. \A t \in ConnectedSlots(manager) : manager'[t].address = manager[t].address
    BY <1>2, <1>3 DEF ConnectedSlots
<1> QED
    BY <1>2, <1>3, <1>4, <1>5, LinkNameFrame

LEMMA TodoHead ==
    ASSUME TypeOK, todo # <<>>
    PROVE  /\ todo \in Seq(WorkItem) /\ Head(todo) \in WorkItem /\ Head(todo) = todo[1]
           /\ Len(todo) \in Nat \ {0} /\ DOMAIN todo = 1 .. Len(todo)
           /\ Len(Tail(todo)) = Len(todo) - 1
           /\ \A i \in 1 .. Len(todo) - 1 : Tail(todo)[i] = todo[i + 1]
<1> todo \in Seq(WorkItem)
    BY DEF TypeOK
<1> QED
    OBVIOUS

\* A message goes out; what is not a DisconnectSlots stays a Disconnect to come.
LEMMA MessageTakesDown ==
    ASSUME TypeOK, todo # <<>>, Head(todo).kind # "DisconnectSlots", todo' = Tail(todo),
           UNCHANGED worker, NEW s \in Slots, TakenDown(s),
           slotQ[s] # <<>> => slotQ'[s] # <<>>
    PROVE  TakenDown(s)'
<1>1. CASE \E i \in DOMAIN todo : todo[i].kind = "DisconnectSlots" /\ s \in todo[i].slots
    <2>1. PICK i \in DOMAIN todo : todo[i].kind = "DisconnectSlots" /\ s \in todo[i].slots
        BY <1>1
    <2>2. i # 1 /\ i \in 1 .. Len(todo)
        BY <2>1, TodoHead
    <2>3. i - 1 \in 1 .. Len(todo) - 1 /\ i - 1 + 1 = i
        BY <2>2, TodoHead
    <2>4. todo'[i - 1] = todo[i] /\ i - 1 \in DOMAIN todo'
        <3>1. Tail(todo) \in Seq(WorkItem)
            BY TodoHead
        <3> QED
            BY <2>3, <3>1, TodoHead
    <2> QED
        BY <2>1, <2>4 DEF TakenDown
<1> QED
    BY <1>1 DEF TakenDown, At

LEMMA QueueGrows ==
    ASSUME TypeOK, NEW t \in Slots, NEW c \in SlotCommand,
           slotQ' = [slotQ EXCEPT ![t] = Append(@, c)], NEW s \in Slots
    PROVE  (slotQ[s] # <<>> => slotQ'[s] # <<>>) /\ slotQ'[t] # <<>>
<1>1. slotQ \in [Slots -> Seq(SlotCommand)]
    BY DEF TypeOK
<1>2. slotQ'[t] # <<>>
    BY <1>1
<1>3. s # t => slotQ'[s] = slotQ[s]
    BY <1>1
<1> QED
    BY <1>2, <1>3

\* One item of the handler is done and said nothing to the UI.
LEMMA DropKeeps ==
    ASSUME Holds, TypeOK', UiStill, UNCHANGED <<cmdQ, last_scan, evQ>>,
           todo # <<>>, Inert(Head(todo)), todo' = Tail(todo),
           LinkName' = LinkName,
           \A s \in Slots : manager[s].phase # "empty" => manager'[s] = manager[s],
           \A s \in ConnectedSlots(manager') :
               s \in ConnectedSlots(manager) /\ (TakenDown(s) => TakenDown(s)')
    PROVE  BridgeInv'
<1>1. TypeOK
    BY DEF Holds, IInv
<1>2. ShrinksAt(Len(evQ) + 1) /\ Coming[Len(evQ) + 1] = Head(todo)
    BY <1>1, DroppingShrinks
<1> QED
    BY <1>2, QuietKeeps DEF Quiet

LEMMA PersistsKeepsUi ==
    ASSUME Holds, TypeOK', Persists, UiStill
    PROVE  BridgeInv'
<1>1. /\ todo # <<>> /\ Head(todo).kind = "PersistDevice" /\ todo' = Tail(todo)
      /\ UNCHANGED <<manager, last_scan, cmdQ, evQ, slotQ, slotEvQ, worker>> /\ TypeOK
    BY DEF Persists, Upcoming, Holds, IInv
<1>2. \A s \in ConnectedSlots(manager') :
         s \in ConnectedSlots(manager) /\ (TakenDown(s) => TakenDown(s)')
    BY <1>1, MessageTakesDown DEF ConnectedSlots
<1> QED
    BY <1>1, <1>2, ManagerFrame, DropKeeps DEF Inert

LEMMA SendsConnectKeepsUi ==
    ASSUME Holds, TypeOK', SendsConnect, UiStill
    PROVE  BridgeInv'
<1>1. /\ todo # <<>> /\ Head(todo).kind = "ConnectSlot" /\ todo' = Tail(todo)
      /\ UNCHANGED <<manager, last_scan, cmdQ, evQ, slotEvQ, worker>> /\ TypeOK
      /\ slotQ' = [slotQ EXCEPT ![Head(todo).slot] =
                      Append(@, SlotConnect(Head(todo).device))]
    BY DEF SendsConnect, Upcoming, Holds, IInv, send_slot_cmd
<1>2. Head(todo).slot \in Slots /\ SlotConnect(Head(todo).device) \in SlotCommand
    BY <1>1, TodoHead, WorkItemFields, SlotCommandTypes
<1>3. \A s \in ConnectedSlots(manager') :
         s \in ConnectedSlots(manager) /\ (TakenDown(s) => TakenDown(s)')
    BY <1>1, <1>2, MessageTakesDown, QueueGrows DEF ConnectedSlots
<1> QED
    BY <1>1, <1>3, ManagerFrame, DropKeeps DEF Inert

LEMMA BootReservesKeepsUi ==
    ASSUME Holds, TypeOK', BootReservesAndConnects, UiStill
    PROVE  BridgeInv'
<1> DEFINE item == Head(todo)
<1>1. /\ todo # <<>> /\ item.kind = "ReserveAndConnect" /\ todo' = Tail(todo)
      /\ UNCHANGED <<last_scan, cmdQ, evQ, slotEvQ, worker>> /\ TypeOK
      /\ manager' = reserve_slot(manager, item.slot, item.device)
      /\ slotQ' = [slotQ EXCEPT ![item.slot] = Append(@, SlotConnect(item.device))]
    BY DEF BootReservesAndConnects, Upcoming, Holds, IInv, send_slot_cmd
<1>2. item.slot \in Slots /\ SlotConnect(item.device) \in SlotCommand
    BY <1>1, TodoHead, WorkItemFields, SlotCommandTypes
<1>3. ~is_occupied(manager[item.slot])
    <2>1. manager[item.slot] = EmptySlot
        BY <1>1, TodoHead DEF Holds, IInv, BootInv
    <2> QED
        BY <2>1 DEF EmptySlot, is_occupied
<1> HIDE DEF item
<1>4. /\ LinkName' = LinkName
      /\ ConnectedSlots(manager') = ConnectedSlots(manager)
      /\ \A t \in Slots : manager[t].phase # "empty" => manager'[t] = manager[t]
    BY <1>1, <1>2, <1>3, ReserveKeeps
<1>5. \A s \in ConnectedSlots(manager') :
         s \in ConnectedSlots(manager) /\ (TakenDown(s) => TakenDown(s)')
    BY <1>1, <1>2, <1>4, MessageTakesDown, QueueGrows DEF ConnectedSlots, item
<1> QED
    BY <1>1, <1>4, <1>5, DropKeeps DEF Inert, item

LEMMA SendsDisconnectKeepsUi ==
    ASSUME Holds, TypeOK', SendsDisconnect, UiStill
    PROVE  BridgeInv'
<1> DEFINE S == Head(todo).slots
<1>1. /\ todo # <<>> /\ Head(todo).kind = "DisconnectSlots"
      /\ UNCHANGED <<manager, last_scan, cmdQ, evQ, slotEvQ, worker>> /\ TypeOK
    BY DEF SendsDisconnect, Upcoming, Holds, IInv
<1>2. S \in SUBSET Slots /\ todo[1] = Head(todo) /\ DOMAIN todo = 1 .. Len(todo)
    BY <1>1, TodoHead, WorkItemFields
<1>3. PICK t \in S :
         /\ slotQ' = [slotQ EXCEPT ![t] = Append(@, SlotDisconnect)]
         /\ todo' = IF S = {t} THEN Tail(todo)
                    ELSE [todo EXCEPT ![1] = DisconnectSlots(S \ {t})]
    BY DEF SendsDisconnect, send_slot_cmd
<1>4. t \in Slots /\ SlotDisconnect \in SlotCommand
    BY <1>2, <1>3, SlotCommandTypes
<1> HIDE DEF S
<1>5. ASSUME NEW s \in Slots
      PROVE  (slotQ[s] # <<>> => slotQ'[s] # <<>>) /\ slotQ'[t] # <<>>
    BY <1>1, <1>3, <1>4, QueueGrows
<1>6. CASE S = {t}
    <2>1. ASSUME NEW s \in ConnectedSlots(manager), TakenDown(s) PROVE TakenDown(s)'
        <3>1. s \in Slots
            BY DEF ConnectedSlots
        <3>2. CASE s = t
            BY <1>5, <3>1, <3>2 DEF TakenDown
        <3>3. CASE s # t /\ \E i \in DOMAIN todo :
                      todo[i].kind = "DisconnectSlots" /\ s \in todo[i].slots
            <4>1. PICK i \in DOMAIN todo :
                      todo[i].kind = "DisconnectSlots" /\ s \in todo[i].slots
                BY <3>3
            <4>2. i # 1
                BY <1>2, <1>6, <3>3, <4>1 DEF S
            <4>3. i - 1 \in 1 .. Len(todo) - 1 /\ i - 1 + 1 = i
                BY <1>1, <4>1, <4>2, TodoHead
            <4>4. todo'[i - 1] = todo[i] /\ i - 1 \in DOMAIN todo'
                <5>1. Tail(todo) \in Seq(WorkItem)
                    BY <1>1, TodoHead
                <5> QED
                    BY <1>1, <1>3, <1>6, <4>3, <5>1, TodoHead
            <4> QED
                BY <4>1, <4>4 DEF TakenDown
        <3> QED
            BY <1>1, <1>5, <2>1, <3>1, <3>2, <3>3 DEF TakenDown, At
    <2> QED
        BY <1>1, <1>3, <1>6, <2>1, ManagerFrame, DropKeeps DEF Inert
<1>7. CASE S # {t}
    <2>1. todo' = [todo EXCEPT ![1] = DisconnectSlots(S \ {t})]
        BY <1>3, <1>7
    <2>2. SwapsAt(Len(evQ) + 1) /\ Inert(Coming[Len(evQ) + 1])
        <3> DEFINE item == DisconnectSlots(S \ {t})
        <3>1. /\ Inert(todo[1]) /\ todo[1].kind # "Boot"
              /\ Inert(item) /\ item.kind # "Boot"
            BY <1>1, <1>2 DEF Inert, DisconnectSlots
        <3> HIDE DEF item
        <3>2. todo' = [todo EXCEPT ![1] = item]
            BY <2>1 DEF item
        <3>3. SwapsAt(Len(evQ) + 1)
            BY <1>1, <3>1, <3>2, SwappingSwaps
        <3> QED
            BY <3>3 DEF SwapsAt
    <2>3. ASSUME NEW s \in ConnectedSlots(manager), TakenDown(s) PROVE TakenDown(s)'
        <3>1. s \in Slots
            BY DEF ConnectedSlots
        <3>2. CASE s = t
            BY <1>5, <3>1, <3>2 DEF TakenDown
        <3>3. CASE s # t /\ \E i \in DOMAIN todo :
                      todo[i].kind = "DisconnectSlots" /\ s \in todo[i].slots
            <4>1. PICK i \in DOMAIN todo :
                      todo[i].kind = "DisconnectSlots" /\ s \in todo[i].slots
                BY <3>3
            <4>2. i \in DOMAIN todo' /\ (i # 1 => todo'[i] = todo[i])
                BY <2>1, <4>1
            <4>3. i = 1 => todo'[i] = DisconnectSlots(S \ {t}) /\ s \in S \ {t}
                BY <1>2, <2>1, <3>3, <4>1 DEF S
            <4>4. todo'[i].kind = "DisconnectSlots" /\ s \in todo'[i].slots
                BY <4>1, <4>2, <4>3 DEF DisconnectSlots
            <4> QED
                BY <4>2, <4>4 DEF TakenDown
        <3> QED
            BY <1>1, <1>5, <2>3, <3>1, <3>2, <3>3 DEF TakenDown, At
    <2> QED
        BY <1>1, <2>2, <2>3, ManagerFrame, QuietKeeps DEF Quiet
<1> QED
    BY <1>6, <1>7

LEMMA EmitsKeepsUi ==
    ASSUME Holds, TypeOK', Emits, UiStill
    PROVE  BridgeInv'
<1>1. /\ todo # <<>> /\ Head(todo).kind = "Emit" /\ todo' = Tail(todo)
      /\ UNCHANGED <<manager, last_scan, cmdQ, slotQ, slotEvQ, worker>> /\ TypeOK
    BY DEF Emits, Upcoming, Holds, IInv
<1>2. Coming' = Coming
    BY <1>1, EmittingKeeps
<1>3. \A s \in ConnectedSlots(manager') :
         s \in ConnectedSlots(manager) /\ (TakenDown(s) => TakenDown(s)')
    BY <1>1, MessageTakesDown DEF ConnectedSlots
<1> QED
    BY <1>1, <1>2, <1>3, ManagerFrame, QuietKeeps

----------------------------------------------------------------------------
(* The scan: what is left of its handler is the scan itself.               *)

LEMMA ScanAlone ==
    ASSUME Holds, todo # <<>>, Head(todo).kind \in {"Boot", "Scan"}
    PROVE  /\ Len(todo) = 1 /\ Count = Len(evQ) + 1 /\ Coming[Count] = Head(todo)
           /\ Tail(todo) = <<>>
           /\ Head(todo).kind = "Scan" =>
                 IF Len(evQ) > 0 THEN Shows(Coming[Len(evQ)], {"ScanStarted"})
                 ELSE ui.screen = "Scanning" /\ ui.devices = <<>> /\ ui.device_count = 0
<1> DEFINE p == Len(evQ) + 1
<1>1. TypeOK /\ ScanInv
    BY DEF Holds, IInv, BridgeInv
<1>2. Coming[p] = Head(todo) /\ p \in DOMAIN Coming /\ Len(evQ) \in Nat
    BY <1>1, TodoHead, ComingItems
<1>3. \A j \in DOMAIN Coming : j <= p
    BY <1>1, <1>2 DEF ScanInv
<1>4. Count = p /\ Len(todo) = 1
    <2>1. Count \in DOMAIN Coming /\ Count <= p
        BY <1>1, <1>2, <1>3, ComingItems
    <2> QED
        BY <1>1, <2>1, TodoHead, ComingItems
<1>5. Tail(todo) = <<>>
    <2>1. Tail(todo) \in Seq(WorkItem) /\ Len(Tail(todo)) = 0
        BY <1>1, <1>4, TodoHead
    <2>2. \A q \in Seq(WorkItem) : Len(q) = 0 => q = <<>>
        OBVIOUS
    <2> QED
        BY <2>1, <2>2
<1>6. Head(todo).kind = "Scan" =>
          IF p > 1 THEN Shows(Coming[p - 1], {"ScanStarted"})
          ELSE ui.screen = "Scanning" /\ ui.devices = <<>> /\ ui.device_count = 0
    BY <1>1, <1>2 DEF ScanInv
<1>7. (p > 1 <=> Len(evQ) > 0) /\ p - 1 = Len(evQ)
    BY <1>2
<1> QED
    BY <1>2, <1>4, <1>5, <1>6, <1>7

\* The handler goes on after its only item, which was not an event.
LEMMA NextItemsKeepScreen ==
    ASSUME Holds, TypeOK', UiStill, UNCHANGED <<manager, cmdQ, slotQ, worker>>,
           Len(todo) <= 1, EndsIn(Len(evQ), todo'),
           \A i \in DOMAIN todo : todo[i].kind \notin {"Emit", "DisconnectSlots"}
    PROVE  ScreenInv'
<1>1. TypeOK /\ ScreenInv /\ todo' \in Seq(WorkItem)
    BY DEF Holds, IInv, BridgeInv, TypeOK
<1>2. ASSUME NEW i \in DOMAIN Coming, Coming[i].kind = "Emit"
      PROVE  i \in DOMAIN Coming' /\ Coming'[i] = Coming[i]
    <2>1. CASE i <= Len(evQ)
        BY <1>1, <2>1, EndStays
    <2>2. CASE i > Len(evQ)
        <3> DEFINE j == i - Len(evQ)
        <3>1. j \in 1 .. Len(todo) /\ i = Len(evQ) + j
            BY <1>1, <2>2, ComingItems
        <3> HIDE DEF j
        <3>2. Coming[i] = todo[j] /\ j \in DOMAIN todo
            BY <1>1, <3>1, ComingItems DEF TypeOK
        <3> QED
            BY <1>2, <3>2
    <2> QED
        BY <1>1, <2>1, <2>2, ComingItems
<1>3. \A s \in ConnectedSlots(manager') :
         s \in ConnectedSlots(manager) /\ (TakenDown(s) => TakenDown(s)')
    BY DEF TakenDown, At
<1> QED
    BY <1>1, <1>2, <1>3, ScreenFrame

LEMMA BootLoadsPeersKeepsUi ==
    ASSUME Holds, TypeOK', BootLoadsPeers, UiStill
    PROVE  BridgeInv'
<1>1. /\ todo # <<>> /\ Head(todo).kind = "Boot"
      /\ UNCHANGED <<manager, last_scan, cmdQ, evQ, slotQ, slotEvQ, worker, ui, picked>>
    BY DEF BootLoadsPeers, Upcoming, UiStill
<1>2. /\ TypeOK /\ UiTypeOK /\ StatusInv /\ ScreenInv /\ RowsInv /\ ListInv /\ ScanInv
      /\ StartsInv /\ WaitInv
    BY DEF Holds, IInv, BridgeInv
<1>3. /\ Len(todo) = 1 /\ Tail(todo) = <<>> /\ Count = Len(evQ) + 1
      /\ Coming[Count] = Head(todo)
    BY <1>1, ScanAlone
<1>4. PICK peers \in PeerLists :
         todo' = IF peers = <<>> THEN <<>> ELSE <<Emit(ScanStarted), Scan(peers)>>
    BY DEF BootLoadsPeers
<1>5. CASE peers = <<>>
    <2>1. todo' = Tail(todo)
        BY <1>3, <1>4, <1>5
    <2>2. \A s \in ConnectedSlots(manager') :
             s \in ConnectedSlots(manager) /\ (TakenDown(s) => TakenDown(s)')
        BY <1>1, <1>2, <2>1, MessageTakesDown DEF ConnectedSlots
    <2> QED
        BY <1>1, <2>1, <2>2, ManagerFrame, DropKeeps DEF Inert
<1>6. CASE peers # <<>>
    <2> DEFINE items == todo'
               k == Len(evQ)
    <2>1. items = <<Emit(ScanStarted), Scan(peers)>>
        BY <1>4, <1>6
    <2>2. EndsIn(k, items) /\ items \in Seq(WorkItem) /\ k \in Nat
        BY <1>1, <1>2, <1>3, HandlingEnds, ComingItems DEF TypeOK
    <2>3. /\ Len(items) = 2 /\ Shows(items[1], {"ScanStarted"})
          /\ items[1].kind = "Emit" /\ items[1].event.kind = "ScanStarted"
          /\ items[2].kind = "Scan"
        BY <2>1 DEF Shows, Emit, ScanStarted, Scan
    <2>4. \A i \in k + 1 .. Count : Inert(Coming[i]) /\ ~IsStatus(Coming[i])
        BY <1>1, <1>3, <2>2 DEF Inert, IsStatus, Shows
    <2>5. \A i \in 1 .. Len(items) : i = 1 \/ i = 2
        BY <2>3
    <2> HIDE DEF items, k
    <2>6. StatusInv'
        <3>1. \A i \in 1 .. Len(items) : ~IsStatus(items[i])
            BY <2>3, <2>5 DEF IsStatus, Shows
        <3> QED
            BY <1>1, <1>2, <2>2, <2>4, <3>1, ManagerFrame, StatusEnds
    <2>7. RowsInv'
        <3>1. \A i \in 1 .. Len(items) : ~Shows(items[i], {"DeviceFound", "ScanComplete"})
            BY <2>3, <2>5 DEF Shows
        <3> QED
            BY <1>1, <1>2, <2>2, <2>4, <3>1, RowsEnd
    <2>8. ListInv'
        BY <1>1, <1>2, <2>2, <2>4, ListEnd
    <2>9. ScanInv'
        <3>1. ScanIsLast(items)
            BY <2>3, <2>5 DEF ScanIsLast
        <3> QED
            BY <1>2, <2>2, <3>1, ScanEnd
    <2>10. StartsInv'
        <3>1. 2 \in 1 .. Len(items) /\ Resolves(items[2])
            BY <2>3 DEF Resolves
        <3>2. \A i \in 1 .. Len(items) : Shows(items[i], {"ScanStarted"}) => 2 > i
            BY <2>3, <2>5 DEF Shows
        <3> QED
            BY <1>2, <2>2, <3>1, <3>2, StartsEnd
    <2>11. ScreenInv'
        <3>1. \A i \in DOMAIN todo : todo[i].kind = "Boot"
            BY <1>1, <1>2, <1>3, TodoHead
        <3> QED
            BY <1>1, <1>3, <2>2, <3>1, NextItemsKeepScreen DEF items, k, UiStill
    <2>12. WaitInv'
        <3>1. k + 2 \in DOMAIN Coming' /\ Coming'[k + 2] = items[2]
            BY <2>2, <2>3, NextItems DEF EndsIn
        <3> QED
            BY <2>3, <3>1 DEF WaitInv, Resolves
    <2>13. UiTypeOK'
        BY <1>1, <1>2 DEF UiTypeOK
    <2> QED
        BY <2>6, <2>7, <2>8, <2>9, <2>10, <2>11, <2>12, <2>13 DEF BridgeInv
<1> QED
    BY <1>5, <1>6

\* The scan has ended: what it says is on its way, behind its announcement.
LEMMA ScanEnds ==
    ASSUME Holds, TypeOK', UiStill, Upcoming("Scan"),
           UNCHANGED <<manager, cmdQ, evQ, slotQ, worker>>, RowsInv',
           \A i \in DOMAIN todo' :
               /\ todo'[i].kind \notin {"Boot", "Scan"}
               /\ ~IsStatus(todo'[i]) /\ ~Shows(todo'[i], {"ScanStarted"}),
           NEW e \in DOMAIN todo', Resolves(todo'[e])
    PROVE  BridgeInv'
<1> DEFINE items == todo'
           k == Len(evQ)
<1>1. /\ todo # <<>> /\ Head(todo).kind = "Scan"
      /\ UNCHANGED <<manager, cmdQ, evQ, slotQ, worker, ui, picked>>
    BY DEF Upcoming, UiStill
<1>2. /\ TypeOK /\ UiTypeOK /\ StatusInv /\ ScreenInv /\ ListInv /\ StartsInv
    BY DEF Holds, IInv, BridgeInv
<1>3. /\ Len(todo) = 1 /\ Count = k + 1 /\ Coming[Count] = Head(todo)
      /\ IF k > 0 THEN Shows(Coming[k], {"ScanStarted"}) ELSE ui.screen = "Scanning"
    BY <1>1, ScanAlone
<1>4. /\ EndsIn(k, items) /\ items \in Seq(WorkItem) /\ k \in Nat
      /\ DOMAIN items = 1 .. Len(items)
    BY <1>1, <1>2, <1>3, HandlingEnds, ComingItems DEF TypeOK
<1>5. \A i \in k + 1 .. Count : ~IsStatus(Coming[i])
    BY <1>1, <1>3, <1>4 DEF IsStatus, Shows
<1>6. e \in 1 .. Len(items) /\ Resolves(items[e])
      /\ \A i \in 1 .. Len(items) :
               /\ items[i].kind \notin {"Boot", "Scan"}
               /\ ~IsStatus(items[i]) /\ ~Shows(items[i], {"ScanStarted"})
    BY <1>4
<1>7. \A i \in DOMAIN todo : todo[i].kind \notin {"Emit", "DisconnectSlots"}
    BY <1>1, <1>2, <1>3, TodoHead
<1>8. ScreenInv'
    BY <1>1, <1>3, <1>4, <1>7, NextItemsKeepScreen DEF UiStill
<1> HIDE DEF items, k
<1>9. StatusInv'
    BY <1>1, <1>2, <1>4, <1>5, <1>6, ManagerFrame, StatusEnds
<1>10. ListInv'
    BY <1>1, <1>2, <1>3, <1>4, ListEnd
<1>11. ScanInv'
    BY <1>2, <1>4, <1>6, ScanEnd DEF ScanIsLast
<1>12. StartsInv'
    BY <1>2, <1>4, <1>6, StartsEnd
<1>13. WaitInv'
    <2>1. k + e \in DOMAIN Coming' /\ Coming'[k + e] = items[e]
        BY <1>4, <1>6, NextItems DEF EndsIn
    <2> QED
        BY <1>6, <2>1 DEF WaitInv
<1>14. UiTypeOK'
    BY <1>1, <1>2 DEF UiTypeOK
<1> QED
    BY <1>8, <1>9, <1>10, <1>11, <1>12, <1>13, <1>14 DEF BridgeInv

LEMMA ScanFindsKeepsUi ==
    ASSUME Holds, TypeOK', NEW found \in ScanResults, ScanFinds(found), UiStill
    PROVE  BridgeInv'
<1> DEFINE peers == Head(todo).peers
           n == Len(found)
           items == todo'
           k == Len(evQ)
<1>1. /\ Upcoming("Scan") /\ todo # <<>> /\ Head(todo).kind = "Scan" /\ ui' = ui
      /\ UNCHANGED <<manager, cmdQ, evQ, slotQ, worker>> /\ last_scan' = found
      /\ TypeOK
    BY DEF ScanFinds, Upcoming, UiStill, Holds, IInv
<1>2. PICK claim \in [DOMAIN peers -> 0 .. n] :
         items = [i \in 1 .. n + 1 + Len(peers) |->
                    IF i <= n THEN Emit(DeviceFound(found[i]))
                    ELSE IF i = n + 1 THEN Emit(ScanComplete)
                    ELSE ReserveAndConnect(i - n - 2,
                            TargetAddress(claim, peers, found, i - n - 1))]
    BY DEF ScanFinds
<1>3. peers \in PeerLists
    BY <1>1, TodoHead, WorkItemFields
<1>4. /\ n \in Nat /\ n <= BLE_MAX_DISCOVERED /\ Len(peers) \in Nat
    BY <1>3, PeerListsAreSequences, ScanResultsAreSequences, CapacityAssumption
       DEF ScanResults, SeqUpTo
<1>5. /\ Len(todo) = 1 /\ Count = k + 1 /\ Coming[Count] = Head(todo)
      /\ IF k > 0 THEN Shows(Coming[k], {"ScanStarted"})
         ELSE ui.screen = "Scanning" /\ ui.devices = <<>> /\ ui.device_count = 0
    BY <1>1, ScanAlone
<1>6. /\ EndsIn(k, items) /\ items \in Seq(WorkItem) /\ k \in Nat
    BY <1>1, <1>5, HandlingEnds, ComingItems DEF TypeOK
<1> HIDE DEF peers, n, k, items
<1>7. /\ Len(items) = n + 1 + Len(peers) /\ DOMAIN items = 1 .. n + 1 + Len(peers)
      /\ \A i \in 1 .. n : items[i] = Emit(DeviceFound(found[i]))
      /\ items[n + 1] = Emit(ScanComplete)
      /\ \A i \in 1 .. n + 1 + Len(peers) : i > n + 1 => items[i].kind = "ReserveAndConnect"
    <2>1. DOMAIN items = 1 .. n + 1 + Len(peers) /\ Len(items) = n + 1 + Len(peers)
        BY <1>2, <1>4, <1>6
    <2>2. \A i \in 1 .. n : items[i] = Emit(DeviceFound(found[i]))
        BY <1>2, <1>4
    <2>3. items[n + 1] = Emit(ScanComplete)
        BY <1>2, <1>4
    <2>4. \A i \in 1 .. n + 1 + Len(peers) : i > n + 1 => items[i].kind = "ReserveAndConnect"
        BY <1>2, <1>4 DEF ReserveAndConnect
    <2> QED
        BY <2>1, <2>2, <2>3, <2>4
<1>8. RowsInv'
    <2>1. Len(last_scan') = n /\ last_scan' = found
        BY <1>1 DEF n
    <2>2. Len(last_scan') <= BLE_MAX_DISCOVERED /\ Len(items) > Len(last_scan')
        BY <1>4, <1>7, <2>1
    <2>3. \A i \in Len(last_scan') + 2 .. Len(items) : Inert(items[i])
        BY <1>4, <1>7, <2>1 DEF Inert
    <2>4. /\ \A i \in 1 .. Len(last_scan') : items[i] = Emit(DeviceFound(last_scan'[i]))
          /\ items[Len(last_scan') + 1] = Emit(ScanComplete)
        BY <1>7, <2>1
    <2> QED
        BY <1>1, <1>5, <1>6, <2>2, <2>3, <2>4, RowsFound
<1>9. ASSUME NEW i \in DOMAIN items
      PROVE  /\ items[i].kind \notin {"Boot", "Scan"}
             /\ ~IsStatus(items[i]) /\ ~Shows(items[i], {"ScanStarted"})
    <2>1. CASE i <= n
        <3>1. items[i] = Emit(DeviceFound(found[i]))
            BY <1>4, <1>7, <2>1
        <3>2. items[i].kind = "Emit" /\ items[i].event.kind = "DeviceFound"
            BY <3>1 DEF Emit, DeviceFound
        <3> QED
            BY <3>2 DEF IsStatus, Shows
    <2>2. CASE i = n + 1
        BY <1>4, <1>7, <2>2 DEF Emit, ScanComplete, IsStatus, Shows
    <2>3. CASE i > n + 1
        BY <1>4, <1>7, <2>3 DEF IsStatus, Shows
    <2> QED
        BY <1>4, <1>7, <2>1, <2>2, <2>3
<1>10. n + 1 \in DOMAIN items /\ Resolves(items[n + 1])
    BY <1>4, <1>7 DEF Emit, ScanComplete, Resolves, Shows
<1> QED
    BY <1>1, <1>8, <1>9, <1>10, ScanEnds DEF items

LEMMA ScanFailsKeepsUi ==
    ASSUME Holds, TypeOK', ScanFails, UiStill
    PROVE  BridgeInv'
<1> DEFINE peers == Head(todo).peers
           items == todo'
           k == Len(evQ)
<1>1. /\ Upcoming("Scan") /\ todo # <<>> /\ Head(todo).kind = "Scan" /\ ui' = ui
      /\ UNCHANGED <<manager, cmdQ, evQ, slotQ, worker>> /\ last_scan' = <<>>
      /\ TypeOK
    BY DEF ScanFails, Upcoming, UiStill, Holds, IInv
<1>2. items = [i \in 1 .. 1 + Len(peers) |->
                 IF i = 1 THEN Emit(UiError("ScanFailed"))
                 ELSE ReserveAndConnect(i - 2, peers[i - 1])]
    BY DEF ScanFails
<1>3. peers \in PeerLists
    BY <1>1, TodoHead, WorkItemFields
<1>4. Len(peers) \in Nat
    BY <1>3, PeerListsAreSequences, MaxConnectionsAssumption
<1>5. Len(todo) = 1 /\ (k > 0 => Shows(Coming[k], {"ScanStarted"}))
    BY <1>1, ScanAlone
<1>6. /\ EndsIn(k, items) /\ items \in Seq(WorkItem) /\ k \in Nat
    BY <1>1, <1>5, HandlingEnds, ComingItems DEF TypeOK
<1> HIDE DEF peers, k, items
<1>7. /\ Len(items) = 1 + Len(peers) /\ DOMAIN items = 1 .. 1 + Len(peers)
      /\ items[1] = Emit(UiError("ScanFailed"))
      /\ \A i \in 1 .. 1 + Len(peers) : i # 1 => items[i].kind = "ReserveAndConnect"
    BY <1>2, <1>4, <1>6 DEF ReserveAndConnect
<1>8. \A i \in DOMAIN items :
         /\ items[i].kind \notin {"Boot", "Scan"}
         /\ ~IsStatus(items[i])
         /\ ~Shows(items[i], {"ScanStarted"}) /\ ~Shows(items[i], {"DeviceFound", "ScanComplete"})
    BY <1>4, <1>7 DEF Emit, UiError, IsStatus, Shows
<1>9. RowsInv'
    BY <1>1, <1>5, <1>6, <1>7, <1>8, RowsFailed
<1>10. 1 \in DOMAIN items /\ Resolves(items[1])
    BY <1>4, <1>7 DEF Emit, UiError, Resolves, Shows
<1> QED
    BY <1>1, <1>8, <1>9, <1>10, ScanEnds DEF items

----------------------------------------------------------------------------
(* The coordinator takes a command.                                        *)

\* What ends the wait for a Connect.
Answered(items, m) ==
    \/ \E i \in 1 .. Len(items) : Resolves(items[i])
    \/ \E s \in Slots : m[s].phase = "connecting"
    \/ \E s \in ConnectedSlots(m) : m[s].address = picked

LEMMA CommandTaken ==
    ASSUME TypeOK, cmdQ # <<>>
    PROVE  /\ Head(cmdQ) = cmdQ[1] /\ Head(cmdQ) \in BleCommand
           /\ DOMAIN cmdQ = 1 .. Len(cmdQ) /\ Len(cmdQ) \in Nat \ {0}
           /\ \A i \in DOMAIN cmdQ : i # 1 =>
                 i - 1 \in DOMAIN Tail(cmdQ) /\ Tail(cmdQ)[i - 1] = cmdQ[i]
           /\ Len(cmdQ) > 1 => /\ Tail(cmdQ) # <<>>
                               /\ Tail(cmdQ)[Len(Tail(cmdQ))] = cmdQ[Len(cmdQ)]
<1>1. cmdQ \in Seq(BleCommand)
    BY DEF TypeOK
<1>2. /\ Head(cmdQ) = cmdQ[1] /\ Head(cmdQ) \in BleCommand
      /\ DOMAIN cmdQ = 1 .. Len(cmdQ) /\ Len(cmdQ) \in Nat \ {0}
      /\ Len(Tail(cmdQ)) = Len(cmdQ) - 1 /\ DOMAIN Tail(cmdQ) = 1 .. Len(cmdQ) - 1
      /\ \A i \in 1 .. Len(cmdQ) - 1 : Tail(cmdQ)[i] = cmdQ[i + 1]
    BY <1>1
<1>3. ASSUME NEW i \in DOMAIN cmdQ, i # 1
      PROVE  i - 1 \in DOMAIN Tail(cmdQ) /\ Tail(cmdQ)[i - 1] = cmdQ[i]
    <2>1. i - 1 \in 1 .. Len(cmdQ) - 1 /\ i - 1 + 1 = i
        BY <1>2, <1>3
    <2> QED
        BY <1>2, <2>1
<1>4. ASSUME Len(cmdQ) > 1
      PROVE  Tail(cmdQ) # <<>> /\ Tail(cmdQ)[Len(Tail(cmdQ))] = cmdQ[Len(cmdQ)]
    <2>1. Len(cmdQ) \in DOMAIN cmdQ /\ Len(cmdQ) # 1
        BY <1>2, <1>4
    <2>2. Tail(cmdQ)[Len(Tail(cmdQ))] = cmdQ[Len(cmdQ)]
        BY <1>2, <1>3, <2>1
    <2>3. Len(Tail(cmdQ)) # 0
        BY <1>2, <1>4
    <2>4. Len(<<>>) = 0
        OBVIOUS
    <2>5. Tail(cmdQ) # <<>>
        BY ONLY <2>3, <2>4
    <2> QED
        BY <2>2, <2>5
<1> QED
    BY <1>2, <1>3, <1>4

LEMMA CommandKeepsUi ==
    ASSUME Holds, TypeOK', UiStill, todo = <<>>, cmdQ # <<>>, cmdQ' = Tail(cmdQ),
           UNCHANGED <<last_scan, evQ, slotQ, worker>>,
           LinkName' = LinkName, ConnectedSlots(manager') = ConnectedSlots(manager),
           \A s \in Slots : manager[s].phase # "empty" => manager'[s] = manager[s],
           \A i \in 1 .. Len(todo') :
               /\ ~IsStatus(todo'[i])
               /\ ~Shows(todo'[i], {"DeviceFound", "ScanComplete"})
               /\ Shows(todo'[i], {"ScanStarted"}) =>
                      \E j \in 1 .. Len(todo') : j > i /\ Resolves(todo'[j]),
           ScanIsLast(todo'),
           Head(cmdQ).kind = "Disconnect" => \A s \in ConnectedSlots(manager) : TakenDown(s)',
           Head(cmdQ).kind = "StartScan" => \E i \in 1 .. Len(todo') : Resolves(todo'[i]),
           NamesPicked(Head(cmdQ)) => Answered(todo', manager')
    PROVE  BridgeInv'
<1> DEFINE items == todo'
           k == Len(evQ)
<1>1. /\ TypeOK /\ UiTypeOK /\ StatusInv /\ ScreenInv /\ RowsInv /\ ListInv /\ ScanInv
      /\ StartsInv /\ WaitInv /\ ui' = ui /\ picked' = picked
    BY DEF Holds, IInv, BridgeInv, UiStill
<1>2. Len(todo) = 0 /\ Count = k /\ k \in Nat
    BY <1>1, ComingItems
<1>3. EndsIn(k, items) /\ items \in Seq(WorkItem)
    BY <1>1, <1>2, HandlingEnds DEF TypeOK
<1>4. \A i \in DOMAIN Coming : i \in DOMAIN Coming' /\ Coming'[i] = Coming[i]
    BY <1>1, <1>2, <1>3, EndStays, ComingItems
<1>5. /\ \A i \in 1 .. Len(items) :
             /\ ~IsStatus(items[i])
             /\ ~Shows(items[i], {"DeviceFound", "ScanComplete"})
             /\ Shows(items[i], {"ScanStarted"}) =>
                    \E j \in 1 .. Len(items) : j > i /\ Resolves(items[j])
      /\ ScanIsLast(items)
    OBVIOUS
<1>6. ASSUME \E i \in 1 .. Len(items) : Resolves(items[i])
      PROVE  \E i \in DOMAIN Coming' : Resolves(Coming'[i])
    <2>1. PICK i \in 1 .. Len(items) : Resolves(items[i])
        BY <1>6
    <2>2. Len(items) \in Nat
        BY <1>3
    <2> HIDE DEF items, k
    <2>3. k + i \in 1 .. k + Len(items)
        BY <1>2, <2>2
    <2>4. k + i \in DOMAIN Coming' /\ Coming'[k + i] = items[i]
        BY <1>3, <2>3, NextItems DEF EndsIn
    <2> QED
        BY <2>1, <2>4
<1>7. /\ Head(cmdQ) = cmdQ[1]
      /\ \A i \in DOMAIN cmdQ : i # 1 => i - 1 \in DOMAIN cmdQ' /\ cmdQ'[i - 1] = cmdQ[i]
      /\ Len(cmdQ) \in Nat \ {0}
      /\ Len(cmdQ) > 1 => cmdQ' # <<>> /\ cmdQ'[Len(cmdQ')] = cmdQ[Len(cmdQ)]
    BY <1>1, CommandTaken
<1>8. ScreenInv'
    <2> SUFFICES ASSUME ui.screen = "Home", ui.connected_name # NoName
                 PROVE  \/ \E i \in DOMAIN Coming' : Shows(Coming'[i], {"Connected"})
                        \/ ui.command = Disconnect \/ \E i \in DOMAIN cmdQ' : cmdQ'[i] = Disconnect
                        \/ \A s \in ConnectedSlots(manager') : TakenDown(s)'
        BY <1>1 DEF ScreenInv
    <2>1. CASE \E i \in DOMAIN Coming : Shows(Coming[i], {"Connected"})
        BY <1>4, <2>1
    <2>2. CASE \E i \in DOMAIN cmdQ : cmdQ[i] = Disconnect
        <3>1. PICK i \in DOMAIN cmdQ : cmdQ[i] = Disconnect
            BY <2>2
        <3>2. CASE i = 1
            BY <1>7, <3>1, <3>2 DEF Disconnect
        <3> QED
            BY <1>7, <3>1, <3>2
    <2>3. CASE \A s \in ConnectedSlots(manager) : TakenDown(s)
        BY <2>3 DEF TakenDown, At
    <2> QED
        BY <1>1, <2>1, <2>2, <2>3 DEF ScreenInv
<1>9. WaitInv'
    <2> SUFFICES ASSUME ui.screen = "Scanning"
                 PROVE  \/ \E i \in DOMAIN Coming' : Resolves(Coming'[i])
                        \/ ui.command = StartScan \/ \E i \in DOMAIN cmdQ' : cmdQ'[i] = StartScan
                        \/ LastCommandNamesPicked'
                        \/ \E s \in Slots : manager'[s].phase = "connecting"
                        \/ \E s \in ConnectedSlots(manager') : manager'[s].address = picked
        BY <1>1 DEF WaitInv
    <2>1. CASE \E i \in DOMAIN Coming : Resolves(Coming[i])
        BY <1>4, <2>1
    <2>2. CASE \E i \in DOMAIN cmdQ : cmdQ[i] = StartScan
        <3>1. PICK i \in DOMAIN cmdQ : cmdQ[i] = StartScan
            BY <2>2
        <3>2. CASE i = 1
            <4>1. Head(cmdQ).kind = "StartScan"
                BY <1>7, <3>1, <3>2 DEF StartScan
            <4> QED
                BY <1>6, <4>1
        <3> QED
            BY <1>7, <3>1, <3>2
    <2>3. CASE LastCommandNamesPicked
        <3>1. \A c : NamesPicked(c)' <=> NamesPicked(c)
            BY <1>1 DEF NamesPicked
        <3>2. CASE ui.command # NoCommand
            BY <1>1, <2>3, <3>2 DEF LastCommandNamesPicked, NamesPicked
        <3>3. CASE ui.command = NoCommand /\ Len(cmdQ) > 1
            BY <1>1, <1>7, <2>3, <3>3 DEF LastCommandNamesPicked, NamesPicked
        <3>4. CASE ui.command = NoCommand /\ ~(Len(cmdQ) > 1)
            <4>1. Len(cmdQ) = 1
                <5>1. \A n \in Nat \ {0} : ~(n > 1) => n = 1
                    OBVIOUS
                <5> QED
                    BY ONLY <1>7, <3>4, <5>1
            <4>2. NamesPicked(Head(cmdQ))
                BY <1>7, <2>3, <3>4, <4>1 DEF LastCommandNamesPicked
            <4>3. Answered(items, manager')
                BY <4>2
            <4> QED
                BY <1>6, <4>3 DEF Answered
        <3> QED
            BY <3>2, <3>3, <3>4
    <2>4. CASE \E s \in Slots : manager[s].phase = "connecting"
        BY <2>4
    <2>5. CASE \E s \in ConnectedSlots(manager) : manager[s].address = picked
        BY <2>5 DEF ConnectedSlots
    <2> QED
        BY <1>1, <2>1, <2>2, <2>3, <2>4, <2>5 DEF WaitInv
<1> HIDE DEF items, k
<1>10. \A i \in k + 1 .. Count : FALSE
    BY <1>2
<1>11. StatusInv'
    BY <1>1, <1>3, <1>5, <1>10, StatusEnds
<1>12. RowsInv'
    BY <1>1, <1>3, <1>5, <1>10, RowsEnd
<1>13. ListInv'
    BY <1>1, <1>3, <1>10, ListEnd
<1>14. ScanInv'
    BY <1>1, <1>3, <1>5, ScanEnd
<1>15. StartsInv'
    BY <1>1, <1>3, <1>5, <1>10, StartsEnd
<1>16. UiTypeOK'
    BY <1>1 DEF UiTypeOK
<1> QED
    BY <1>8, <1>9, <1>11, <1>12, <1>13, <1>14, <1>15, <1>16 DEF BridgeInv

\* The table stays, and with it the links.
LEMMA TableStays ==
    UNCHANGED manager =>
        /\ LinkName' = LinkName /\ ConnectedSlots(manager') = ConnectedSlots(manager)
        /\ \A s \in Slots : manager[s].phase # "empty" => manager'[s] = manager[s]
BY ManagerFrame

LEMMA DisconnectAllItems ==
    ASSUME NEW S
    PROVE  /\ DisconnectAll(S) = <<>> \/ DisconnectAll(S) = <<DisconnectSlots(S)>>
           /\ S # {} => DisconnectAll(S) = <<DisconnectSlots(S)>>
BY DEF DisconnectAll

LEMMA TakesStartScan ==
    ASSUME Holds, TypeOK', UiStill, ReceivesCommand, Head(cmdQ).kind = "StartScan"
    PROVE  BridgeInv'
<1>1. /\ todo = <<>> /\ cmdQ # <<>> /\ cmdQ' = Tail(cmdQ)
      /\ UNCHANGED <<last_scan, evQ, slotQ, worker>>
      /\ Decide(plan_start_scan(manager), <<Emit(ScanStarted), Scan(<<>>)>>)
    BY DEF ReceivesCommand
<1> DEFINE S == OccupiedSlots(manager)
           rest == <<Emit(ScanStarted), Scan(<<>>)>>
<1>2. UNCHANGED manager
    BY <1>1 DEF Decide, plan_start_scan, Decision
<1>3. todo' = DisconnectAll(S) \o rest \/ todo' = <<>> \o rest
    BY <1>1 DEF Decide, plan_start_scan, Decision
<1>4. todo' = <<DisconnectSlots(S)>> \o rest \/ todo' = <<>> \o rest
    BY <1>3, DisconnectAllItems
<1>5. todo' = rest \/ todo' = <<DisconnectSlots(S), Emit(ScanStarted), Scan(<<>>)>>
    BY <1>4
<1> HIDE DEF S
<1>6. /\ DisconnectSlots(S).kind = "DisconnectSlots"
      /\ Emit(ScanStarted).kind = "Emit" /\ Emit(ScanStarted).event.kind = "ScanStarted"
      /\ Scan(<<>>).kind = "Scan"
    BY DEF DisconnectSlots, Emit, ScanStarted, Scan
<1>7. PICK n \in {2, 3} :
         /\ Len(todo') = n /\ todo'[n].kind = "Scan"
         /\ todo'[n - 1].kind = "Emit" /\ todo'[n - 1].event.kind = "ScanStarted"
         /\ n = 3 => todo'[1].kind = "DisconnectSlots"
    BY <1>5, <1>6
<1>8. ASSUME NEW i \in 1 .. Len(todo')
      PROVE  i = n \/ i = n - 1 \/ (i = 1 /\ n = 3)
    BY <1>7
<1>9. /\ \A i \in 1 .. Len(todo') :
             /\ ~IsStatus(todo'[i])
             /\ ~Shows(todo'[i], {"DeviceFound", "ScanComplete"})
             /\ Shows(todo'[i], {"ScanStarted"}) => n > i
      /\ ScanIsLast(todo')
    BY <1>7, <1>8 DEF ScanIsLast, IsStatus, Shows
<1>10. n \in 1 .. Len(todo') /\ Resolves(todo'[n])
    BY <1>7 DEF Resolves
<1>11. ~NamesPicked(Head(cmdQ))
    BY DEF NamesPicked
<1> QED
    BY <1>1, <1>2, <1>9, <1>10, <1>11, TableStays, CommandKeepsUi

LEMMA TakesDisconnect ==
    ASSUME Holds, TypeOK', UiStill, ReceivesCommand, Head(cmdQ).kind = "Disconnect"
    PROVE  BridgeInv'
<1>1. /\ todo = <<>> /\ cmdQ # <<>> /\ cmdQ' = Tail(cmdQ)
      /\ UNCHANGED <<last_scan, evQ, slotQ, worker>>
      /\ Decide(plan_disconnect(manager), <<>>)
    BY DEF ReceivesCommand
<1> DEFINE S == OccupiedSlots(manager)
<1>2. UNCHANGED manager
    BY <1>1 DEF Decide, plan_disconnect, Decision
<1>3. todo' = DisconnectAll(S) \o <<>>
    BY <1>1 DEF Decide, plan_disconnect, Decision
<1>4. ConnectedSlots(manager) \subseteq S
    BY DEF ConnectedSlots, OccupiedSlots, is_occupied
<1> HIDE DEF S
<1>5. (S = {} /\ todo' = <<>>) \/ (S # {} /\ todo' = <<DisconnectSlots(S)>>)
    <2>1. CASE S = {}
        <3>1. DisconnectAll(S) = <<>>
            BY <2>1 DEF DisconnectAll
        <3> QED
            BY <1>3, <2>1, <3>1
    <2>2. CASE S # {}
        <3>1. DisconnectAll(S) = <<DisconnectSlots(S)>>
            BY <2>2 DEF DisconnectAll
        <3> QED
            BY <1>3, <2>2, <3>1
    <2> QED
        BY <2>1, <2>2
<1>6. /\ Len(todo') = 1 => /\ todo'[1].kind = "DisconnectSlots" /\ todo'[1].slots = S
                           /\ 1 \in DOMAIN todo'
      /\ Len(todo') = 0 \/ Len(todo') = 1
      /\ S # {} => Len(todo') = 1
    BY <1>5 DEF DisconnectSlots
<1>7. /\ \A i \in 1 .. Len(todo') :
             /\ ~IsStatus(todo'[i])
             /\ ~Shows(todo'[i], {"DeviceFound", "ScanComplete"})
             /\ ~Shows(todo'[i], {"ScanStarted"})
      /\ ScanIsLast(todo')
    BY <1>6 DEF ScanIsLast, IsStatus, Shows
<1>8. \A s \in ConnectedSlots(manager) : TakenDown(s)'
    BY <1>4, <1>6 DEF TakenDown
<1>9. ~NamesPicked(Head(cmdQ))
    BY DEF NamesPicked
<1> QED
    BY <1>1, <1>2, <1>7, <1>8, <1>9, TableStays, CommandKeepsUi

LEMMA TakesConnect ==
    ASSUME Holds, TypeOK', UiStill, ReceivesCommand, Head(cmdQ).kind = "Connect"
    PROVE  BridgeInv'
<1> DEFINE cmd == Head(cmdQ)
           d == plan_connect(manager, last_scan, cmd.index)
<1>1. /\ todo = <<>> /\ cmdQ # <<>> /\ cmdQ' = Tail(cmdQ)
      /\ UNCHANGED <<last_scan, evQ, slotQ, worker>>
      /\ Decide(d, <<>>) /\ TypeOK
    BY DEF ReceivesCommand, Holds, IInv
<1>2. cmd.index \in Nat /\ last_scan \in Seq(Address)
    BY <1>1, CommandTaken, BleCommandFields DEF TypeOK
<1>3. d.actions \in Seq(WorkItem)
    BY <1>2, IInvTyped, PlanConnectType DEF TypeInv, Decided, Holds
<1>4. manager' = d.manager /\ todo' = d.actions
    BY <1>1, <1>3 DEF Decide
<1>5. CASE /\ manager' = manager
           /\ todo' = <<>> \/ todo' = <<Emit(UiError("ConnectFailed"))>>
           /\ (todo' = <<>> /\ NamesPicked(cmd)) => Answered(todo', manager')
    <2>1. /\ Emit(UiError("ConnectFailed")).kind = "Emit"
          /\ Emit(UiError("ConnectFailed")).event.kind = "Error"
        BY DEF Emit, UiError
    <2>2. /\ Len(todo') = 0 \/ Len(todo') = 1
          /\ Len(todo') = 1 => todo'[1].kind = "Emit" /\ todo'[1].event.kind = "Error"
          /\ Len(todo') = 0 <=> todo' = <<>>
        BY <1>5, <2>1
    <2>3. /\ \A i \in 1 .. Len(todo') :
                 /\ ~IsStatus(todo'[i])
                 /\ ~Shows(todo'[i], {"DeviceFound", "ScanComplete"})
                 /\ ~Shows(todo'[i], {"ScanStarted"})
          /\ ScanIsLast(todo')
        BY <2>2 DEF ScanIsLast, IsStatus, Shows
    <2>4. NamesPicked(cmd) => Answered(todo', manager')
        BY <1>5, <2>2 DEF Answered, Resolves, Shows
    <2> QED
        BY <1>1, <1>5, <2>3, <2>4, TableStays, CommandKeepsUi
<1>6. CASE ConnectDecision(d, manager)
    <2>1. PICK s \in Slots, a \in Address :
             /\ ~is_occupied(manager[s])
             /\ manager' = reserve_slot(manager, s, a)
             /\ todo' = <<ConnectSlot(s, a)>>
        BY <1>4, <1>6 DEF ConnectDecision
    <2>2. Len(todo') = 1 /\ todo'[1].kind = "ConnectSlot"
        BY <2>1 DEF ConnectSlot
    <2>3. /\ \A i \in 1 .. Len(todo') :
                 /\ ~IsStatus(todo'[i])
                 /\ ~Shows(todo'[i], {"DeviceFound", "ScanComplete"})
                 /\ ~Shows(todo'[i], {"ScanStarted"})
          /\ ScanIsLast(todo')
        BY <2>2 DEF ScanIsLast, IsStatus, Shows
    <2>4. /\ LinkName' = LinkName
          /\ ConnectedSlots(manager') = ConnectedSlots(manager)
          /\ \A t \in Slots : manager[t].phase # "empty" => manager'[t] = manager[t]
          /\ manager'[s].phase = "connecting"
        BY <1>1, <2>1, ReserveKeeps
    <2>5. Answered(todo', manager')
        BY <2>4 DEF Answered
    <2> QED
        BY <1>1, <2>3, <2>4, <2>5, CommandKeepsUi
<1>7. CASE cmd.index + 1 \notin DOMAIN last_scan
    <2>1. manager' = manager /\ todo' = <<Emit(UiError("ConnectFailed"))>>
        BY <1>4, <1>7 DEF plan_connect, Decision
    <2> QED
        BY <1>5, <2>1
<1>8. CASE cmd.index + 1 \in DOMAIN last_scan /\ ~ConnectDecision(d, manager)
    <2> DEFINE a == last_scan[cmd.index + 1]
    <2>1. CASE is_connected_address(manager, a)
        <3>1. manager' = manager /\ todo' = <<>>
            BY <1>4, <1>8, <2>1 DEF plan_connect, Decision
        <3>2. PICK s \in Slots : is_occupied(manager[s]) /\ manager[s].address = a
            BY <2>1 DEF is_connected_address
        <3>3. NamesPicked(cmd) => a = picked
            BY DEF NamesPicked
        <3>4. NamesPicked(cmd) => Answered(todo', manager')
            BY <3>1, <3>2, <3>3 DEF Answered, ConnectedSlots, is_occupied
        <3> QED
            BY <1>5, <3>1, <3>4
    <2>2. CASE ~is_connected_address(manager, a) /\ find_empty_slot(manager) = {}
        <3>1. manager' = manager /\ todo' = <<Emit(UiError("ConnectFailed"))>>
            BY <1>4, <1>8, <2>2 DEF plan_connect, Decision
        <3> QED
            BY <1>5, <3>1
    <2>3. CASE ~is_connected_address(manager, a) /\ find_empty_slot(manager) # {}
        <3> DEFINE s == CHOOSE s \in find_empty_slot(manager) : TRUE
        <3>1. s \in Slots /\ ~is_occupied(manager[s]) /\ a \in Address
            BY <1>2, <1>8, <2>3, FoundSlot
        <3>2. d = Decision(reserve_slot(manager, s, a), <<ConnectSlot(s, a)>>)
            BY <1>8, <2>3 DEF plan_connect
        <3> HIDE DEF s, a, d
        <3>3. /\ d.manager = reserve_slot(manager, s, a)
              /\ d.actions = <<ConnectSlot(s, a)>>
            BY <3>2 DEF Decision
        <3> QED
            BY <1>8, <2>3, <3>1, <3>3 DEF ConnectDecision
    <2> QED
        BY <2>1, <2>2, <2>3
<1> QED
    BY <1>6, <1>7, <1>8

LEMMA ReceivesCommandKeepsUi ==
    ASSUME Holds, TypeOK', UiStill, ReceivesCommand
    PROVE  BridgeInv'
<1>1. cmdQ # <<>> /\ TypeOK
    BY DEF ReceivesCommand, Holds, IInv
<1>2. Head(cmdQ).kind \in {"StartScan", "Connect", "Disconnect"}
    BY <1>1, CommandTaken, BleCommandFields
<1> QED
    BY <1>2, TakesStartScan, TakesDisconnect, TakesConnect

----------------------------------------------------------------------------
(* The coordinator takes a slot event: it always says how the links are.   *)

LEMMA NoLinkCount ==
    \A m : active_count(m) = 0 <=> ConnectedSlots(m) = {}
<1> TAKE m
<1>1. IsFiniteSet(ConnectedSlots(m))
    BY SlotsFinite, FS_Subset DEF ConnectedSlots
<1> QED
    BY <1>1, FS_EmptySet DEF active_count

\* Of the links m an event says what the screen is to show.
Says(event, m) ==
    \/ event.kind = "Connected" /\ event.summary = connection_summary(m)
         /\ ConnectedSlots(m) # {}
    \/ event.kind = "Disconnected" /\ ConnectedSlots(m) = {}

LEMMA StatusSays == \A m : Says(LinkStatus(m), m)
BY NoLinkCount DEF Says, LinkStatus, UiConnected, UiDisconnected

LEMMA SaidKeepsUi ==
    ASSUME Holds, TypeOK', UiStill, todo = <<>>, cmdQ = <<>>,
           UNCHANGED <<last_scan, cmdQ, evQ, slotQ, worker>>,
           NEW n \in Nat \ {0}, Len(todo') = n,
           todo'[n].kind = "Emit", Says(todo'[n].event, manager'),
           \A i \in 1 .. n - 1 : todo'[i].kind = "PersistDevice" \/ Shows(todo'[i], {"Error"})
    PROVE  BridgeInv'
<1> DEFINE items == todo'
           k == Len(evQ)
<1>1. /\ TypeOK /\ UiTypeOK /\ ScreenInv /\ RowsInv /\ ListInv /\ StartsInv
      /\ ui' = ui
    BY DEF Holds, IInv, BridgeInv, UiStill
<1>2. Len(todo) = 0 /\ Count = k /\ k \in Nat
    BY <1>1, ComingItems
<1>3. EndsIn(k, items) /\ items \in Seq(WorkItem) /\ Len(items) = n
    BY <1>1, <1>2, HandlingEnds DEF TypeOK
<1>4. IsStatus(items[n]) /\ NameIn(items[n].event) = LinkName'
    BY NoLinkCount DEF Says, IsStatus, Shows, NameIn, LinkName
<1>5. ASSUME NEW i \in 1 .. Len(items)
      PROVE  /\ items[i].kind \notin {"Boot", "Scan"}
             /\ ~Shows(items[i], {"DeviceFound", "ScanComplete"})
             /\ ~Shows(items[i], {"ScanStarted"})
    <2>1. CASE i = n
        BY <2>1 DEF Says, Shows
    <2>2. CASE i # n
        <3>1. i \in 1 .. n - 1
            BY <1>3, <2>2
        <3> QED
            BY <3>1 DEF Shows
    <2> QED
        BY <2>1, <2>2
<1>6. n \in 1 .. Len(items) /\ items # <<>> /\ Resolves(items[n])
    BY <1>3, <1>4 DEF IsStatus, Resolves, Shows
<1>7. Shows(items[n], {"Connected"}) \/ ConnectedSlots(manager') = {}
    BY DEF Says, Shows
<1>8. ui.screen = "Connected" => ui.connected_name # NoName
    BY <1>1 DEF ScreenInv
<1> HIDE DEF items, k
<1>9. k + n \in DOMAIN Coming' /\ Coming'[k + n] = items[n]
    BY <1>2, <1>3, NextItems DEF EndsIn
<1>10. \A i \in k + 1 .. Count : FALSE
    BY <1>2
<1>11. StatusInv'
    BY <1>1, <1>3, <1>4, <1>6, StatusSaid
<1>12. RowsInv'
    BY <1>1, <1>3, <1>5, <1>10, RowsEnd
<1>13. ListInv'
    BY <1>1, <1>3, <1>10, ListEnd
<1>14. ScanInv'
    BY <1>1, <1>3, <1>5, ScanEnd DEF ScanIsLast
<1>15. StartsInv'
    BY <1>1, <1>3, <1>5, <1>10, StartsEnd
<1>16. ScreenInv'
    BY <1>1, <1>7, <1>8, <1>9 DEF ScreenInv
<1>17. WaitInv'
    BY <1>6, <1>9 DEF WaitInv
<1>18. UiTypeOK'
    BY <1>1 DEF UiTypeOK
<1> QED
    BY <1>11, <1>12, <1>13, <1>14, <1>15, <1>16, <1>17, <1>18 DEF BridgeInv

LEMMA ReceivesSlotEventKeepsUi ==
    ASSUME Holds, TypeOK', UiStill, ReceivesSlotEvent
    PROVE  BridgeInv'
<1> DEFINE e == Head(slotEvQ)
<1>1. /\ todo = <<>> /\ cmdQ = <<>> /\ slotEvQ # <<>>
      /\ UNCHANGED <<last_scan, cmdQ, evQ, slotQ, worker>> /\ TypeOK
    BY DEF ReceivesSlotEvent, Holds, IInv
<1>2. /\ e.kind \in {"Connected", "Disconnected", "Error"} /\ e.slot \in Slots
    BY <1>1, SlotEventFields, PopType DEF TypeOK
<1>3. CASE e.kind = "Connected"
    <2> DEFINE m == connect_slot(manager, e.slot, e.device)
               said == UiConnected(connection_summary(m))
    <2>1. manager' = m /\ todo' = <<PersistDevice(e.device), Emit(said)>> \o <<>>
        BY <1>3 DEF ReceivesSlotEvent, Decide, on_slot_connected, Decision
    <2>2. e.slot \in ConnectedSlots(m)
        BY <1>1, <1>2 DEF connect_slot, ConnectedSlots, TypeOK
    <2>3. Says(said, m)
        BY <2>2 DEF Says, UiConnected
    <2> HIDE DEF m, said
    <2>4. todo' = <<PersistDevice(e.device), Emit(said)>>
        BY <2>1
    <2>5. /\ Len(todo') = 2 /\ todo'[1].kind = "PersistDevice"
          /\ todo'[2].kind = "Emit" /\ todo'[2].event = said
        BY <2>4 DEF PersistDevice, Emit
    <2>6. \A i \in 1 .. 2 - 1 : todo'[i].kind = "PersistDevice"
        BY <2>5
    <2> QED
        BY <1>1, <2>1, <2>3, <2>5, <2>6, SaidKeepsUi
<1>4. CASE e.kind = "Disconnected"
    <2> DEFINE m == disconnect_slot(manager, e.slot)
               said == LinkStatus(m)
    <2>1. manager' = m /\ todo' = <<Emit(said)>> \o <<>>
        BY <1>4 DEF ReceivesSlotEvent, Decide, on_slot_disconnected, Decision
    <2>3. Says(said, m)
        BY StatusSays
    <2> HIDE DEF m, said
    <2>4. todo' = <<Emit(said)>>
        BY <2>1
    <2>5. Len(todo') = 1 /\ todo'[1].kind = "Emit" /\ todo'[1].event = said
        BY <2>4 DEF Emit
    <2>6. \A i \in 1 .. 1 - 1 : FALSE
        OBVIOUS
    <2> QED
        BY <1>1, <2>1, <2>3, <2>5, <2>6, SaidKeepsUi
<1>5. CASE e.kind = "Error"
    <2> DEFINE m == disconnect_slot(manager, e.slot)
               said == LinkStatus(m)
    <2>1. manager' = m /\ todo' = <<Emit(UiError(e.tag)), Emit(said)>> \o <<>>
        BY <1>5 DEF ReceivesSlotEvent, Decide, on_slot_error, Decision
    <2>3. Says(said, m)
        BY StatusSays
    <2> HIDE DEF m, said
    <2>4. todo' = <<Emit(UiError(e.tag)), Emit(said)>>
        BY <2>1
    <2>5. /\ Len(todo') = 2 /\ Shows(todo'[1], {"Error"})
          /\ todo'[2].kind = "Emit" /\ todo'[2].event = said
        BY <2>4 DEF Emit, UiError, Shows
    <2>6. \A i \in 1 .. 2 - 1 : Shows(todo'[i], {"Error"})
        BY <2>5
    <2> QED
        BY <1>1, <2>1, <2>3, <2>5, <2>6, SaidKeepsUi
<1> QED
    BY <1>2, <1>3, <1>4, <1>5

----------------------------------------------------------------------------
(* The whole system.                                                       *)

LEMMA BridgeInitHolds == BridgeInit => Holds
<1> SUFFICES ASSUME BridgeInit PROVE Holds
    OBVIOUS
<1>1. IInv /\ Init /\ ui = InitialUi
    BY InitHolds DEF BridgeInit
<1>2. TypeOK /\ manager = NewManager /\ last_scan = <<>> /\ todo = <<Boot>> /\ evQ = <<>>
    BY <1>1 DEF IInv, Init
<1>3. /\ Len(todo) = 1 /\ Len(evQ) = 0 /\ todo[1].kind = "Boot" /\ Len(last_scan) = 0
    BY <1>2 DEF Boot
<1>4. DOMAIN Coming = {1} /\ Coming[1].kind = "Boot"
    <2>1. Count = 1
        BY <1>2, <1>3, ComingItems
    <2>2. Coming[Len(evQ) + 1] = todo[1]
        BY <1>2, <1>3, ComingItems
    <2> QED
        BY <1>2, <1>3, <2>1, <2>2, ComingItems
<1>5. \A i \in DOMAIN Coming : \A kinds : ~Shows(Coming[i], kinds)
    BY <1>4 DEF Shows
<1>6. ConnectedSlots(manager) = {}
    BY <1>2 DEF ConnectedSlots, NewManager, EmptySlot
<1>7. LinkName = NoName
    BY <1>6, NoLinkCount DEF LinkName
<1>8. /\ ui.screen = "Home" /\ ui.connected_name = NoName
    BY <1>1 DEF InitialUi
<1>9. UiTypeOK
    <2>1. MaxRows \in Nat
        BY RowsAssumption, CapacityAssumption
    <2>2. <<>> \in Seq(Address) /\ Len(<<>>) = 0 /\ 0 \in 0 .. MaxRows
        BY <2>1
    <2> QED
        BY <1>1, <2>1, <2>2 DEF UiTypeOK, Ui, InitialUi, Screen
<1>10. StatusInv
    BY <1>5, <1>7, <1>8 DEF StatusInv, IsStatus
<1>11. ScreenInv
    BY <1>8 DEF ScreenInv
<1>12. RowsInv
    BY <1>3, <1>5, CapacityAssumption DEF RowsInv
<1>13. ListInv /\ WaitInv
    BY <1>8 DEF ListInv, WaitInv
<1>14. ScanInv
    BY <1>4 DEF ScanInv
<1>15. StartsInv
    BY <1>5 DEF StartsInv
<1> QED
    BY <1>1, <1>9, <1>10, <1>11, <1>12, <1>13, <1>14, <1>15 DEF Holds, BridgeInv

\* A step of the device is a step of the connection manager or leaves it alone.
LEMMA BridgeStep ==
    ASSUME Holds, [BridgeNext]_bridgeVars
    PROVE  [Next]_vars
<1>1. CASE UNCHANGED bridgeVars
    BY <1>1 DEF bridgeVars, vars
<1>2. ASSUME NEW btn \in ButtonEvent, UiTakesButton(btn) PROVE UNCHANGED vars
    BY <1>2 DEF UiTakesButton
<1>3. CASE UiSendsCommand
    <2>1. ui.command \in BleCommand
        BY <1>3 DEF Holds, BridgeInv, UiTypeOK, Ui, UiSendsCommand, UiLoops
    <2> QED
        BY <1>3, <2>1 DEF UiSendsCommand, Next
<1>4. CASE UiTakesEvent
    BY <1>4 DEF UiTakesEvent, Next
<1>5. CASE BleStep
    BY <1>5 DEF Next
<1> QED
    BY <1>1, <1>2, <1>3, <1>4, <1>5 DEF BridgeNext, SystemStep

LEMMA CoordinatorKeepsUi ==
    ASSUME Holds, TypeOK', UiStill, CoordinatorStep
    PROVE  BridgeInv'
BY BootLoadsPeersKeepsUi, ScanFindsKeepsUi, ScanFailsKeepsUi, BootReservesKeepsUi,
   SendsConnectKeepsUi, SendsDisconnectKeepsUi, PersistsKeepsUi, EmitsKeepsUi,
   ReceivesCommandKeepsUi, ReceivesSlotEventKeepsUi DEF CoordinatorStep

LEMMA StutterKeepsUi ==
    ASSUME Holds, UNCHANGED bridgeVars
    PROVE  BridgeInv'
<1>1. /\ UNCHANGED <<manager, last_scan, todo, cmdQ, evQ, slotQ, slotEvQ, worker, ui, picked>>
      /\ BridgeInv
    BY DEF bridgeVars, Holds
<1>2. Coming' = Coming /\ LinkName' = LinkName
    BY <1>1, ManagerFrame DEF Coming
<1>3. UiTypeOK' /\ StatusInv' /\ RowsInv' /\ ScanInv' /\ StartsInv'
    BY <1>1, <1>2 DEF BridgeInv, UiTypeOK, StatusInv, RowsInv, RowsEndAt, Newest, ScanInv, StartsInv
<1>4. ListInv' /\ ScreenInv'
    BY <1>1, <1>2 DEF BridgeInv, ListInv, ScreenInv, TakenDown, At
<1>5. WaitInv'
    BY <1>1, <1>2 DEF BridgeInv, WaitInv, LastCommandNamesPicked, NamesPicked
<1> QED
    BY <1>3, <1>4, <1>5 DEF BridgeInv

LEMMA BridgeKeeps ==
    ASSUME Holds, [BridgeNext]_bridgeVars
    PROVE  Holds'
<1>1. [Next]_vars
    BY BridgeStep
<1>2. IInv'
    BY <1>1, NextKeeps DEF Holds
<1>3. TypeOK'
    BY <1>2 DEF IInv
<1> SUFFICES BridgeInv'
    BY <1>2 DEF Holds
<1>4. CASE UNCHANGED bridgeVars
    BY <1>4, StutterKeepsUi
<1>5. ASSUME NEW btn \in ButtonEvent, UiTakesButton(btn) PROVE BridgeInv'
    BY <1>3, <1>5, TakesButtonKeeps
<1>6. CASE UiSendsCommand
    BY <1>3, <1>6, SendsCommandKeeps
<1>7. CASE UiTakesEvent
    BY <1>3, <1>7, TakesEventKeeps
<1>8. CASE BleStep /\ UNCHANGED <<ui, picked>>
    <2>1. UiStill
        BY <1>8 DEF UiStill
    <2> QED
        BY <1>3, <1>8, <2>1, CoordinatorKeepsUi, WorkerStepKeeps DEF BleStep
<1> QED
    BY <1>4, <1>5, <1>6, <1>7, <1>8 DEF BridgeNext, SystemStep

\* The connection manager keeps its invariant under the real UI loop, and
\* what the UI shows, what is on its way to it and what the coordinator
\* holds fit together after every step of any task.
THEOREM BridgeInductive == BridgeSpec => []Holds
<1> QED
    BY BridgeInitHolds, BridgeKeeps, PTL DEF BridgeSpec

\* The device behaves as the connection manager of module MultiConn does with
\* an arbitrary UI: the UI loop of main.rs sends no command it does not allow
\* for, so all that is proved of the manager holds of the device.
THEOREM BridgeImplementsMultiConn == BridgeSpec => Spec
<1>1. BridgeInit => Init
    BY DEF BridgeInit
<1> QED
    BY <1>1, BridgeInductive, BridgeStep, PTL DEF BridgeSpec, Spec

LEMMA NothingComes ==
    ASSUME Holds, Quiescent
    PROVE  /\ DOMAIN Coming = {} /\ DOMAIN cmdQ = {} /\ cmdQ = <<>>
           /\ ui.command = NoCommand /\ todo = <<>>
<1>1. /\ evQ = <<>> /\ todo = <<>> /\ cmdQ = <<>> /\ ui.command = NoCommand
    BY DEF Quiescent, UiLoops
<1>2. Len(evQ) = 0 /\ Len(todo) = 0
    BY <1>1
<1>3. Count = 0
    BY <1>2, ComingItems DEF Holds, IInv
<1>4. DOMAIN Coming = 1 .. 0
    BY <1>3, ComingItems DEF Holds, IInv
<1> QED
    BY <1>1, <1>4

LEMMA StatusIsShown == Holds => StatusIsTruthful
<1> SUFFICES ASSUME Holds, Quiescent PROVE ui.connected_name = LinkName
    BY DEF StatusIsTruthful, LinkName
<1> QED
    BY NothingComes DEF Holds, BridgeInv, StatusInv

\* Once all messages are handled the screen names the links that are up, and
\* no others, after any run of presses, connections and failures.
THEOREM StatusAgreesWithLinks == BridgeSpec => []StatusIsTruthful
<1> QED
    BY BridgeInductive, StatusIsShown, PTL

LEMMA ScreenIsShown == Holds => ScreenIsTruthful
<1> SUFFICES ASSUME Holds, Quiescent PROVE ScreenIsTruthful
    BY DEF ScreenIsTruthful
<1>1. ui.connected_name = LinkName
    BY NothingComes DEF Holds, BridgeInv, StatusInv
<1>2. ScreenInv /\ TypeOK
    BY DEF Holds, BridgeInv, IInv
<1>3. ASSUME ui.screen = "Connected" PROVE active_count(manager) > 0
    <2>1. active_count(manager) # 0
        BY <1>1, <1>2, <1>3 DEF ScreenInv, LinkName
    <2>2. active_count(manager) \in Nat
        BY ActiveCountType
    <2> QED
        BY <2>1, <2>2
<1>4. ASSUME ui.screen = "Home", NEW s \in ConnectedSlots(manager)
      PROVE  slotQ[s] # <<>> \/ ~At(s, "running")
    <2>1. active_count(manager) # 0
        BY <1>4, NoLinkCount
    <2>2. connection_summary(manager) # NoName
        <3>1. connection_summary(manager) \in Address \cup (0 .. MAX_CONNECTIONS)
            <4>1. manager \in [Slots -> Slot]
                BY <1>2 DEF TypeOK
            <4>2. \A t \in Slots : manager[t].phase # "empty" => manager[t].address \in Address
                BY <4>1 DEF Holds, IInv, SlotInv, Slot
            <4> QED
                BY <4>1, <4>2, SummaryType
        <3> QED
            BY <3>1, MarkersAssumption
    <2>3. TakenDown(s)
        <3>1. ui.connected_name # NoName
            BY <1>1, <2>1, <2>2 DEF LinkName
        <3>2. ui.command # Disconnect
            BY NothingComes, CommandTypes, MarkersAssumption DEF Disconnect
        <3> QED
            BY <1>2, <1>4, <3>1, <3>2, NothingComes DEF ScreenInv
    <2> QED
        BY <2>3, NothingComes DEF TakenDown
<1> QED
    BY <1>3, <1>4 DEF ScreenIsTruthful

\* The Connected screen is never left over from a link that is gone, and the
\* Home screen hides no link that nobody is taking down.
THEOREM ScreenAgreesWithLinks == BridgeSpec => []ScreenIsTruthful
<1> QED
    BY BridgeInductive, ScreenIsShown, PTL

LEMMA ListIsShown == Holds => ListIsCurrent
<1> SUFFICES ASSUME Holds, Quiescent PROVE ListIsCurrent
    BY DEF ListIsCurrent
<1> QED
    BY NothingComes DEF Holds, BridgeInv, ListInv, ListIsCurrent

\* The rows on the screen are those a Connect(index) will be looked up in,
\* however scans, links and presses overlapped.
THEOREM ListAgreesWithScan == BridgeSpec => []ListIsCurrent
<1> QED
    BY BridgeInductive, ListIsShown, PTL

LEMMA WaitIsExplained == Holds => ScanningIsExplained
<1> SUFFICES ASSUME Holds, Quiescent, ui.screen = "Scanning"
             PROVE  \/ \E s \in Slots : manager[s].phase = "connecting"
                    \/ \E s \in ConnectedSlots(manager) : manager[s].address = picked
    BY DEF ScanningIsExplained
<1>1. ui.command # StartScan
    BY NothingComes, CommandTypes, MarkersAssumption DEF StartScan
<1>2. ~LastCommandNamesPicked
    BY NothingComes DEF LastCommandNamesPicked
<1> QED
    BY <1>1, <1>2, NothingComes DEF Holds, BridgeInv, WaitInv

\* The UI rests on the Scanning screen only while a slot is connecting, or
\* because the device picked was connected already.
THEOREM WaitingHasAReason == BridgeSpec => []ScanningIsExplained
<1> QED
    BY BridgeInductive, WaitIsExplained, PTL

----------------------------------------------------------------------------
(* The simulator's script (module SimTarget).                              *)

\* Who is linked when step k of the script is next.
LinkedAt(k) == (IF k \in {1, 2} THEN {0} ELSE {}) \cup (IF k \in {2, 3} THEN {1} ELSE {})

TableAt(k) ==
    [s \in Slots |-> IF s \in LinkedAt(k)
                       THEN [address |-> IF s = 0 THEN Keyboard ELSE Mouse,
                             phase |-> "connected"]
                       ELSE EmptySlot]

ScriptInv == step \in 0 .. 3 /\ table = TableAt(step) /\ ScriptRunsAsWritten

\* There are two slots at least.
LEMMA TwoSlots ==
    /\ 0 \in Slots /\ 1 \in Slots /\ Slots \subseteq Nat
    /\ MAX_CONNECTIONS \in Nat /\ 2 <= MAX_CONNECTIONS
BY MaxConnectionsAssumption, SimAssumption DEF Slots

LEMMA LinkedSlots ==
    /\ LinkedAt(0) = {} /\ LinkedAt(1) = {0} /\ LinkedAt(2) = {0, 1} /\ LinkedAt(3) = {1}
    /\ \A k \in 0 .. 3 : LinkedAt(k) \subseteq Slots
BY TwoSlots DEF LinkedAt

LEMMA Concatenated ==
    ASSUME NEW x, NEW y, NEW z
    PROVE  /\ (<<>> \o <<y>>) \o <<z>> = <<y, z>>
           /\ <<x>> \o <<y, z>> = <<x, y, z>>
<1> DEFINE S == {x, y, z}
           two == <<y>> \o <<z>>
           three == <<x>> \o <<y, z>>
<1>1. /\ <<y>> \in Seq(S) /\ <<z>> \in Seq(S) /\ <<x>> \in Seq(S)
      /\ <<y, z>> \in Seq(S) /\ <<x, y, z>> \in Seq(S)
    OBVIOUS
<1>2. <<>> \o <<y>> = <<y>>
    BY <1>1, ConcatEmptySeq
<1>3. two = <<y, z>>
    <2>1. two \in Seq(S) /\ Len(two) = 2 /\ two[1] = y /\ two[2] = z
        BY <1>1, ConcatProperties
    <2> HIDE DEF two
    <2> QED
        BY <1>1, <2>1, SeqEqual
<1>4. three = <<x, y, z>>
    <2>1. three \in Seq(S) /\ Len(three) = 3 /\ three[1] = x /\ three[2] = y /\ three[3] = z
        BY <1>1, ConcatProperties
    <2> HIDE DEF three
    <2> QED
        BY <1>1, <2>1, SeqEqual
<1> QED
    BY <1>2, <1>3, <1>4, Zenon

LEMMA TableLinks ==
    ASSUME NEW k \in 0 .. 3
    PROVE  ConnectedSlots(TableAt(k)) = LinkedAt(k) /\ OccupiedSlots(TableAt(k)) = LinkedAt(k)
BY LinkedSlots DEF ConnectedSlots, OccupiedSlots, is_occupied, TableAt, EmptySlot

LEMMA LinkCounts ==
    /\ active_count(TableAt(0)) = 0 /\ active_count(TableAt(1)) = 1
    /\ active_count(TableAt(2)) = 2 /\ active_count(TableAt(3)) = 1
<1>1. /\ active_count(TableAt(0)) = Cardinality({})
      /\ active_count(TableAt(1)) = Cardinality({0})
      /\ active_count(TableAt(2)) = Cardinality({0, 1})
      /\ active_count(TableAt(3)) = Cardinality({1})
    BY TableLinks, LinkedSlots DEF active_count
<1>2. Cardinality({}) = 0 /\ Cardinality({0}) = 1 /\ Cardinality({1}) = 1 /\ IsFiniteSet({0})
    BY FS_EmptySet, FS_Singleton
<1>3. Cardinality({0} \cup {1}) = Cardinality({0}) + 1
    <2>1. 1 \notin {0}
        OBVIOUS
    <2> QED
        BY <1>2, <2>1, FS_AddElement
<1>4. {0} \cup {1} = {0, 1}
    OBVIOUS
<1> QED
    BY <1>1, <1>2, <1>3, <1>4

LEMMA Summaries ==
    /\ connection_summary(TableAt(1)) = Keyboard
    /\ connection_summary(TableAt(2)) = 2
    /\ connection_summary(TableAt(3)) = Mouse
<1>1. /\ ConnectedSlots(TableAt(1)) = {0} /\ ConnectedSlots(TableAt(2)) = {0, 1}
      /\ ConnectedSlots(TableAt(3)) = {1}
    BY TableLinks, LinkedSlots
<1>2. TableAt(1)[0].address = Keyboard /\ TableAt(3)[1].address = Mouse
    BY TwoSlots, LinkedSlots DEF TableAt
<1>3. connection_summary(TableAt(1)) = Keyboard
    <2>1. (CHOOSE s \in Slots : ConnectedSlots(TableAt(1)) = {s}) = 0
        BY <1>1, TwoSlots
    <2>2. \E s \in Slots : ConnectedSlots(TableAt(1)) = {s}
        BY <1>1, TwoSlots
    <2> QED
        BY <1>2, <2>1, <2>2, Zenon DEF connection_summary
<1>4. connection_summary(TableAt(3)) = Mouse
    <2>1. (CHOOSE s \in Slots : ConnectedSlots(TableAt(3)) = {s}) = 1
        BY <1>1, TwoSlots
    <2>2. \E s \in Slots : ConnectedSlots(TableAt(3)) = {s}
        BY <1>1, TwoSlots
    <2> QED
        BY <1>2, <2>1, <2>2, Zenon DEF connection_summary
<1>5. connection_summary(TableAt(2)) = 2
    <2>1. ~ \E s \in Slots : ConnectedSlots(TableAt(2)) = {s}
        BY <1>1
    <2>2. connection_summary(TableAt(2)) = active_count(TableAt(2))
        BY <2>1, Zenon DEF connection_summary
    <2> QED
        BY <2>2, LinkCounts
<1> QED
    BY <1>3, <1>4, <1>5

\* A device is linked to the first slot that is free.
LEMMA ConnectsNext ==
    ASSUME NEW k \in {0, 1}, table = TableAt(k)
    PROVE  LET a == IF k = 0 THEN Keyboard ELSE Mouse
           IN  Connects(k) =
                 Decision(TableAt(k + 1),
                          <<ConnectSlot(k, a), PersistDevice(a),
                            Emit(UiConnected(connection_summary(TableAt(k + 1))))>>)
<1> DEFINE a == IF k = 0 THEN Keyboard ELSE Mouse
           plan == plan_connect(table, devices, k)
           asked == <<ConnectSlot(k, a)>>
           requests == {i \in DOMAIN plan.actions : plan.actions[i].kind = "ConnectSlot"}
           m == reserve_slot(TableAt(k), k, a)
<1>1. k \in Slots /\ k + 1 \in DOMAIN devices /\ devices[k + 1] = a
    BY TwoSlots DEF devices
<1>2. ~ is_connected_address(table, a)
    <2>1. \A s \in LinkedAt(k) : s = 0 /\ k = 1
        BY LinkedSlots
    <2>2. OccupiedSlots(table) = LinkedAt(k)
        BY TableLinks
    <2>3. \A s \in Slots : is_occupied(table[s]) => s \in LinkedAt(k)
        BY <2>2 DEF OccupiedSlots
    <2>4. k = 1 => table[0].address = Keyboard
        BY TwoSlots, LinkedSlots DEF TableAt
    <2> QED
        BY <2>1, <2>3, <2>4, SimAssumption DEF is_connected_address
<1>3. find_empty_slot(table) = {k}
    <2>1. OccupiedSlots(table) = LinkedAt(k)
        BY TableLinks
    <2>2. \A s \in Slots : s \in Nat
        BY TwoSlots
    <2>3. \A s \in Slots : s \notin LinkedAt(k) => k <= s
        BY <2>2, LinkedSlots
    <2>4. k \notin LinkedAt(k)
        BY LinkedSlots
    <2>5. \A s \in Slots \ LinkedAt(k) : k <= s
        BY <2>3
    <2>6. \A s \in Slots \ LinkedAt(k) : s <= k => s = k
        BY <2>2, <2>5
    <2>7. k \in Slots \ LinkedAt(k)
        BY <1>1, <2>4
    <2>8. find_empty_slot(table)
            = {s \in Slots \ LinkedAt(k) : \A t \in Slots \ LinkedAt(k) : s <= t}
        BY <2>1, Zenon DEF find_empty_slot
    <2> QED
        BY <2>5, <2>6, <2>7, <2>8
<1>4. plan = Decision(m, asked)
    <2>1. (CHOOSE s \in find_empty_slot(table) : TRUE) = k
        BY <1>3
    <2>2. find_empty_slot(table) # {}
        BY <1>3
    <2> QED
        BY <1>1, <1>2, <2>1, <2>2, Zenon DEF plan_connect
<1>5. requests = {1} /\ plan.actions = asked /\ plan.manager = m
    BY <1>4 DEF Decision, ConnectSlot
<1>6. connect_slot(m, k, a) = TableAt(k + 1)
    <2>1. \A s \in Slots : s \in LinkedAt(k + 1) <=> (s \in LinkedAt(k) \/ s = k)
        BY LinkedSlots
    <2>2. k \notin LinkedAt(k) /\ a = (IF k = 0 THEN Keyboard ELSE Mouse)
        BY LinkedSlots
    <2>3. k \in {0, 1}
        OBVIOUS
    <2> HIDE DEF a
    <2> QED
        BY <1>1, <2>1, <2>2, <2>3 DEF connect_slot, reserve_slot, TableAt
<1>7. plan.actions[CHOOSE i \in requests : TRUE] = ConnectSlot(k, a)
    BY <1>5
<1>8. /\ plan.actions[CHOOSE i \in requests : TRUE].slot = k
      /\ plan.actions[CHOOSE i \in requests : TRUE].device = a
    BY <1>7 DEF ConnectSlot
<1>9. on_slot_connected(m, k, a)
        = Decision(TableAt(k + 1),
                   <<PersistDevice(a), Emit(UiConnected(connection_summary(TableAt(k + 1))))>>)
    BY <1>6, Zenon DEF on_slot_connected
<1> DEFINE done == on_slot_connected(m, k, a)
<1>a. Connects(k) = Decision(done.manager, plan.actions \o done.actions)
    <2>1. requests # {}
        BY <1>5
    <2> QED
        BY <1>5, <1>8, <2>1, Zenon DEF Connects
<1>b. done.manager = TableAt(k + 1) /\
      plan.actions \o done.actions
        = <<ConnectSlot(k, a), PersistDevice(a),
            Emit(UiConnected(connection_summary(TableAt(k + 1))))>>
    <2>1. /\ done.manager = TableAt(k + 1)
          /\ done.actions = <<PersistDevice(a),
                              Emit(UiConnected(connection_summary(TableAt(k + 1))))>>
        BY <1>9 DEF Decision
    <2> QED
        BY <1>5, <2>1, Concatenated, Zenon
<1> QED
    BY <1>a, <1>b, Zenon

\* What holds at 0, and at each number if at the one before, holds up to n.
LEMMA OneByOne ==
    ASSUME NEW n \in Nat, NEW S, 0 \in S, \A i \in 1 .. n : i - 1 \in S => i \in S
    PROVE  \A i \in 0 .. n : i \in S
<1> DEFINE R == OpToRel(<, Nat)
           missing == {i \in 0 .. n : i \notin S}
<1> SUFFICES ASSUME missing # {} PROVE FALSE
    OBVIOUS
<1>1. IsWellFoundedOn(R, Nat)
    BY NatLessThanWellFounded
<1>2. missing \in SUBSET Nat
    OBVIOUS
<1> HIDE DEF R, missing
<1>3. PICK i \in missing : \A j \in missing : ~ (<<j, i>> \in R)
    BY <1>1, <1>2, WFMin
<1>4. \A j \in missing : ~ (j < i)
    BY <1>2, <1>3 DEF R, OpToRel
<1>5. i \in 1 .. n /\ i - 1 \in 0 .. n /\ i - 1 < i /\ i \notin S
    BY DEF missing
<1> QED
    BY <1>4, <1>5 DEF missing

\* The first slot's link goes.
LEMMA FirstGoes ==
    ASSUME table = TableAt(2)
    PROVE  LosesLink = Decision(TableAt(3), <<Emit(UiConnected(Mouse))>>)
<1>1. disconnect_slot(TableAt(2), 0) = TableAt(3)
    BY TwoSlots, LinkedSlots DEF disconnect_slot, TableAt
<1>2. LinkStatus(TableAt(3)) = UiConnected(Mouse)
    BY LinkCounts, Summaries DEF LinkStatus
<1> QED
    BY <1>1, <1>2, Zenon DEF LosesLink, on_slot_disconnected

\* And then every other.
LEMMA RestGoes ==
    ASSUME table = TableAt(3)
    PROVE  DisconnectsEach
             = Decision(TableAt(0), <<DisconnectSlots({1}), Emit(UiDisconnected)>>)
<1> DEFINE plan == plan_disconnect(table)
           slots == UNION {plan.actions[k].slots : k \in DOMAIN plan.actions}
           next(d, n) == Decision(on_slot_disconnected(d.manager, n).manager,
                                  d.actions \o <<DisconnectSlots({n})>>
                                    \o on_slot_disconnected(d.manager, n).actions)
           Frees(f) ==
             f = [n \in 0 .. MAX_CONNECTIONS |->
                    IF n = 0 THEN Decision(plan.manager, <<>>)
                    ELSE IF n - 1 \notin slots THEN f[n - 1]
                    ELSE next(f[n - 1], n - 1)]
           freed == CHOOSE f : Frees(f)
           start == Decision(table, <<>>)
           end == Decision(TableAt(0), <<DisconnectSlots({1}), Emit(UiDisconnected)>>)
           told == [n \in 0 .. MAX_CONNECTIONS |-> IF n <= 1 THEN start ELSE end]
<1>1. plan = Decision(table, <<DisconnectSlots({1})>>)
    <2>1. OccupiedSlots(table) = {1}
        BY TableLinks, LinkedSlots
    <2> QED
        BY <2>1 DEF plan_disconnect, DisconnectAll
<1>2. plan.manager = table /\ slots = {1}
    <2>1. plan.actions = <<DisconnectSlots({1})>> /\ plan.manager = table
        BY <1>1 DEF Decision
    <2>2. DisconnectSlots({1}).slots = {1}
        BY DEF DisconnectSlots
    <2> HIDE DEF plan
    <2> QED
        BY <2>1, <2>2
<1>3. DisconnectsEach = freed[MAX_CONNECTIONS]
    BY Zenon DEF DisconnectsEach
<1>4. next(start, 1) = end
    <2>1. disconnect_slot(TableAt(3), 1) = TableAt(0)
        BY TwoSlots, LinkedSlots DEF disconnect_slot, TableAt
    <2>2. LinkStatus(TableAt(0)) = UiDisconnected
        BY LinkCounts DEF LinkStatus
    <2>3. on_slot_disconnected(table, 1) = Decision(TableAt(0), <<Emit(UiDisconnected)>>)
        BY <2>1, <2>2, Zenon DEF on_slot_disconnected
    <2>4. /\ start.manager = table /\ start.actions = <<>>
          /\ on_slot_disconnected(table, 1).manager = TableAt(0)
          /\ on_slot_disconnected(table, 1).actions = <<Emit(UiDisconnected)>>
        BY <2>3 DEF Decision
    <2>5. <<>> \o <<DisconnectSlots({1})>> \o <<Emit(UiDisconnected)>>
            = <<DisconnectSlots({1}), Emit(UiDisconnected)>>
        BY Concatenated, Zenon
    <2> QED
        BY <2>4, <2>5, Zenon
<1> HIDE DEF plan, slots, start, end, next
<1>5. Frees(told)
    <2>1. MAX_CONNECTIONS \in Nat /\ start = Decision(table, <<>>)
        BY TwoSlots DEF start
    <2> QED
        BY <1>2, <1>4, <2>1
<1>6. Frees(freed)
    BY <1>5, Zenon
<1> HIDE DEF freed
<1>7. \A n \in 0 .. MAX_CONNECTIONS : freed[n] = told[n]
    <2> DEFINE same == {n \in 0 .. MAX_CONNECTIONS : freed[n] = told[n]}
    <2>a. \A f : Frees(f) =>
            /\ f[0] = Decision(plan.manager, <<>>)
            /\ \A n \in 1 .. MAX_CONNECTIONS :
                 f[n] = IF n - 1 \notin slots THEN f[n - 1] ELSE next(f[n - 1], n - 1)
        <3> SUFFICES ASSUME NEW f, Frees(f)
                     PROVE  /\ f[0] = Decision(plan.manager, <<>>)
                            /\ \A n \in 1 .. MAX_CONNECTIONS :
                                 f[n] = IF n - 1 \notin slots THEN f[n - 1]
                                        ELSE next(f[n - 1], n - 1)
            OBVIOUS
        <3> DEFINE g == [n \in 0 .. MAX_CONNECTIONS |->
                           IF n = 0 THEN Decision(plan.manager, <<>>)
                           ELSE IF n - 1 \notin slots THEN f[n - 1]
                           ELSE next(f[n - 1], n - 1)]
        <3>1. f = g
            OBVIOUS
        <3>2. /\ g[0] = Decision(plan.manager, <<>>)
              /\ \A n \in 1 .. MAX_CONNECTIONS :
                   g[n] = IF n - 1 \notin slots THEN f[n - 1] ELSE next(f[n - 1], n - 1)
            BY TwoSlots
        <3> HIDE DEF g
        <3> QED
            BY <3>1, <3>2
    <2> HIDE DEF Frees
    <2>1. 0 \in same
        BY <1>5, <1>6, <2>a, TwoSlots
    <2>2. ASSUME NEW n \in 1 .. MAX_CONNECTIONS, n - 1 \in same PROVE n \in same
        <3>1. freed[n] = IF n - 1 \notin slots THEN freed[n - 1] ELSE next(freed[n - 1], n - 1)
            BY <1>6, <2>a
        <3>2. told[n] = IF n - 1 \notin slots THEN told[n - 1] ELSE next(told[n - 1], n - 1)
            BY <1>5, <2>a
        <3> QED
            BY <2>2, <3>1, <3>2
    <2>3. \A n \in 0 .. MAX_CONNECTIONS : n \in same
        <3> HIDE DEF same
        <3> QED
            BY <2>1, <2>2, OneByOne, TwoSlots
    <2> QED
        BY <2>3
<1>8. told[MAX_CONNECTIONS] = end
    BY TwoSlots
<1> QED
    BY <1>3, <1>7, <1>8, TwoSlots DEF end

LEMMA ScriptStarts == SimInit => ScriptInv
<1> SUFFICES ASSUME SimInit PROVE ScriptInv
    OBVIOUS
<1>1. table = TableAt(0) /\ step = 0 /\ logged = <<>>
    BY LinkedSlots DEF SimInit, NewManager, TableAt
<1>2. OccupiedSlots(table) = {} /\ active_count(table) = 0
    BY <1>1, TableLinks, LinkedSlots, LinkCounts
<1> QED
    BY <1>1, <1>2 DEF ScriptInv, ScriptRunsAsWritten

\* A step of the script leaves what the next one starts from.
LEMMA ScriptTicks == ScriptInv /\ Ticks => ScriptInv'
<1> SUFFICES ASSUME ScriptInv, Ticks PROVE ScriptInv'
    OBVIOUS
<1>0. /\ step \in 0 .. 3 /\ table = TableAt(step) /\ step' = (step + 1) % 4
      /\ table' = scenario_step.manager /\ logged' = scenario_step.actions
    BY DEF ScriptInv, Ticks
<1>1. CASE step = 0
    <2>1. scenario_step = Decision(TableAt(1), <<ConnectSlot(0, Keyboard),
                            PersistDevice(Keyboard), Emit(UiConnected(Keyboard))>>)
        BY <1>0, <1>1, ConnectsNext, Summaries DEF scenario_step
    <2>2. /\ step' = 1 /\ table' = TableAt(1)
          /\ logged' = <<ConnectSlot(0, Keyboard), PersistDevice(Keyboard),
                         Emit(UiConnected(Keyboard))>>
        BY <1>0, <1>1, <2>1 DEF Decision
    <2>3. active_count(table)' = 1
        BY <2>2, LinkCounts DEF active_count, ConnectedSlots
    <2> QED
        BY <2>2, <2>3 DEF ScriptInv, ScriptRunsAsWritten
<1>2. CASE step = 1
    <2>1. scenario_step = Decision(TableAt(2), <<ConnectSlot(1, Mouse),
                            PersistDevice(Mouse), Emit(UiConnected(2))>>)
        BY <1>0, <1>2, ConnectsNext, Summaries DEF scenario_step
    <2>2. /\ step' = 2 /\ table' = TableAt(2)
          /\ logged' = <<ConnectSlot(1, Mouse), PersistDevice(Mouse),
                         Emit(UiConnected(2))>>
        BY <1>0, <1>2, <2>1 DEF Decision
    <2>3. active_count(table)' = 2
        BY <2>2, LinkCounts DEF active_count, ConnectedSlots
    <2> QED
        BY <2>2, <2>3 DEF ScriptInv, ScriptRunsAsWritten
<1>3. CASE step = 2
    <2>1. scenario_step = Decision(TableAt(3), <<Emit(UiConnected(Mouse))>>)
        BY <1>0, <1>3, FirstGoes DEF scenario_step
    <2>2. step' = 3 /\ table' = TableAt(3) /\ logged' = <<Emit(UiConnected(Mouse))>>
        BY <1>0, <1>3, <2>1 DEF Decision
    <2>3. active_count(table)' = 1
        BY <2>2, LinkCounts DEF active_count, ConnectedSlots
    <2> QED
        BY <2>2, <2>3 DEF ScriptInv, ScriptRunsAsWritten
<1>4. CASE step = 3
    <2>1. scenario_step
            = Decision(TableAt(0), <<DisconnectSlots({1}), Emit(UiDisconnected)>>)
        BY <1>0, <1>4, RestGoes DEF scenario_step
    <2>2. /\ step' = 0 /\ table' = TableAt(0)
          /\ logged' = <<DisconnectSlots({1}), Emit(UiDisconnected)>>
        BY <1>0, <1>4, <2>1 DEF Decision
    <2>3. active_count(table)' = 0 /\ OccupiedSlots(table)' = {}
        BY <2>2, LinkCounts, TableLinks, LinkedSlots
        DEF active_count, ConnectedSlots, OccupiedSlots
    <2> QED
        BY <2>2, <2>3 DEF ScriptInv, ScriptRunsAsWritten
<1> QED
    BY <1>0, <1>1, <1>2, <1>3, <1>4

\* Nothing else touches the script.
LEMMA ScriptWaits == ScriptInv /\ UNCHANGED <<table, step, logged>> => ScriptInv'
BY DEF ScriptInv, ScriptRunsAsWritten, TableAt, active_count, ConnectedSlots, OccupiedSlots

\* Every round of the simulator's script goes through the real reducers as
\* sim.rs:138 says ("connect kbd -> connect mouse -> drop one -> disconnect
\* all"), round after round: which actions are logged and how many links are
\* up, with two slots or more and whatever the stimuli and the buttons do.
THEOREM ScriptGoesRound == SimSpec => []ScriptRunsAsWritten
<1>1. ScriptInv /\ [SimNext]_simVars => ScriptInv'
    <2> SUFFICES ASSUME ScriptInv, [SimNext]_simVars PROVE ScriptInv'
        OBVIOUS
    <2>1. CASE Ticks
        BY <2>1, ScriptTicks
    <2>2. CASE TakesButton \/ Stimulates \/ TimePasses \/ \E btn \in ButtonEvent : Pushes(btn)
        BY <2>2, ScriptWaits DEF TakesButton, Stimulates, TimePasses, Pushes
    <2>3. CASE UNCHANGED simVars
        BY <2>3, ScriptWaits DEF simVars
    <2> QED
        BY <2>1, <2>2, <2>3 DEF SimNext, Runs
<1>2. ScriptInv => ScriptRunsAsWritten
    BY DEF ScriptInv
<1> QED
    BY <1>1, <1>2, ScriptStarts, PTL DEF SimSpec
=============================================================================
