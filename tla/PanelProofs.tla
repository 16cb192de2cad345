---------------------------- MODULE PanelProofs ----------------------------
(***************************************************************************)
(* What the user touches and sees, for any timeouts, any fineness of time, *)
(* any number of buttons and any capacity of their channel: the power      *)
(* state and the panel, first of Power and then of the whole UI loop, and  *)
(* the buttons.                                                            *)
(*                                                                         *)
(* The properties of Power speak of how long the device was not used,      *)
(* which the code never measures: it reads last_activity, and HID reports  *)
(* reach that only at the next tick.  The link between the two is the      *)
(* invariant ClockIsNoLater.                                               *)
(*                                                                         *)
(* FrontPanel takes each step of Power together with what it draws, so it  *)
(* implements Power.  That its picture is current rests on one more fact,  *)
(* ScansShowScanning: rows are added only while the list is not shown.     *)
(*                                                                         *)
(* One press is one event.  The edge waits alone do not give this: each is *)
(* two level waits, and a bouncing contact satisfies both.  What does is   *)
(* the rest after the release, which outlasts any bounce that was under    *)
(* way when it began: PressInv says where a task can be that has told of   *)
(* the press, and how much of its rest is left.                            *)
(***************************************************************************)
EXTENDS FrontPanel, Buttons, TLAPS

----------------------------------------------------------------------------
(* The power state.                                                        *)

\* Unless reports are waiting to be noticed, the clock of the last activity
\* runs no longer than the time without use.
ClockIsNoLater == ~hid => power.idle <= quiet

PowerInv == TypeOK /\ ClockIsNoLater /\ LowPowerIsDeserved

LEMMA HorizonIsNat == Horizon \in Nat
<1>1. Longest \in Nat
  BY PowerAssumption DEF Longest
<1>2. \A n, m \in Nat : n * m \in Nat
  OBVIOUS
<1> QED
  BY <1>1, <1>2, PowerAssumption DEF Horizon

\* Whole seconds grow with time.
LEMMA SecondsAreMonotone ==
    ASSUME NEW s \in Nat, NEW t \in Nat, s <= t
    PROVE  /\ as_secs(s) \in Nat /\ as_secs(t) \in Nat
           /\ as_secs(s) <= as_secs(t)
<1> QED
  BY PowerAssumption DEF as_secs

LEMMA NoTimeNoSeconds == as_secs(0) = 0
  BY PowerAssumption DEF as_secs

\* What is known of a power manager's state.
PowerManager == [state : PowerState, idle : 0 .. Horizon,
                 ble_connected : BOOLEAN, usb_suspended : BOOLEAN]

LEMMA OneMoreIsTime ==
    ASSUME NEW t \in 0 .. Horizon
    PROVE  OneMore(t) \in 0 .. Horizon /\ t <= OneMore(t)
BY HorizonIsNat DEF OneMore

LEMMA ActivityIsManager ==
    ASSUME NEW p \in PowerManager
    PROVE  /\ activity(p) \in PowerManager
           /\ activity(p).state = "Active" /\ activity(p).idle = 0
           /\ activity(p).usb_suspended = p.usb_suspended
           /\ activity(p).ble_connected = p.ble_connected
<1> DEFINE woken == [p EXCEPT !.idle = 0]
<1>1. /\ woken \in PowerManager /\ woken.idle = 0
      /\ woken.usb_suspended = p.usb_suspended /\ woken.ble_connected = p.ble_connected
  BY HorizonIsNat DEF PowerManager
<1>2. activity(p) = [woken EXCEPT !.state = "Active"]
  BY DEF activity
<1> HIDE DEF woken
<1> QED
  BY <1>1, <1>2 DEF PowerManager, PowerState

\* The policy puts the device into low power for two reasons only.
LEMMA UpdateIsManager ==
    ASSUME NEW p \in PowerManager
    PROVE  /\ update_state(p) \in PowerManager
           /\ update_state(p).idle = p.idle
           /\ update_state(p).usb_suspended = p.usb_suspended
           /\ update_state(p).ble_connected = p.ble_connected
           /\ update_state(p).state = "LowPower" =>
                 \/ p.usb_suspended
                 \/ ~p.ble_connected /\ as_secs(p.idle) > IDLE_TIMEOUT_SECS * 2
<1> DEFINE n == next_power_state(as_secs(p.idle), p.usb_suspended, p.ble_connected)
<1>1. /\ n \in PowerState
      /\ n = "LowPower" =>
            \/ p.usb_suspended
            \/ ~p.ble_connected /\ as_secs(p.idle) > IDLE_TIMEOUT_SECS * 2
  BY DEF next_power_state, PowerState
<1>2. update_state(p) = [p EXCEPT !.state = n]
  BY DEF update_state
<1> HIDE DEF n
<1>3. /\ update_state(p) \in PowerManager /\ update_state(p).state = n
      /\ update_state(p).idle = p.idle
      /\ update_state(p).usb_suspended = p.usb_suspended
      /\ update_state(p).ble_connected = p.ble_connected
  BY <1>1, <1>2 DEF PowerManager
<1> QED
  BY <1>1, <1>3

LEMMA PowerInitially == Init => PowerInv
<1> SUFFICES ASSUME Init PROVE PowerInv
  OBVIOUS
<1>1. 0 \in 0 .. Horizon /\ SECOND \in 0 .. SECOND /\ 0 <= 0
  BY HorizonIsNat, PowerAssumption
<1>2. NewPowerManager \in PowerManager /\ NewPowerManager.idle = 0
      /\ NewPowerManager.state = "Active"
  BY <1>1 DEF NewPowerManager, PowerManager, PowerState
<1>3. TypeOK
  BY <1>1, <1>2, Zenon DEF Init, TypeOK, PowerManager
<1>4. ClockIsNoLater /\ LowPowerIsDeserved
  BY <1>1, <1>2 DEF Init, ClockIsNoLater, LowPowerIsDeserved
<1> QED
  BY <1>3, <1>4 DEF PowerInv

\* The tick is where both are decided: with reports waiting the clock starts
\* anew, without them it runs no longer than the device was not used.
LEMMA TickKeeps ==
    ASSUME PowerInv, Tick
    PROVE  PowerInv'
<1>1. power \in PowerManager /\ quiet \in Nat /\ power.idle \in Nat
  BY HorizonIsNat DEF PowerInv, TypeOK, PowerManager
<1> DEFINE p == IF hid THEN activity(power) ELSE power
<1>2. p \in PowerManager /\ p.idle <= quiet /\ p.idle \in Nat
  BY <1>1, ActivityIsManager DEF PowerInv, ClockIsNoLater
<1>3. power' = update_state(p)
  BY DEF Tick, tick
<1>4. as_secs(p.idle) \in Nat /\ as_secs(quiet) \in Nat /\ as_secs(p.idle) <= as_secs(quiet)
  BY <1>1, <1>2, SecondsAreMonotone
<1>5. /\ power' \in PowerManager /\ power'.idle = p.idle
      /\ power'.state = "LowPower" =>
            \/ power'.usb_suspended
            \/ ~power'.ble_connected /\ as_secs(p.idle) > IDLE_TIMEOUT_SECS * 2
  BY <1>2, <1>3, UpdateIsManager
<1>6. quiet' = quiet /\ hid' = FALSE /\ timer' = SECOND /\ suspend' = suspend
  BY DEF Tick, NextRound
<1>7. panel' \in BOOLEAN
  BY DEF Tick, display_on, screen_should_be_on
<1>8. TypeOK'
  <2>1. quiet \in 0 .. Horizon /\ suspend \in {"none", "suspended", "resumed"}
    BY DEF PowerInv, TypeOK
  <2>2. SECOND \in 0 .. SECOND
    BY PowerAssumption
  <2> QED
    BY <1>5, <1>6, <1>7, <2>1, <2>2, Zenon DEF TypeOK, PowerManager
<1>9. LowPowerIsDeserved'
  BY <1>4, <1>5, <1>6, PowerAssumption DEF LowPowerIsDeserved, as_secs
<1> QED
  BY <1>2, <1>5, <1>6, <1>8, <1>9 DEF PowerInv, ClockIsNoLater

\* A round that leaves the state to the timer: what a link or a press does.
LEMMA ActivityKeeps ==
    ASSUME PowerInv, NEW p \in PowerManager,
           p.idle = 0, p.state = "Active",
           power' = p, hid' = hid, quiet' \in 0 .. Horizon,
           panel' \in BOOLEAN, timer' \in 0 .. SECOND,
           suspend' \in {"none", "suspended", "resumed"}
    PROVE  PowerInv'
<1>1. TypeOK'
  BY DEF PowerInv, TypeOK, PowerManager
<1> QED
  BY <1>1 DEF PowerInv, ClockIsNoLater, LowPowerIsDeserved

LEMMA PowerStep == PowerInv /\ [Next]_vars => PowerInv'
<1> SUFFICES ASSUME PowerInv, [Next]_vars PROVE PowerInv'
  OBVIOUS
<1>1. /\ power \in PowerManager /\ hid \in BOOLEAN /\ panel \in BOOLEAN
      /\ timer \in 0 .. SECOND /\ suspend \in {"none", "suspended", "resumed"}
      /\ quiet \in 0 .. Horizon /\ SECOND \in 0 .. SECOND /\ 0 \in 0 .. Horizon
      /\ Horizon \in Nat
  BY HorizonIsNat, PowerAssumption DEF PowerInv, TypeOK, PowerManager
<1>2. CASE PressWakes \/ PressActs
  <2>1. power' = activity(power) /\ hid' = hid /\ quiet' = 0 /\ timer' = SECOND
        /\ panel' \in BOOLEAN /\ suspend' = suspend
    BY <1>1, <1>2 DEF PressWakes, PressActs, NextRound
  <2> QED
    BY <1>1, <2>1, ActivityIsManager, ActivityKeeps
<1>3. CASE LinkUp
  <2> DEFINE p == [power EXCEPT !.ble_connected = TRUE]
  <2>1. p \in PowerManager
    BY <1>1 DEF PowerManager
  <2>2. power' = activity(p) /\ hid' = hid /\ quiet' = 0 /\ timer' = SECOND
        /\ panel' = panel /\ suspend' = suspend
    BY <1>3 DEF LinkUp, set_ble_connected, NextRound
  <2> HIDE DEF p
  <2> QED
    BY <1>1, <2>1, <2>2, ActivityIsManager, ActivityKeeps
<1>4. CASE LinkDown
  <2>1. power' = [power EXCEPT !.ble_connected = FALSE]
    BY <1>4 DEF LinkDown, set_ble_connected
  <2>2. /\ power' \in PowerManager /\ power'.idle = power.idle
        /\ power'.state = power.state /\ power'.usb_suspended = power.usb_suspended
        /\ ~power'.ble_connected
    BY <1>1, <2>1 DEF PowerManager
  <2>3. hid' = hid /\ quiet' = quiet /\ timer' = SECOND /\ panel' = panel /\ suspend' = suspend
    BY <1>4 DEF LinkDown, NextRound
  <2>4. TypeOK'
    BY <1>1, <2>2, <2>3, Zenon DEF TypeOK, PowerManager
  <2> QED
    BY <2>2, <2>3, <2>4 DEF PowerInv, ClockIsNoLater, LowPowerIsDeserved
<1>5. CASE ScanStarts \/ OtherEvent
  <2>1. power' = power /\ hid' = hid /\ quiet' = quiet /\ timer' = SECOND
        /\ panel' \in BOOLEAN /\ suspend' = suspend
    BY <1>1, <1>5 DEF ScanStarts, OtherEvent, NextRound
  <2>2. TypeOK'
    BY <1>1, <2>1, Zenon DEF TypeOK, PowerManager
  <2> QED
    BY <2>1, <2>2 DEF PowerInv, ClockIsNoLater, LowPowerIsDeserved
<1>6. CASE Tick
  BY <1>6, TickKeeps
<1>7. CASE TakesSuspend
  <2> DEFINE p == [power EXCEPT !.usb_suspended = (suspend = "suspended")]
  <2>1. p \in PowerManager /\ p.idle = power.idle /\ p.usb_suspended = (suspend = "suspended")
    BY <1>1 DEF PowerManager
  <2>2. hid' = hid /\ timer' = SECOND /\ panel' = panel /\ suspend' = "none"
        /\ quiet' = IF power.usb_suspended /\ suspend = "resumed" THEN 0 ELSE quiet
    BY <1>7 DEF TakesSuspend, NextRound
  <2>3. power' = IF power.usb_suspended = (suspend = "suspended") THEN power
                 ELSE IF suspend = "suspended" THEN update_state(p) ELSE activity(p)
    BY <1>7 DEF TakesSuspend, set_usb_suspended
  <2>4. quiet' \in 0 .. Horizon
    BY <1>1, <2>2
  <2> HIDE DEF p
  <2>5. CASE power.usb_suspended = (suspend = "suspended")
    <3>1. power' = power /\ quiet' = quiet
      BY <1>1, <1>7, <2>2, <2>3, <2>5 DEF TakesSuspend
    <3>2. TypeOK'
      BY <1>1, <2>2, <3>1, Zenon DEF TypeOK, PowerManager
    <3> QED
      BY <2>2, <3>1, <3>2 DEF PowerInv, ClockIsNoLater, LowPowerIsDeserved
  <2>6. CASE ~power.usb_suspended /\ suspend = "suspended"
    <3>1. power' = update_state(p) /\ quiet' = quiet
      BY <1>1, <2>2, <2>3, <2>6 DEF PowerManager
    <3>2. power' \in PowerManager /\ power'.idle = power.idle /\ power'.usb_suspended
      BY <2>1, <2>6, <3>1, UpdateIsManager
    <3>3. TypeOK'
      BY <1>1, <2>2, <3>1, <3>2, Zenon DEF TypeOK, PowerManager
    <3> QED
      BY <2>2, <3>1, <3>2, <3>3 DEF PowerInv, ClockIsNoLater, LowPowerIsDeserved
  <2>7. CASE power.usb_suspended /\ suspend # "suspended"
    <3>1. power' = activity(p)
      BY <1>1, <2>3, <2>7 DEF PowerManager
    <3> QED
      BY <1>1, <2>1, <2>2, <2>4, <3>1, ActivityIsManager, ActivityKeeps
  <2> QED
    BY <1>1, <2>5, <2>6, <2>7 DEF PowerManager
<1>8. CASE HidReport
  <2>1. power' = power /\ hid' = TRUE /\ quiet' = 0 /\ timer' = timer /\ panel' = panel
        /\ suspend' = suspend
    BY <1>8 DEF HidReport
  <2>2. TypeOK'
    BY <1>1, <2>1, Zenon DEF TypeOK, PowerManager
  <2> QED
    BY <2>1, <2>2 DEF PowerInv, ClockIsNoLater, LowPowerIsDeserved
<1>9. CASE \E s \in {"suspended", "resumed"} : HostSignals(s)
  <2>1. power' = power /\ hid' = hid /\ quiet' = quiet /\ timer' = timer /\ panel' = panel
        /\ suspend' \in {"none", "suspended", "resumed"}
    BY <1>9 DEF HostSignals
  <2>2. TypeOK'
    BY <1>1, <2>1, Zenon DEF TypeOK, PowerManager
  <2> QED
    BY <2>1, <2>2 DEF PowerInv, ClockIsNoLater, LowPowerIsDeserved
<1>10. CASE TimePasses
  <2>1. /\ power' = [power EXCEPT !.idle = OneMore(power.idle)]
        /\ hid' = hid /\ quiet' = OneMore(quiet) /\ panel' = panel /\ suspend' = suspend
    BY <1>10 DEF TimePasses
  <2>2. power.idle \in 0 .. Horizon
    BY <1>1 DEF PowerManager
  <2>3. OneMore(power.idle) \in 0 .. Horizon /\ OneMore(quiet) \in 0 .. Horizon
        /\ quiet <= OneMore(quiet)
    BY <1>1, <2>2, OneMoreIsTime
  <2>4. /\ power' \in PowerManager /\ power'.idle = OneMore(power.idle)
        /\ power'.state = power.state /\ power'.usb_suspended = power.usb_suspended
        /\ power'.ble_connected = power.ble_connected
    BY <1>1, <2>1, <2>3 DEF PowerManager
  <2>5. timer' \in 0 .. SECOND
    BY <1>1, <1>10, PowerAssumption DEF TimePasses
  <2>6. TypeOK'
    BY <1>1, <2>1, <2>3, <2>4, <2>5, Zenon DEF TypeOK, PowerManager
  <2>7. ClockIsNoLater'
    BY <1>1, <2>1, <2>2, <2>4 DEF PowerInv, ClockIsNoLater, OneMore
  <2>8. as_secs(quiet) \in Nat /\ as_secs(quiet') \in Nat /\ as_secs(quiet) <= as_secs(quiet')
    BY <1>1, <2>1, <2>3, SecondsAreMonotone
  <2>9. LowPowerIsDeserved'
    BY <2>1, <2>4, <2>8, PowerAssumption DEF PowerInv, LowPowerIsDeserved, as_secs
  <2> QED
    BY <2>6, <2>7, <2>9 DEF PowerInv
<1>11. CASE UNCHANGED vars
  BY <1>11 DEF vars, PowerInv, TypeOK, ClockIsNoLater, LowPowerIsDeserved, as_secs
<1> QED
  BY <1>2, <1>3, <1>4, <1>5, <1>6, <1>7, <1>8, <1>9, <1>10, <1>11 DEF Next, BleEvents

\* The device sleeps for one of two reasons: the bus is suspended, or nobody
\* used it for twice the timeout and no link is up.
THEOREM SleepIsDeserved == Spec => []LowPowerIsDeserved
<1>1. PowerInv => LowPowerIsDeserved
  BY DEF PowerInv
<1> QED
  BY PowerInitially, PowerStep, <1>1, PTL DEF Spec

\* With the timeouts of the code the panel never goes dark on a user: the low
\* power state comes no sooner than the panel's own timeout.
THEOREM PanelServesUsers ==
    ASSUME SCREEN_AUTO_OFF_TIMEOUT_SECS <= 2 * IDLE_TIMEOUT_SECS + 1
    PROVE  Spec => DarkensOnlyUnused
<1>1. ASSUME PowerInv, Tick, panel, ~panel'
      PROVE  power.usb_suspended \/ as_secs(quiet) >= SCREEN_AUTO_OFF_TIMEOUT_SECS
  <2> DEFINE p == IF hid THEN activity(power) ELSE power
  <2>1. power \in PowerManager /\ quiet \in Nat /\ power.idle \in Nat
    BY <1>1, HorizonIsNat DEF PowerInv, TypeOK, PowerManager
  <2>2. /\ p \in PowerManager /\ p.idle <= quiet /\ p.idle \in Nat
        /\ p.usb_suspended = power.usb_suspended
    BY <1>1, <2>1, ActivityIsManager DEF PowerInv, ClockIsNoLater
  <2>3. power' = update_state(p)
    BY <1>1 DEF Tick, tick
  <2> HIDE DEF p
  <2>4. /\ power' \in PowerManager /\ power'.idle = p.idle
        /\ power'.state = "LowPower" =>
              power.usb_suspended \/ as_secs(p.idle) > IDLE_TIMEOUT_SECS * 2
    BY <2>2, <2>3, UpdateIsManager
  <2>5. \/ power'.state \notin {"Active", "Idle"}
        \/ as_secs(p.idle) >= SCREEN_AUTO_OFF_TIMEOUT_SECS
    BY <1>1, <2>4, Zenon DEF Tick, display_on, screen_should_be_on
  <2>6. power'.state \notin {"Active", "Idle"} => power'.state = "LowPower"
    BY <2>4 DEF PowerManager, PowerState
  <2>7. as_secs(p.idle) \in Nat /\ as_secs(quiet) \in Nat /\ as_secs(p.idle) <= as_secs(quiet)
    BY <2>1, <2>2, SecondsAreMonotone
  <2>8. as_secs(p.idle) > IDLE_TIMEOUT_SECS * 2
          => as_secs(quiet) >= SCREEN_AUTO_OFF_TIMEOUT_SECS
    BY <2>7, PowerAssumption
  <2>9. as_secs(p.idle) >= SCREEN_AUTO_OFF_TIMEOUT_SECS
          => as_secs(quiet) >= SCREEN_AUTO_OFF_TIMEOUT_SECS
    BY <2>7, PowerAssumption
  <2> QED
    BY <2>4, <2>5, <2>6, <2>8, <2>9
<1>2. ASSUME Next, panel, ~panel' PROVE Tick
  BY <1>2 DEF Next, PressWakes, PressActs, BleEvents, LinkUp, LinkDown, ScanStarts, OtherEvent,
              TakesSuspend, HidReport, HostSignals, TimePasses
<1>3. PowerInv /\ [Next]_vars =>
        [panel /\ ~panel' => \/ power.usb_suspended
                             \/ as_secs(quiet) >= SCREEN_AUTO_OFF_TIMEOUT_SECS]_vars
  BY <1>1, <1>2
<1> QED
  BY PowerInitially, PowerStep, <1>3, PTL DEF Spec, DarkensOnlyUnused

----------------------------------------------------------------------------
(* The whole loop.                                                         *)

\* Whatever the loop draws and whichever events it takes, its power manager
\* and its panel are those of Power: all that is proved of Power holds of it.
THEOREM LoopImplementsPower == FrontSpec => Spec
<1>1. FrontInit => Init
  BY DEF FrontInit
<1>2. ASSUME FrontNext PROVE Next
  <2>1. CASE Wakes
    BY <2>1 DEF Wakes, Next
  <2>2. ASSUME NEW btn \in ButtonEvent, Acts(btn) PROVE Next
    BY <2>2 DEF Acts, Next
  <2>3. CASE TakesEvent
    BY <2>3 DEF TakesEvent, TakesScanStarted, TakesDeviceFound, TakesScanComplete,
                TakesConnected, TakesDisconnected, TakesError, BleEvents, Next
  <2>4. CASE Ticks
    BY <2>4 DEF Ticks, Next
  <2>5. CASE DrawsNothing
    BY <2>5 DEF DrawsNothing, Next
  <2> QED
    BY <1>2, <2>1, <2>2, <2>3, <2>4, <2>5 DEF FrontNext
<1>3. UNCHANGED panelVars => UNCHANGED vars
  BY DEF panelVars, vars
<1>4. [FrontNext]_panelVars => [Next]_vars
  BY <1>2, <1>3
<1> QED
  BY <1>1, <1>4, PTL DEF FrontSpec, Spec

\* The loop's local state, between two rounds of the select.
UiState == [screen : Screen, selected : Int, device_count : Int, devices : Seq(Name),
            connected_name : Name \cup {NoName}, command : {NoCommand}]

\* The rows change, and an event can end a scan, only while Scanning is shown.
ScansShowScanning == scanning => ui.screen = "Scanning"

PanelInv == ui \in UiState /\ ScansShowScanning /\ PictureIsCurrent

LEMMA NoRows == <<>> \in Seq(Name)
OBVIOUS

\* What a press can make of the UI.
LEMMA PressTypes ==
  ASSUME NEW u \in UiState, NEW btn \in ButtonEvent
  PROVE  LET v == on_button(u, btn) IN
         /\ [v EXCEPT !.command = NoCommand] \in UiState
         /\ v.screen \in Screen
         /\ v.screen # u.screen => v.screen \in {"Scanning", "Home"}
         /\ v.selected # u.selected => v.screen \in {"Scanning", "DeviceList"}
         /\ v.screen = u.screen => v.devices = u.devices
         /\ v.connected_name = u.connected_name
         /\ u.screen = "Scanning" => v = u
<1> DEFINE v == on_button(u, btn)
<1>1. CASE u.screen \in {"Home", "Error", "Connected"} /\ btn = "Select"
  <2>1. v = Rescan(u)
    BY <1>1 DEF on_button
  <2>2. v = [screen |-> "Scanning", selected |-> 0, device_count |-> 0, devices |-> <<>>,
             connected_name |-> u.connected_name, command |-> [kind |-> "StartScan"]]
    BY <2>1 DEF Rescan, UiState
  <2>3. [v EXCEPT !.command = NoCommand]
          = [screen |-> "Scanning", selected |-> 0, device_count |-> 0, devices |-> <<>>,
             connected_name |-> u.connected_name, command |-> NoCommand]
    BY <2>2
  <2>4. [v EXCEPT !.command = NoCommand] \in UiState
    <3>1. u.connected_name \in Name \cup {NoName}
      BY DEF UiState
    <3> DEFINE fresh == [screen |-> "Scanning", selected |-> 0, device_count |-> 0,
                         devices |-> <<>>, connected_name |-> u.connected_name,
                         command |-> NoCommand]
    <3>2. fresh \in UiState
      BY <3>1, NoRows DEF UiState, Screen
    <3> QED
      BY <2>3, <3>2
  <2> QED
    BY <1>1, <2>2, <2>4 DEF Screen
<1>2. CASE u.screen = "DeviceList" /\ btn = "Up"
  <2>1. v = [u EXCEPT !.selected = IF u.selected > 0 THEN u.selected - 1 ELSE 0]
    BY <1>2 DEF on_button
  <2> QED
    BY <1>2, <2>1 DEF UiState, Screen
<1>3. CASE u.screen = "DeviceList" /\ btn = "Down"
  <2>1. v = [u EXCEPT !.selected = RowBelow(u)]
    BY <1>3 DEF on_button
  <2>2. RowBelow(u) \in Int
    BY DEF RowBelow, UiState
  <2> QED
    BY <1>3, <2>1, <2>2 DEF UiState, Screen
<1>4. CASE u.screen = "DeviceList" /\ btn = "Select"
  <2>1. v = [u EXCEPT !.screen = "Scanning",
                      !.command = [kind |-> "Connect", index |-> u.selected]]
    BY <1>4 DEF on_button
  <2> QED
    BY <1>4, <2>1 DEF UiState, Screen
<1>5. CASE u.screen = "Connected" /\ btn = "Down"
  <2>1. v = [u EXCEPT !.screen = "Home", !.command = [kind |-> "Disconnect"]]
    BY <1>5 DEF on_button
  <2> QED
    BY <1>5, <2>1 DEF UiState, Screen
<1>6. CASE /\ ~ (u.screen \in {"Home", "Error", "Connected"} /\ btn = "Select")
           /\ ~ (u.screen = "DeviceList" /\ btn \in {"Up", "Down", "Select"})
           /\ ~ (u.screen = "Connected" /\ btn = "Down")
  <2>1. v = u
    BY <1>6 DEF on_button
  <2>2. [u EXCEPT !.command = NoCommand] = u
    BY DEF UiState
  <2> QED
    BY <2>1, <2>2 DEF UiState
<1> QED
  BY <1>1, <1>2, <1>3, <1>4, <1>5, <1>6 DEF UiState, Screen, ButtonEvent

LEMMA PanelInitially == FrontInit => PanelInv
<1> SUFFICES ASSUME FrontInit PROVE PanelInv
  OBVIOUS
<1>1. ui \in UiState /\ ui.screen = "Home" /\ ~scanning
  BY DEF FrontInit, InitialUi, UiState, Screen
<1>2. picture.view = "Home" /\ ~picture.connected
  BY DEF FrontInit, draw_home
<1> QED
  BY <1>1, <1>2 DEF PanelInv, ScansShowScanning, PictureIsCurrent

LEMMA PanelStep == PanelInv /\ [FrontNext]_panelVars => PanelInv'
<1> SUFFICES ASSUME PanelInv, [FrontNext]_panelVars PROVE PanelInv'
  OBVIOUS
<1>1. ui \in UiState /\ ScansShowScanning /\ PictureIsCurrent
  BY DEF PanelInv
<1>2. CASE Wakes
  <2>1. UNCHANGED <<ui, scanning>> /\ picture' = Redrawn(ui)
    BY <1>2 DEF Wakes
  <2>2. PictureIsCurrent'
    <3>1. CASE ui.screen = "Home"
      BY <2>1, <3>1 DEF Redrawn, draw_home, PictureIsCurrent
    <3>2. CASE ui.screen = "Scanning"
      BY <2>1, <3>2 DEF Redrawn, draw_scanning, PictureIsCurrent
    <3>3. CASE ui.screen = "DeviceList"
      <4>1. picture' = draw_device_list(ui.devices, ui.selected)
        BY <2>1, <3>3 DEF Redrawn
      <4>2. picture'.view = "DeviceList"
        BY <4>1 DEF draw_device_list
      <4> QED
        BY <2>1, <3>3, <4>1, <4>2 DEF PictureIsCurrent
    <3>4. CASE ui.screen = "Connected"
      BY <2>1, <3>4 DEF Redrawn, draw_connected, PictureIsCurrent
    <3>5. CASE ui.screen = "Error"
      BY <2>1, <3>5 DEF Redrawn, draw_error, PictureIsCurrent
    <3> QED
      BY <1>1, <3>1, <3>2, <3>3, <3>4, <3>5 DEF UiState, Screen
  <2> QED
    BY <1>1, <2>1, <2>2 DEF PanelInv, ScansShowScanning
<1>3. ASSUME NEW btn \in ButtonEvent, Acts(btn) PROVE PanelInv'
  <2> DEFINE v == on_button(ui, btn)
  <2>1. /\ ui' = [v EXCEPT !.command = NoCommand] /\ scanning' = scanning
        /\ picture' = IF Redraws(ui, v) THEN AfterPress(v) ELSE picture
    BY <1>3 DEF Acts
  <2>2. /\ [v EXCEPT !.command = NoCommand] \in UiState
        /\ v.screen \in Screen
        /\ v.screen # ui.screen => v.screen \in {"Scanning", "Home"}
        /\ v.selected # ui.selected => v.screen \in {"Scanning", "DeviceList"}
        /\ v.screen = ui.screen => v.devices = ui.devices
        /\ v.connected_name = ui.connected_name
        /\ ui.screen = "Scanning" => v = ui
    BY <1>1, PressTypes
  <2> HIDE DEF v
  <2>3. /\ ui' \in UiState /\ ui'.screen = v.screen /\ ui'.selected = v.selected
        /\ ui'.devices = v.devices /\ ui'.connected_name = v.connected_name
    BY <2>1, <2>2
  <2>4. ScansShowScanning'
    BY <1>1, <2>1, <2>2, <2>3 DEF ScansShowScanning
  <2>5. CASE ~ Redraws(ui, v)
    <3>1. PictureIsCurrent'
      BY <1>1, <2>1, <2>2, <2>3, <2>5 DEF Redraws, PictureIsCurrent
    <3> QED
      BY <2>3, <2>4, <3>1 DEF PanelInv
  <2>6. CASE Redraws(ui, v)
    <3>1. v.screen \in {"Scanning", "Home", "DeviceList"}
      BY <2>2, <2>6 DEF Redraws
    <3>2. picture' = AfterPress(v)
      BY <2>1, <2>6
    <3>3. CASE v.screen = "Scanning"
      BY <2>3, <2>4, <3>2, <3>3 DEF AfterPress, draw_scanning, PictureIsCurrent, PanelInv
    <3>4. CASE v.screen = "Home"
      BY <2>3, <2>4, <3>2, <3>4 DEF AfterPress, draw_home, PictureIsCurrent, PanelInv
    <3>5. CASE v.screen = "DeviceList"
      <4>1. picture' = draw_device_list(ui'.devices, ui'.selected)
        BY <2>3, <3>2, <3>5 DEF AfterPress
      <4>2. picture'.view = "DeviceList"
        BY <4>1 DEF draw_device_list
      <4> QED
        BY <2>3, <2>4, <3>5, <4>1, <4>2 DEF PictureIsCurrent, PanelInv
    <3> QED
      BY <3>1, <3>3, <3>4, <3>5
  <2> QED
    BY <2>5, <2>6
<1>4. CASE TakesScanStarted
  <2>1. /\ ui' = on_scan_started(ui) /\ picture' = draw_scanning(0)
    BY <1>4 DEF TakesScanStarted, Takes, on_event
  <2>2. ui' = [screen |-> "Scanning", selected |-> 0, device_count |-> 0, devices |-> <<>>,
               connected_name |-> ui.connected_name, command |-> NoCommand]
    BY <1>1, <2>1 DEF on_scan_started, UiState
  <2>3. ui' \in UiState /\ ui'.screen = "Scanning"
    BY <1>1, <2>2, NoRows DEF UiState, Screen
  <2> QED
    BY <2>1, <2>3 DEF draw_scanning, PanelInv, ScansShowScanning, PictureIsCurrent
<1>5. ASSUME NEW name \in Name, TakesDeviceFound(name) PROVE PanelInv'
  <2>1. /\ ui' = on_device_found(ui, name) /\ picture' = picture /\ scanning
        /\ scanning' = scanning
    BY <1>5 DEF TakesDeviceFound, Takes, on_event
  <2> DEFINE rows == IF Len(ui.devices) < MaxRows THEN Append(ui.devices, name)
                                                  ELSE ui.devices
  <2>2. rows \in Seq(Name) /\ Len(rows) \in Int
    BY <1>1 DEF UiState
  <2>3. ui' = [ui EXCEPT !.devices = rows, !.device_count = Len(rows)]
    BY <2>1 DEF on_device_found
  <2> HIDE DEF rows
  <2>4. ui' \in UiState /\ ui'.screen = ui.screen
    BY <1>1, <2>2, <2>3 DEF UiState
  <2>5. ui.screen = "Scanning"
    BY <1>1, <2>1 DEF ScansShowScanning
  <2> QED
    BY <1>1, <2>1, <2>4, <2>5 DEF PanelInv, ScansShowScanning, PictureIsCurrent
<1>6. CASE TakesScanComplete
  <2>1. /\ ui' = [ui EXCEPT !.screen = on_scan_complete(ui.device_count),
                            !.selected = IF ui.device_count > 0 THEN ClampSelection(ui)
                                         ELSE ui.selected]
        /\ ~scanning'
        /\ picture' = IF ui'.screen = "DeviceList"
                        THEN draw_device_list(ui'.devices, ui'.selected)
                        ELSE draw_error("No devices found")
    BY <1>6 DEF TakesScanComplete, Takes, on_event
  <2>2. ClampSelection(ui) \in Int
    BY <1>1 DEF ClampSelection, UiState
  <2>3. ui' \in UiState /\ ui'.screen \in {"DeviceList", "Error"}
    BY <1>1, <2>1, <2>2 DEF on_scan_complete, UiState, Screen
  <2>4. PictureIsCurrent'
    <3>1. CASE ui'.screen = "DeviceList"
      <4>1. picture' = draw_device_list(ui'.devices, ui'.selected)
        BY <2>1, <3>1
      <4>2. picture'.view = "DeviceList"
        BY <4>1 DEF draw_device_list
      <4> QED
        BY <3>1, <4>1, <4>2 DEF PictureIsCurrent
    <3>2. CASE ui'.screen = "Error"
      BY <2>1, <3>2 DEF draw_error, PictureIsCurrent
    <3> QED
      BY <2>3, <3>1, <3>2
  <2> QED
    BY <2>1, <2>3, <2>4 DEF PanelInv, ScansShowScanning
<1>7. ASSUME NEW name \in Name, TakesConnected(name) PROVE PanelInv'
  <2>1. /\ ui' = [ui EXCEPT !.screen = "Connected", !.devices = <<>>, !.connected_name = name]
        /\ ~scanning' /\ picture' = draw_connected(name)
    BY <1>7 DEF TakesConnected, Takes, on_event
  <2>2. ui' \in UiState /\ ui'.screen = "Connected" /\ ui'.connected_name = name
    BY <1>1, <2>1, NoRows DEF UiState, Screen
  <2> QED
    BY <2>1, <2>2 DEF draw_connected, PanelInv, ScansShowScanning, PictureIsCurrent
<1>8. CASE TakesDisconnected
  <2>1. /\ ui' = [ui EXCEPT !.screen = "Home", !.devices = <<>>, !.selected = 0,
                            !.device_count = 0, !.connected_name = NoName]
        /\ ~scanning' /\ picture' = draw_home(FALSE, NoName)
    BY <1>8 DEF TakesDisconnected, Takes, on_event
  <2>2. ui' = [screen |-> "Home", selected |-> 0, device_count |-> 0, devices |-> <<>>,
               connected_name |-> NoName, command |-> NoCommand]
    BY <1>1, <2>1 DEF UiState
  <2>3. ui' \in UiState /\ ui'.screen = "Home"
    BY <2>2, NoRows DEF UiState, Screen
  <2> QED
    BY <2>1, <2>3 DEF draw_home, PanelInv, ScansShowScanning, PictureIsCurrent
<1>9. CASE TakesError
  <2>1. /\ ui' = [ui EXCEPT !.screen = "Error"] /\ ~scanning'
        /\ picture'.view = "Error"
    BY <1>9 DEF TakesError, Takes, on_event, draw_error
  <2>2. ui' \in UiState /\ ui'.screen = "Error"
    BY <1>1, <2>1 DEF UiState, Screen
  <2> QED
    BY <2>1, <2>2 DEF PanelInv, ScansShowScanning, PictureIsCurrent
<1>10. CASE Ticks
  <2>1. /\ UNCHANGED <<ui, scanning>>
        /\ picture' = picture \/ (ui.screen = "Scanning" /\ picture' = draw_scanning(scan_dots'))
    BY <1>10 DEF Ticks, Spins
  <2> QED
    BY <1>1, <2>1 DEF draw_scanning, PanelInv, ScansShowScanning, PictureIsCurrent
<1>11. CASE DrawsNothing \/ UNCHANGED panelVars
  <2>1. UNCHANGED <<ui, scanning, picture>>
    BY <1>11 DEF DrawsNothing, panelVars
  <2> QED
    BY <1>1, <2>1 DEF PanelInv, ScansShowScanning, PictureIsCurrent
<1> QED
  BY <1>2, <1>3, <1>4, <1>5, <1>6, <1>7, <1>8, <1>9, <1>10, <1>11 DEF FrontNext, TakesEvent

\* The picture, lit or dark, is that of the state presses act on, for lists of
\* any length and any number of rows on the panel.
THEOREM PictureStaysCurrent == FrontSpec => []PictureIsCurrent
<1>1. PanelInv => PictureIsCurrent
  BY DEF PanelInv
<1> QED
  BY PanelInitially, PanelStep, <1>1, PTL DEF FrontSpec

----------------------------------------------------------------------------
(* The buttons.                                                            *)

\* The types of one button's state.
ButtonTyped(b) ==
    /\ down[b] \in BOOLEAN /\ low[b] \in BOOLEAN /\ told[b] \in BOOLEAN
    /\ bounces[b] \in 0 .. BOUNCE /\ delay[b] \in 0 .. DEBOUNCE
    /\ at[b] \in Place

\* A contact that does not bounce is at its finger's level.
Settled(b) == bounces[b] = 0 => low[b] = down[b]

\* A task that told of the press since the finger moved waits for the release,
\* rests for longer than the contact bounces, or is back at the press it waits
\* for: with the pin high, if it is to see the next edge at all.
ToldIsPast(b) ==
    told[b] =>
        \/ at[b] \in {"still_low", "released"}
        \/ at[b] = "rest" /\ bounces[b] <= delay[b]
        \/ at[b] = "high" /\ bounces[b] = 0
        \/ at[b] = "low" /\ bounces[b] = 0 /\ ~down[b]

PressInv == \A b \in Button : Settled(b) /\ ToldIsPast(b)

----------------------------------------------------------------------------
(* Types.                                                                  *)

LEMMA ButtonsInitially == ButtonsInit => ButtonsTypeOK /\ PressInv
<1> SUFFICES ASSUME ButtonsInit PROVE ButtonsTypeOK /\ PressInv
  OBVIOUS
<1>1. 0 \in 0 .. BOUNCE /\ 0 \in 0 .. DEBOUNCE /\ Len(<<>>) <= BUTTON_CAP /\ <<>> \in Seq(Button)
  BY ButtonsAssumption
<1>2. ButtonsTypeOK
  BY <1>1 DEF ButtonsInit, ButtonsTypeOK, Place
<1>3. PressInv
  BY DEF ButtonsInit, PressInv, Settled, ToldIsPast
<1> QED
  BY <1>2, <1>3

LEMMA OneLessType ==
  ASSUME NEW m \in Nat, NEW n \in 0 .. m
  PROVE  OneLess(n) \in 0 .. m /\ OneLess(n) <= n
BY DEF OneLess

LEMMA ButtonsTypeStep == ButtonsTypeOK /\ [ButtonsNext]_buttonVars => ButtonsTypeOK'
<1> SUFFICES ASSUME ButtonsTypeOK, [ButtonsNext]_buttonVars PROVE ButtonsTypeOK'
  OBVIOUS
<1> USE DEF ButtonsTypeOK
<1>1. BOUNCE \in 0 .. BOUNCE /\ DEBOUNCE \in 0 .. DEBOUNCE /\ BOUNCE \in Nat /\ DEBOUNCE \in Nat
  BY ButtonsAssumption
<1>2. ASSUME NEW b \in Button, Moves(b) \/ Bounces(b) PROVE ButtonsTypeOK'
  <2>1. /\ down' \in [Button -> BOOLEAN] /\ low' \in [Button -> BOOLEAN]
        /\ told' \in [Button -> BOOLEAN]
    BY <1>2 DEF Moves, Bounces
  <2>2. bounces' \in [Button -> 0 .. BOUNCE]
    BY <1>1, <1>2 DEF Moves, Bounces
  <2>3. UNCHANGED <<at, delay, channel>>
    BY <1>2 DEF Moves, Bounces
  <2> QED
    BY <2>1, <2>2, <2>3
<1>3. ASSUME NEW b \in Button, ButtonTask(b) PROVE ButtonsTypeOK'
  <2>1. /\ UNCHANGED <<down, low, bounces>>
        /\ \E place \in Place : at' = [at EXCEPT ![b] = place]
    BY <1>3 DEF ButtonTask, SeesPress, Rechecks, SendsEvent, SeesRelease, Rests, Goes, Place,
                AfterSend
  <2>2. delay' \in [Button -> 0 .. DEBOUNCE] /\ told' \in [Button -> BOOLEAN]
    BY <1>1, <1>3 DEF ButtonTask, SeesPress, Rechecks, SendsEvent, SeesRelease, Rests, Sleeps
  <2>3. channel' = channel \/ (HasRoom /\ channel' = Append(channel, b))
    BY <1>3 DEF ButtonTask, SeesPress, Rechecks, SendsEvent, SeesRelease, Rests, Sleeps
  <2>4. channel' \in Seq(Button) /\ Len(channel') <= BUTTON_CAP
    <3>1. CASE channel' = channel
      BY <3>1
    <3>2. CASE HasRoom /\ channel' = Append(channel, b)
      <4>1. Len(Append(channel, b)) = Len(channel) + 1 /\ Append(channel, b) \in Seq(Button)
        OBVIOUS
      <4> QED
        BY <3>2, <4>1, ButtonsAssumption DEF HasRoom
    <3> QED
      BY <2>3, <3>1, <3>2
  <2>5. at' \in [Button -> Place]
    BY <2>1
  <2> QED
    BY <2>1, <2>2, <2>4, <2>5
<1>4. CASE UiTakes
  <2>1. channel' \in Seq(Button) /\ Len(channel') <= BUTTON_CAP
    BY <1>4, ButtonsAssumption DEF UiTakes
  <2> QED
    BY <1>4, <2>1 DEF UiTakes
<1>5. CASE Elapses
  <2>1. /\ bounces' \in [Button -> 0 .. BOUNCE] /\ delay' \in [Button -> 0 .. DEBOUNCE]
        /\ low' \in [Button -> BOOLEAN]
    BY <1>1, <1>5, OneLessType DEF Elapses
  <2> QED
    BY <1>5, <2>1 DEF Elapses
<1>6. CASE UNCHANGED buttonVars
  BY <1>6 DEF buttonVars
<1> QED
  BY <1>2, <1>3, <1>4, <1>5, <1>6 DEF ButtonsNext

\* No task is lost and the channel holds no more than it has room for.
THEOREM ButtonsTypeCorrect == ButtonsSpec => []ButtonsTypeOK
BY ButtonsInitially, ButtonsTypeStep, PTL DEF ButtonsSpec

----------------------------------------------------------------------------
(* One press, one event.                                                   *)

LEMMA PressStep ==
  ASSUME ButtonsTypeOK, PressInv, [ButtonsNext]_buttonVars
  PROVE  PressInv'
<1> DEFINE Kept(b) == Settled(b) /\ ToldIsPast(b)
           Same(b) == /\ down'[b] = down[b] /\ low'[b] = low[b] /\ told'[b] = told[b]
                      /\ bounces'[b] = bounces[b] /\ delay'[b] = delay[b] /\ at'[b] = at[b]
<1>1. \A b \in Button : ButtonTyped(b) /\ Settled(b) /\ ToldIsPast(b)
  BY DEF ButtonsTypeOK, ButtonTyped, PressInv
<1>2. ASSUME NEW b \in Button, Same(b) PROVE Kept(b)'
  BY <1>1, <1>2 DEF Settled, ToldIsPast
<1>3. /\ DOMAIN down = Button /\ DOMAIN low = Button /\ DOMAIN told = Button
      /\ DOMAIN bounces = Button /\ DOMAIN delay = Button /\ DOMAIN at = Button
  BY DEF ButtonsTypeOK
<1>4. BOUNCE \in Nat /\ DEBOUNCE \in Nat /\ BOUNCE > 0 /\ BOUNCE < DEBOUNCE
  BY ButtonsAssumption
<1> HIDE DEF Same
<1>5. ASSUME NEW b \in Button, Moves(b) \/ Bounces(b) PROVE PressInv'
  <2>1. ASSUME NEW c \in Button \ {b} PROVE Same(c)
    BY <1>3, <1>5 DEF Same, Moves, Bounces
  <2>2. Kept(b)'
    <3>1. CASE Moves(b)
      BY <1>3, <1>4, <3>1 DEF Moves, Settled, ToldIsPast
    <3>2. CASE Bounces(b)
      BY <1>1, <1>3, <3>2 DEF Bounces, Settled, ToldIsPast
    <3> QED
      BY <1>5, <3>1, <3>2
  <2> QED
    BY <1>2, <2>1, <2>2 DEF PressInv
<1>6. ASSUME NEW b \in Button, ButtonTask(b) PROVE PressInv'
  <2>1. ASSUME NEW c \in Button \ {b} PROVE Same(c)
    BY <1>3, <1>6 DEF Same, ButtonTask, SeesPress, Rechecks, SendsEvent, SeesRelease, Rests,
                      Goes, Sleeps
  <2>2. UNCHANGED <<down, low, bounces>>
    BY <1>6 DEF ButtonTask, SeesPress, Rechecks, SendsEvent, SeesRelease, Rests, Goes
  <2>3. Settled(b)'
    BY <1>1, <2>2 DEF Settled
  <2>4. ToldIsPast(b)'
    <3>1. CASE SeesPress(b)
      BY <1>1, <1>3, <3>1 DEF SeesPress, Goes, Sleeps, Settled, ToldIsPast, ButtonTyped
    <3>2. CASE Rechecks(b)
      BY <1>1, <1>3, <3>2 DEF Rechecks, Goes, ToldIsPast
    <3>3. CASE SendsEvent(b)
      BY <1>3, <3>3 DEF SendsEvent, Goes, AfterSend, ToldIsPast
    <3>4. CASE SeesRelease(b)
      BY <1>1, <1>3, <1>4, <3>4 DEF SeesRelease, Goes, Sleeps, ToldIsPast, ButtonTyped
    <3>5. CASE Rests(b)
      BY <1>1, <1>3, <3>5 DEF Rests, Goes, ToldIsPast, ButtonTyped
    <3> QED
      BY <1>6, <3>1, <3>2, <3>3, <3>4, <3>5 DEF ButtonTask
  <2> QED
    BY <1>2, <2>1, <2>3, <2>4 DEF PressInv
<1>7. CASE UiTakes
  <2>1. \A b \in Button : Same(b)
    BY <1>7 DEF UiTakes, Same
  <2> QED
    BY <1>2, <2>1 DEF PressInv
<1>8. CASE Elapses
  <2> SUFFICES ASSUME NEW b \in Button PROVE Kept(b)'
    BY DEF PressInv
  <2>1. /\ bounces'[b] = OneLess(bounces[b]) /\ delay'[b] = OneLess(delay[b])
        /\ low'[b] = IF bounces[b] <= 1 THEN down[b] ELSE low[b]
        /\ down'[b] = down[b] /\ at'[b] = at[b] /\ told'[b] = told[b]
    BY <1>8 DEF Elapses
  <2>2. bounces[b] \in Nat /\ delay[b] \in Nat
    BY <1>1 DEF ButtonTyped
  <2>3. Settled(b)'
    BY <2>1, <2>2 DEF Settled, OneLess
  <2>4. /\ bounces[b] = 0 => bounces'[b] = 0
        /\ bounces[b] <= delay[b] => bounces'[b] <= delay'[b]
    BY <2>1, <2>2 DEF OneLess
  <2>5. ToldIsPast(b)'
    BY <1>1, <2>1, <2>4 DEF ToldIsPast
  <2> QED
    BY <2>3, <2>5
<1>9. CASE UNCHANGED buttonVars
  <2>1. \A b \in Button : Same(b)
    BY <1>9 DEF buttonVars, Same
  <2> QED
    BY <1>2, <2>1 DEF PressInv
<1> QED
  BY <1>5, <1>6, <1>7, <1>8, <1>9 DEF ButtonsNext

\* One press is one event, however the contact bounces and however long the
\* channel keeps the task waiting ("to avoid repeat triggers", buttons.rs:41).
THEOREM PressesAreSentOnce == ButtonsSpec => OneEventPerPress
<1>1. ASSUME PressInv, NEW b \in Button, SendsEvent(b)
      PROVE  ~told[b]
  BY <1>1 DEF PressInv, ToldIsPast, SendsEvent
<1>2. PressInv => [\A b \in Button : SendsEvent(b) => ~told[b]]_buttonVars
  BY <1>1
<1>3. ButtonsTypeOK /\ PressInv /\ [ButtonsNext]_buttonVars => PressInv'
  BY PressStep
<1> QED
  BY ButtonsInitially, ButtonsTypeStep, <1>2, <1>3, PTL DEF ButtonsSpec, OneEventPerPress
=============================================================================
