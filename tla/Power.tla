------------------------------- MODULE Power -------------------------------
(***************************************************************************)
(* Power state and display power: PowerManager (src/src/power.rs), its     *)
(* policy (src/src/power_logic.rs), and the parts of the UI loop in        *)
(* src/src/main.rs that drive them.  The loop is one select over buttons,  *)
(* BLE events, a timer that every round starts anew, and the USB suspend   *)
(* signal.                                                                 *)
(*                                                                         *)
(* Time passes in units of a second's fraction, SECOND of them, so that    *)
(* the timer and the clock of the last activity need not be in step; the   *)
(* code reads whole seconds.  Times are cut off at Horizon, beyond which   *)
(* the code makes no difference between them.                              *)
(***************************************************************************)
EXTENDS Integers

CONSTANTS
    SECOND,                        \* time units in a second
    IDLE_TIMEOUT_SECS,             \* 60
    SCREEN_AUTO_OFF_TIMEOUT_SECS,  \* 120
    SCREEN_AUTO_OFF_ENABLED

ASSUME PowerAssumption ==
    /\ SECOND \in Nat \ {0}
    /\ IDLE_TIMEOUT_SECS \in Nat
    /\ SCREEN_AUTO_OFF_TIMEOUT_SECS \in Nat \ {0}
    /\ SCREEN_AUTO_OFF_ENABLED \in BOOLEAN

VARIABLES
    power,       \* PowerManager: state, idle (time since last_activity), ...
    hid,         \* HID_ACTIVITY: a report flowed since the last tick
    panel,       \* the OLED panel is lit (not display_powered_off)
    timer,       \* what is left of the round's one-second timer
    suspend,     \* USB_SUSPEND_SIGNAL: the newest value not taken, or "none"
    quiet        \* history: time since the device was last used

vars == <<power, hid, panel, timer, suspend, quiet>>

Longest == IF SCREEN_AUTO_OFF_TIMEOUT_SECS > 2 * IDLE_TIMEOUT_SECS
             THEN SCREEN_AUTO_OFF_TIMEOUT_SECS ELSE 2 * IDLE_TIMEOUT_SECS

Horizon == (Longest + 1) * SECOND

OneMore(t) == IF t < Horizon THEN t + 1 ELSE t

PowerState == {"Active", "Idle", "LowPower"}

----------------------------------------------------------------------------
(* The policy, and PowerManager's methods on its state.                    *)

next_power_state(elapsed_secs, usb_suspended, ble_connected) ==
    IF usb_suspended \/ (elapsed_secs > IDLE_TIMEOUT_SECS * 2 /\ ~ble_connected)
      THEN "LowPower"
      ELSE IF elapsed_secs > IDLE_TIMEOUT_SECS THEN "Idle" ELSE "Active"

\* Mutant: the timeout is forgotten.
NeverAutoOff(base_display_on, idle_secs) == base_display_on

screen_should_be_on(base_display_on, idle_secs) ==
    base_display_on /\ ~(SCREEN_AUTO_OFF_ENABLED /\ idle_secs >= SCREEN_AUTO_OFF_TIMEOUT_SECS)

as_secs(t) == t \div SECOND

display_on(p) == screen_should_be_on(p.state \in {"Active", "Idle"}, as_secs(p.idle))

activity(p) == [p EXCEPT !.idle = 0, !.state = "Active"]

update_state(p) ==
    [p EXCEPT !.state = next_power_state(as_secs(p.idle), p.usb_suspended, p.ble_connected)]

\* Mutant: a connection is not counted as activity.
ConnectsQuietly(p, connected) == [p EXCEPT !.ble_connected = connected]

set_ble_connected(p, connected) ==
    LET q == [p EXCEPT !.ble_connected = connected]
    IN  IF connected THEN activity(q) ELSE q

set_usb_suspended(p, suspended) ==
    LET q == [p EXCEPT !.usb_suspended = suspended]
    IN  IF p.usb_suspended = suspended THEN p
        ELSE IF suspended THEN update_state(q) ELSE activity(q)

\* Mutant: HID traffic is noted and never looked at.
IgnoresHid(p, seen) == update_state(p)

\* Mutant: HID traffic wakes the device after the state was decided.
WakesLast(p, seen) == IF seen THEN activity(update_state(p)) ELSE update_state(p)

\* What tick makes of the state, given what it took from HID_ACTIVITY.
tick(p, seen) == update_state(IF seen THEN activity(p) ELSE p)

----------------------------------------------------------------------------
NewPowerManager ==
    [state |-> "Active", idle |-> 0, ble_connected |-> FALSE, usb_suspended |-> FALSE]

Init ==
    /\ power = NewPowerManager
    /\ hid = FALSE
    /\ panel = TRUE
    /\ timer = SECOND
    /\ suspend = "none"
    /\ quiet = 0

\* Every round of the select starts a new timer.
NextRound == timer' = SECOND

\* A press while the policy has the display off only wakes it.
PressWakes ==
    /\ ~display_on(power)
    /\ power' = activity(power)
    /\ panel' = TRUE
    /\ quiet' = 0
    /\ NextRound
    /\ UNCHANGED <<hid, suspend>>

\* Any other press goes to the reducer on_button and is drawn on the panel,
\* whether or not that is lit.
PressActs ==
    /\ display_on(power)
    /\ power' = activity(power)
    /\ quiet' = 0
    /\ NextRound
    /\ UNCHANGED <<hid, panel, suspend>>

\* BleEvent::Connected.
LinkUp ==
    /\ power' = set_ble_connected(power, TRUE)
    /\ quiet' = 0
    /\ NextRound
    /\ UNCHANGED <<hid, panel, suspend>>

\* BleEvent::Disconnected.
LinkDown ==
    /\ power' = set_ble_connected(power, FALSE)
    /\ NextRound
    /\ UNCHANGED <<hid, panel, suspend, quiet>>

\* BleEvent::ScanStarted lights the panel, which is no activity.
ScanStarts ==
    /\ panel' = TRUE
    /\ NextRound
    /\ UNCHANGED <<power, hid, suspend, quiet>>

\* DeviceFound, ScanComplete and Error: only the timer starts anew.
OtherEvent ==
    /\ NextRound
    /\ UNCHANGED <<power, hid, panel, suspend, quiet>>

BleEvents == LinkUp \/ LinkDown \/ ScanStarts \/ OtherEvent

\* The timer's round: HID traffic is folded in, the panel follows the policy.
Tick ==
    /\ timer = 0
    /\ power' = tick(power, hid)
    /\ hid' = FALSE
    /\ panel' = display_on(power')
    /\ NextRound
    /\ UNCHANGED <<suspend, quiet>>

TakesSuspend ==
    /\ suspend # "none"
    /\ power' = set_usb_suspended(power, suspend = "suspended")
    /\ suspend' = "none"
    /\ quiet' = IF power.usb_suspended /\ suspend = "resumed" THEN 0 ELSE quiet
    /\ NextRound
    /\ UNCHANGED <<hid, panel>>

----------------------------------------------------------------------------
(* Outside the loop.                                                       *)

\* note_hid_activity, from the USB writer.
HidReport ==
    /\ hid' = TRUE
    /\ quiet' = 0
    /\ UNCHANGED <<power, panel, timer, suspend>>

\* The USB handler signals; a newer value replaces one not taken.
HostSignals(s) ==
    /\ suspend' = s
    /\ UNCHANGED <<power, hid, panel, timer, quiet>>

\* The loop is never late for its timer.
TimePasses ==
    /\ timer > 0
    /\ timer' = timer - 1
    /\ power' = [power EXCEPT !.idle = OneMore(@)]
    /\ quiet' = OneMore(quiet)
    /\ UNCHANGED <<hid, panel, suspend>>

Next ==
    \/ PressWakes \/ PressActs
    \/ BleEvents
    \/ Tick
    \/ TakesSuspend
    \/ HidReport
    \/ \E s \in {"suspended", "resumed"} : HostSignals(s)
    \/ TimePasses

Spec == Init /\ [][Next]_vars

\* Time does not stop, the loop takes a signal that is there, and presses and
\* BLE events do not come closer than a second for ever.
LoopFairness ==
    /\ WF_vars(TimePasses) /\ WF_vars(TakesSuspend)
    /\ []<><<Tick>>_vars

FairSpec == Spec /\ LoopFairness

----------------------------------------------------------------------------
(* Properties.                                                             *)

TypeOK ==
    /\ power \in [state : PowerState, idle : 0 .. Horizon,
                  ble_connected : BOOLEAN, usb_suspended : BOOLEAN]
    /\ hid \in BOOLEAN
    /\ panel \in BOOLEAN
    /\ timer \in 0 .. SECOND
    /\ suspend \in {"none", "suspended", "resumed"}
    /\ quiet \in 0 .. Horizon

\* The device is in low power only while the bus is suspended or, with no
\* link to keep up, after a long time without use (power_logic.rs:16-17); a
\* report that flowed meanwhile is noticed at the next tick.
LowPowerIsDeserved ==
    power.state = "LowPower" /\ ~hid =>
        \/ power.usb_suspended
        \/ ~power.ble_connected /\ as_secs(quiet) > 2 * IDLE_TIMEOUT_SECS

\* The panel does not go dark on a user: unless the bus is suspended, nobody
\* pressed a button, typed, moved the mouse, connected or resumed for as long
\* as the timeout (power.rs:13-15).
DarkensOnlyUnused ==
    [][panel /\ ~panel' =>
          \/ power.usb_suspended
          \/ as_secs(quiet) >= SCREEN_AUTO_OFF_TIMEOUT_SECS]_vars

\* Typing lights the panel again, except on a suspended bus.
TypingLights == hid /\ ~power.usb_suspended ~> panel \/ power.usb_suspended

\* On a suspended bus the panel goes dark, whatever the peripherals send.
SuspendDarkens == power.usb_suspended ~> ~panel \/ ~power.usb_suspended

\* A panel nobody needs goes dark.
UnusedDarkens ==
    SCREEN_AUTO_OFF_ENABLED =>
        (as_secs(quiet) >= SCREEN_AUTO_OFF_TIMEOUT_SECS ~> ~panel \/ quiet = 0)
=============================================================================
