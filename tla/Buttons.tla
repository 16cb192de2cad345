------------------------------ MODULE Buttons ------------------------------
(***************************************************************************)
(* The button tasks (src/src/ui/buttons.rs), one for each pin, and the     *)
(* channel through which they tell the UI loop.  A finger presses and      *)
(* lets go at any time; the contact bounces for a while after each, so the *)
(* pin's level says nothing until it has settled.                          *)
(*                                                                         *)
(* embassy-nrf's edge waits are two level waits, one after the other: a    *)
(* falling edge is "high, then low", a rising edge "low, then high".       *)
(***************************************************************************)
EXTENDS Integers, Sequences

CONSTANTS
    Button,        \* the buttons: UP, DOWN, SELECT
    DEBOUNCE,      \* BUTTON_DEBOUNCE_MS
    BOUNCE,        \* the longest a contact bounces, same unit
    BUTTON_CAP     \* capacity of BUTTON_CHANNEL (4)

ASSUME ButtonsAssumption ==
    /\ DEBOUNCE \in Nat \ {0} /\ BOUNCE \in Nat \ {0} /\ BUTTON_CAP \in Nat \ {0}
    /\ BOUNCE < DEBOUNCE

VARIABLES
    down,      \* the finger is on the button
    low,       \* the pin's level
    bounces,   \* how long the contact may still bounce
    at,        \* where the task is
    delay,     \* what is left of the task's Timer::after
    channel,   \* BUTTON_CHANNEL
    told       \* history: an event was sent since the finger last moved

buttonVars == <<down, low, bounces, at, delay, channel, told>>

\* Waiting for the press (high, then low), debouncing it, sending, waiting
\* for the release (low, then high), and resting after it.
Place == {"high", "low", "debounce", "send", "still_low", "released", "rest"}

ButtonsInit ==
    /\ down = [b \in Button |-> FALSE]
    /\ low = [b \in Button |-> FALSE]
    /\ bounces = [b \in Button |-> 0]
    /\ at = [b \in Button |-> "high"]
    /\ delay = [b \in Button |-> 0]
    /\ channel = <<>>
    /\ told = [b \in Button |-> FALSE]

----------------------------------------------------------------------------
(* The finger and the contact.                                             *)

\* The task awaits something.  A task is faster than a finger or a contact.
Waits(b) ==
    CASE at[b] \in {"high", "released"} -> low[b]
      [] at[b] \in {"low", "still_low"} -> ~low[b]
      [] at[b] \in {"debounce", "rest"} -> delay[b] > 0
      [] at[b] = "send" -> Len(channel) >= BUTTON_CAP

AllWait == \A b \in Button : Waits(b)

\* A finger stays where it is for longer than the contact bounces.
Moves(b) ==
    /\ AllWait
    /\ bounces[b] = 0
    /\ down' = [down EXCEPT ![b] = ~@]
    /\ low' \in {[low EXCEPT ![b] = level] : level \in BOOLEAN}
    /\ bounces' = [bounces EXCEPT ![b] = BOUNCE]
    /\ told' = [told EXCEPT ![b] = FALSE]
    /\ UNCHANGED <<at, delay, channel>>

Bounces(b) ==
    /\ AllWait
    /\ bounces[b] > 0
    /\ low' = [low EXCEPT ![b] = ~@]
    /\ UNCHANGED <<down, bounces, at, delay, channel, told>>

----------------------------------------------------------------------------
(* button_task.                                                            *)

Goes(b, place) ==
    /\ at' = [at EXCEPT ![b] = place]
    /\ UNCHANGED <<down, low, bounces>>

Sleeps(b) == delay' = [delay EXCEPT ![b] = DEBOUNCE] /\ UNCHANGED <<channel, told>>

SeesPress(b) ==
    \/ at[b] = "high" /\ ~low[b] /\ Goes(b, "low") /\ UNCHANGED <<delay, channel, told>>
    \/ at[b] = "low" /\ low[b] /\ Goes(b, "debounce") /\ Sleeps(b)

Rechecks(b) ==
    /\ at[b] = "debounce" /\ delay[b] = 0
    /\ Goes(b, IF low[b] THEN "send" ELSE "high")
    /\ UNCHANGED <<delay, channel, told>>

\* Mutant: no wait for the release, and a level for the edge.
SendsWhileLow == "low"

\* What follows a send.
AfterSend == "still_low"

HasRoom == Len(channel) < BUTTON_CAP

\* Mutant: the event is dropped when there is no room (try_send).
DropsEvent(b) ==
    /\ at[b] = "send"
    /\ channel' = IF HasRoom THEN Append(channel, b) ELSE channel
    /\ told' = [told EXCEPT ![b] = HasRoom]
    /\ Goes(b, AfterSend)
    /\ UNCHANGED delay

\* tx.send waits for room in the channel.
SendsEvent(b) ==
    /\ at[b] = "send" /\ HasRoom
    /\ channel' = Append(channel, b)
    /\ told' = [told EXCEPT ![b] = TRUE]
    /\ Goes(b, AfterSend)
    /\ UNCHANGED delay

SeesRelease(b) ==
    \/ at[b] = "still_low" /\ low[b] /\ Goes(b, "released") /\ UNCHANGED <<delay, channel, told>>
    \/ at[b] = "released" /\ ~low[b] /\ Goes(b, "rest") /\ Sleeps(b)

Rests(b) ==
    /\ at[b] = "rest" /\ delay[b] = 0
    /\ Goes(b, "high")
    /\ UNCHANGED <<delay, channel, told>>

ButtonTask(b) == SeesPress(b) \/ Rechecks(b) \/ SendsEvent(b) \/ SeesRelease(b) \/ Rests(b)

----------------------------------------------------------------------------
\* The UI loop takes a press.
UiTakes ==
    /\ channel # <<>>
    /\ channel' = Tail(channel)
    /\ UNCHANGED <<down, low, bounces, at, delay, told>>

OneLess(n) == IF n > 0 THEN n - 1 ELSE 0

\* A contact that has settled is at its finger's level.
Elapses ==
    /\ AllWait
    /\ \E b \in Button : bounces[b] > 0 \/ delay[b] > 0
    /\ bounces' = [b \in Button |-> OneLess(bounces[b])]
    /\ delay' = [b \in Button |-> OneLess(delay[b])]
    /\ low' = [b \in Button |-> IF bounces[b] <= 1 THEN down[b] ELSE low[b]]
    /\ UNCHANGED <<down, at, channel, told>>

ButtonsNext ==
    \/ \E b \in Button : Moves(b) \/ Bounces(b) \/ ButtonTask(b)
    \/ UiTakes
    \/ Elapses

ButtonsSpec == ButtonsInit /\ [][ButtonsNext]_buttonVars

\* Time goes on and every task runs; the UI loop takes what is there (it may
\* be held up for a while, by a flush or by a full command channel), and the
\* other buttons are not pressed such that they get every place for ever.
ButtonsFairness ==
    /\ WF_buttonVars(Elapses) /\ WF_buttonVars(UiTakes)
    /\ \A b \in Button : SF_buttonVars(ButtonTask(b))

ButtonsFairSpec == ButtonsSpec /\ ButtonsFairness

----------------------------------------------------------------------------
(* Properties.                                                             *)

ButtonsTypeOK ==
    /\ down \in [Button -> BOOLEAN] /\ low \in [Button -> BOOLEAN]
    /\ bounces \in [Button -> 0 .. BOUNCE] /\ delay \in [Button -> 0 .. DEBOUNCE]
    /\ at \in [Button -> Place]
    /\ channel \in Seq(Button) /\ Len(channel) <= BUTTON_CAP
    /\ told \in [Button -> BOOLEAN]

\* One press is one event, however the contact bounces and however long the
\* channel keeps the task waiting ("to avoid repeat triggers", buttons.rs:41).
OneEventPerPress ==
    [][\A b \in Button : SendsEvent(b) => ~told[b]]_buttonVars

\* A press that finds its task waiting for one is sent, if it is held,
\* however long the UI loop leaves the channel full: a bounce never ends it.
HeldPressIsHeard ==
    \A b \in Button :
        at[b] = "low" /\ down[b] ~> told[b] \/ ~down[b]

\* The task waits for the release of a press it has sent ("sends the event,
\* then waits for release before repeating", buttons.rs:22-23), so a press it
\* has not sent is never the one it waits to see released.
WaitsForOwnRelease ==
    \A b \in Button :
        at[b] = "released" /\ down[b] /\ bounces[b] = 0 => told[b]
=============================================================================
