----------------------------- MODULE SimTarget -----------------------------
(***************************************************************************)
(* The binary that runs in the Renode simulator (src/src/sim.rs): the real *)
(* reducers of Coordinator and UiLogic, without a radio.  Whenever a timer *)
(* runs out, one more step of a script is put through the coordinator's    *)
(* reducers; a second task feeds button events into the channel of the     *)
(* real button tasks, whose presses are there as well.  What is written to *)
(* the UART is every action the reducers asked for in the script's step.   *)
(***************************************************************************)
EXTENDS Coordinator, UiLogic

CONSTANTS
    Keyboard, Mouse,    \* the script's devices
    TICK,               \* seconds in the loop's timer (2)
    PERIOD,             \* seconds between two stimuli (3)
    BUTTON_CAP,         \* BUTTON_CHANNEL (4)
    MaxPushes          \* how often the buttons themselves are pressed

ASSUME SimAssumption ==
    /\ Keyboard # Mouse /\ NoAddress \notin {Keyboard, Mouse}
    /\ MAX_CONNECTIONS >= 2
    /\ TICK \in Nat \ {0} /\ PERIOD \in Nat \ {0} /\ BUTTON_CAP \in Nat \ {0}

VARIABLES
    table,       \* the slot table
    step,        \* step % 4: the script's next step
    logged,      \* the actions the last step wrote to the UART
    screen, selected,
    channel,     \* BUTTON_CHANNEL
    timer,       \* what is left of the loop's timer
    stimulus,    \* ui_stimulus: i % 4, and what is left of its timer
    pushes

simVars == <<table, step, logged, screen, selected, channel, timer, stimulus, pushes>>

devices == <<Keyboard, Mouse>>

sequence == <<"Select", "Down", "Select", "Down">>

SimInit ==
    /\ table = NewManager
    /\ step = 0
    /\ logged = <<>>
    /\ screen = "Home" /\ selected = 0
    /\ channel = <<>>
    /\ timer = TICK
    /\ stimulus = [i |-> 0, left |-> PERIOD]
    /\ pushes = 0

----------------------------------------------------------------------------
(* scenario_step.                                                          *)

\* Steps 0 and 1: a ConnectSlot is answered with a link.  A plan asks for one
\* at most.
Connects(index) ==
    LET plan == plan_connect(table, devices, index)
        requests == {k \in DOMAIN plan.actions : plan.actions[k].kind = "ConnectSlot"}
        request == plan.actions[CHOOSE k \in requests : TRUE]
        done == on_slot_connected(plan.manager, request.slot, request.device)
    IN  IF requests = {} THEN plan ELSE Decision(done.manager, plan.actions \o done.actions)

\* Step 2.
LosesLink == on_slot_disconnected(table, 0)

\* Step 3: the slots are freed one after the other.
DisconnectsEach ==
    LET plan == plan_disconnect(table)
        slots == UNION {plan.actions[k].slots : k \in DOMAIN plan.actions}
        freed[n \in 0 .. MAX_CONNECTIONS] ==
            IF n = 0 THEN Decision(plan.manager, <<>>)
            ELSE IF n - 1 \notin slots THEN freed[n - 1]
            ELSE LET d == on_slot_disconnected(freed[n - 1].manager, n - 1)
                 IN  Decision(d.manager, freed[n - 1].actions
                                           \o <<DisconnectSlots({n - 1})>> \o d.actions)
    IN  freed[MAX_CONNECTIONS]

scenario_step ==
    CASE step = 0 -> Connects(0)
      [] step = 1 -> Connects(1)
      [] step = 2 -> LosesLink
      [] step = 3 -> DisconnectsEach

----------------------------------------------------------------------------
(* The loop: one select over the channel and a timer that is new in every  *)
(* round; the channel is looked at first.                                  *)

NextRound == TICK

Ticks ==
    /\ channel = <<>> /\ timer = 0
    /\ table' = scenario_step.manager
    /\ logged' = scenario_step.actions
    /\ step' = (step + 1) % 4
    /\ timer' = NextRound
    /\ UNCHANGED <<screen, selected, channel, stimulus, pushes>>

\* The rows are the script's devices whatever the screen.
TakesButton ==
    /\ channel # <<>>
    /\ LET ui == [InitialUi EXCEPT !.screen = screen, !.selected = selected,
                                   !.device_count = Len(devices)]
           out == on_button(ui, Head(channel))
       IN  screen' = out.screen /\ selected' = out.selected
    /\ channel' = Tail(channel)
    /\ timer' = NextRound
    /\ UNCHANGED <<table, step, logged, stimulus, pushes>>

HasRoom == Len(channel) < BUTTON_CAP

\* ui_stimulus.
Stimulates ==
    /\ stimulus.left = 0 /\ HasRoom
    /\ channel' = Append(channel, sequence[stimulus.i + 1])
    /\ stimulus' = [i |-> (stimulus.i + 1) % 4, left |-> PERIOD]
    /\ UNCHANGED <<table, step, logged, screen, selected, timer, pushes>>

\* button_task, where edges get through to it.
Pushes(btn) ==
    /\ pushes < MaxPushes /\ HasRoom
    /\ channel' = Append(channel, btn)
    /\ pushes' = pushes + 1
    /\ UNCHANGED <<table, step, logged, screen, selected, timer, stimulus>>

\* Nothing here takes a second to do.
TimePasses ==
    /\ channel = <<>> /\ timer > 0 /\ stimulus.left > 0
    /\ timer' = timer - 1
    /\ stimulus' = [stimulus EXCEPT !.left = @ - 1]
    /\ UNCHANGED <<table, step, logged, screen, selected, channel, pushes>>

Runs == Ticks \/ TakesButton \/ Stimulates \/ TimePasses

SimNext == Runs \/ \E btn \in ButtonEvent : Pushes(btn)

SimSpec == SimInit /\ [][SimNext]_simVars

SimFairSpec == SimSpec /\ WF_simVars(Runs)

----------------------------------------------------------------------------
(* Properties.                                                             *)

SimTypeOK ==
    /\ \A s \in Slots : table[s].address \in {Keyboard, Mouse, NoAddress}
    /\ step \in 0 .. 3
    /\ screen \in Screen /\ selected \in 0 .. Len(devices) - 1
    /\ channel \in Seq(ButtonEvent) /\ Len(channel) <= BUTTON_CAP
    /\ timer \in 0 .. TICK
    /\ stimulus \in [i : 0 .. 3, left : 0 .. PERIOD]

\* Every round of the script does what it says, through the real reducers and
\* from the table the round before left behind (sim.rs:138: "connect kbd ->
\* connect mouse -> drop one -> disconnect all").
ScriptRunsAsWritten ==
    /\ active_count(table) = CASE step = 0 -> 0 [] step = 2 -> 2 [] OTHER -> 1
    /\ CASE step = 1 -> logged = <<ConnectSlot(0, Keyboard), PersistDevice(Keyboard),
                                   Emit(UiConnected(Keyboard))>>
         [] step = 2 -> logged = <<ConnectSlot(1, Mouse), PersistDevice(Mouse),
                                   Emit(UiConnected(2))>>
         [] step = 3 -> logged = <<Emit(UiConnected(Mouse))>>
         [] step = 0 -> /\ OccupiedSlots(table) = {}
                        /\ logged \in {<<>>, <<DisconnectSlots({1}), Emit(UiDisconnected)>>}

\* The stimuli get to the device list ("DeviceList navigation (once
\* populated)", sim.rs:84).
StimuliNavigate == <>(screen = "DeviceList")
=============================================================================
