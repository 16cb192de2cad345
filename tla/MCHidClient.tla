---------------------------- MODULE MCHidClient ----------------------------
(***************************************************************************)
(* Instances of HidClient for TLC.  The maps follow the firmware's own     *)
(* report descriptors, with a report ID where the device has several.      *)
(*                                                                         *)
(* The input reports of a link and the LED state of the host share         *)
(* nothing, so a behaviour here is one of HidClient or one of Leds, and    *)
(* the other's variables stay as they are.                                 *)
(***************************************************************************)
EXTENDS HidClient, Leds

WithId(id) == IF id = 0 THEN <<>> ELSE <<ReportId(id)>>

KeyboardMap(id) ==
    <<UsagePage("GenericDesktop"), Usage("Keyboard"), OtherMain>> \o WithId(id) \o
    <<UsagePage("Keyboard"), Ignored, Input, Input,
      UsagePage("Led"), OtherMain, UsagePage("Keyboard"), Input, OtherMain>>

MouseMap(id, pan) ==
    <<UsagePage("GenericDesktop"), Usage("Mouse"), OtherMain>> \o WithId(id) \o
    <<Usage("Pointer"), OtherMain, UsagePage("Button"), Input, Input,
      UsagePage("GenericDesktop"), Usage("X"), Usage("Y"), Input, Usage("Wheel"), Input>> \o
    (IF pan THEN <<UsagePage("Consumer"), Usage("AC Pan"), Input>> ELSE <<>>) \o
    <<OtherMain, OtherMain>>

ConsumerMap(id) ==
    <<UsagePage("Consumer"), Usage("Consumer Control"), OtherMain>> \o WithId(id) \o
    <<Ignored, Input, OtherMain>>

Report(kind, id) ==
    [kind |-> kind, id |-> id, type |-> "Input", cccd |-> TRUE]

LedReport(id) ==
    [kind |-> "keyboard", id |-> id, type |-> "Output", cccd |-> FALSE]

PlainKeyboard == [reports |-> <<Report("keyboard", 0), LedReport(0)>>, map |-> KeyboardMap(0)]

PlainMouse == [reports |-> <<Report("mouse", 0)>>, map |-> MouseMap(0, TRUE)]

MediaKeyboard ==
    [reports |-> <<Report("keyboard", 1), LedReport(1), Report("consumer", 2)>>,
     map |-> KeyboardMap(1) \o ConsumerMap(2)]

\* Media keys first, and IDs that mean something else to IdKind.
MediaFirst ==
    [reports |-> <<Report("consumer", 1), Report("keyboard", 3)>>,
     map |-> ConsumerMap(1) \o KeyboardMap(3)]

Combo ==
    [reports |-> <<Report("keyboard", 1), LedReport(1), Report("mouse", 2), Report("consumer", 3)>>,
     map |-> KeyboardMap(1) \o MouseMap(2, TRUE) \o ConsumerMap(3)]

Remote ==
    [reports |-> <<Report("keyboard", 1), Report("mouse", 2), Report("consumer", 3)>>,
     map |-> KeyboardMap(1) \o MouseMap(2, FALSE) \o ConsumerMap(3)]

Devices == {PlainKeyboard, PlainMouse, MediaKeyboard, MediaFirst, Combo, Remote}

Payloads ==
    [keyboard |-> {<<m, 0, k, 0, 0, 0, 0, 0>> : m \in 0 .. 3, k \in {0, 4}},
     mouse |-> {<<b, x, 0>> : b \in 0 .. 3, x \in {0, 1}}
                 \cup {<<b, x, 0, 0, 0>> : b \in 0 .. 3, x \in {0, 1}},
     consumer |-> {<<0, 0>>, <<233, 0>>, <<1, 2>>}]

----------------------------------------------------------------------------
CONSTANTS w1, w2, num, caps, unused

TwoWorkers == {w1, w2}
AllBits == {num, caps, unused}
TwoLeds == {num, caps}

VARIABLE part
linkVars == <<vars, ledsVars, part>>

LinkInit == part \in {"reports", "lamps"} /\ Init /\ LedsInit

LinkNext ==
    \/ part = "reports" /\ Next /\ UNCHANGED <<ledsVars, part>>
    \/ part = "lamps" /\ LedsNext /\ UNCHANGED <<vars, part>>

LinkSpec == LinkInit /\ [][LinkNext]_linkVars

\* Every write to a keyboard succeeds.
ReliableNext ==
    /\ LinkNext
    /\ \A w \in Workers : link[w] = "keyboard" => ~Wrote(w, FALSE)

ReliableSpec == LinkInit /\ [][ReliableNext]_linkVars
=============================================================================
