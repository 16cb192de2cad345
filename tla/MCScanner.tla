----------------------------- MODULE MCScanner -----------------------------
(* Instances of Scanner and Buttons for TLC.                               *)
EXTENDS Scanner, Buttons

CONSTANTS p1, p2, p3

TwoPeripherals == {p1, p2}
ThreePeripherals == {p1, p2, p3}

Services(uuids)     == [kind |-> "services", type |-> 3, uuids |-> uuids]
SomeServices(uuids) == [kind |-> "services", type |-> 2, uuids |-> uuids]
Name(chars)         == [kind |-> "name", type |-> 9, chars |-> chars]
Shortened(chars)    == [kind |-> "name", type |-> 8, chars |-> chars]
Flags               == [kind |-> "other", type |-> 1, bytes |-> <<6>>]

Packet(structures, tail) == [structures |-> structures, tail |-> tail]
Silence == Packet(<<>>, <<>>)

Short == <<75>>
Long  == <<77, 111, 117>>

BATTERY == 6159
SWAPPED == 4632
ODD     == <<4623, 24>>

Keyboard   == [adv |-> Packet(<<Flags, Services(<<BATTERY, HID_SERVICE>>), Name(Long)>>, <<0, 0>>),
               rsp |-> Silence]
Mouse      == [adv |-> Packet(<<SomeServices(<<HID_SERVICE>>)>>, <<>>),
               rsp |-> Packet(<<Shortened(Short)>>, <<>>)]
Answering  == [adv |-> Packet(<<Name(Short)>>, <<>>),
               rsp |-> Packet(<<Shortened(Long), Services(<<HID_SERVICE>>)>>, <<>>)]
\* No HID service, though its bytes are there: swapped, at an odd offset, in
\* a structure that is cut off, and behind padding.
Sensor     == [adv |-> Packet(<<Flags, Services(<<BATTERY, SWAPPED>>)>>, <<5, 3, 18, 24>>),
               rsp |-> Packet(<<Services(ODD), Name(Short)>>, <<0, 3, 3, 18, 24>>)]

AllProfiles == {Keyboard, Mouse, Answering, Sensor}

ASSUME ParserReadsThem == ParserReads
----------------------------------------------------------------------------
\* A behaviour here is one of Scanner or one of Buttons, which share nothing;
\* the other's variables stay as they are.
VARIABLE part
inputVars == <<vars, buttonVars, part>>

InputInit ==
    /\ part \in {"scans", "buttons"}
    /\ Init /\ ButtonsInit
    /\ part = "buttons" => \A p \in Address : air[p] = Sensor

InputNext ==
    \/ part = "scans" /\ Next /\ UNCHANGED <<buttonVars, part>>
    \/ part = "buttons" /\ ButtonsNext /\ UNCHANGED <<vars, part>>

\* The fairness of both.  Nothing that Scanner is fair to can happen before a
\* scan is started, nor Elapses and UiTakes before a button moves.
InputFairness ==
    /\ Fairness
    /\ WF_buttonVars(Elapses) /\ WF_buttonVars(UiTakes)
    /\ \A b \in Button : SF_buttonVars(part = "buttons" /\ ButtonTask(b))

InputSpec == InputInit /\ [][InputNext]_inputVars /\ InputFairness
=============================================================================
