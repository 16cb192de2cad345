---------------------------- MODULE MCReportPath ----------------------------
(* Instances of ReportPath for TLC.                                        *)
EXTENDS ReportPath, TLC

CONSTANTS w1, w2, a, up

TwoWorkers == {w1, w2}
OneWorker == {w1}

TwoStates == {up, a}

\* Two keyboards that share the USB keyboard.
TwoKeyboards == (w1 :> {"keyboard"} @@ w2 :> {"keyboard"})
Everything == (w1 :> {"keyboard", "mouse", "consumer"})
OneMouse == (w1 :> {"mouse"})

KeyboardAndMouse == (w1 :> {"keyboard", "mouse"})

OneStep == {1}
BackAndForth == {-1, 1}
Small == -2
I8 == -128
Still == {0}
FarLeft == {-127, -1}
=============================================================================
