---------------------------- MODULE MCMultiConn ----------------------------
(* Instances of MultiConn for TLC.                                         *)
EXTENDS MultiConn, TLC

CONSTANTS a1, a2, a3

ThreeAddresses == {a1, a2, a3}

OneError == {"ConnectFailed"}

\* The bonds stored for a1 and a2 both resolve the rotated address a3.
Rotating == {<<a1, a3>>, <<a2, a3>>}

PairSymmetry == Permutations({a1, a2})
=============================================================================
