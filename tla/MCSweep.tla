------------------------------- MODULE MCSweep ------------------------------
(* One transcript grows until it no longer fits a batch with the other, then *)
(* past the budget, so that it has to go out alone, and then past the        *)
(* envelope limit; requests with the other may fail each time.               *)
(* With two exporters on one state file, it grows once.                      *)
EXTENDS Sweep, TLC

CONSTANTS grows, poison

MCLongest == [p \in Path |-> IF p = grows THEN 4 ELSE 1]
MCShort   == [p \in Path |-> IF p = grows THEN 2 ELSE 1]
MCPlace   == [p \in Path |-> IF p = grows THEN 2 ELSE 1]
MCSession == [p \in Path |-> p]
MCSame    == [p \in Path |-> grows]
MCSymmetry == Permutations(Exporter)
=============================================================================
