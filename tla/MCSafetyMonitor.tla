-------------------------- MODULE MCSafetyMonitor --------------------------
(* Values of the constants of SafetyMonitor for TLC.  Speeds count tenths  *)
(* of the units of the code.                                               *)
EXTENDS SafetyMonitor

MCNominal == [a \in Axis |-> IF a = "linear" THEN 5 ELSE 10]
MCDegraded == [a \in Axis |-> IF a = "linear" THEN 2 ELSE 5]

(* Zero, a speed over both limits backwards, and a broken command.         *)
MCCommand == {
    [a \in Axis |-> 0],
    [a \in Axis |-> -12],
    [a \in Axis |-> IF a = "linear" THEN 4 ELSE NaN]}
=============================================================================
