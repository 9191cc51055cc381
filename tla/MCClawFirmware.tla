--------------------------- MODULE MCClawFirmware ---------------------------
(***************************************************************************)
(* The firmware alone, under a host that drives the wires at will.  A play  *)
(* may last seven ticks, two more than a pulse sequence takes, and the      *)
(* timeout of the Y axis is just longer than the end pulse that delays it.  *)
(***************************************************************************)
EXTENDS ClawFirmware

\* A player who lets go of everything, or asks for it with the lift up or down;
\* each reading of the home switches.
MCInputs ==
  {[ch6 |-> lift # "stopped", axes |-> IF lift # "stopped" THEN Axes ELSE {},
    lift |-> lift, xHome |-> x, yHome |-> y] : x, y \in BOOLEAN, lift \in Lifts}
=============================================================================
