-------------------------- MODULE MCOperatorStops --------------------------
(***************************************************************************)
(* OperatorStops on the small instances of the machine.                     *)
(***************************************************************************)
EXTENDS OperatorStops, MCClawMachine
=============================================================================
