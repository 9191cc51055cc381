------------------------ MODULE MCRuntimeController ------------------------
(***************************************************************************)
(* Small instances of RuntimeController.  A tick is the unit of all times:  *)
(* a play of one tick follows a startup of at most one, and one of three is *)
(* refused by the validator, as is a claw power of 130%.  The configured    *)
(* 100% and the 50% that may replace it set A1-A3 to different codes.       *)
(***************************************************************************)
EXTENDS RuntimeController

MCPercents        == {50, 130}
MCInitialPercents == {100}
MCDurations       == {1, 3}
MCStartups        == {0, 1}
MCWriteFaults     == {"write"}
MCOutputFaults    == {"outputs"}
MCAllFaults       == {"write", "outputs", "restart"}
=============================================================================
