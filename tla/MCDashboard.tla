---------------------------- MODULE MCDashboard ----------------------------
(***************************************************************************)
(* Small instances of Dashboard.  55% is not a multiple of ten: it reaches  *)
(* the controller unrounded through /api/claw/power and rounded through     *)
(* /api/settings.  No people and four people give different powers, and     *)
(* neither is one of Percents.                                              *)
(***************************************************************************)
EXTENDS Dashboard

MCPercents        == {55}
MCInitialPercents == {100}
MCAiCounts        == {0, 4}
MCOneAiCount      == {4}
MCTargets         == {1, 2}
MCOneTarget       == {1}
MCManual          == {"manual"}
MCEitherMode      == {"manual", "ai"}
MCNoFaults        == {}
MCAllFaults       == {"transport", "restart"}
=============================================================================
