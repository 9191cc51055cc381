--------------------------- MODULE MCClawMachine ---------------------------
(***************************************************************************)
(* Small instances of the machine.  The firmware limit of 180 seconds is    *)
(* three ticks, so MaxDuration is three ticks too, and the startup time of  *)
(* a dashboard play is one: a play of three ticks outlasts the limit.       *)
(***************************************************************************)
EXTENDS ClawMachine

MCPercents        == {50}
MCOnePercent      == {100}
MCInitialPercents == {100}
MCDurations       == {1}
MCLongDurations   == {3}
MCMixedDurations  == {1, 3}
MCStartups        == {0, 1}
MCStartup         == {1}
MCNoStartup       == {0}
MCNoFaults        == {}
MCFaults          == {"write", "restart", "arduino"}
MCBothKeepUp      == {"firmware", "host"}
MCNeitherKeepsUp  == {}

\* The player closes the grabber; the home switches answer or do not.
MCInputs ==
  {[ch6 |-> TRUE, axes |-> {}, lift |-> "stopped", xHome |-> home, yHome |-> home] :
     home \in BOOLEAN}

\* One reading is enough where every fault may happen.
MCHomeInputs == {in \in MCInputs : in.yHome}
=============================================================================
