---------------------------- MODULE MCScheduling ----------------------------
(***************************************************************************)
(* Scheduling with the windows of config/default.yaml, over every half     *)
(* minute of a day.  The fallback lead, which a rail without a figure of   *)
(* its own gets, is the regulator's 24 h instead of the file's 25, so that *)
(* the cutoff comes into play.                                             *)
(***************************************************************************)
EXTENDS Scheduling

ConfigPeaks == {<<600, 780>>, <<1020, 1290>>}
Lead == [r \in Rails |-> CASE r = "upi" -> 25 [] r = "card" -> 36 [] OTHER -> 24]
EveryTick == 0..(Day - 1)

(* What SchedulingProofs asks of the windows.                              *)
ASSUME ConfiguredWindows == EarlyMorningIsFree /\ QuarterHoursTell
=============================================================================
