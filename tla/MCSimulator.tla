---------------------------- MODULE MCSimulator ----------------------------
(***************************************************************************)
(* The simulator under the authored configuration: one case of every rail, *)
(* class and emission.                                                     *)
(***************************************************************************)
EXTENDS Simulator, AuthoredConfig

ASSUME AuthoredConfigurationServes == Affordable /\ SoundLadder /\ Concerted /\ FundingInReach

Hours == {Hour, 26 * Hour, 34 * Hour}
=============================================================================
