------------------------------ MODULE MCSearch ------------------------------
(***************************************************************************)
(* Orderings of up to seven actions over two payments of one order, with   *)
(* the calendar of config/default.yaml.                                    *)
(***************************************************************************)
EXTENDS Ledger

ConfigPeaks == {<<600, 780>>, <<1020, 1290>>}
Lead == [r \in Rails |-> IF r = "card" THEN 36 ELSE 25]
=============================================================================
