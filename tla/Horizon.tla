------------------------------- MODULE Horizon -------------------------------
(***************************************************************************)
(* C8 and the horizon of C5 (recovery/sim/horizon.py, sweep.py): after how *)
(* many months of remaining lifetime one arm is worth more than another.   *)
(* An arm is the money it recovered in the cycle, in paise, and the        *)
(* mandates it preserved; the crossing is kept as the gap to be made good  *)
(* and the gain of a month, whose quotient is the code's `months`.         *)
(***************************************************************************)
EXTENDS Integers

CONSTANT monthly_value      \* paise of one mandate in one month

ArmBooks == [cycle : Nat, preserved : Nat]

(* SurvivalBasis.count, on the books of a finished run.                    *)
count(basis, metrics) ==
    IF basis = "not_revoked" THEN metrics.preserved
    ELSE IF metrics.preserved > metrics.halted THEN metrics.preserved - metrics.halted ELSE 0

value_paise(arm, lifetime_months) ==
    arm.cycle + arm.preserved * (monthly_value * lifetime_months)

cycle_gap(challenger, incumbent) == incumbent.cycle - challenger.cycle
preserved_gap(challenger, incumbent) == challenger.preserved - incumbent.preserved

(* horizon.py's crossover; sweep.py's never divides by a month of no value.*)
already_ahead(challenger, incumbent) ==
    cycle_gap(challenger, incumbent) <= 0 /\ preserved_gap(challenger, incumbent) >= 0

never(challenger, incumbent) ==
    /\ ~already_ahead(challenger, incumbent)
    /\ preserved_gap(challenger, incumbent) <= 0

_crossover_months(challenger, incumbent) ==
    [gap  |-> cycle_gap(challenger, incumbent),
     gain |-> preserved_gap(challenger, incumbent) * monthly_value]

(* months <= horizon                                                       *)
wins_against(challenger, incumbent, horizon) ==
    \/ already_ahead(challenger, incumbent)
    \/ /\ ~never(challenger, incumbent) /\ monthly_value > 0
       /\ LET months == _crossover_months(challenger, incumbent)
          IN  months.gap <= horizon * months.gain
=============================================================================
