------------------------------- MODULE Slots -------------------------------
(***************************************************************************)
(* The slot a proposal names, as a function of the call's arguments:       *)
(* allocator/scheduling.py, and the baseline's loop in recovery/sim/arms.py*)
(* which differs by its margin only.  Scheduling runs the same search a    *)
(* turn of the loop at a time and is checked against these operators; the  *)
(* simulator uses them as they stand.                                      *)
(***************************************************************************)
EXTENDS Guard, FiniteSetsExt

(* replace(second=0, microsecond=0)                                        *)
truncated(t) == t - (t % Minute)

(* Variant: one lead for every rail.                                       *)
earliest_permitted_flat(t, r, m) == t + LeadHours["upi"] * Hour + m * Minute

(* The soonest moment a decision made at t could execute, with a margin.   *)
earliest_permitted(t, r, m) == t + LeadHours[r] * Hour + m * Minute

start_of(day) == combine(day, 30)

floor_of(t, day, r, m) == Max({start_of(day), earliest_permitted(t, r, m)})

(* Variant: an hour at a time.                                             *)
StepByHour == 60

(* timedelta(minutes=15)                                                   *)
StepMinutes == 15

(* Every quarter-hour lattice of a day has a point outside the peaks, so   *)
(* the bound of 2880 steps in next_compliant_slot is never reached.        *)
ASSUME LatticeAssumption ==
    \A t \in 0..(Day - 1) : \E k \in 0..95 : ~is_peak(t + k * StepMinutes * Minute)

next_compliant_slot(not_before) ==
    truncated(not_before) + StepMinutes * Minute *
        Min({k \in 0..95 : ~is_peak(truncated(not_before) + k * StepMinutes * Minute)})

(* The search of one slot and, past the completion deadline, of the next   *)
(* morning's; any other violation of the answer holds the case.            *)
compliant_slot(t, day, r, m) ==
    LET violation(slot) == check_attempt(t, slot, 0, r)
        first == next_compliant_slot(floor_of(t, day, r, m))
        slot  == IF violation(first) = "past_upi_completion_deadline"
                 THEN next_compliant_slot(start_of(date(first) + 1)) ELSE first
    IN  IF violation(slot) = "permitted" THEN slot ELSE None
=============================================================================
