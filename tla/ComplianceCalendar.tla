------------------------- MODULE ComplianceCalendar -------------------------
(***************************************************************************)
(* C4's calendar (recovery/sim/calendar.py): what the regulator allows, as *)
(* operators on moments.  A moment is a number of ticks since midnight IST *)
(* of some day 0.  The code's datetimes carry seconds; two ticks a minute  *)
(* tell a whole minute from a fraction of one, and nothing in the code     *)
(* tells two fractions apart.                                              *)
(***************************************************************************)
EXTENDS Integers, FiniteSets

CONSTANTS
    Rails,          \* payment methods, "upi" among them
    PeakWindows,    \* set of <<start, end>> times of day, in minutes
    LeadHours,      \* [Rails -> Nat]: pdn_lead_for(rail)
    PdnCutoff,      \* pdn_cutoff_ist, in minutes
    UpiDeadline,    \* upi_completion_deadline_ist, in minutes
    AttemptCap      \* attempt_cap

Minute == 2
Hour == 120
Day == 2880

MinuteOfDay == 0..1439

ASSUME CalendarAssumption ==
    /\ "upi" \in Rails
    /\ PeakWindows \subseteq (MinuteOfDay \X MinuteOfDay)
    /\ LeadHours \in [Rails -> Nat]
    /\ PdnCutoff \in MinuteOfDay
    /\ UpiDeadline \in MinuteOfDay
    /\ AttemptCap \in Nat \ {0}

date(t) == t \div Day
clock(t) == t % Day

(* dt.datetime.combine                                                     *)
combine(day, minute) == day * Day + minute * Minute

is_peak(t) ==
    \E w \in PeakWindows : w[1] * Minute <= clock(t) /\ clock(t) < w[2] * Minute

past_upi_completion_deadline(t) == clock(t) >= UpiDeadline * Minute

(* Latest moment a pre-debit notification may go out for a debit at t: the *)
(* rail's lead before it, and before the cutoff when the debit falls on    *)
(* the next calendar day.                                                  *)
pdn_deadline_for(t, rail) ==
    LET deadline == t - LeadHours[rail] * Hour
        cutoff   == combine(date(deadline), PdnCutoff - 1)
    IN  IF date(t) - date(deadline) <= 1 /\ cutoff < deadline THEN cutoff ELSE deadline

(* The reason an attempt is refused, in the order the code asks.           *)
check_attempt(decided_at, execute_at, attempts_used, rail) ==
    IF attempts_used >= AttemptCap THEN "attempt_cap_exhausted" ELSE
    IF execute_at <= decided_at THEN "execute_at_not_in_future" ELSE
    IF is_peak(execute_at) THEN "peak_hour_barred" ELSE
    IF rail = "upi" /\ past_upi_completion_deadline(execute_at)
        THEN "past_upi_completion_deadline" ELSE
    IF decided_at > pdn_deadline_for(execute_at, rail) THEN "pdn_lead_time_unmet" ELSE
    "permitted"
=============================================================================
