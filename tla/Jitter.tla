------------------------------- MODULE Jitter -------------------------------
(***************************************************************************)
(* The spreading of slots (StormGovernor.jitter, recovery/governor.py): a  *)
(* slot that the allocator found is moved forward by a number of minutes   *)
(* that a hash of the case's key gives, the same on every replay.  "The    *)
(* governor must never turn a compliant proposal into a non-compliant one" *)
(* (governor.py:306-308): the theorems tell what of this holds.            *)
(***************************************************************************)
EXTENDS Slots, TLAPS

CONSTANT JitterMinutes

(* What the digest of a key may come to.                                   *)
Offsets == 0..JitterMinutes

jitter(execute_at, offset) == execute_at + offset * Minute
-----------------------------------------------------------------------------
(* Deadline and cutoff, in numbers: x stands `lead` before the debit on day*)
(* dx, the debit is on day dt, and the cutoff is c ticks into a day.       *)
Cut(x, dx, dt, c) == IF dt - dx <= 1 /\ dx * 2880 + c < x THEN dx * 2880 + c ELSE x

(* Tick x is on day d.                                                     *)
OnDay(x, d) == d \in Int /\ d * 2880 <= x /\ x < d * 2880 + 2880

LEMMA CutMonotone ==
    ASSUME NEW a \in Int, NEW da, NEW dt \in Int, NEW b \in Int, NEW db, NEW du \in Int,
           NEW c \in Nat,
           OnDay(a, da), OnDay(b, db), a <= b, dt <= du
    PROVE  Cut(a, da, dt, c) <= Cut(b, db, du, c)
<1>1. CASE da < db
  BY <1>1 DEF Cut, OnDay
<1>2. CASE da = db
  BY <1>2 DEF Cut, OnDay
<1> QED
  BY <1>1, <1>2 DEF OnDay

LEMMA DayOf == ASSUME NEW t \in Int PROVE OnDay(t, date(t)) /\ date(t) \in Int
BY DEF OnDay, date, Day

(* A later debit never has an earlier deadline for its notification, though*)
(* the cutoff of 23:50 bites on some days and not on others.               *)
LEMMA DeadlineMonotone ==
    ASSUME NEW rail \in Rails, NEW t \in Int, NEW u \in Int, t <= u, PdnCutoff # 0
    PROVE  pdn_deadline_for(t, rail) <= pdn_deadline_for(u, rail)
<1> DEFINE lead == LeadHours[rail] * Hour
           c == (PdnCutoff - 1) * 2
<1>1. lead \in Nat
  BY CalendarAssumption DEF Hour
<1>2. c \in Nat
  BY CalendarAssumption DEF MinuteOfDay
<1>3. /\ pdn_deadline_for(t, rail) = Cut(t - lead, date(t - lead), date(t), c)
      /\ pdn_deadline_for(u, rail) = Cut(u - lead, date(u - lead), date(u), c)
  BY DEF pdn_deadline_for, combine, Cut, Day, Minute
<1> HIDE DEF lead, c
<1>4. t - lead \in Int /\ u - lead \in Int /\ t - lead <= u - lead
  BY <1>1
<1>5. date(t) \in Int /\ date(u) \in Int /\ date(t) <= date(u)
  <2>1. OnDay(t, date(t)) /\ OnDay(u, date(u))
    BY DayOf, Zenon
  <2> QED
    BY <2>1 DEF OnDay
<1>6. OnDay(t - lead, date(t - lead)) /\ OnDay(u - lead, date(u - lead))
  BY <1>4, DayOf, Zenon
<1>7. Cut(t - lead, date(t - lead), date(t), c) <= Cut(u - lead, date(u - lead), date(u), c)
  BY <1>2, <1>4, <1>5, <1>6, CutMonotone, Zenon
<1> QED
  BY <1>3, <1>7

(* Moving forward keeps the notice and the order of decision and execution *)
(* (governor.py, jitter): what a moved slot can violate is the peak barring*)
(* and, on UPI, the completion deadline, and nothing else.                 *)
THEOREM JitterKeepsNotice ==
    ASSUME NEW rail \in Rails, NEW t \in Int, NEW slot \in Int, NEW offset \in Offsets,
           JitterMinutes \in Nat, PdnCutoff # 0,
           check_attempt(t, slot, 0, rail) = "permitted"
    PROVE  check_attempt(t, jitter(slot, offset), 0, rail)
             \in {"permitted", "peak_hour_barred", "past_upi_completion_deadline"}
<1> DEFINE moved == jitter(slot, offset)
<1>1. moved \in Int /\ slot <= moved
  BY DEF jitter, Offsets, Minute
<1> HIDE DEF moved
<1>2. ~(0 >= AttemptCap) /\ ~(slot <= t) /\ ~(t > pdn_deadline_for(slot, rail))
  BY DEF check_attempt
<1>3. pdn_deadline_for(slot, rail) <= pdn_deadline_for(moved, rail)
  BY <1>1, DeadlineMonotone
<1>4. ~(moved <= t)
  BY <1>1, <1>2
<1>5. /\ pdn_deadline_for(slot, rail) \in Int
      /\ pdn_deadline_for(moved, rail) \in Int
  <2> ASSUME NEW x \in Int PROVE pdn_deadline_for(x, rail) \in Int
    <3>1. LeadHours[rail] \in Nat /\ PdnCutoff \in Int
      BY CalendarAssumption DEF MinuteOfDay
    <3>2. x - LeadHours[rail] * Hour \in Int
      BY <3>1 DEF Hour
    <3>3. date(x - LeadHours[rail] * Hour) \in Int
      BY <3>2, DayOf, Zenon
    <3> QED
      BY <3>1, <3>2, <3>3 DEF pdn_deadline_for, combine, Day, Minute
  <2> QED
    BY <1>1
<1>6. ~(t > pdn_deadline_for(moved, rail))
  BY <1>2, <1>3, <1>5
<1>7. check_attempt(t, moved, 0, rail)
        \in {"permitted", "peak_hour_barred", "past_upi_completion_deadline"}
  BY <1>2, <1>4, <1>6 DEF check_attempt
<1> QED
  BY <1>7 DEF moved

(* What the docstring rules out does happen: from a permitted slot within  *)
(* jitter_minutes of a peak window, some key is moved to its first minute. *)
THEOREM JitterReachesPeak ==
    ASSUME NEW rail \in Rails, NEW t \in Int, NEW slot \in Int, JitterMinutes \in Nat,
           check_attempt(t, slot, 0, rail) = "permitted",
           NEW from \in MinuteOfDay, NEW to \in MinuteOfDay, from < to,
           <<from, to>> \in PeakWindows,
           NEW k \in Offsets, clock(slot + k * Minute) = from * Minute
    PROVE  \E offset \in Offsets :
               check_attempt(t, jitter(slot, offset), 0, rail) = "peak_hour_barred"
<1>1. from \in Int /\ to \in Int
  BY DEF MinuteOfDay
<1>2. is_peak(jitter(slot, k))
  BY <1>1 DEF is_peak, jitter, Minute
<1>3. ~(0 >= AttemptCap) /\ ~(slot <= t)
  BY DEF check_attempt
<1>4. jitter(slot, k) \in Int /\ slot <= jitter(slot, k)
  BY DEF jitter, Offsets, Minute
<1>5. ~(jitter(slot, k) <= t)
  BY <1>3, <1>4
<1>6. check_attempt(t, jitter(slot, k), 0, rail) = "peak_hour_barred"
  BY <1>2, <1>3, <1>5 DEF check_attempt
<1> QED
  BY <1>6
=============================================================================
