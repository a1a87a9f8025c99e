-------------------------- MODULE SchedulingProofs --------------------------
(***************************************************************************)
(* For every calendar, guard and set of margins that the assumptions of    *)
(* ComplianceCalendar, Guard and Scheduling allow: a search that clears    *)
(* the cutoff finds a slot, and the guard admits it; and, where 00:30 is   *)
(* free, the loop answers what compliant_slot answers.                     *)
(***************************************************************************)
EXTENDS Scheduling, TLAPS

(* Lead and margin of the call, in ticks.                                  *)
Ahead == LeadHours[rail] * Hour + margin * Minute

(* A candidate is a whole minute, at most one tick (what truncation takes) *)
(* short of the soonest permitted moment.                                  *)
Candidate ==
    slot # None =>
        /\ slot % Minute = 0
        /\ slot >= now + Ahead - 1

(* What check_attempt was asked of the slot on the way out of the loop.    *)
Chosen == pc \in {"offer", "done"} /\ slot # None => Violation = "permitted"

OffPeak == pc = "check" => ~is_peak(slot)

Inv == TypeOK /\ Candidate /\ OffPeak /\ Chosen /\ NeverGivesUp /\ GuardAgrees
-----------------------------------------------------------------------------
(* A day of ticks contains its moments.                                    *)
LEMMA DateClock ==
    ASSUME NEW t \in Int
    PROVE  /\ date(t) \in Int /\ clock(t) \in 0..(Day - 1)
           /\ date(t) * Day <= t /\ t < date(t) * Day + Day
BY DEF date, clock, Day

LEMMA Truncated ==
    ASSUME NEW t \in Nat
    PROVE  /\ truncated(t) \in Nat /\ truncated(t) % Minute = 0
           /\ t - 1 <= truncated(t) /\ truncated(t) <= t
BY DEF truncated, Minute

LEMMA NotificationInteger ==
    ASSUME NEW t \in Int, NEW r \in Rails
    PROVE  pdn_deadline_for(t, r) \in Int
<1>1. t - LeadHours[r] * Hour \in Int
  BY CalendarAssumption DEF Hour
<1>2. PdnCutoff \in Int
  BY CalendarAssumption DEF MinuteOfDay
<1>3. combine(date(t - LeadHours[r] * Hour), PdnCutoff - 1) \in Int
  BY <1>1, <1>2, DateClock DEF combine, Day, Minute
<1> QED
  BY <1>1, <1>3 DEF pdn_deadline_for

(* A whole minute L + M - 1 ticks after now, where lead L and margin M     *)
(* clear the cutoff by d ticks, leaves a notification sent d ticks after   *)
(* now in time, for any lead no longer than L.                             *)
LEMMA NotificationInTime ==
    ASSUME NEW t \in Nat, NEW s \in Nat, NEW r \in Rails, NEW q \in Rails, NEW m \in Nat,
           NEW d \in Nat,
           s % Minute = 0,
           s >= t + LeadHours[r] * Hour + m * Minute - 1,
           LeadHours[q] <= LeadHours[r],
           LeadHours[r] * Hour + m * Minute > Day + (1440 - PdnCutoff) * Minute + d,
           d < m * Minute
    PROVE  t + d <= pdn_deadline_for(s, q)
<1> DEFINE dl == s - LeadHours[q] * Hour
           cutoff == combine(date(dl), PdnCutoff - 1)
<1>1. LeadHours[q] \in Nat /\ LeadHours[r] \in Nat /\ PdnCutoff \in 0..1439
  BY CalendarAssumption DEF MinuteOfDay
<1>2. dl \in Int /\ date(dl) \in Int
  <2>1. dl \in Int
    BY <1>1 DEF Hour
  <2> HIDE DEF dl
  <2> QED
    BY <2>1, DateClock
<1>6. cutoff = date(dl) * 2880 + (PdnCutoff - 1) * 2 /\ cutoff \in Int
  BY <1>1, <1>2 DEF combine, Day, Minute
<1>3. t + d <= dl
  BY <1>1 DEF Hour, Minute
<1>4. ASSUME date(s) - date(dl) <= 1
      PROVE  t + d <= cutoff
  <2>1. /\ date(dl) \in Int /\ date(s) \in Int
        /\ s < date(s) * 2880 + 2880
    BY <1>2, DateClock DEF Day
  <2>2. s < date(dl) * 2880 + 5760
    BY <1>4, <2>1
  <2>3. s <= date(dl) * 2880 + 5758
    BY <2>1, <2>2 DEF Minute
  <2>4. s >= t + d + 5760 - 2 * PdnCutoff
    BY <1>1 DEF Day, Hour, Minute
  <2> HIDE DEF dl, cutoff
  <2> QED
    BY <1>1, <1>2, <1>6, <2>3, <2>4
<1>5. pdn_deadline_for(s, q) = IF date(s) - date(dl) <= 1 /\ cutoff < dl THEN cutoff ELSE dl
  BY DEF pdn_deadline_for
<1> QED
  BY <1>2, <1>3, <1>4, <1>5, <1>6
-----------------------------------------------------------------------------
(* What the assumptions on the constants say of the call's arguments.      *)
LEMMA Arguments ==
    TypeOK => /\ now \in Nat /\ margin \in Nat /\ LeadHours[rail] \in Nat
              /\ rail \in Rails /\ "" \in Rails /\ LeadHours[""] \in Nat
              /\ margin * Minute > MaxDelay /\ MaxDelay \in Nat
              /\ LeadHours[""] <= LeadHours[rail] /\ Ahead \in Nat
<1> SUFFICES ASSUME TypeOK
             PROVE  /\ now \in Nat /\ margin \in Nat /\ LeadHours[rail] \in Nat
                    /\ rail \in Rails /\ "" \in Rails /\ LeadHours[""] \in Nat
                    /\ margin * Minute > MaxDelay /\ MaxDelay \in Nat
                    /\ LeadHours[""] <= LeadHours[rail] /\ Ahead \in Nat
  OBVIOUS
<1>1. now \in Nows /\ rail \in Rails /\ margin \in Margins
  BY DEF TypeOK
<1>2. now \in Nat /\ margin \in Nat /\ MaxDelay \in Nat /\ "" \in Rails
  BY <1>1, SchedulingAssumption
<1>3. LeadHours[rail] \in Nat /\ LeadHours[""] \in Nat
  BY <1>1, <1>2, CalendarAssumption
<1>4. margin * Minute > MaxDelay /\ LeadHours[""] <= LeadHours[rail]
  BY <1>1, SchedulingAssumption
<1>5. Ahead \in Nat
  <2>1. \A a, b \in Nat : a * 120 + b * 2 \in Nat
    OBVIOUS
  <2> QED
    BY <1>2, <1>3, <2>1, Zenon DEF Ahead, Hour, Minute
<1> QED
  BY <1>1, <1>2, <1>3, <1>4, <1>5

(* At the check, only the completion deadline can refuse a slot.           *)
LEMMA OnlyTheDeadlineRefuses ==
    TypeOK /\ Candidate /\ OffPeak /\ pc = "check" /\ ClearOfCutoff(0)
        => Violation \in {"permitted", "past_upi_completion_deadline"}
<1> SUFFICES ASSUME TypeOK, Candidate, OffPeak, pc = "check", ClearOfCutoff(0)
             PROVE  Violation \in {"permitted", "past_upi_completion_deadline"}
  OBVIOUS
<1>1. /\ now \in Nat /\ margin \in Nat /\ LeadHours[rail] \in Nat /\ rail \in Rails
      /\ margin * Minute > MaxDelay /\ MaxDelay \in Nat
  BY Arguments
<1>2. slot \in Nat /\ slot % Minute = 0 /\ slot >= now + Ahead - 1
  BY SchedulingAssumption, GuardAssumption DEF TypeOK, Candidate
<1>3. slot > now
  BY <1>1, <1>2 DEF Ahead, Hour, Minute
<1>4. now + 0 <= pdn_deadline_for(slot, rail)
  <2>1. slot >= now + LeadHours[rail] * Hour + margin * Minute - 1
    BY <1>1, <1>2 DEF Ahead, Hour, Minute
  <2>2. 0 < margin * Minute
    BY <1>1 DEF Minute
  <2> QED
    BY <1>1, <1>2, <2>1, <2>2, NotificationInTime DEF ClearOfCutoff
<1>5. now <= pdn_deadline_for(slot, rail)
  BY <1>1, <1>4
<1>6. ~(0 >= AttemptCap) /\ ~(slot <= now) /\ ~is_peak(slot)
      /\ ~(now > pdn_deadline_for(slot, rail))
  <2>1. pdn_deadline_for(slot, rail) \in Int
    BY <1>1, <1>2, NotificationInteger
  <2> QED
    BY <1>1, <1>2, <1>3, <1>5, <2>1, CalendarAssumption DEF OffPeak
<1> QED
  BY <1>6 DEF Violation, check_attempt
-----------------------------------------------------------------------------
(* What the guard asks of the request is what check_attempt asked of the   *)
(* slot: a chosen slot is admitted up to MaxDelay later, on its own rail   *)
(* or on one whose lead is no longer.                                      *)
LEMMA GuardAdmitsChosen ==
    ASSUME TypeOK, Candidate, Chosen, pc = "offer", slot # None, ClearOfCutoff(MaxDelay),
           NEW d \in Nat, d <= MaxDelay,
           NEW q \in Rails, LeadHours[q] <= LeadHours[rail], q = "upi" => rail = "upi"
    PROVE  check(Request(now + d, slot, q)) = "allowed"
<1>1. /\ now \in Nat /\ margin \in Nat /\ LeadHours[rail] \in Nat /\ rail \in Rails
      /\ margin * Minute > MaxDelay /\ MaxDelay \in Nat
  BY Arguments
<1>2. slot \in Nat /\ slot % Minute = 0 /\ slot >= now + Ahead - 1
  BY SchedulingAssumption, GuardAssumption DEF TypeOK, Candidate
<1>3. slot >= now + LeadHours[rail] * Hour + margin * Minute - 1
  BY <1>1, <1>2 DEF Ahead, Hour, Minute
<1>4. d < margin * Minute
  <2>1. margin * Minute \in Int
    BY <1>1 DEF Minute
  <2> QED
    BY <1>1, <2>1
<1>5. LeadHours[rail] * Hour + margin * Minute > Day + (1440 - PdnCutoff) * Minute + d
  <2>1. PdnCutoff \in Int
    BY CalendarAssumption DEF MinuteOfDay
  <2> QED
    BY <1>1, <1>4, <2>1 DEF ClearOfCutoff, Day, Hour, Minute
<1>6. now + d <= pdn_deadline_for(slot, q)
  BY <1>1, <1>2, <1>3, <1>4, <1>5, NotificationInTime
<1>7. slot > now + d
  <2>1. PdnCutoff \in 0..1439
    BY CalendarAssumption DEF MinuteOfDay
  <2> QED
    BY <1>1, <1>2, <1>3, <1>5, <2>1 DEF Hour, Minute, Day
<1>8. ~is_peak(slot) /\ ~(rail = "upi" /\ past_upi_completion_deadline(slot))
  BY DEF Chosen, Violation, check_attempt
<1>9. ~(q = "upi" /\ past_upi_completion_deadline(slot))
  BY <1>8
<1>10. None # slot /\ ~(1 >= AttemptCap)
  <2>1. AttemptCap \in Nat /\ AttemptCap > 1
    BY SchedulingAssumption, CalendarAssumption
  <2>2. ~(1 >= AttemptCap)
    BY <2>1
  <2> QED
    BY <2>2
<1>11. ~(slot <= now + d) /\ ~(now + d > pdn_deadline_for(slot, q))
  <2>1. pdn_deadline_for(slot, q) \in Int
    BY <1>2, NotificationInteger
  <2> QED
    BY <1>1, <1>2, <1>4, <1>6, <1>7, <2>1
<1>12. _execution(Request(now + d, slot, q)) = "allowed"
  BY <1>8, <1>9, <1>10, <1>11 DEF _execution, Request
<1> QED
  BY <1>12 DEF check, _order, Request

(* The guard answers "allowed" or gives a reason.                          *)
LEMMA GuardAnswers ==
    ASSUME NEW r
    PROVE  check(r) \in BlockReason \cup {"allowed"}
<1>1. _order(r) \in BlockReason \cup {"allowed"}
  BY Zenon DEF _order, BlockReason
<1>2. _execution(r) \in BlockReason \cup {"allowed"}
  BY Zenon DEF _execution, BlockReason
<1>3. _contact(r) \in BlockReason \cup {"allowed"}
  BY Zenon DEF _contact, BlockReason
<1>4. "payment_already_succeeded" \in BlockReason
  BY Zenon DEF BlockReason
<1> QED
  BY <1>1, <1>2, <1>3, <1>4, Zenon DEF check
-----------------------------------------------------------------------------
LEMMA Floor ==
    ASSUME now \in Nat, target_day \in Nat, margin \in Nat, LeadHours[rail] \in Nat
    PROVE  floor \in Nat /\ floor >= now + Ahead /\ Ahead \in Nat
<1>1. Ahead \in Nat
  <2>1. \A b, c \in Nat : b * 120 + c * 2 \in Nat
    OBVIOUS
  <2> QED
    BY <2>1, Zenon DEF Ahead, Hour, Minute
<1>2. earliest_permitted(now, rail, margin) = now + Ahead
  <2>1. \A a, b, c \in Nat : a + b * 120 + c * 2 = a + (b * 120 + c * 2)
    OBVIOUS
  <2>2. now + LeadHours[rail] * 120 + margin * 2 = now + (LeadHours[rail] * 120 + margin * 2)
    BY <2>1
  <2> QED
    BY <2>2, Zenon DEF earliest_permitted, Ahead, Hour, Minute
<1>3. start_of(target_day) \in Nat
  BY DEF start_of, combine, Day, Minute
<1> QED
  BY <1>1, <1>2, <1>3 DEF floor

THEOREM Initially == Init => Inv
<1> SUFFICES ASSUME Init
             PROVE  Inv
  OBVIOUS
<1>1. /\ now \in Nows /\ rail \in Rails /\ target_day \in Targets /\ margin \in Margins
      /\ pc = "seek" /\ not_before = floor /\ slot = truncated(not_before) /\ verdict = "none"
  BY DEF Init
<1>2. now \in Nat /\ target_day \in Nat /\ margin \in Nat /\ LeadHours[rail] \in Nat
  BY <1>1, SchedulingAssumption, CalendarAssumption
<1>3. not_before \in Nat /\ not_before >= now + Ahead
  BY <1>1, <1>2, Floor
<1>4. slot \in Nat /\ slot % Minute = 0 /\ not_before - 1 <= slot
  BY <1>1, <1>3, Truncated
<1>5. slot # None
  BY <1>4, GuardAssumption
<1>6. TypeOK
  <2>1. verdict \in BlockReason \cup {"none", "allowed"} /\ slot \in Nat \cup {None}
    BY <1>1, <1>4, Zenon
  <2>2. pc \in {"seek", "check", "offer", "done"}
    BY <1>1
  <2> QED
    BY <1>1, <1>3, <1>5, <2>1, <2>2, Zenon DEF TypeOK
<1>7. Candidate
  <2>1. Ahead \in Nat
    BY <1>2, Floor
  <2> QED
    BY <1>2, <1>3, <1>4, <2>1 DEF Candidate
<1> QED
  BY <1>1, <1>6, <1>7 DEF Inv, OffPeak, Chosen, NeverGivesUp, GuardAgrees
-----------------------------------------------------------------------------
(* Turns of the search keep the invariant: the candidate only moves later, *)
(* by whole minutes.                                                       *)
LEMMA SearchKeepsInv ==
    Inv /\ (StepOverPeak \/ LeavePeak \/ TryNextMorning) => Inv'
<1> SUFFICES ASSUME Inv, StepOverPeak \/ LeavePeak \/ TryNextMorning
             PROVE  Inv'
  OBVIOUS
<1> USE DEF Inv
<1>1. /\ now \in Nat /\ Ahead \in Nat
  BY Arguments
<1>2. pc \in {"seek", "check"} /\ UNCHANGED <<now, rail, target_day, margin, verdict>>
  BY DEF StepOverPeak, LeavePeak, TryNextMorning, args
<1>3. /\ slot \in Nat /\ slot % Minute = 0 /\ slot >= now + Ahead - 1 /\ slot # None
  BY <1>2, GuardAssumption DEF TypeOK, Candidate
<1>4. pc' \in {"seek", "check"} /\ (pc' = "check" => ~is_peak(slot'))
  BY <1>2 DEF StepOverPeak, LeavePeak, TryNextMorning
<1>5. /\ slot' \in Nat /\ slot' % Minute = 0 /\ slot' >= slot /\ not_before' \in Nat
  <2>1. CASE StepOverPeak
    BY <1>3, <2>1 DEF StepOverPeak, StepMinutes, Minute, TypeOK
  <2>2. CASE LeavePeak
    BY <1>3, <2>2 DEF LeavePeak, TypeOK
  <2>3. CASE TryNextMorning
    <3>1. /\ date(slot) \in Int /\ date(slot) * 2880 <= slot /\ slot < date(slot) * 2880 + 2880
      BY <1>3, DateClock DEF Day
    <3>2. start_of(date(slot) + 1) = (date(slot) + 1) * 2880 + 60
      BY DEF start_of, combine, Day, Minute
    <3>3. start_of(date(slot) + 1) \in Nat /\ start_of(date(slot) + 1) > slot
      BY <1>3, <3>1, <3>2
    <3>4. not_before' \in Nat /\ not_before' > slot /\ slot' = truncated(not_before')
      BY <2>3, <3>3 DEF TryNextMorning
    <3> QED
      BY <1>3, <3>4, Truncated
  <2> QED
    BY <2>1, <2>2, <2>3
<1>6. slot' # None
  BY <1>5, GuardAssumption
<1>7. TypeOK'
  BY <1>2, <1>4, <1>5, <1>6 DEF TypeOK
<1>8. Candidate'
  BY <1>1, <1>2, <1>3, <1>5 DEF Candidate, Ahead
<1> QED
  BY <1>4, <1>7, <1>8 DEF OffPeak, Chosen, NeverGivesUp, GuardAgrees

(* The ways out of the search: a permitted slot, or none when the lead is  *)
(* too short to clear the cutoff.                                          *)
LEMMA LeavingKeepsInv ==
    Inv /\ (TakeSlot \/ GiveUp) => Inv'
<1> SUFFICES ASSUME Inv, TakeSlot \/ GiveUp
             PROVE  Inv'
  OBVIOUS
<1> USE DEF Inv
<1>1. /\ pc = "check" /\ pc' = "offer"
      /\ UNCHANGED <<now, rail, target_day, margin, not_before, verdict>>
  BY DEF TakeSlot, GiveUp, args
<1>2. slot' \in {slot, None}
  BY DEF TakeSlot, GiveUp
<1>3. slot \in Nat /\ slot # None
  BY <1>1 DEF TypeOK
<1>4. TypeOK'
  BY <1>1, <1>2, <1>3 DEF TypeOK
<1>5. Candidate'
  BY <1>1, <1>2 DEF Candidate, Ahead
<1>6. slot' # None => slot' = slot /\ Violation = "permitted"
  BY <1>3 DEF TakeSlot, GiveUp
<1>7. Chosen'
  BY <1>1, <1>6 DEF Chosen, Violation
<1>8. NeverGivesUp'
  <2>1. ASSUME ClearOfCutoff(0)
        PROVE  slot' # None
    BY <1>1, <1>3, <2>1, OnlyTheDeadlineRefuses DEF TakeSlot, GiveUp
  <2> QED
    BY <1>1, <2>1 DEF NeverGivesUp, ClearOfCutoff
<1> QED
  BY <1>1, <1>4, <1>5, <1>7, <1>8 DEF OffPeak, GuardAgrees

(* The guard's answer to the worker and to the simulator.                  *)
LEMMA AdmissionKeepsInv ==
    Inv /\ (AdmitLive \/ AdmitSimulated) => Inv'
<1> SUFFICES ASSUME Inv, AdmitLive \/ AdmitSimulated
             PROVE  Inv'
  OBVIOUS
<1> USE DEF Inv
<1>1. /\ pc = "offer" /\ pc' = "done" /\ slot # None
      /\ UNCHANGED <<now, rail, target_day, margin, not_before, slot>>
  BY DEF AdmitLive, AdmitSimulated, args
<1>2. /\ now \in Nat /\ MaxDelay \in Nat /\ LeadHours[rail] \in Nat
      /\ rail \in Rails /\ "" \in Rails /\ LeadHours[""] <= LeadHours[rail]
  BY Arguments
<1>3. \E delay \in 0..MaxDelay, q \in {rail, ""} :
          verdict' = check(Request(now + delay, slot, q))
  <2>1. CASE AdmitLive
    BY <2>1 DEF AdmitLive
  <2>2. CASE AdmitSimulated
    <3>1. now + 0 = now /\ 0 \in 0..MaxDelay
      <4>1. now \in Nat /\ MaxDelay \in Nat
        BY <1>2
      <4> QED
        BY <4>1
    <3> QED
      BY <2>2, <3>1 DEF AdmitSimulated
  <2> QED
    BY <2>1, <2>2
<1>4. verdict' \in BlockReason \cup {"allowed"}
  BY <1>3, GuardAnswers
<1>5. TypeOK'
  BY <1>1, <1>4 DEF TypeOK
<1>6. Candidate' /\ Chosen'
  BY <1>1 DEF Candidate, Ahead, Chosen, Violation
<1>7. GuardAgrees'
  <2>1. ASSUME ClearOfCutoff(MaxDelay)
        PROVE  verdict' = "allowed"
    <3>1. \A d \in 0..MaxDelay : d \in Nat /\ d <= MaxDelay
      <4>1. MaxDelay \in Nat
        BY <1>2
      <4> QED
        BY <4>1
    <3>2. LeadHours[rail] <= LeadHours[rail]
      <4>1. LeadHours[rail] \in Nat
        BY <1>2
      <4> QED
        BY <4>1
    <3>3. PICK delay \in 0..MaxDelay, q \in {rail, ""} :
              verdict' = check(Request(now + delay, slot, q))
      BY <1>3
    <3>4. /\ delay \in Nat /\ delay <= MaxDelay
          /\ q \in Rails /\ LeadHours[q] <= LeadHours[rail]
          /\ q = "upi" => rail = "upi"
      BY <1>2, <3>1, <3>2, Zenon
    <3>5. check(Request(now + delay, slot, q)) = "allowed"
      BY <1>1, <2>1, <3>4, GuardAdmitsChosen
    <3> QED
      BY <3>3, <3>5
  <2> QED
    BY <1>1, <2>1 DEF GuardAgrees, ClearOfCutoff
<1> QED
  BY <1>1, <1>5, <1>6, <1>7 DEF OffPeak, NeverGivesUp
-----------------------------------------------------------------------------
(* Every reachable state of every call satisfies the invariant.            *)
THEOREM Invariance == Spec => []Inv
<1>1. Inv /\ [Next]_vars => Inv'
  <2> SUFFICES ASSUME Inv, [Next]_vars
               PROVE  Inv'
    OBVIOUS
  <2>1. CASE StepOverPeak \/ LeavePeak \/ TryNextMorning
    BY <2>1, SearchKeepsInv
  <2>2. CASE TakeSlot \/ GiveUp
    BY <2>2, LeavingKeepsInv
  <2>3. CASE AdmitLive \/ AdmitSimulated
    BY <2>3, AdmissionKeepsInv
  <2>4. CASE UNCHANGED vars
    BY <2>4 DEF vars, args, Inv, TypeOK, Candidate, Ahead, OffPeak, Chosen, Violation,
                NeverGivesUp, GuardAgrees, ClearOfCutoff
  <2> QED
    BY <2>1, <2>2, <2>3, <2>4 DEF Next
<1> QED
  BY <1>1, Initially, PTL DEF Spec

(* The variables keep their types: no search leaves the calendar, and the  *)
(* guard's answer is one of its reasons.                                   *)
THEOREM TypeCorrectness == Spec => []TypeOK
<1>1. Inv => TypeOK
  BY DEF Inv
<1> QED
  BY <1>1, Invariance, PTL

(* compliant_slot returns None only if the lead leaves room for the cutoff *)
(* between the decision and the notification.                              *)
THEOREM AlwaysASlot == Spec => []NeverGivesUp
<1>1. Inv => NeverGivesUp
  BY DEF Inv
<1> QED
  BY <1>1, Invariance, PTL

(* Every slot the allocator chooses passes the guard, asked up to MaxDelay *)
(* later by the worker, or with no rail by the simulator.                  *)
THEOREM GuardAdmitsSlots == Spec => []GuardAgrees
<1>1. Inv => GuardAgrees
  BY DEF Inv
<1> QED
  BY <1>1, Invariance, PTL
-----------------------------------------------------------------------------
(* What the search passes over.  The second invariant says where a search  *)
(* in progress stands, and of a search that has ended what it found.       *)
Step == StepMinutes * Minute

(* The k-th candidate of a search from t, and that those before it are in  *)
(* a peak.                                                                 *)
Point(t, k) == truncated(t) + k * StepMinutes * Minute
PeaksBefore(t, k) == \A j \in 0..95 : j < k => is_peak(Point(t, j))

First == next_compliant_slot(floor)

FirstTooLate ==
    /\ check_attempt(now, First, 0, rail) = "past_upi_completion_deadline"
    /\ \E k \in 0..95 : First = Point(floor, k) /\ PeaksBefore(floor, k)

Searching ==
    pc \in {"seek", "check"} =>
        /\ \E k \in 0..95 : slot = Point(not_before, k) /\ PeaksBefore(not_before, k)
        /\ \/ not_before = floor
           \/ FirstTooLate /\ not_before = start_of(date(First) + 1)

SearchInv == Searching /\ LoopIsCompliantSlot /\ (QuarterHoursTell => SlotNearlyFirst)

(* A day repeats: the calendar reads the time of day only.                 *)
LEMMA DaysRepeat ==
    ASSUME NEW t \in Int, NEW d \in Int
    PROVE  /\ is_peak(t + d) <=> is_peak(clock(t) + d)
           /\ past_upi_completion_deadline(t + d) <=> past_upi_completion_deadline(clock(t) + d)
<1>1. (t + d) % 2880 = ((t % 2880) + d) % 2880
  OBVIOUS
<1>2. clock(t + d) = clock(clock(t) + d)
  BY <1>1 DEF clock, Day
<1> QED
  BY <1>2, Zenon DEF is_peak, past_upi_completion_deadline

(* The answer of one search, whatever the number of its turns.             *)
LEMMA NextIs ==
    ASSUME NEW t \in Nat, NEW k \in 0..95, ~is_peak(Point(t, k)), PeaksBefore(t, k)
    PROVE  next_compliant_slot(t) = Point(t, k)
<1> DEFINE S == {i \in 0..95 : ~is_peak(Point(t, i))}
<1>1. k \in S /\ \A i \in S : i \in Int /\ k <= i
  BY DEF PeaksBefore
<1>2. \A i \in S : (\A j \in S : i =< j) => i = k
  BY <1>1
<1>3. Min(S) \in S /\ \A j \in S : Min(S) =< j
  <2>1. \E x \in S : \A y \in S : x =< y
    BY <1>1, Zenon
  <2> HIDE DEF S
  <2> QED
    BY <2>1, Zenon DEF Min
<1>4. Min(S) = k
  BY <1>2, <1>3, Zenon
<1>5. next_compliant_slot(t) = truncated(t) + Step * Min(S)
  BY Zenon DEF next_compliant_slot, Point, Step
<1> QED
  BY <1>4, <1>5 DEF Point, Step, StepMinutes, Minute

(* The search leaves the peaks within a day.                               *)
LEMMA LeavesThePeaks ==
    ASSUME NEW t \in Nat, NEW k \in 0..95, PeaksBefore(t, k), is_peak(Point(t, k))
    PROVE  k + 1 \in 0..95 /\ PeaksBefore(t, k + 1)
<1>1. PeaksBefore(t, k + 1)
  BY DEF PeaksBefore
<1>2. k # 95
  <2>1. truncated(t) \in Nat
    BY Truncated
  <2>2. clock(truncated(t)) \in 0..(Day - 1)
    BY <2>1, DateClock
  <2>3. PICK i \in 0..95 : ~is_peak(clock(truncated(t)) + i * StepMinutes * Minute)
    BY <2>2, LatticeAssumption
  <2>4. i * StepMinutes * Minute \in Int
    BY DEF StepMinutes, Minute
  <2>5. ~is_peak(Point(t, i))
    BY <2>1, <2>3, <2>4, DaysRepeat DEF Point
  <2> SUFFICES ASSUME k = 95 PROVE FALSE
    OBVIOUS
  <2> QED
    BY <2>5 DEF PeaksBefore
<1> QED
  BY <1>1, <1>2

(* A quarter hour whose ends are both in a peak is in it throughout; one   *)
(* that begins in a peak and ends past the deadline is nowhere compliant   *)
(* for UPI.                                                                *)
LEMMA QuarterHour ==
    ASSUME QuarterHoursTell, NEW t \in Nat, is_peak(t), NEW m \in Nat, t <= m, m <= t + Step
    PROVE  /\ is_peak(t + Step) => is_peak(m)
           /\ past_upi_completion_deadline(t + Step) =>
                is_peak(m) \/ past_upi_completion_deadline(m)
<1> DEFINE c == clock(t)
<1>1. c \in 0..(Day - 1) /\ c \in Int /\ Step \in Int /\ m - t \in Int /\ 0 \in Int
  <2>1. c \in 0..(Day - 1)
    BY DateClock
  <2> HIDE DEF c
  <2> QED
    BY <2>1 DEF Day, Step, StepMinutes, Minute
<1>2. c + (m - t) \in c..(c + Step)
  BY <1>1
<1>3. t + 0 = t /\ c + 0 = c /\ t + (m - t) = m
  BY <1>1
<1>4. is_peak(c)
  BY <1>1, <1>3, DaysRepeat
<1>5. /\ is_peak(c + Step) => \A n \in c..(c + Step) : is_peak(n)
      /\ past_upi_completion_deadline(c + Step) =>
            \A n \in c..(c + Step) : is_peak(n) \/ past_upi_completion_deadline(n)
  <2> HIDE DEF c
  <2> QED
    <3> USE DEF Step
    <3> QED
      BY <1>1, <1>4, Zenon DEF QuarterHoursTell
<1>6. /\ is_peak(t + Step) <=> is_peak(c + Step)
      /\ past_upi_completion_deadline(t + Step) <=> past_upi_completion_deadline(c + Step)
      /\ is_peak(m) <=> is_peak(c + (m - t))
      /\ past_upi_completion_deadline(m) <=> past_upi_completion_deadline(c + (m - t))
  <2>1. \A d \in Int : /\ is_peak(t + d) <=> is_peak(c + d)
                       /\ past_upi_completion_deadline(t + d)
                            <=> past_upi_completion_deadline(c + d)
    <3>1. t \in Int
      OBVIOUS
    <3> QED
      BY <3>1, DaysRepeat, Zenon
  <2> HIDE DEF c
  <2>2. /\ is_peak(t + (m - t)) <=> is_peak(c + (m - t))
        /\ past_upi_completion_deadline(t + (m - t))
             <=> past_upi_completion_deadline(c + (m - t))
    BY <1>1, <2>1, Zenon
  <2> QED
    BY <1>1, <1>3, <2>1, <2>2, Zenon
<1> HIDE DEF c
<1> QED
  BY <1>2, <1>5, <1>6, Zenon

(* The minutes that a search from t passes over: all in a peak but for the *)
(* last quarter hour, and that too when it ends past the deadline.         *)
LEMMA PassedOver ==
    ASSUME QuarterHoursTell, NEW t \in Nat, NEW k \in 0..95, PeaksBefore(t, k),
           NEW m \in Nat, truncated(t) <= m, m < Point(t, k)
    PROVE  /\ m <= Point(t, k) - Step => is_peak(m)
           /\ past_upi_completion_deadline(Point(t, k)) =>
                is_peak(m) \/ past_upi_completion_deadline(m)
<1> DEFINE j == (m - truncated(t)) \div 30
<1>1. truncated(t) \in Nat /\ Point(t, k) = truncated(t) + k * 30
  BY Truncated DEF Point, Step, StepMinutes, Minute
<1>2. j \in Int /\ 0 <= j /\ j < k
      /\ truncated(t) + j * 30 <= m /\ m < truncated(t) + j * 30 + 30
  BY <1>1
<1> HIDE DEF j
<1>3. j \in 0..95 /\ Point(t, j) \in Nat /\ Point(t, j) = truncated(t) + j * 30
  BY <1>1, <1>2 DEF Point, Step, StepMinutes, Minute
<1>4. is_peak(Point(t, j)) /\ Point(t, j) <= m /\ m <= Point(t, j) + Step
  BY <1>2, <1>3 DEF PeaksBefore, Step, StepMinutes, Minute
<1>5. /\ is_peak(Point(t, j) + Step) => is_peak(m)
      /\ past_upi_completion_deadline(Point(t, j) + Step) =>
            is_peak(m) \/ past_upi_completion_deadline(m)
  BY <1>3, <1>4, QuarterHour
<1>6. CASE j + 1 = k
  <2>1. Point(t, j) + Step = Point(t, k)
    BY <1>1, <1>2, <1>3, <1>6 DEF Step, StepMinutes, Minute
  <2>2. m <= Point(t, k) - Step => m = Point(t, j)
    BY <1>1, <1>2, <1>3, <2>1 DEF Step, StepMinutes, Minute
  <2> QED
    BY <1>4, <1>5, <2>1, <2>2
<1>7. CASE j + 1 < k
  <2>1. j + 1 \in 0..95 /\ Point(t, j + 1) = Point(t, j) + Step
    BY <1>1, <1>2, <1>3, <1>7 DEF Point, Step, StepMinutes, Minute
  <2>2. is_peak(Point(t, j + 1))
    BY <1>7, <2>1 DEF PeaksBefore
  <2> QED
    BY <1>5, <2>1, <2>2
<1> QED
  BY <1>2, <1>6, <1>7
-----------------------------------------------------------------------------
LEMMA FloorIs ==
    ASSUME TypeOK
    PROVE  /\ floor \in Nat /\ floor = floor_of(now, target_day, rail, margin)
<1>1. /\ now \in Nat /\ target_day \in Nat /\ margin \in Nat /\ LeadHours[rail] \in Nat
  BY Arguments, SchedulingAssumption DEF TypeOK
<1>2. floor \in Nat
  BY <1>1, Floor
<1>3. start_of(target_day) \in Int /\ earliest_permitted(now, rail, margin) \in Int
  BY <1>1 DEF start_of, combine, earliest_permitted, Day, Hour, Minute
<1>4. \A a, b \in Int : Max({a, b}) = IF a > b THEN a ELSE b
  <2> TAKE a, b \in Int
  <2>1. \E x \in {a, b} : \A y \in {a, b} : x >= y
    OBVIOUS
  <2>2. Max({a, b}) \in {a, b} /\ \A y \in {a, b} : Max({a, b}) >= y
    BY <2>1, Zenon DEF Max
  <2> QED
    BY <2>2
<1> QED
  BY <1>2, <1>3, <1>4, Zenon DEF floor, floor_of

(* The morning is itself the answer of the search that restarts there.     *)
LEMMA Morning ==
    ASSUME EarlyMorningIsFree, NEW day \in Nat
    PROVE  /\ start_of(day) \in Nat /\ truncated(start_of(day)) = start_of(day)
           /\ next_compliant_slot(start_of(day)) = start_of(day)
           /\ ~is_peak(start_of(day)) /\ ~past_upi_completion_deadline(start_of(day))
<1>1. /\ start_of(day) = day * 2880 + 60 /\ start_of(day) \in Nat
      /\ clock(start_of(day)) = 60 /\ clock(start_of(0)) = 60
      /\ truncated(start_of(day)) = start_of(day)
  BY DEF start_of, combine, clock, Day, Minute, truncated
<1>2. ~is_peak(start_of(day))
  <2>1. clock(start_of(day)) = clock(start_of(0))
    BY <1>1
  <2> QED
    BY <2>1, Zenon DEF EarlyMorningIsFree, is_peak
<1>3. ~past_upi_completion_deadline(start_of(day))
  <2>1. UpiDeadline \in Int
    BY CalendarAssumption DEF MinuteOfDay
  <2> QED
    BY <1>1, <2>1 DEF EarlyMorningIsFree, past_upi_completion_deadline, Minute
<1>4. Point(start_of(day), 0) = start_of(day) /\ PeaksBefore(start_of(day), 0)
  BY <1>1 DEF Point, PeaksBefore, StepMinutes, Minute
<1>5. next_compliant_slot(start_of(day)) = start_of(day)
  <2>1. 0 \in 0..95
    OBVIOUS
  <2> QED
    BY <1>1, <1>2, <1>4, <2>1, NextIs
<1> QED
  BY <1>1, <1>2, <1>3, <1>5

THEOREM SearchBegins == Init /\ EarlyMorningIsFree => SearchInv
<1> SUFFICES ASSUME Init
             PROVE  SearchInv
  OBVIOUS
<1>1. pc = "seek" /\ not_before = floor /\ slot = truncated(not_before) /\ TypeOK
  BY Initially DEF Init, Inv
<1>2. truncated(not_before) \in Nat
  BY <1>1, FloorIs, Truncated
<1>3. slot = Point(not_before, 0) /\ PeaksBefore(not_before, 0) /\ 0 \in 0..95
  BY <1>1, <1>2 DEF Point, PeaksBefore, StepMinutes, Minute
<1> QED
  BY <1>1, <1>3, Zenon DEF SearchInv, Searching, LoopIsCompliantSlot, SlotNearlyFirst

(* What a search off the peak has found.                                   *)
LEMMA Arrived ==
    ASSUME TypeOK, OffPeak, Searching, pc = "check"
    PROVE  /\ slot = next_compliant_slot(not_before)
           /\ not_before = floor =>
                \E k \in 0..95 : slot = Point(floor, k) /\ PeaksBefore(floor, k)
<1>1. PICK k \in 0..95 : slot = Point(not_before, k) /\ PeaksBefore(not_before, k)
  BY DEF Searching
<1>2. not_before \in Nat /\ ~is_peak(slot)
  BY DEF TypeOK, OffPeak
<1> QED
  BY <1>1, <1>2, NextIs

LEMMA SeekingKeepsSearch ==
    Inv /\ SearchInv /\ EarlyMorningIsFree /\ (StepOverPeak \/ LeavePeak) => SearchInv'
<1> SUFFICES ASSUME Inv, SearchInv, StepOverPeak \/ LeavePeak
             PROVE  SearchInv'
  OBVIOUS
<1>1. /\ pc = "seek" /\ pc' \in {"seek", "check"}
      /\ UNCHANGED <<now, rail, target_day, margin, not_before, verdict>>
  BY DEF StepOverPeak, LeavePeak, args
<1>2. PICK k \in 0..95 : slot = Point(not_before, k) /\ PeaksBefore(not_before, k)
  BY <1>1 DEF SearchInv, Searching
<1>3. not_before \in Nat /\ slot \in Nat
  BY <1>1 DEF Inv, TypeOK
<1>4. \E i \in 0..95 : slot' = Point(not_before, i) /\ PeaksBefore(not_before, i)
  <2>1. CASE LeavePeak
    BY <1>2, <2>1 DEF LeavePeak
  <2>2. CASE StepOverPeak
    <3>1. k + 1 \in 0..95 /\ PeaksBefore(not_before, k + 1)
      BY <1>2, <1>3, <2>2, LeavesThePeaks DEF StepOverPeak
    <3>2. slot' = Point(not_before, k + 1)
      <4>1. truncated(not_before) \in Nat
        BY <1>3, Truncated
      <4> QED
        BY <1>2, <2>2, <4>1 DEF StepOverPeak, Point, StepMinutes, Minute
    <3> QED
      BY <3>1, <3>2
  <2> QED
    BY <2>1, <2>2
<1>5. floor' = floor /\ First' = First /\ (FirstTooLate <=> FirstTooLate')
  BY <1>1 DEF floor, First, FirstTooLate, PeaksBefore, Point
<1>6. Searching'
  <2>1. \/ not_before = floor
        \/ FirstTooLate /\ not_before = start_of(date(First) + 1)
    BY <1>1 DEF SearchInv, Searching
  <2>2. \/ not_before' = floor'
        \/ FirstTooLate' /\ not_before' = start_of(date(First') + 1)
    BY <1>1, <1>5, <2>1
  <2>3. \E i \in 0..95 : slot' = Point(not_before', i) /\ PeaksBefore(not_before', i)
    BY <1>1, <1>4
  <2> QED
    BY <2>2, <2>3, Zenon DEF Searching
<1> QED
  BY <1>1, <1>6, Zenon DEF SearchInv, LoopIsCompliantSlot, SlotNearlyFirst
-----------------------------------------------------------------------------
(* A search that restarts in the morning is not refused again for the      *)
(* deadline: it restarts once.                                             *)
LEMMA RestartsOnce ==
    ASSUME Inv, SearchInv, EarlyMorningIsFree, pc = "check"
    PROVE  \/ /\ not_before = floor /\ slot = First
              /\ \E k \in 0..95 : First = Point(floor, k) /\ PeaksBefore(floor, k)
           \/ /\ FirstTooLate /\ slot = start_of(date(First) + 1)
              /\ slot = next_compliant_slot(start_of(date(First) + 1))
              /\ Violation # "past_upi_completion_deadline"
<1>1. /\ slot = next_compliant_slot(not_before)
      /\ not_before = floor =>
           \E k \in 0..95 : slot = Point(floor, k) /\ PeaksBefore(floor, k)
  BY Arrived DEF Inv, SearchInv
<1>2. CASE not_before = floor
  BY <1>1, <1>2 DEF First
<1>3. CASE FirstTooLate /\ not_before = start_of(date(First) + 1)
  <2>1. date(First) + 1 \in Nat
    <3>1. \E k \in 0..95 : First = Point(floor, k)
      BY <1>3 DEF FirstTooLate
    <3>2. truncated(floor) \in Nat
      BY FloorIs, Truncated DEF Inv
    <3>3. First \in Nat
      BY <3>1, <3>2 DEF Point, StepMinutes, Minute
    <3> QED
      BY <3>3 DEF date, Day
  <2>2. slot = start_of(date(First) + 1) /\ ~past_upi_completion_deadline(slot)
    BY <1>1, <1>3, <2>1, Morning
  <2>3. Violation # "past_upi_completion_deadline"
    BY <2>2 DEF Violation, check_attempt
  <2> QED
    BY <1>1, <1>3, <2>2, <2>3
<1> QED
  BY <1>2, <1>3 DEF SearchInv, Searching

LEMMA RestartKeepsSearch ==
    Inv /\ SearchInv /\ EarlyMorningIsFree /\ TryNextMorning => SearchInv'
<1> SUFFICES ASSUME Inv, SearchInv, EarlyMorningIsFree, TryNextMorning
             PROVE  SearchInv'
  OBVIOUS
<1>1. /\ pc = "check" /\ pc' = "seek" /\ Violation = "past_upi_completion_deadline"
      /\ not_before' = start_of(date(slot) + 1) /\ slot' = truncated(not_before')
      /\ UNCHANGED <<now, rail, target_day, margin, verdict>>
  BY DEF TryNextMorning, args
<1>2. /\ slot = First
      /\ \E k \in 0..95 : First = Point(floor, k) /\ PeaksBefore(floor, k)
  BY <1>1, RestartsOnce
<1>3. FirstTooLate
  BY <1>1, <1>2 DEF FirstTooLate, Violation
<1>4. First' = First /\ FirstTooLate'
  BY <1>1, <1>3 DEF floor, First, FirstTooLate, PeaksBefore, Point
<1>5. slot' = Point(not_before', 0) /\ PeaksBefore(not_before', 0) /\ 0 \in 0..95
  <2>1. date(slot) + 1 \in Nat
    <3>1. slot \in Nat
      BY <1>1 DEF Inv, TypeOK
    <3> QED
      BY <3>1 DEF date, Day
  <2>2. slot' \in Nat
    BY <1>1, <2>1, Morning
  <2> QED
    BY <1>1, <2>2 DEF Point, PeaksBefore, StepMinutes, Minute
<1>6. not_before' = start_of(date(First') + 1)
  BY <1>1, <1>2, <1>4
<1>7. Searching'
  BY <1>4, <1>5, <1>6, Zenon DEF Searching
<1> QED
  BY <1>1, <1>7, Zenon DEF SearchInv, LoopIsCompliantSlot, SlotNearlyFirst

(* No minute before the answer, by more than the half hour of the morning, *)
(* was compliant.                                                          *)
LEMMA NothingPassedOver ==
    ASSUME Inv, SearchInv, EarlyMorningIsFree, QuarterHoursTell, pc = "check",
           NEW m \in floor..(slot - 30 * Minute - 1)
    PROVE  check_attempt(now, m, 0, rail) # "permitted"
<1>1. floor \in Nat /\ slot \in Nat /\ m \in Nat /\ floor <= m /\ m <= slot - 61
  <2>1. floor \in Nat /\ slot \in Nat
    BY FloorIs DEF Inv, TypeOK
  <2> HIDE DEF floor
  <2> QED
    BY <2>1 DEF Minute
<1>2. truncated(floor) <= m
  <2>1. truncated(floor) \in Nat /\ truncated(floor) <= floor
    BY <1>1, Truncated
  <2> QED
    BY <1>1, <2>1
<1>3. CASE slot = First /\ \E k \in 0..95 : First = Point(floor, k) /\ PeaksBefore(floor, k)
  <2>1. PICK k \in 0..95 : First = Point(floor, k) /\ PeaksBefore(floor, k)
    BY <1>3
  <2>2. slot = Point(floor, k) /\ m < slot /\ m <= slot - Step
    BY <1>1, <1>3, <2>1 DEF Step, StepMinutes, Minute
  <2>3. is_peak(m)
    BY <1>1, <1>2, <2>1, <2>2, PassedOver
  <2> QED
    BY <2>3 DEF check_attempt
<1>4. CASE FirstTooLate /\ slot = start_of(date(First) + 1)
  <2>1. PICK k \in 0..95 : First = Point(floor, k) /\ PeaksBefore(floor, k)
    BY <1>4 DEF FirstTooLate
  <2>2. rail = "upi" /\ past_upi_completion_deadline(First)
    BY <1>4 DEF FirstTooLate, check_attempt
  <2>3. First \in Nat
    <3>1. truncated(floor) \in Nat
      BY <1>1, Truncated
    <3> QED
      BY <2>1, <3>1 DEF Point, StepMinutes, Minute
  <2>4. is_peak(m) \/ past_upi_completion_deadline(m)
    <3>1. CASE m < First
      BY <1>1, <1>2, <2>1, <2>2, <3>1, PassedOver
    <3>2. CASE First <= m
      <4>1. First % 2880 >= UpiDeadline * 2 /\ UpiDeadline \in Int
        BY <2>2, CalendarAssumption
           DEF past_upi_completion_deadline, clock, Day, Minute, MinuteOfDay
      <4>2. m <= ((First \div 2880) + 1) * 2880 - 1
        BY <1>1, <1>4, <2>3 DEF start_of, combine, date, Day, Minute
      <4>3. m % 2880 >= First % 2880
        BY <1>1, <2>3, <3>2, <4>2
      <4> QED
        BY <1>1, <2>3, <4>1, <4>3 DEF past_upi_completion_deadline, clock, Day, Minute
    <3> QED
      BY <1>1, <2>3, <3>1, <3>2
  <2> QED
    BY <2>2, <2>4 DEF check_attempt
<1> QED
  BY <1>3, <1>4, RestartsOnce

LEMMA LeavingKeepsSearch ==
    Inv /\ SearchInv /\ EarlyMorningIsFree /\ (TakeSlot \/ GiveUp)
        => SearchInv'
<1> SUFFICES ASSUME Inv, SearchInv, EarlyMorningIsFree, TakeSlot \/ GiveUp
             PROVE  SearchInv'
  OBVIOUS
<1>1. /\ pc = "check" /\ pc' = "offer"
      /\ UNCHANGED <<now, rail, target_day, margin, not_before, verdict>>
  BY DEF TakeSlot, GiveUp, args
<1>2. slot' = IF Violation = "permitted" THEN slot ELSE None
  BY DEF TakeSlot, GiveUp
<1>3. First = next_compliant_slot(floor_of(now, target_day, rail, margin))
  BY FloorIs DEF Inv, First
<1>4. slot' = compliant_slot(now, target_day, rail, margin)
  <2>1. CASE slot = First /\ Violation # "past_upi_completion_deadline"
    BY <1>2, <1>3, <2>1 DEF compliant_slot, Violation
  <2>2. CASE /\ FirstTooLate
             /\ slot = next_compliant_slot(start_of(date(First) + 1))
    BY <1>2, <1>3, <2>2 DEF compliant_slot, Violation, FirstTooLate
  <2>3. Violation # "past_upi_completion_deadline"
    BY DEF TakeSlot, GiveUp
  <2> QED
    BY <1>1, <2>1, <2>2, <2>3, RestartsOnce
<1>5. ASSUME QuarterHoursTell, slot' # None
      PROVE  \A m \in floor'..(slot' - 30 * Minute - 1) :
                 check_attempt(now', m, 0, rail') # "permitted"
  <2>1. slot' = slot /\ floor' = floor
    BY <1>1, <1>2, <1>5 DEF floor
  <2> QED
    BY <1>1, <1>5, <2>1, NothingPassedOver
<1>6. Searching' /\ LoopIsCompliantSlot'
  BY <1>1, <1>4 DEF Searching, LoopIsCompliantSlot
<1>7. QuarterHoursTell => SlotNearlyFirst'
  BY <1>5 DEF SlotNearlyFirst
<1> QED
  BY <1>6, <1>7 DEF SearchInv, QuarterHoursTell

LEMMA AdmissionKeepsSearch ==
    Inv /\ SearchInv /\ (AdmitLive \/ AdmitSimulated) => SearchInv'
<1> SUFFICES ASSUME AdmitLive \/ AdmitSimulated
             PROVE  SearchInv'
  OBVIOUS
<1>1. pc' = "done"
  BY DEF AdmitLive, AdmitSimulated
<1> QED
  BY <1>1 DEF SearchInv, Searching, LoopIsCompliantSlot, SlotNearlyFirst

(* Where the early morning is free, every state of every search is one of  *)
(* the two that compliant_slot describes.                                  *)
THEOREM SearchInvariance ==
    ASSUME EarlyMorningIsFree
    PROVE  Spec => []SearchInv
<1>1. Init => SearchInv
  BY SearchBegins
<1>2. Inv /\ SearchInv /\ [Next]_vars => SearchInv'
  <2> SUFFICES ASSUME Inv, SearchInv, [Next]_vars
               PROVE  SearchInv'
    OBVIOUS
  <2>1. CASE StepOverPeak \/ LeavePeak
    BY <2>1, SeekingKeepsSearch
  <2>2. CASE TryNextMorning
    BY <2>2, RestartKeepsSearch
  <2>3. CASE TakeSlot \/ GiveUp
    BY <2>3, LeavingKeepsSearch
  <2>4. CASE AdmitLive \/ AdmitSimulated
    BY <2>4, AdmissionKeepsSearch
  <2>5. CASE UNCHANGED vars
    <3>1. UNCHANGED <<now, rail, target_day, margin, pc, not_before, slot, verdict>>
      BY <2>5 DEF vars, args
    <3> QED
      BY <3>1 DEF SearchInv, Searching, FirstTooLate, First, floor, PeaksBefore, Point,
                  LoopIsCompliantSlot, SlotNearlyFirst, QuarterHoursTell
  <2> QED
    BY <2>1, <2>2, <2>3, <2>4, <2>5 DEF Next
<1> QED
  BY <1>1, <1>2, Invariance, PTL DEF Spec

(* A search that takes a turn at a time, and may restart, answers what the *)
(* operator compliant_slot answers in one: Slots, which the simulator is   *)
(* built on, may stand for the loop.                                       *)
THEOREM LoopComputesSlot ==
    ASSUME EarlyMorningIsFree
    PROVE  Spec => []LoopIsCompliantSlot
<1>1. SearchInv => LoopIsCompliantSlot
  BY DEF SearchInv
<1> QED
  BY <1>1, SearchInvariance, PTL

(* Where a quarter hour steps over no gap between the peaks, no compliant  *)
(* minute lies more than half an hour before the slot.                     *)
THEOREM NoSlotPassedOver ==
    ASSUME EarlyMorningIsFree, QuarterHoursTell
    PROVE  Spec => []SlotNearlyFirst
<1>1. SearchInv => SlotNearlyFirst
  BY DEF SearchInv
<1> QED
  BY <1>1, SearchInvariance, PTL
=============================================================================
