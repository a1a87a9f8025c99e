-------------------------------- MODULE Arms --------------------------------
(***************************************************************************)
(* What the three arms of the comparison propose, as functions of the view *)
(* that the environment shows them: the documented baseline A, B with one  *)
(* contact on top, and the allocator C with its twelve-cell table          *)
(* (recovery/sim/arms.py, allocator/).  Days are days of March, wrapping   *)
(* into April.                                                             *)
(***************************************************************************)
EXTENDS Slots, Classifier

CONSTANTS
    BankHolidays,         \* configured days, Sundays apart
    InfraHighOffset,      \* allocator.infrastructure, in days
    InfraModerateOffset,
    LiquidityMinOffset,   \* allocator.liquidity
    FundingDays,          \* days of the month
    MaxWaitDays,
    MaxContacts           \* allocator.contact.max_per_case

BaselineMargin == 10
PDN_MARGIN_MINUTES == 15

no_channel == "none"

ASSUME ArmsAssumption ==
    /\ InfraHighOffset \in Nat /\ InfraModerateOffset \in Nat /\ LiquidityMinOffset \in Nat
    /\ MaxWaitDays \in Nat /\ MaxContacts \in Nat
    /\ FundingDays \subseteq 1..31 /\ FundingDays # {}
-----------------------------------------------------------------------------
(* The 1st of March 2026 is a Sunday.                                      *)
is_bank_holiday(day) == day % 7 = 1 \/ day \in BankHolidays

(* T -> T-1, or T -> T-3 when both are holidays.                           *)
shift_for_bank_holidays(day) ==
    IF ~is_bank_holiday(day) THEN day ELSE
    IF ~is_bank_holiday(day - 1) THEN day - 1 ELSE day - 3

day_of_month(day) == ((day - 1) % 31) + 1

(* Variant: the last day of the wait is left out.                          *)
next_funding_day_short(start) ==
    LET reachable == {d \in start..(start + MaxWaitDays - 1) : day_of_month(d) \in FundingDays}
    IN  IF reachable = {} THEN start ELSE Min(reachable)

next_funding_day(start) ==
    LET reachable == {d \in start..(start + MaxWaitDays) : day_of_month(d) \in FundingDays}
    IN  IF reachable = {} THEN start ELSE Min(reachable)
-----------------------------------------------------------------------------
Attempt(at) == [kind |-> "EXECUTION", execute_at |-> at]
Contact(at) == [kind |-> "CONTACT", execute_at |-> at]

offered(at) == IF at = None THEN <<>> ELSE <<Attempt(at)>>

BaselineMayRetry(view) == view.attempts_used < AttemptCap /\ ~view.attempt_pending

(* ArmA.propose.  attempts_used counts the original execution, so it is the*)
(* offset T+n itself; Emandate waits a day from the last answer instead.   *)
BaselineDay(view, now) ==
    IF view.rail = "emandate"
    THEN LET since == IF view.last_attempt_resolved_at = None THEN view.failed_at
                                                      ELSE view.last_attempt_resolved_at
         IN  shift_for_bank_holidays(Max({date(since), date(now)}) + 1)
    ELSE date(view.failed_at) + view.attempts_used

ArmA(view, now) ==
    IF ~BaselineMayRetry(view) THEN <<>>
    ELSE offered(compliant_slot(now, BaselineDay(view, now), view.rail, BaselineMargin))

ArmB(view, now) ==
    (IF view.contacts_used = 0 THEN <<Contact(now + Hour)>> ELSE <<>>) \o ArmA(view, now)
-----------------------------------------------------------------------------
(* The table, and the kind of contact of a cell that is one.               *)
lookup(class, band) ==
    IF band = "LOW" THEN "RECOVERY_LINK" ELSE
    CASE class \in {"INFRASTRUCTURE", "LIQUIDITY"} -> "SCHEDULE_AT"
      [] class = "ATTENTION" -> "RECOVERY_LINK"
      [] class = "TERMINAL"  -> "OFFER_RAIL_MIGRATION"

contact_kind(class, band) ==
    IF band = "LOW" THEN "recovery_link" ELSE
    CASE class \in {"INFRASTRUCTURE", "LIQUIDITY"} -> no_channel
      [] class = "ATTENTION" -> IF band = "HIGH" THEN "recovery_link_alternate_channel"
                                                 ELSE "recovery_link"
      [] class = "TERMINAL"  -> "card_change_offer"

spends_execution(cell) == cell = "SCHEDULE_AT"

(* The two rail policies and the two counters that allocator/policies.py   *)
(* keeps open.                                                             *)
RailPolicies == {"RailAgnosticCells", "EmandateHoldsTerminal"}
Counters == {"SystemInitiatedOnly", "DiscountCustomerAttempts"}

adjusts_cell(policy, view, class) ==
    policy = "EmandateHoldsTerminal" /\ view.rail = "emandate" /\ class = "TERMINAL"

(* Variant: the unresolved attempt is left to the guard.                   *)
may_attempt_always(view) == TRUE

may_attempt(view) == ~view.attempt_pending

(* Variant: the original execution is not counted.                         *)
executions_used_since(counter, view) == view.attempts_used - 1

executions_used(counter, view) ==
    IF counter = "SystemInitiatedOnly" THEN view.attempts_used
    ELSE Max({1, view.attempts_used - view.contacts_used})

_target_day(now, reading) ==
    IF reading.failure_class = "LIQUIDITY" THEN next_funding_day(date(now) + LiquidityMinOffset)
    ELSE date(now) + (IF reading.band = "HIGH" THEN InfraHighOffset ELSE InfraModerateOffset)

Plan(action, proposals) == [action |-> action, proposals |-> proposals]

_plan_execution(counter, view, now, reading) ==
    LET slot == compliant_slot(now, _target_day(now, reading), view.rail, PDN_MARGIN_MINUTES)
    IN  IF executions_used(counter, view) >= AttemptCap THEN Plan("SURRENDER", <<>>) ELSE
        IF ~may_attempt(view) \/ slot = None THEN Plan("HOLD", <<>>) ELSE
        Plan("SCHEDULE_AT", <<Attempt(slot)>>)

_plan_contact(view, now, cell) ==
    IF view.contacts_used >= MaxContacts THEN Plan("SURRENDER", <<>>)
    ELSE Plan(cell, <<Contact(now + Hour)>>)

(* ArmC.plan on an open case.                                              *)
plan(policy, counter, view, now) ==
    LET reading == classify(normalize_entity(view.observed))
        cell    == lookup(reading.failure_class, reading.band)
    IN  IF adjusts_cell(policy, view, reading.failure_class) THEN Plan("SURRENDER", <<>>) ELSE
        IF spends_execution(cell) THEN _plan_execution(counter, view, now, reading)
        ELSE _plan_contact(view, now, cell)
=============================================================================
