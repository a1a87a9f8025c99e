------------------------------- MODULE Guard -------------------------------
(***************************************************************************)
(* C4's admission control (recovery/guard.py): Guard.check on a request.   *)
(* The fields no caller under recovery/ or allocator/ ever sets            *)
(* (already_decided, token_busy_until, auth_attempts) are left out, and so *)
(* are the checks that read them.                                          *)
(***************************************************************************)
EXTENDS ComplianceCalendar

CONSTANTS
    None,               \* an absent moment
    ContactBudget,      \* guard.contact_budget_per_case
    CooldownHours       \* guard.contact_cooldown_hours

ASSUME GuardAssumption ==
    /\ ContactBudget \in Nat
    /\ CooldownHours \in Nat
    /\ None \notin Int

(* The members of BlockReason that the modelled checks give.               *)
BlockReason ==
    {"execution_cap_exhausted", "peak_hour_barred", "pdn_lead_time_unmet",
     "execute_at_not_in_future", "prior_attempt_unresolved", "contact_budget_exhausted",
     "contact_cooldown_active", "order_expired", "order_invalid",
     "payment_already_succeeded", "past_upi_completion_deadline"}

(* When the obligation would take effect.                                  *)
moment(r) == IF r.execute_at # None THEN r.execute_at ELSE r.decided_at

(* An obligation must attach to a live order; only an execution must name  *)
(* one.                                                                    *)
_order(r) ==
    IF r.kind = "EXECUTION" /\ ~r.has_order THEN "order_invalid" ELSE
    IF r.order_expires_at # None /\ moment(r) >= r.order_expires_at THEN "order_expired" ELSE
    "allowed"

(* The counter is SystemInitiatedOnly: attempts_seen as it stands.         *)
_execution(r) ==
    IF r.attempts_seen >= AttemptCap THEN "execution_cap_exhausted" ELSE
    IF r.execute_at = None \/ r.execute_at <= r.decided_at THEN "execute_at_not_in_future" ELSE
    IF r.attempt_pending_until # None /\ r.execute_at < r.attempt_pending_until
        THEN "prior_attempt_unresolved" ELSE
    IF r.rail = "upi" /\ past_upi_completion_deadline(r.execute_at)
        THEN "past_upi_completion_deadline" ELSE
    IF is_peak(r.execute_at) THEN "peak_hour_barred" ELSE
    IF r.decided_at > pdn_deadline_for(r.execute_at, r.rail) THEN "pdn_lead_time_unmet" ELSE
    "allowed"

_contact(r) ==
    IF r.contacts_seen >= ContactBudget THEN "contact_budget_exhausted" ELSE
    IF r.execute_at # None /\ r.execute_at <= r.decided_at
        THEN "execute_at_not_in_future" ELSE
    IF r.last_contact_at # None /\ moment(r) - r.last_contact_at < CooldownHours * Hour
        THEN "contact_cooldown_active" ELSE
    "allowed"

check(r) ==
    IF r.settled THEN "payment_already_succeeded" ELSE
    IF _order(r) # "allowed" THEN _order(r) ELSE
    IF r.kind = "EXECUTION" THEN _execution(r) ELSE _contact(r)
=============================================================================
