------------------------------- MODULE Ledger -------------------------------
(***************************************************************************)
(* C6 (recovery/ledger.py): the read-only view of a case.  It is rebuilt   *)
(* from the tables alone, so its operators are functions of these tables;  *)
(* the search of InvariantSearch supplies them.                            *)
(***************************************************************************)
EXTENDS InvariantSearch

audit_trail == {i \in DOMAIN audit : audit[i].type \in OfCase}

event_ids == {audit[i].event : i \in audit_trail}

(* Variant: only the rows that carry the case's id.                        *)
_events_for_case_only == audit_trail

(* Rows of the case, and the rows before it had an id of the same events.  *)
_events_for ==
    audit_trail \cup {i \in DOMAIN audit : /\ audit[i].type \in PreCase
                                                /\ audit[i].event \in event_ids}

Latest(types) ==
    LET found == {i \in _events_for : audit[i].type \in types}
    IN  IF found = {} THEN None ELSE audit[Max(found)].type

(* Variant: the first row that tells, and not the last.                    *)
outcome_line_first ==
    LET found == {i \in _events_for : audit[i].type \in {"closed_resolved", "refresh_failed"}}
    IN  IF decisions # <<>> THEN "decided" ELSE
        IF found = {} THEN "no decision" ELSE
        IF audit[Min(found)].type = "closed_resolved" THEN "settled" ELSE "unavailable"

(* Nothing is blocked in the trail: the decider of the search always holds.*)
outcome_line ==
    LET last == Latest({"closed_resolved", "refresh_failed"})
    IN  IF decisions # <<>> THEN "decided" ELSE
        IF last = "closed_resolved" THEN "settled" ELSE
        IF last = "refresh_failed" THEN "unavailable" ELSE "no decision"

(* Variant: the case's own payment only.                                   *)
resolve_by_case(p) == Opened /\ p = case.payment_id

(* By the payment of the case, of a decision, or of a position.            *)
resolve(p) ==
    /\ Opened
    /\ p = case.payment_id \/ p \in ToSet(decisions) \/ p \in ToSet(chain)
-----------------------------------------------------------------------------
(* The trace of a case leaves nothing out: whatever was written about an   *)
(* event that reached the case is in it, duplicates and refused refreshes  *)
(* from before the case had an id included.                                *)
TraceIsComplete ==
    \A e \in DOMAIN event : job[e] = "done" =>
        \A i \in DOMAIN audit : audit[i].event = e => i \in _events_for

(* The line a person reads is right: a decision when there is one; money   *)
(* arrived only if it did; and if no refresh ever failed, a case that was  *)
(* closed without a decision says so.  A refresh that failed for an event  *)
(* found stale later does hide the close: the line then says that the      *)
(* state was unavailable.                                                  *)
OutcomeLineFits ==
    Opened =>
        /\ outcome_line = "decided" <=> decisions # <<>>
        /\ outcome_line = "settled" => /\ case.state = "CLOSED_PAYMENT_RESOLVED"
                                       /\ settled # {}
        /\ case.state = "CLOSED_PAYMENT_RESOLVED" /\ decisions = <<>> =>
              \/ outcome_line = "settled"
              \/ /\ outcome_line = "unavailable"
                 /\ \E i, j \in DOMAIN audit :
                       /\ i < j /\ audit[i].event = audit[j].event
                       /\ audit[i].type = "refresh_failed"
                       /\ audit[j].type = "stale_ignored"
        /\ outcome_line = "no decision" => FALSE

(* Every payment of a finished job leads to the case, unless money arrived *)
(* for it or its event was stale before it ever had a position: such a     *)
(* payment, though its event is attached, cannot be found by its id.       *)
ResolveFindsTheDecided ==
    \A e \in DOMAIN event : job[e] = "done" /\ ~resolve(event[e].payment) =>
        \A i \in DOMAIN audit :
            audit[i].event = e => audit[i].type \notin
                {"case.opened", "decision.recorded", "decision.duplicate"}
=============================================================================
