-------------------------------- MODULE Live --------------------------------
(***************************************************************************)
(* The allocator on the live path: the worker reads a failed payment       *)
(* (worker._classify), the allocator plans on a view built from the same   *)
(* snapshot (allocator/wiring.py), and the guard is asked at a later       *)
(* reading of the clock.  One order, whose payments fail one after the     *)
(* other; EventCore has the statements and the interleavings of workers,   *)
(* with the action as a choice, and this module has the action.            *)
(***************************************************************************)
EXTENDS Contact

CONSTANTS
    Payments,
    Snapshots,      \* failed payments: a key, and the cache's file for its text
    OpenedOn,       \* the day on which the case is opened
    TickHours,      \* hours between two readings of the clock
    LastDay         \* bound: of the clock

VARIABLES
    now,
    attempt_n,      \* [Payments -> position on the order's chain, 0 before it has one]
    job,            \* the payment in work, with what was decided of it, or None
    decisions       \* the rows of the case: payment, action, and the reading in the trail

vars == <<now, attempt_n, job, decisions>>

opened_at == combine(OpenedOn, 180)

Init ==
    /\ now = opened_at
    /\ attempt_n = [p \in Payments |-> 0]
    /\ job = None
    /\ decisions = {}
-----------------------------------------------------------------------------
(* The worker's reading, which the trail records.  The network is off.     *)
_classify(snapshot) ==
    refine(classify(normalize_entity(snapshot)), observe(snapshot.file, FALSE, NoAnswer))

(* Contacts, and whether an attempt is pending, are not tracked.           *)
case_view_from_snapshot(snapshot, n) ==
    [rail |-> snapshot.method, failed_at |-> opened_at, observed |-> snapshot,
     attempts_used |-> n, contacts_used |-> 0, attempt_pending |-> FALSE,
     last_attempt_resolved_at |-> None]

plan_at(snapshot, n, t) ==
    plan("RailAgnosticCells", "SystemInitiatedOnly", case_view_from_snapshot(snapshot, n), t)

decide(snapshot, n, t) == plan_at(snapshot, n, t).action

(* Plans again, by the clock of the call.                                  *)
execution_slot(snapshot, n, t) ==
    LET proposals == plan_at(snapshot, n, t).proposals
    IN  IF proposals # <<>> /\ proposals[1].kind = "EXECUTION"
        THEN proposals[1].execute_at ELSE None

OBLIGATION_KIND(action) == IF action = "SCHEDULE_AT" THEN "EXECUTION" ELSE "CONTACT"
Obligations == {"SCHEDULE_AT", "RECOVERY_LINK", "OFFER_RAIL_MIGRATION"}

request(snapshot, n, action, t) ==
    [kind |-> OBLIGATION_KIND(action), settled |-> FALSE, has_order |-> TRUE,
     order_expires_at |-> None, decided_at |-> t,
     execute_at |-> IF action = "SCHEDULE_AT" THEN execution_slot(snapshot, n, t) ELSE None,
     rail |-> snapshot.method, attempts_seen |-> n, contacts_seen |-> 0,
     last_contact_at |-> None, attempt_pending_until |-> None]
-----------------------------------------------------------------------------
(* The next position of the chain, and the decision at it.                 *)
Decide(p, snapshot) ==
    LET n == 1 + Cardinality({q \in Payments : attempt_n[q] # 0})
    IN  /\ job = None /\ attempt_n[p] = 0
        /\ attempt_n' = [attempt_n EXCEPT ![p] = n]
        /\ job' = [payment |-> p, snapshot |-> snapshot, attempt_n |-> n,
                   reading |-> _classify(snapshot), action |-> decide(snapshot, n, now)]
        /\ UNCHANGED <<now, decisions>>

Admitted ==
    \/ job.action \notin Obligations
    \/ check(request(job.snapshot, job.attempt_n, job.action, now)) = "allowed"

Record ==
    /\ job # None /\ Admitted
    /\ decisions' = decisions \cup
           {[payment |-> job.payment, action |-> job.action, reading |-> job.reading]}
    /\ job' = None
    /\ UNCHANGED <<now, attempt_n>>

GuardBlocks ==
    /\ job # None /\ ~Admitted
    /\ job' = None
    /\ UNCHANGED <<now, attempt_n, decisions>>

Tick ==
    /\ now < combine(LastDay, 0)
    /\ now' = now + TickHours * Hour
    /\ UNCHANGED <<attempt_n, job, decisions>>

Next ==
    \/ \E p \in Payments, snapshot \in Snapshots : Decide(p, snapshot)
    \/ Record \/ GuardBlocks \/ Tick

Spec == Init /\ [][Next]_vars
-----------------------------------------------------------------------------
Contacts == {d \in decisions : d.action \in Obligations \ {"SCHEDULE_AT"}}

(* "The guard still enforces it, so nothing is unsafe" (wiring.py:22-25):  *)
(* a case is sent no more contacts than its budget.                        *)
ContactBudgetHolds == Cardinality(Contacts) <= ContactBudget
=============================================================================
