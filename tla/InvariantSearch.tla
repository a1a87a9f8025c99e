-------------------------- MODULE InvariantSearch --------------------------
(***************************************************************************)
(* C7, the repository's own search (recovery/invariants.py), with C6, the  *)
(* ledger that reads what the search leaves behind (recovery/ledger.py).   *)
(* execute() runs an ordering of whole calls against the event core on one *)
(* order: a delivery, a drain of the queue, a crash.  Between two calls    *)
(* nothing interleaves: a call is one action here, a drain one for each of *)
(* its jobs; EventCore has the statements.  Executions for the order's     *)
(* case pass the guard after every drain.  A refresh that fails            *)
(* (SimulatedGateway.fail_next) is a step of the repository's tests and    *)
(* not of the search; it is added for the sake of the ledger.              *)
(***************************************************************************)
EXTENDS Guard, SequencesExt

CONSTANTS
    PaymentCount,   \* payments of the one order
    Times,          \* created_at of the events, in any order
    MaxEvents,      \* bound: deliveries
    MaxActions,     \* length of an ordering
    MaxRefusals     \* bound: refreshes that fail

Payments == 0..(PaymentCount - 1)
Events == 1..MaxEvents      \* in the order of their delivery: a job's rowid

ASSUME SearchAssumption ==
    /\ PaymentCount \in Nat \ {0} /\ MaxEvents \in Nat /\ MaxActions \in Nat
    /\ MaxRefusals \in 0..1   \* so that no job comes to max_attempts
    /\ Times \subseteq Nat /\ "" \in Rails

VARIABLES
    event,      \* sequence of delivered [payment, created_at]
    job,        \* the state of each one's job
    settled,    \* payments that the gateway reports as authorized
    fail_next,  \* the gateway refuses the next refresh
    case,       \* the row of table cases, of state "none" when there is none
    chain,      \* table chain_attempts: payments in the order of their positions
    decisions,  \* table decisions: payments, in order
    audit,      \* table audit_events
    world,      \* the order's expiry and the shift of the decision, in hours
    trace,      \* _Trace: what was admitted and decided, and when
    run,        \* the drain under way: its workers left, index, queue, what was decided before
    actions     \* actions executed

core == <<case, chain, decisions, audit>>
vars == <<event, job, settled, fail_next, core, world, trace, run, actions>>

CLOCK == combine(1, 60)

(* AuditEventType, the members that a step below writes.                   *)
PreCase == {"webhook.received", "webhook.duplicate", "refreshed", "refresh_failed"}
Verdicts == {"stale_ignored", "closed_resolved", "decision.recorded", "decision.duplicate"}
OfCase == {"case.opened", "case.attached"} \cup Verdicts

NoRun == [workers |-> 0, index |-> 0, queue |-> {}, decided |-> {}]

Init ==
    /\ event = <<>> /\ job = <<>>
    /\ settled = {} /\ fail_next = FALSE
    /\ case = [payment_id |-> 0, state |-> "none", last_event_created_at |-> 0]
    /\ chain = <<>> /\ decisions = <<>> /\ audit = <<>>
    /\ world = [expires_at |-> None, pdn_shift |-> 0]
    /\ trace = [admitted |-> <<>>, decided_settled |-> {}, refusals |-> 0]
    /\ run = NoRun
    /\ actions = 0

(* The calls follow each other.                                            *)
Counted == run = NoRun /\ actions < MaxActions /\ actions' = actions + 1
-----------------------------------------------------------------------------
row(type, e) == [type |-> type, event |-> e]

(* build_delivery and ingest_delivery.                                     *)
Deliver(p, created_at) ==
    /\ Counted /\ Len(event) < MaxEvents
    /\ event' = Append(event, [payment |-> p, created_at |-> created_at])
    /\ job' = Append(job, "pending")
    /\ audit' = Append(audit, row("webhook.received", Len(event) + 1))
    /\ UNCHANGED <<settled, fail_next, case, chain, decisions, world, trace, run>>

Redeliver(e) ==
    /\ Counted /\ e \in DOMAIN event
    /\ audit' = Append(audit, row("webhook.duplicate", e))
    /\ UNCHANGED <<event, job, settled, fail_next, case, chain, decisions, world, trace, run>>

LateAuthorize(p) ==
    /\ Counted
    /\ settled' = settled \cup {p}
    /\ UNCHANGED <<event, job, fail_next, core, world, trace, run>>

(* The gateway refuses the next refresh: tests/test_c1_event_core.py.      *)
FailNext ==
    /\ Counted /\ trace.refusals < MaxRefusals
    /\ fail_next' = TRUE
    /\ trace' = [trace EXCEPT !.refusals = @ + 1]
    /\ UNCHANGED <<event, job, settled, core, world, run>>

ExpireOrder ==
    /\ Counted
    /\ world' = [world EXCEPT !.expires_at = CLOCK - Hour]
    /\ UNCHANGED <<event, job, settled, fail_next, core, trace, run>>

ShiftPdnWindow ==
    /\ Counted
    /\ world' = [world EXCEPT !.pdn_shift = @ + 9]
    /\ UNCHANGED <<event, job, settled, fail_next, core, trace, run>>

Pending == {e \in DOMAIN job : job[e] = "pending"}

claim_jobs == job' = [e \in DOMAIN job |-> IF job[e] = "pending" THEN "claimed" ELSE job[e]]

(* Claim, then die.  The claim does not time out while the search runs.    *)
CrashWorker ==
    /\ Counted
    /\ claim_jobs
    /\ UNCHANGED <<event, settled, fail_next, core, world, trace, run>>
-----------------------------------------------------------------------------
(* ORDER BY created_at, rowid.                                             *)
claimed_first(d, e) ==
    \/ event[d].created_at < event[e].created_at
    \/ event[d].created_at = event[e].created_at /\ d < e

StartWorkers(workers, index) ==
    /\ Counted
    /\ claim_jobs
    /\ run' = [workers |-> workers, index |-> index, queue |-> Pending,
               decided |-> ToSet(decisions)]
    /\ UNCHANGED <<event, settled, fail_next, core, world, trace>>

RunWorker(index) == StartWorkers(1, index)
ConcurrentWorkers(index) == StartWorkers(2, index)

(* The second worker only drains after the first has ended, and takes up   *)
(* what the first put back.                                                *)
SecondWorker ==
    /\ run.workers = 2 /\ run.queue = {}
    /\ claim_jobs
    /\ run' = [run EXCEPT !.workers = 1, !.queue = Pending]
    /\ UNCHANGED <<event, settled, fail_next, core, world, trace, actions>>

(* process_pending comes to e.                                             *)
TakeUp(e) ==
    /\ e \in run.queue
    /\ \A d \in run.queue \ {e} : claimed_first(e, d)
    /\ run' = [run EXCEPT !.queue = @ \ {e}]
    /\ UNCHANGED <<event, settled, world, trace, actions>>

RefreshFails(e) ==
    /\ TakeUp(e) /\ fail_next
    /\ fail_next' = FALSE
    /\ job' = [job EXCEPT ![e] = "pending"]
    /\ audit' = Append(audit, row("refresh_failed", e))
    /\ UNCHANGED <<case, chain, decisions>>

Opened == case.state # "none"

open_case(e) ==
    IF Opened THEN case
    ELSE [payment_id |-> event[e].payment, state |-> "OPEN",
          last_event_created_at |-> event[e].created_at]

advance_case(state, e) ==
    [payment_id |-> open_case(e).payment_id, state |-> state,
     last_event_created_at |-> event[e].created_at]

(* Variant: a position for every call.                                     *)
assign_attempt_again(p) == Append(chain, p)

assign_attempt_n(p) == IF p \in ToSet(chain) THEN chain ELSE Append(chain, p)

(* Variant: no key is ever taken.                                          *)
RecordedNever(p) == FALSE

(* One key per payment: its position and the policy's version are fixed.   *)
Recorded(p) == p \in ToSet(decisions)

(* Variant: the payload's word is taken for the payment's status.          *)
ResolvedInPayload(p) == FALSE

is_resolved(p) == p \in settled

IsStale(e) == event[e].created_at < open_case(e).last_event_created_at

(* _process_one, from the refresh to the verdict that ends it.             *)
Process(e, verdict) ==
    /\ TakeUp(e) /\ ~fail_next
    /\ job' = [job EXCEPT ![e] = "done"]
    /\ audit' = audit \o <<row("refreshed", e),
                           row(IF Opened THEN "case.attached" ELSE "case.opened", e),
                           row(verdict, e)>>
    /\ UNCHANGED fail_next

IgnoreStale(e) ==
    /\ Process(e, "stale_ignored")
    /\ IsStale(e)
    /\ case' = open_case(e)
    /\ UNCHANGED <<chain, decisions>>

CloseResolved(e) ==
    /\ Process(e, "closed_resolved")
    /\ ~IsStale(e) /\ is_resolved(event[e].payment)
    /\ case' = advance_case("CLOSED_PAYMENT_RESOLVED", e)
    /\ UNCHANGED <<chain, decisions>>

(* The decider of the search always holds.                                 *)
Decide(e) ==
    /\ Process(e, "decision.recorded")
    /\ ~IsStale(e) /\ ~is_resolved(event[e].payment) /\ ~Recorded(event[e].payment)
    /\ chain' = assign_attempt_n(event[e].payment)
    /\ decisions' = Append(decisions, event[e].payment)
    /\ case' = advance_case("DECIDED", e)

SuppressDuplicate(e) ==
    /\ Process(e, "decision.duplicate")
    /\ ~IsStale(e) /\ ~is_resolved(event[e].payment) /\ Recorded(event[e].payment)
    /\ chain' = assign_attempt_n(event[e].payment)
    /\ case' = open_case(e)
    /\ UNCHANGED decisions
-----------------------------------------------------------------------------
(* The harness reads the status of the payment that opened the case, of    *)
(* which there is never more than one.                                     *)
RequestAfter(index, attempts) ==
    [kind |-> "EXECUTION", settled |-> case.payment_id \in settled, has_order |-> TRUE,
     order_expires_at |-> world.expires_at,
     decided_at |-> CLOCK + world.pdn_shift * Hour,
     execute_at |-> CLOCK + (26 + 8 * index) * Hour,
     rail |-> "", attempts_seen |-> attempts, contacts_seen |-> 0,
     last_contact_at |-> None, attempt_pending_until |-> None]

(* Variant: the original execution is not counted.                         *)
request_uncounted(index) == RequestAfter(index, Len(trace.admitted))

request(index) == RequestAfter(index, 1 + Len(trace.admitted))

Admission(r) ==
    [execute_at |-> r.execute_at, decided_at |-> r.decided_at,
     payment_settled |-> case.payment_id \in settled, expired |-> world.expires_at # None]

NewlyDecided == ToSet(decisions) \ run.decided

(* Admission after a drain, and the decisions that appeared in it.         *)
Observe ==
    /\ run.workers = 1 /\ run.queue = {}
    /\ run' = NoRun
    /\ trace' = [trace EXCEPT
            !.admitted = IF Opened /\ check(request(run.index)) = "allowed"
                         THEN Append(@, Admission(request(run.index))) ELSE @,
            !.decided_settled = @ \cup (NewlyDecided \cap settled)]
    /\ UNCHANGED <<event, job, settled, fail_next, core, world, actions>>

Next ==
    \/ \E p \in Payments : LateAuthorize(p) \/ RunWorker(p) \/ ConcurrentWorkers(p)
    \/ \E p \in Payments, t \in Times : Deliver(p, t)
    \/ \E e \in Events :
          \/ Redeliver(e) \/ RefreshFails(e)
          \/ IgnoreStale(e) \/ CloseResolved(e) \/ Decide(e) \/ SuppressDuplicate(e)
    \/ FailNext \/ CrashWorker \/ ExpireOrder \/ ShiftPdnWindow
    \/ SecondWorker \/ Observe

Spec == Init /\ [][Next]_vars
-----------------------------------------------------------------------------
JobState == {"pending", "claimed", "done"}

Case == [payment_id : Payments, last_event_created_at : Nat,
         state : {"none", "OPEN", "DECIDED", "CLOSED_PAYMENT_RESOLVED"}]

Row == [type : PreCase \cup OfCase, event : DOMAIN event]

World == [expires_at : {None, CLOCK - Hour}, pdn_shift : Nat]

Admitted == [execute_at : Nat, decided_at : Nat, payment_settled : BOOLEAN, expired : BOOLEAN]

Trace == [admitted : Seq(Admitted), decided_settled : SUBSET Payments,
          refusals : 0..MaxRefusals]

Runs == [workers : 0..2, index : Payments, queue : SUBSET DOMAIN event,
         decided : SUBSET Payments]

(* The rows keep their types; no payment has two positions on the chain.   *)
TypeOK ==
    /\ event \in Seq([payment : Payments, created_at : Times]) /\ Len(event) <= MaxEvents
    /\ job \in Seq(JobState) /\ Len(job) = Len(event)
    /\ settled \subseteq Payments /\ fail_next \in BOOLEAN
    /\ case \in Case
    /\ chain \in Seq(Payments) /\ IsInjective(chain)
    /\ decisions \in Seq(Payments)
    /\ audit \in Seq(Row)
    /\ world \in World /\ trace \in Trace /\ run \in Runs
    /\ actions \in 0..MaxActions

(* The late-authorisation checks of the search: after a payment has been   *)
(* authorized no decision is recorded against it and no execution is       *)
(* admitted for the case that it opened.                                   *)
NoObligationAfterSettlement ==
    /\ trace.decided_settled = {}
    /\ \A i \in DOMAIN trace.admitted : ~trace.admitted[i].payment_settled

(* Its checks of admitted executions: within the cap, never after the      *)
(* order expired, never in a peak window; and one that it leaves to the    *)
(* guard, the notification before its deadline however far the decision    *)
(* slides.                                                                 *)
AdmittedWithinRules ==
    /\ Len(trace.admitted) + 1 <= AttemptCap
    /\ \A i \in DOMAIN trace.admitted :
          LET a == trace.admitted[i]
          IN  /\ ~a.expired /\ ~is_peak(a.execute_at)
              /\ a.decided_at <= pdn_deadline_for(a.execute_at, "")

RowsOf(types) == {i \in DOMAIN audit : audit[i].type \in types}

VerdictsOn(e) == {i \in RowsOf(Verdicts) : audit[i].event = e}

(* Its checks of the ledger: one decision per payment, one decision row in *)
(* the trail per decision, one delivery received per stored event; and     *)
(* every finished job left exactly one verdict, whatever was delivered     *)
(* twice, refused or put back.                                             *)
OnceAndAudited ==
    /\ IsInjective(decisions)
    /\ Cardinality(RowsOf({"decision.recorded"})) = Len(decisions)
    /\ Cardinality(RowsOf({"webhook.received"})) = Len(event)
    /\ \A e \in DOMAIN event :
          Cardinality(VerdictsOn(e)) = (IF job[e] = "done" THEN 1 ELSE 0)
=============================================================================
