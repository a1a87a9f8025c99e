----------------------------- MODULE EventCore -----------------------------
(***************************************************************************)
(* C1, the event core: webhook ingest (recovery/ingest.py), the SQLite     *)
(* store (recovery/store.py) and the worker (recovery/worker.py), with the *)
(* parts of the gateway and the admission guard that the worker consults.  *)
(*                                                                         *)
(* The connection is opened with isolation_level=None, so every statement  *)
(* commits by itself; only claim_jobs and assign_attempt_n are             *)
(* transactions.  One action is one such commit, and between any two of    *)
(* them another worker may run, a process may die, a claim may outlive its *)
(* timeout or the gateway's answer may change.                             *)
(*                                                                         *)
(* Rows of the audit trail that no property reads are left out; the ones   *)
(* that explain why a job ended without a decision are kept in trail, the  *)
(* decision.recorded rows in audited.                                      *)
(***************************************************************************)
EXTENDS Integers, FiniteSets, FiniteSetsExt

CONSTANTS
    Events,          \* x-razorpay-event-id values
    Payments,        \* payment ids
    Workers,         \* processes that call process_pending
    Orders,          \* order ids
    Versions,        \* policy versions deployed (config.policy.version)
    Decidable,       \* actions the wired decider may return
    NoPayment,       \* payload without a payment id
    NoOrder,         \* snapshot without an order id
    NoEvent,         \* a worker holding no job
    EventKind,       \* [Events -> Kinds]: what ingest finds in the delivery
    EventPayment,    \* [Events -> Payments or NoPayment]
    EventTime,       \* [Events -> Nat]: Razorpay's created_at
    PaymentOrder,    \* [Payments -> Orders or NoOrder]
    PolicyVersion,   \* [Workers -> Versions]: config each process started with
    BatchSize,       \* worker.batch_size
    MaxAttempts,     \* worker.max_attempts_per_job
    AttemptCap       \* regulatory.attempt_cap

Kinds == {"malformed", "unsupported", "filtered", "payment.failed"}

(* models.DecisionAction, one member per kind of obligation.               *)
DecisionAction == {"HOLD", "SCHEDULE_AT", "RECOVERY_LINK"}

ASSUME ConstantsAssumption ==
    /\ IsFiniteSet(Events) /\ IsFiniteSet(Payments) /\ IsFiniteSet(Workers)
    /\ NoPayment \notin Payments /\ NoOrder \notin Orders /\ NoEvent \notin Events
    /\ Decidable \subseteq DecisionAction
    /\ EventKind \in [Events -> Kinds]
    /\ EventPayment \in [Events -> Payments \cup {NoPayment}]
    /\ EventTime \in [Events -> Nat]
    /\ PaymentOrder \in [Payments -> Orders \cup {NoOrder}]
    /\ PolicyVersion \in [Workers -> Versions]
    /\ BatchSize \in Nat \ {0}
    /\ MaxAttempts \in Nat \ {0}
    /\ AttemptCap \in Nat \ {0}

VARIABLES
    settled,      \* payments whose authoritative status is resolved (gateway)
    raw,          \* raw_events
    storing,      \* events whose handler has stored the payload but not queued the job
    jobState,     \* jobs.state by event (jobs are UNIQUE on event_id)
    jobAttempts,  \* jobs.attempts, counted up to MaxAttempts (only >= is ever asked)
    overdue,      \* claimed jobs whose claimed_at is before the cutoff
    cases,        \* cases by chain_key (UNIQUE)
    attempt_n,    \* chain_attempts by payment, 0 for no row
    decisions,    \* decisions
    audited,      \* decision.recorded rows, by idempotency key
    trail,        \* audit rows that end a job without a decision
    pc,           \* where each worker is in _process_one
    batch,        \* claimed jobs the worker has still to finish
    cur,          \* the job it is on
    resolved,     \* snapshot.status.is_resolved as fetched
    number        \* attempt_n as assign_attempt_n returned it

ingestVars == <<raw, storing>>
jobVars    == <<jobState, jobAttempts, overdue>>
caseVars   == <<cases, attempt_n, decisions>>
auditVars  == <<audited, trail>>
localVars  == <<batch, cur, resolved, number>>
vars == <<settled, ingestVars, jobVars, caseVars, auditVars, pc, localVars>>

(* The chain owns the case: keyed on the order where there is one.         *)
ChainKey(p) ==
    IF PaymentOrder[p] # NoOrder THEN <<"order", PaymentOrder[p]>> ELSE <<"payment", p>>

Chains == {ChainKey(p) : p \in Payments}

OnChain(p) == {q \in Payments : ChainKey(q) = ChainKey(p)}

(* Variant: a key that forgets the position.                               *)
KeyWithoutAttempt(p, v, n) == [payment |-> p, version |-> v]

(* recovery:{payment_id}:{policy_version}:{attempt_n}                      *)
idempotency_key(p, v, n) == [payment |-> p, version |-> v, attempt_n |-> n]

KeyOf(d) == idempotency_key(d.payment, d.version, d.attempt_n)

Key == [payment: Payments, version: Versions, attempt_n: Nat \ {0}]

DecisionRow == [payment: Payments, version: Versions, attempt_n: Nat \ {0},
                action: DecisionAction]

CaseRow == [state: {"none", "OPEN", "DECIDED", "CLOSED_PAYMENT_RESOLVED"}, last: Nat]

JobState == {"none", "pending", "claimed", "done", "failed"}

(* Audit rows after which a job is over and nothing was decided.           *)
Dismissal == {"EVENT_STALE_IGNORED", "CASE_CLOSED_PAYMENT_RESOLVED", "GUARD_BLOCKED"}

(* Where a worker is: each value names the statement it runs next.         *)
PC == {"idle", "fetch", "open", "read_case", "close", "audit_close", "assign", "decide",
       "audit_decision", "advance", "done", "failed", "pending"}

TypeOK ==
    /\ settled \subseteq Payments
    /\ raw \subseteq Events /\ storing \subseteq Events
    /\ jobState \in [Events -> JobState]
    /\ jobAttempts \in [Events -> 0..MaxAttempts]
    /\ overdue \subseteq Events
    /\ cases \in [Chains -> CaseRow]
    /\ attempt_n \in [Payments -> Nat]
    /\ decisions \subseteq DecisionRow
    /\ audited \subseteq Key
    /\ trail \subseteq (Dismissal \X Events)
    /\ pc \in [Workers -> PC]
    /\ batch \in [Workers -> SUBSET Events]
    /\ cur \in [Workers -> Events \cup {NoEvent}]
    /\ resolved \in [Workers -> BOOLEAN]
    /\ number \in [Workers -> Nat]
-----------------------------------------------------------------------------
Init ==
    /\ settled = {}
    /\ raw = {} /\ storing = {}
    /\ jobState = [e \in Events |-> "none"]
    /\ jobAttempts = [e \in Events |-> 0]
    /\ overdue = {}
    /\ cases = [c \in Chains |-> [state |-> "none", last |-> 0]]
    /\ attempt_n = [p \in Payments |-> 0]
    /\ decisions = {}
    /\ audited = {} /\ trail = {}
    /\ pc = [w \in Workers |-> "idle"]
    /\ batch = [w \in Workers |-> {}]
    /\ cur = [w \in Workers |-> NoEvent]
    /\ resolved = [w \in Workers |-> FALSE]
    /\ number = [w \in Workers |-> 0]
-----------------------------------------------------------------------------
(* The gateway (external).                                                 *)

(* Late authorisation: a failed payment resolves while Razorpay polls the  *)
(* bank, or because the customer retried.  A resolved status stays one.    *)
LateAuthorize(p) ==
    /\ settled' = settled \cup {p}
    /\ UNCHANGED <<ingestVars, jobVars, caseVars, auditVars, pc, localVars>>
-----------------------------------------------------------------------------
(* Ingest.  Razorpay delivers at least once, so a delivery may come again  *)
(* at any time, whether or not it was acknowledged.                        *)

(* record_raw_event: the first delivery stores the payload.                *)
StorePayload(e) ==
    /\ EventKind[e] = "payment.failed"
    /\ e \notin raw
    /\ raw' = raw \cup {e}
    /\ storing' = storing \cup {e}
    /\ UNCHANGED <<settled, jobVars, caseVars, auditVars, pc, localVars>>

(* The deliveries that change no state: malformed (400), unsupported,      *)
(* filtered, and a stored event_id acknowledged as a duplicate (200).      *)
TurnAway(e) ==
    /\ EventKind[e] # "payment.failed" \/ e \in raw
    /\ UNCHANGED vars

(* enqueue_job, then the 2xx.                                              *)
Enqueue(e) ==
    /\ e \in storing
    /\ storing' = storing \ {e}
    /\ jobState' = [jobState EXCEPT ![e] = IF @ = "none" THEN "pending" ELSE @]
    /\ UNCHANGED <<settled, raw, jobAttempts, overdue, caseVars, auditVars, pc, localVars>>

(* The handler dies between its two statements; no answer is sent.         *)
IngestCrash(e) ==
    /\ e \in storing
    /\ storing' = storing \ {e}
    /\ UNCHANGED <<settled, raw, jobVars, caseVars, auditVars, pc, localVars>>
-----------------------------------------------------------------------------
(* Claiming.                                                               *)

(* ORDER BY created_at: no job of B precedes e.  The rowid that breaks ties*)
(* is left open.                                                           *)
First(e, B) == e \in B /\ \A f \in B : EventTime[e] <= EventTime[f]

(* The worker turns to the first job left in its batch, or is idle again.  *)
TakeUp(w, B) ==
    /\ batch' = [batch EXCEPT ![w] = B]
    /\ resolved' = [resolved EXCEPT ![w] = FALSE]
    /\ number' = [number EXCEPT ![w] = 0]
    /\ \/ /\ B = {}
          /\ pc' = [pc EXCEPT ![w] = "idle"]
          /\ cur' = [cur EXCEPT ![w] = NoEvent]
       \/ \E e \in B :
             /\ First(e, B)
             /\ pc' = [pc EXCEPT ![w] = "fetch"]
             /\ cur' = [cur EXCEPT ![w] = e]

(* Claimed as often as max_attempts allows: failed, however old the claim. *)
Exhausted == {e \in Events : jobState[e] = "claimed" /\ jobAttempts[e] >= MaxAttempts}

(* Variant: no reclaim of what a dead worker left claimed.                 *)
ClaimablePendingOnly == {e \in Events \ Exhausted : jobState[e] = "pending"}

Claimable ==
    {e \in Events \ Exhausted : jobState[e] = "pending"
                                \/ (jobState[e] = "claimed" /\ e \in overdue)}

(* What SELECT ... ORDER BY created_at LIMIT batch_size may return.        *)
Batches ==
    {S \in SUBSET Claimable :
        /\ Cardinality(S) = Min({BatchSize, Cardinality(Claimable)})
        /\ \A e \in S, f \in Claimable \ S : EventTime[e] <= EventTime[f]}

claim_jobs(w) ==
    /\ pc[w] = "idle"
    /\ Exhausted # {} \/ Claimable # {}
    /\ \E S \in Batches :
          /\ jobState' = [e \in Events |-> IF e \in S THEN "claimed"
                                           ELSE IF e \in Exhausted THEN "failed"
                                           ELSE jobState[e]]
          /\ jobAttempts' = [e \in Events |-> IF e \in S
                                              THEN Min({jobAttempts[e] + 1, MaxAttempts})
                                              ELSE jobAttempts[e]]
          /\ overdue' = overdue \ (S \cup Exhausted)
          /\ TakeUp(w, S)
    /\ UNCHANGED <<settled, ingestVars, caseVars, auditVars>>

(* claim_timeout_seconds pass; the worker may be dead or only slow.        *)
ClaimExpires(e) ==
    /\ jobState[e] = "claimed"
    /\ overdue' = overdue \cup {e}
    /\ UNCHANGED <<settled, ingestVars, jobState, jobAttempts, caseVars, auditVars, pc,
                   localVars>>
-----------------------------------------------------------------------------
(* Processing one job.                                                     *)

Goto(w, l) == pc' = [pc EXCEPT ![w] = l]

Pay(w) == EventPayment[cur[w]]

Chain(w) == ChainKey(Pay(w))

(* No payment id in the payload: the job is failed without a refresh.      *)
RejectPayload(w) ==
    /\ pc[w] = "fetch"
    /\ Pay(w) = NoPayment
    /\ Goto(w, "failed")
    /\ UNCHANGED <<settled, ingestVars, jobVars, caseVars, auditVars, localVars>>

(* Variant: the status comes from the webhook payload, which says failed.  *)
RefreshFromPayload(w) ==
    /\ pc[w] = "fetch"
    /\ Pay(w) # NoPayment
    /\ resolved' = [resolved EXCEPT ![w] = FALSE]
    /\ Goto(w, "open")
    /\ UNCHANGED <<settled, ingestVars, jobVars, caseVars, auditVars, batch, cur, number>>

(* fetch_payment: the authoritative status, as of now.                     *)
RefreshState(w) ==
    /\ pc[w] = "fetch"
    /\ Pay(w) # NoPayment
    /\ resolved' = [resolved EXCEPT ![w] = Pay(w) \in settled]
    /\ Goto(w, "open")
    /\ UNCHANGED <<settled, ingestVars, jobVars, caseVars, auditVars, batch, cur, number>>

(* StateRefreshError with require_state_refresh: back to pending.          *)
RefreshFails(w) ==
    /\ pc[w] = "fetch"
    /\ Pay(w) # NoPayment
    /\ Goto(w, "pending")
    /\ UNCHANGED <<settled, ingestVars, jobVars, caseVars, auditVars, localVars>>

(* open_case: INSERT ... ON CONFLICT (chain_key) DO NOTHING.               *)
open_case(w) ==
    /\ pc[w] = "open"
    /\ cases' = IF cases[Chain(w)].state = "none"
                THEN [cases EXCEPT ![Chain(w)] =
                         [state |-> "OPEN", last |-> EventTime[cur[w]]]]
                ELSE cases
    /\ Goto(w, "read_case")
    /\ UNCHANGED <<settled, ingestVars, jobVars, attempt_n, decisions, auditVars, localVars>>

(* Variants: an event as old as the case is stale; no event is.            *)
StaleIfNotNewer(w) == EventTime[cur[w]] <= cases[Chain(w)].last
StaleNever(w) == FALSE

(* open_case's SELECT, and the two early returns taken on what it read.    *)
Stale(w) == EventTime[cur[w]] < cases[Chain(w)].last

IgnoreStale(w) ==
    /\ pc[w] = "read_case"
    /\ Stale(w)
    /\ trail' = trail \cup {<<"EVENT_STALE_IGNORED", cur[w]>>}
    /\ Goto(w, "done")
    /\ UNCHANGED <<settled, ingestVars, jobVars, caseVars, audited, localVars>>

ReadCase(w) ==
    /\ pc[w] = "read_case"
    /\ ~Stale(w)
    /\ Goto(w, IF resolved[w] THEN "close" ELSE "assign")
    /\ UNCHANGED <<settled, ingestVars, jobVars, caseVars, auditVars, localVars>>

(* advance_case: unconditional.                                            *)
advance_case(w, s) ==
    cases' = [cases EXCEPT ![Chain(w)] = [state |-> s, last |-> EventTime[cur[w]]]]

(* The money has arrived: close the case, then say so in the trail.        *)
CloseCase(w) ==
    /\ pc[w] = "close"
    /\ advance_case(w, "CLOSED_PAYMENT_RESOLVED")
    /\ Goto(w, "audit_close")
    /\ UNCHANGED <<settled, ingestVars, jobVars, attempt_n, decisions, auditVars, localVars>>

AuditClose(w) ==
    /\ pc[w] = "audit_close"
    /\ trail' = trail \cup {<<"CASE_CLOSED_PAYMENT_RESOLVED", cur[w]>>}
    /\ Goto(w, "done")
    /\ UNCHANGED <<settled, ingestVars, jobVars, caseVars, audited, localVars>>

(* Variants: the position is the number of decisions so far (what the      *)
(* schema's comment warns of); a second call takes a new one.              *)
NextAttemptFromDecisions(p) ==
    Cardinality({d \in decisions : d.payment \in OnChain(p)}) + 1

ReassignAttempt(w) ==
    /\ pc[w] = "assign"
    /\ attempt_n' = [attempt_n EXCEPT
                        ![Pay(w)] = Max({attempt_n[q] : q \in OnChain(Pay(w))}) + 1]
    /\ number' = [number EXCEPT ![w] = attempt_n'[Pay(w)]]
    /\ Goto(w, "decide")
    /\ UNCHANGED <<settled, ingestVars, jobVars, cases, decisions, auditVars, batch, cur,
                   resolved>>

(* assign_attempt_n: one transaction, idempotent per payment.              *)
NextAttempt(p) == Max({attempt_n[q] : q \in OnChain(p)}) + 1

assign_attempt_n(w) ==
    /\ pc[w] = "assign"
    /\ attempt_n' = IF attempt_n[Pay(w)] = 0
                    THEN [attempt_n EXCEPT ![Pay(w)] = NextAttempt(Pay(w))]
                    ELSE attempt_n
    /\ number' = [number EXCEPT ![w] = attempt_n'[Pay(w)]]
    /\ Goto(w, "decide")
    /\ UNCHANGED <<settled, ingestVars, jobVars, cases, decisions, auditVars, batch, cur,
                   resolved>>

(* OBLIGATION_KIND: HOLD creates no obligation and is not submitted.       *)
OBLIGATION_KIND(a) == CASE a = "HOLD"          -> "none"
                        [] a = "SCHEDULE_AT"   -> "execution"
                        [] a = "RECOVERY_LINK" -> "contact"

(* Variant: the cap compared with > instead of >=.                         *)
GuardAdmitsOneMore(p, n, a, timely) ==
    /\ timely
    /\ OBLIGATION_KIND(a) = "execution" => PaymentOrder[p] # NoOrder /\ n <= AttemptCap

(* Guard.check as the worker calls it: contacts_seen is 0 and the counter  *)
(* sees attempt_n.  timely stands for the checks on the clock (order       *)
(* expiry, slot, peak, notification lead), which Guard spells out.         *)
GuardAdmits(p, n, a, timely) ==
    /\ timely
    /\ OBLIGATION_KIND(a) = "execution" => PaymentOrder[p] # NoOrder /\ n < AttemptCap

(* Variant: no conflict clause on the decisions table.                     *)
RecordedNever(k) == FALSE

(* A decision already holds the key: ON CONFLICT (idempotency_key).         *)
Recorded(k) == \E d \in decisions : KeyOf(d) = k

KeyFor(w) == idempotency_key(Pay(w), PolicyVersion[w], number[w])

(* decider.decide, admission control for what creates an obligation, and   *)
(* record_decision.  The first two read only what the worker already       *)
(* holds, so the action happens when record_decision commits.              *)
Decide(w, a, timely) ==
    /\ pc[w] = "decide"
    /\ OBLIGATION_KIND(a) = "none" \/ GuardAdmits(Pay(w), number[w], a, timely)
    /\ IF Recorded(KeyFor(w))
       THEN /\ UNCHANGED decisions
            /\ Goto(w, "done")
       ELSE /\ decisions' = decisions \cup
                   {[payment |-> Pay(w), version |-> PolicyVersion[w],
                     attempt_n |-> number[w], action |-> a]}
            /\ Goto(w, "audit_decision")
    /\ UNCHANGED <<settled, ingestVars, jobVars, cases, attempt_n, auditVars, localVars>>

(* Variants: a block that leaves no audit row; one that falls through to   *)
(* advance_case.                                                           *)
GuardBlocksUnaudited(w, a, timely) ==
    /\ pc[w] = "decide"
    /\ OBLIGATION_KIND(a) # "none"
    /\ ~GuardAdmits(Pay(w), number[w], a, timely)
    /\ Goto(w, "done")
    /\ UNCHANGED <<settled, ingestVars, jobVars, caseVars, auditVars, localVars>>

GuardBlocksFallsThrough(w, a, timely) ==
    /\ pc[w] = "decide"
    /\ OBLIGATION_KIND(a) # "none"
    /\ ~GuardAdmits(Pay(w), number[w], a, timely)
    /\ trail' = trail \cup {<<"GUARD_BLOCKED", cur[w]>>}
    /\ Goto(w, "advance")
    /\ UNCHANGED <<settled, ingestVars, jobVars, caseVars, audited, localVars>>

GuardBlocks(w, a, timely) ==
    /\ pc[w] = "decide"
    /\ OBLIGATION_KIND(a) # "none"
    /\ ~GuardAdmits(Pay(w), number[w], a, timely)
    /\ trail' = trail \cup {<<"GUARD_BLOCKED", cur[w]>>}
    /\ Goto(w, "done")
    /\ UNCHANGED <<settled, ingestVars, jobVars, caseVars, audited, localVars>>

AuditDecision(w) ==
    /\ pc[w] = "audit_decision"
    /\ audited' = audited \cup {KeyFor(w)}
    /\ Goto(w, "advance")
    /\ UNCHANGED <<settled, ingestVars, jobVars, caseVars, trail, localVars>>

AdvanceCase(w) ==
    /\ pc[w] = "advance"
    /\ advance_case(w, "DECIDED")
    /\ Goto(w, "done")
    /\ UNCHANGED <<settled, ingestVars, jobVars, attempt_n, decisions, auditVars, localVars>>

(* finish_job: sets the state whatever it is now, whoever holds the claim. *)
finish_job(w) ==
    /\ pc[w] \in {"done", "failed", "pending"}
    /\ jobState' = [jobState EXCEPT ![cur[w]] = pc[w]]
    /\ overdue' = overdue \ {cur[w]}
    /\ TakeUp(w, batch[w] \ {cur[w]})
    /\ UNCHANGED <<settled, ingestVars, jobAttempts, caseVars, auditVars>>

(* The process dies, or an exception leaves process_pending: the rest of   *)
(* the batch stays claimed.                                                *)
Crash(w) ==
    /\ pc[w] # "idle"
    /\ TakeUp(w, {})
    /\ UNCHANGED <<settled, ingestVars, jobVars, caseVars, auditVars>>
-----------------------------------------------------------------------------
(* One worker's own steps, apart from the faults that may befall it.       *)
WorkerStep(w) ==
    \/ claim_jobs(w) \/ RejectPayload(w) \/ RefreshState(w)
    \/ open_case(w) \/ IgnoreStale(w) \/ ReadCase(w)
    \/ CloseCase(w) \/ AuditClose(w)
    \/ assign_attempt_n(w)
    \/ \E a \in Decidable, timely \in BOOLEAN : Decide(w, a, timely) \/ GuardBlocks(w, a, timely)
    \/ AuditDecision(w) \/ AdvanceCase(w)
    \/ finish_job(w)

Next ==
    \/ \E p \in Payments : LateAuthorize(p)
    \/ \E e \in Events : \/ StorePayload(e) \/ TurnAway(e)
                         \/ Enqueue(e) \/ IngestCrash(e) \/ ClaimExpires(e)
    \/ \E w \in Workers : WorkerStep(w) \/ RefreshFails(w) \/ Crash(w)

Spec == Init /\ [][Next]_vars

(* Fairness.  Every worker process keeps calling process_pending and runs  *)
(* what it started, time passes, and the gateway does not refuse the same  *)
(* payment for ever.  Razorpay delivers every event and a handler that is  *)
(* not interrupted goes on.  Nothing is assumed of late authorisation or   *)
(* of crashes, which may recur without end.                                *)
FairSpec ==
    /\ Spec
    /\ \A w \in Workers : WF_vars(WorkerStep(w))
    /\ \A e \in Events : WF_vars(ClaimExpires(e))
    /\ \A e \in Events : WF_vars(StorePayload(e)) /\ WF_vars(Enqueue(e))
    /\ \A e \in Events : SF_vars(\E w \in Workers : cur[w] = e /\ RefreshState(w))
-----------------------------------------------------------------------------
(* Under one policy version a payment is decided at most once, although    *)
(* its event may be delivered twice, claimed by two workers and retried    *)
(* after a crash: the position assign_attempt_n gave it must not move, or  *)
(* the idempotency key of the retry would be another one.                  *)
DecidedOncePerPolicy ==
    \A d1, d2 \in decisions :
        d1.payment = d2.payment /\ d1.version = d2.version => d1 = d2

(* The positions on a chain are 1, 2, 3 ... with no gap and no position    *)
(* shared by two payments, however two workers interleave                  *)
(* assign_attempt_n: the guard reads them as the number of executions.     *)
AttemptPositionsDense ==
    \A p \in Payments :
        /\ \A q \in OnChain(p) : attempt_n[p] = attempt_n[q] => p = q \/ attempt_n[p] = 0
        /\ attempt_n[p] > 1 => \E q \in OnChain(p) : attempt_n[q] = attempt_n[p] - 1

(* The original execution is the first of the cap, so one policy version   *)
(* schedules at most AttemptCap - 1 more on one order's chain.             *)
ScheduledOn(c, v) ==
    {d \in decisions : /\ ChainKey(d.payment) = c
                       /\ d.version = v
                       /\ d.action = "SCHEDULE_AT"}

ExecutionsWithinCap ==
    \A c \in Chains, v \in Versions : Cardinality(ScheduledOn(c, v)) <= AttemptCap - 1

(* A job is never done in silence: either its payment has a decision, or   *)
(* the trail says which early return of _process_one ended it.             *)
NoSilentDone ==
    \A e \in Events : jobState[e] = "done" =>
        \/ \E d \in decisions : d.payment = EventPayment[e]
        \/ \E why \in Dismissal : <<why, e>> \in trail

(* An event is dismissed as stale only if a strictly newer event of the    *)
(* same chain was really received: an event is never stale behind itself,  *)
(* behind its own retry or behind another chain.                           *)
StaleOnlyBehindNewer ==
    \A e \in Events : <<"EVENT_STALE_IGNORED", e>> \in trail =>
        \E f \in raw :
            /\ EventTime[f] > EventTime[e]
            /\ EventPayment[f] \in Payments
            /\ ChainKey(EventPayment[f]) = ChainKey(EventPayment[e])

(* The mutable case row is never ahead of the facts: DECIDED only with a   *)
(* decision on the chain, closed only when a payment of the chain settled. *)
CaseRowJustified ==
    \A c \in Chains :
        /\ cases[c].state = "DECIDED" => \E d \in decisions : ChainKey(d.payment) = c
        /\ cases[c].state = "CLOSED_PAYMENT_RESOLVED" =>
              \E p \in settled : ChainKey(p) = c

(* A worker may act on p with a snapshot that says p is unresolved.        *)
ActingOnUnresolved(p) ==
    \E w \in Workers :
        /\ pc[w] \in {"open", "read_case", "assign", "decide"}
        /\ Pay(w) = p
        /\ ~resolved[w]

WindowStaysClosed ==
    \A p \in settled :
        ~ActingOnUnresolved(p) =>
            /\ ~ActingOnUnresolved(p)'
            /\ \A d \in decisions' \ decisions : d.payment # p

(* The late-authorisation window of the worker closes for good: once p is  *)
(* settled and no worker carries a snapshot from before, no decision on p  *)
(* is recorded and no worker can come to carry such a snapshot again.      *)
LateAuthWindowCloses == [][WindowStaysClosed]_vars

(* The event core implements DecideOnce: positions are handed out in order *)
(* and kept, rulings are added one per payment and version and kept.       *)
Ledger == INSTANCE DecideOnce WITH Actions <- DecisionAction, ChainOf <- ChainKey

LedgerSpec == Ledger!Spec

(* Every queued job is eventually done or failed, whatever crashes: the    *)
(* reclaim of abandoned claims and the attempt limit see to it.            *)
JobsSettle ==
    \A e \in Events : jobState[e] # "none" ~> jobState[e] \in {"done", "failed"}

ClockKept == \A c \in Chains : cases[c].state # "none" => cases'[c].last >= cases[c].last

(* "An older event must never regress case state": the newest created_at   *)
(* applied to a case does not go back.                                     *)
CaseClockNeverRegresses == [][ClockKept]_vars

(* A worker past the comparison of its event with the case, whose event is *)
(* by now the older one.                                                   *)
Overtaken(w) ==
    /\ pc[w] \in {"close", "assign", "decide", "audit_decision", "advance"}
    /\ EventTime[cur[w]] < cases[Chain(w)].last

(* The step may be worker w's and leaves its event's time on case c.       *)
SetsClock(w, c) ==
    /\ pc[w] \in {"open", "close", "advance"}
    /\ Chain(w) = c
    /\ cases'[c].last = EventTime[cur[w]]

LostOnlyWhenOvertaken ==
    /\ \A c \in Chains : cases[c].state # "none" /\ cases'[c].last < cases[c].last =>
          \E w \in Workers : Overtaken(w) /\ SetsClock(w, c)
    /\ \A w \in Workers : Overtaken(w)' /\ ~Overtaken(w) =>
          \E u \in Workers \ {w} : EventTime[cur[u]] > EventTime[cur[w]] /\ SetsClock(u, Chain(w))

(* What protects the case's clock, and how far.  It goes back only in the  *)
(* write of a worker that was overtaken since it compared, and a worker is *)
(* overtaken only by another one, with a newer event of the same chain:    *)
(* never by its own steps, by a crash, by a reclaim or by a redelivery.    *)
CaseClockLostOnlyToARace == [][LostOnlyWhenOvertaken]_vars

(* Once a payment is settled, no decision is recorded against it.          *)
NoDecisionAfterAuthorisation ==
    [][\A d \in decisions' \ decisions : d.payment \notin settled]_vars

(* A decision is in the audit trail, or its worker is about to write it.   *)
DecisionsAudited ==
    \A d \in decisions :
        \/ KeyOf(d) \in audited
        \/ \E w \in Workers : pc[w] = "audit_decision" /\ KeyFor(w) = KeyOf(d)

(* A stored event is eventually queued: what a crash interrupts, the       *)
(* redelivery of the unacknowledged event makes good.                      *)
StoredIsQueued == \A e \in Events : e \in raw ~> jobState[e] # "none"
=============================================================================
