----------------------------- MODULE Simulator -----------------------------
(***************************************************************************)
(* C5: one arm against one batch (recovery/sim/run.py, environment.py,     *)
(* metrics.py).  Every day at 01:00 the arm is shown each open case in     *)
(* turn and proposes; the environment asks the guard and settles what is   *)
(* admitted there and then, although it is to happen at execute_at.  The   *)
(* draws against the world's rates are nondeterministic wherever the rate  *)
(* is neither 0 nor 1.                                                     *)
(***************************************************************************)
EXTENDS Arms

CONSTANTS
    Cases,
    SimulatedRails,   \* the rails of EMISSIONS
    EMISSIONS,        \* [rail -> [class -> key]]
    StartDays,        \* days of the first decision; failures come two hours later
    HorizonDays,
    PendingHours,     \* hours an Emandate answer may take
    AnyDelays,        \* ticks from now to what an arm of no policy proposes
    AnyDays,          \* and the days on which it does
    Amount            \* amount_paise of every case

(* An arm is whatever has a propose (arms.Arm): "any" proposes as it likes. *)
(* The allocator runs under either of its rail policies.                   *)
ArmNames == {"A", "B", "C", "C-EmandateHoldsTerminal", "any"}

rail_policy(a) == IF a = "C" THEN "RailAgnosticCells" ELSE "EmandateHoldsTerminal"

(* The counter that ArmC builds when it is given none.                     *)
execution_counter == "SystemInitiatedOnly"

DECISION_TIME == 60   \* minutes

ASSUME SimulatorAssumption ==
    /\ SimulatedRails \subseteq Rails /\ "" \in Rails
    /\ StartDays \subseteq Nat /\ HorizonDays \in Nat /\ Amount \in Nat
    /\ PendingHours \subseteq Nat /\ PendingHours # {} /\ AnyDelays \subseteq Int
    /\ AnyDays \in Nat

Outcome == {"open", "recovered", "halted", "revoked"}

(* run_arm, or the contract's harness that executes nothing (contract.py). *)
Drivers == {"environment", "contract"}

VARIABLES
    arm,
    driver,
    failure,    \* [Cases -> what failed: rail, true class, emitted class, when]
    case,       \* [Cases -> what the environment keeps of it]
    metrics,    \* ArmMetrics, sums over the cases
    day,        \* day of the loop, 0 .. HorizonDays
    left,       \* open cases the day has not shown to the arm
    shown,      \* the case whose proposals are being submitted
    proposals   \* those not yet submitted

vars == <<arm, driver, failure, case, metrics, day, left, shown, proposals>>

start == Min({date(failure[c].failed_at) : c \in Cases})

now == combine(start + day - 1, DECISION_TIME)

NoMetrics ==
    [attempts_spent |-> 0, contacts_sent |-> 0, terminal_attempts_wasted |-> 0,
     terminal_contacts_sent |-> 0, contact_cost |-> 0, money_recovered |-> 0,
     money_at_risk |-> 0, cases |-> 0, cases_recovered |-> 0, proposals_rejected |-> 0,
     moot |-> 0, preserved |-> 0, revoked |-> 0, halted |-> 0]

NewCase ==
    [attempts_used |-> 1, contacts_used |-> 0, notifications |-> 0, outcome |-> "open",
     attempt_pending_until |-> None, last_attempt_resolved_at |-> None,
     last_contact_at |-> None, history |-> <<>>]

(* generate_batch: the payload may be another class's than the true one's; *)
(* only the allocator reads it.                                            *)
Failures(d) ==
    [rail : SimulatedRails, true_class : FailureClass, emitted : FailureClass,
     failed_at : {combine(d, 180)}]

Init ==
    /\ arm \in ArmNames /\ driver \in Drivers
    /\ arm = "any" => driver = "environment"
    /\ \E d \in StartDays : failure \in [Cases -> Failures(d)]
    /\ arm \in {"A", "B", "any"} =>
          \A c \in Cases : failure[c].emitted = failure[c].true_class
    /\ case = [c \in Cases |-> NewCase]
    /\ metrics = NoMetrics
    /\ day = 0 /\ left = {} /\ shown = None /\ proposals = <<>>
-----------------------------------------------------------------------------
(* Variant: only a recovered case is closed.                               *)
is_open_unless_recovered(c) == case[c].outcome \in {"open", "revoked"}

is_open(c) == case[c].outcome = "open"
open_case_ids == {c \in Cases : is_open(c)}

view(c) ==
    [rail |-> failure[c].rail, failed_at |-> failure[c].failed_at,
     observed |-> EMISSIONS[failure[c].rail][failure[c].emitted],
     attempts_used |-> case[c].attempts_used, contacts_used |-> case[c].contacts_used,
     attempt_pending |-> /\ case[c].attempt_pending_until # None
                         /\ now < case[c].attempt_pending_until,
     last_attempt_resolved_at |-> case[c].last_attempt_resolved_at]

(* What the arm may return: its policy's answer, or anything.              *)
propose(c) ==
    CASE arm = "A"   -> {ArmA(view(c), now)}
      [] arm = "B"   -> {ArmB(view(c), now)}
      [] arm = "any" -> {<<>>} \cup {<<[kind |-> k, execute_at |-> now + d]>> :
                                        k \in {"EXECUTION", "CONTACT"},
                                        d \in {e \in AnyDelays : day <= AnyDays}}
      [] OTHER -> {plan(rail_policy(arm), execution_counter, view(c), now).proposals}

Idle == left = {} /\ proposals = <<>>

NextDay ==
    /\ Idle /\ day < HorizonDays
    /\ day' = day + 1
    /\ left' = open_case_ids
    /\ UNCHANGED <<arm, driver, failure, case, metrics, shown, proposals>>

Propose(c) ==
    /\ driver = "environment" /\ proposals = <<>> /\ c \in left
    /\ left' = left \ {c}
    /\ shown' = c
    /\ proposals' \in propose(c)
    /\ UNCHANGED <<arm, driver, failure, case, metrics, day>>

OfKind(ps, kind) == Cardinality({i \in DOMAIN ps : ps[i].kind = kind})

(* drive: the spend is reflected in the next day's view, nothing is asked  *)
(* of the guard and nothing happens to the case.                           *)
Drive(c) ==
    /\ driver = "contract" /\ c \in left
    /\ left' = left \ {c}
    /\ shown' = c
    /\ \E ps \in propose(c) :
          case' = [case EXCEPT ![c].attempts_used = @ + OfKind(ps, "EXECUTION"),
                               ![c].contacts_used = @ + OfKind(ps, "CONTACT")]
    /\ UNCHANGED <<arm, driver, failure, metrics, day, proposals>>
-----------------------------------------------------------------------------
p == Head(proposals)

_guard_request(c) ==
    [kind |-> p.kind, settled |-> FALSE, has_order |-> TRUE, order_expires_at |-> None,
     decided_at |-> now, execute_at |-> p.execute_at, rail |-> "",
     attempts_seen |-> case[c].attempts_used, contacts_seen |-> case[c].contacts_used,
     last_contact_at |-> case[c].last_contact_at,
     attempt_pending_until |-> case[c].attempt_pending_until]

verdict == check(_guard_request(shown))

Submitting(kind) ==
    /\ proposals # <<>>
    /\ is_open(shown) /\ p.kind = kind /\ verdict = "allowed"
    /\ proposals' = Tail(proposals)
    /\ UNCHANGED <<arm, driver, failure, day, left, shown>>

(* The case was closed by an earlier proposal of the same day.             *)
SubmitMoot ==
    /\ proposals # <<>> /\ ~is_open(shown)
    /\ metrics' = [metrics EXCEPT !.moot = @ + 1]
    /\ proposals' = Tail(proposals)
    /\ UNCHANGED <<arm, driver, failure, case, day, left, shown>>

SubmitRefused ==
    /\ proposals # <<>> /\ is_open(shown) /\ verdict # "allowed"
    /\ metrics' = [metrics EXCEPT !.proposals_rejected = @ + 1]
    /\ proposals' = Tail(proposals)
    /\ UNCHANGED <<arm, driver, failure, case, day, left, shown>>

true_class == failure[shown].true_class
on_terminal == IF true_class = "TERMINAL" THEN 1 ELSE 0

record_attempt(m) ==
    [m EXCEPT !.attempts_spent = @ + 1, !.terminal_attempts_wasted = @ + on_terminal]

record_contact(m) ==
    [m EXCEPT !.contacts_sent = @ + 1, !.terminal_contacts_sent = @ + on_terminal,
              !.contact_cost = @ + ContactCost[true_class]]

recovered(m) == [m EXCEPT !.money_recovered = @ + Amount, !.cases_recovered = @ + 1]

Logged(s, what) == [s EXCEPT !.history = Append(@, <<what, p.execute_at>>)]

_recover(s, via) == [Logged(s, via) EXCEPT !.outcome = "recovered"]

(* _notify, with the draw of a revocation.                                 *)
_notify(s) ==
    LET told == [s EXCEPT !.notifications = @ + 1]
    IN  {told, [Logged(told, "mandate_revoked") EXCEPT !.outcome = "revoked"]}

Attempted(s) == [s EXCEPT !.attempts_used = @ + 1]

AttemptSucceeds ==
    /\ Submitting("EXECUTION")
    /\ true_class # "TERMINAL"      \* its curve is 0 on every day
    /\ case' = [case EXCEPT ![shown] = _recover(Attempted(@), "recovered_via_attempt")]
    /\ metrics' = recovered(record_attempt(metrics))

(* Variant: an Emandate answer is there at once.                           *)
ResolvedAtOnce(hours) == p.execute_at

ResolvedAt(hours) ==
    IF failure[shown].rail = "emandate" THEN p.execute_at + hours * Hour ELSE p.execute_at

AttemptFails ==
    /\ Submitting("EXECUTION")
    /\ \E hours \in PendingHours :
       \E s \in _notify(Logged(Attempted(case[shown]), "attempt_failed")) :
          case' = [case EXCEPT ![shown] =
                      [s EXCEPT !.attempt_pending_until = ResolvedAt(hours),
                                !.last_attempt_resolved_at = ResolvedAt(hours)]]
    /\ metrics' = record_attempt(metrics)

(* Variant: the moment of the contact is not kept.                         *)
ContactedUndated(s) == [s EXCEPT !.contacts_used = @ + 1]

Contacted(s) == [s EXCEPT !.last_contact_at = p.execute_at, !.contacts_used = @ + 1]

ContactConverts ==
    /\ Submitting("CONTACT")
    /\ case' = [case EXCEPT ![shown] = _recover(Contacted(@), "recovered_via_link")]
    /\ metrics' = recovered(record_contact(metrics))

ContactIgnored ==
    /\ Submitting("CONTACT")
    /\ \E s \in _notify(Logged(Contacted(case[shown]), "contact_ignored")) :
          case' = [case EXCEPT ![shown] = s]
    /\ metrics' = record_contact(metrics)

Count(outcomes) == Cardinality({c \in Cases : case[c].outcome \in outcomes})

(* Variant: a case still open is halted, but nobody counts it preserved.   *)
BooksLosingHalted ==
    [metrics EXCEPT !.cases = Cardinality(Cases), !.money_at_risk = Amount * Cardinality(Cases),
                    !.revoked = Count({"revoked"}), !.halted = Count({"open", "halted"}),
                    !.preserved = Count({"recovered"})]

Books ==
    [metrics EXCEPT !.cases = Cardinality(Cases), !.money_at_risk = Amount * Cardinality(Cases),
                    !.revoked = Count({"revoked"}), !.halted = Count({"open", "halted"}),
                    !.preserved = Count({"open", "halted", "recovered"})]

(* Close the books: what is open at the horizon is halted.                 *)
finalise ==
    /\ driver = "environment" /\ Idle /\ day = HorizonDays /\ metrics.cases = 0
    /\ case' = [c \in Cases |-> IF is_open(c) THEN [case[c] EXCEPT !.outcome = "halted"]
                                              ELSE case[c]]
    /\ metrics' = Books
    /\ UNCHANGED <<arm, driver, failure, day, left, shown, proposals>>

Next ==
    \/ NextDay
    \/ \E c \in Cases : Propose(c) \/ Drive(c)
    \/ SubmitMoot \/ SubmitRefused
    \/ AttemptSucceeds \/ AttemptFails \/ ContactConverts \/ ContactIgnored
    \/ finalise

Spec == Init /\ [][Next]_vars
-----------------------------------------------------------------------------
(* What the promises below ask of the configuration.                       *)
(* What the contract's harness, which asks no guard, relies on: an arm's   *)
(* own limits on contacts are within the budget.                           *)
Affordable == MaxContacts <= ContactBudget /\ 1 <= ContactBudget

(* The thresholds as the loader leaves them, and a failure that no rule    *)
(* reads is never better than LOW.                                         *)
SoundLadder ==
    /\ load_classifier
    /\ ModerateThreshold \in Nat /\ HighThreshold \in Nat /\ FallbackConfidence \in Int
    /\ FallbackConfidence < ModerateThreshold

(* What the configuration must grant so that the arms need not be refused: *)
(* the lead of a request that names no rail is no longer than any rail's,  *)
(* the notifications' cutoff is not midnight, and the arms' own limits on  *)
(* contacts are within the guard's.                                        *)
Concerted ==
    /\ \A r \in SimulatedRails : LeadHours[""] <= LeadHours[r]
    /\ PdnCutoff >= 1
    /\ MaxContacts <= 1 /\ MaxContacts <= ContactBudget /\ 1 <= ContactBudget

(* What lets a slot be had on the day it is sought for: half past midnight *)
(* is neither in a peak nor past the completion deadline, and the first day*)
(* the allocator would wait for lies past every lead.                      *)
FundingInReach ==
    /\ ~is_peak(start_of(0)) /\ UpiDeadline > 30
    /\ \A r \in SimulatedRails :
          earliest_permitted(combine(0, DECISION_TIME), r, PDN_MARGIN_MINUTES)
          <= start_of(LiquidityMinOffset)

Cap == 1..AttemptCap

CaseState ==
    [attempts_used : Cap, contacts_used : 0..ContactBudget,
     notifications : Nat, outcome : Outcome,
     attempt_pending_until : Nat \cup {None}, last_attempt_resolved_at : Nat \cup {None},
     last_contact_at : Nat \cup {None},
     history : Seq({"recovered_via_attempt", "recovered_via_link", "attempt_failed",
                    "contact_ignored", "mandate_revoked"} \X Nat)]

(* No arm, whatever it proposes, gets a case past the cap or the contact   *)
(* budget, and the harness of the contract finds none of the arms past it. *)
TypeOK ==
    /\ arm \in ArmNames /\ driver \in Drivers
    /\ \E d \in StartDays : failure \in [Cases -> Failures(d)]
    /\ case \in [Cases -> CaseState]
    /\ DOMAIN metrics = DOMAIN NoMetrics /\ \A f \in DOMAIN metrics : metrics[f] \in Nat
    /\ day \in 0..HorizonDays /\ left \subseteq Cases /\ shown \in Cases \cup {None}
    /\ proposals \in Seq([kind : {"EXECUTION", "CONTACT"}, execute_at : Int])

Entries(c, what) == {i \in DOMAIN case[c].history : case[c].history[i][1] \in what}

When(c, i) == case[c].history[i][2]

Executions(c) == Entries(c, {"attempt_failed", "recovered_via_attempt"})
Contacts(c)   == Entries(c, {"contact_ignored", "recovered_via_link"})

AnswerTicks(c) == IF failure[c].rail = "emandate" THEN Min(PendingHours) * Hour ELSE 0

(* Whatever the arm, no execution precedes the answer to the one before it,*)
(* which on Emandate is a day and more away, and none is in a peak window. *)
ExecutionsInTurn ==
    \A c \in Cases : \A i \in Executions(c) :
        /\ ~is_peak(When(c, i))
        /\ \A j \in Executions(c) : i < j => When(c, j) >= When(c, i) + AnswerTicks(c)

(* Whatever the arm, the customer is left alone for a cooldown after every *)
(* contact.                                                                *)
ContactsSpaced ==
    \A c \in Cases : \A i, j \in Contacts(c) :
        i < j => When(c, j) >= When(c, i) + CooldownHours * Hour

(* A case that was recovered or whose mandate was revoked has no further   *)
(* history: the second proposal of a day comes too late for it.            *)
ClosedIsFinal ==
    \A c \in Cases : \A i \in DOMAIN case[c].history :
        case[c].history[i][1] \in {"recovered_via_attempt", "recovered_via_link",
                                   "mandate_revoked"} => i = Len(case[c].history)

(* The four arms judge the calendar, the cap and the unresolved attempt for*)
(* themselves, from the view; the guard, which judges them again from the  *)
(* state, never disagrees.                                                 *)
NeverRefused == arm # "any" => metrics.proposals_rejected = 0

(* The allocator spends a capped execution only on a key that some rule    *)
(* reads, with more than LOW confidence, as one that a retry can cure.     *)
SpendsOnlyOnReading ==
    arm \notin {"A", "B", "any"} =>
        \A c \in Cases : case[c].attempts_used > 1 =>
            \E i \in Candidates(normalize_entity(view(c).observed)) :
                /\ Rules[i].confidence >= ModerateThreshold
                /\ Rules[i].class \in {"INFRASTRUCTURE", "LIQUIDITY"}

(* A sum of naturals: the size of a set with so many elements for each.    *)
Units(f) == UNION {{c} \X (1..f[c]) : c \in DOMAIN f}
Sum(f) == Cardinality(Units(f))

Retries  == [c \in Cases |-> case[c].attempts_used - 1]
Messages == [c \in Cases |-> case[c].contacts_used]

(* The books agree with the cases, before and after they are closed, and   *)
(* the working mandates (preserved and not halted) are the recovered cases *)
(* and no others.                                                          *)
BooksBalance ==
    driver = "environment" =>
        /\ metrics.attempts_spent = Sum(Retries)
        /\ metrics.contacts_sent = Sum(Messages)
        /\ metrics.money_recovered = Amount * Count({"recovered"})
        /\ metrics.cases > 0 =>
              /\ metrics.preserved + metrics.revoked = metrics.cases
              /\ metrics.preserved - metrics.halted = metrics.cases_recovered

(* An execution of the allocator on an account without money waits for a   *)
(* funding day whenever one is near enough.                                *)
WaitsForFunding ==
    [][ \A c \in Cases :
          /\ arm \notin {"A", "B", "any"} /\ driver = "environment"
          /\ case'[c].attempts_used > case[c].attempts_used
          /\ classify(normalize_entity(view(c).observed)).failure_class = "LIQUIDITY"
          => \/ day_of_month(date(p.execute_at)) \in FundingDays
             \/ \A d \in 0..MaxWaitDays :
                    day_of_month(date(now) + LiquidityMinOffset + d) \notin FundingDays ]_vars

(* "Card and UPI: T+1, T+2, T+3 daily" (arms.py): the n-th retry of the    *)
(* baseline, on a rail without asynchronous answers, is on day T+n.        *)
BaselineRetriesDaily ==
    [][ \A c \in Cases :
          LET n == case[c].attempts_used
          IN  /\ arm = "A" /\ driver = "environment" /\ failure[c].rail # "emandate"
              /\ case'[c].attempts_used > n
              => date(p.execute_at) = date(failure[c].failed_at) + n ]_vars
=============================================================================
