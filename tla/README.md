# Formal models of the payment recovery allocator

TLA+ modules for the parts of this repository where ordering, concurrency and
the regulator's clock decide correctness; TLC configurations that check them on
small instances; and TLAPS proofs for every value of the constants. Paths below
are relative to the repository root.

## 1. The system

| Part | Code | State it keeps | Operations | What makes it hard |
|---|---|---|---|---|
| C1 event core | `recovery/ingest.py`, `store.py`, `worker.py`, `gateway.py`, `models.py` | SQLite: raw events, jobs, cases, chain positions, decisions, audit | `ingest_delivery`, `claim_jobs`, `_process_one`, `finish_job` | at-least-once and reordered delivery, several workers, crashes between autocommitted statements, late authorisation |
| C2 classifier | `recovery/classifier.py`, `normalize.py` | taxonomy table | `classify` | precedence of table rows, confidence bands |
| C3 allocator | `allocator/` | none (a plan is a function of a case view and the clock) | `ArmC.plan`, `compliant_slot`, `ArmCDecider.decide`, `execution_slot` | searches over a calendar; planned twice with two clock readings |
| C4 guard and calendar | `recovery/guard.py`, `recovery/sim/calendar.py` | none | `Guard.check`, `check_attempt`, `next_compliant_slot` | boundaries of windows, leads, cutoff; the same questions asked in two places |
| C5 simulator | `recovery/sim/` | one record per case: attempts, contacts, pending attempt, resolution | `view`, `submit`, `finalise`, the day loop of `run_arm` | order of resolve, propose and submit within a day |
| C6 ledger, report | `recovery/ledger.py`, `explain.py`, `report.py` | none: a view rebuilt from C1's tables | `resolve`, `trace`, `outcome_line` | gathering rows written before the case had an id; what the last row tells |
| C7 invariant search | `recovery/invariants.py` | a scratch database and `_Trace` | `execute` on orderings of ten steps | what a sampled search reaches and what it cannot |
| C8 sweep, C9 calibration, C12 holdout, C14 latency | one module each | none | statistics and a hash | none of them keeps state |
| C10 executor and rail actions | `recovery/executor.py`, `rail_actions.py` | none | `build_shaping`, `migration_offer`, calls to Razorpay's API | what a page leaves the customer to pay with |
| C11 storm governor | `recovery/governor.py` | observations and downtime notices per issuer | `observe`, `observe_downtime`, `admit`, `jitter` | sliding windows, lost notices; called by tests only |
| C13 enrichment, messaging | `recovery/enrich.py`, `messaging.py` | a cache of files | `observe`, `refine`, `draft_message` | what free text may change |

How they interact. Razorpay's webhooks reach `ingest_delivery`, which stores the
payload and queues a job. Worker processes call `process_pending` in a loop:
`claim_jobs` takes a batch, and for each job the worker asks the gateway for the
authoritative state, opens the case of the payment's order, drops stale events,
closes the case if money arrived, and otherwise classifies (C2), assigns the
attempt's position on the chain, asks the decider (C3) for an action, the guard
(C4) for admission, and records the decision, its audit row and the case's
state. The simulator (C5) runs the same guard against a virtual clock.

Each part's correctness properties: C1, below; C2 and C3, that a plan never
needs the guard to stop it and never spends an execution the class forbids; C4,
that guard and allocator agree; C5, that attempts stay under the cap, contacts
keep their distance and the books agree with the cases; C6, that the trace of a
case leaves nothing out and its line says what happened; C7, that its checks hold
on every ordering and not only on the sampled ones; C11, that no ceiling is passed
and that a degraded issuer recovers once it behaves; C10 and C13, that text and
shaping change what a contact says and never what is spent.

## 2. Modules

| Module | Models | Uses |
|---|---|---|
| `DecideOnce` | what the event core promises: a position per payment, one ruling per payment and policy version | |
| `EventCore`, `MCEventCore` | C1, one action per committed statement; its instances | `DecideOnce` as refinement target |
| `ComplianceCalendar`, `Guard` | C4: operators on moments; `Guard.check` on a request | |
| `Slots` | the slot search as a function of its arguments | `Guard` |
| `Scheduling`, `MCScheduling` | the same search a turn of its loop at a time, and the admission of its slot | `Slots` |
| `Classifier` | C2: key, rules, load-time refusals, bands, costs, `classify` | |
| `Arms` | C3 and the baselines: what arms A, B and C propose on a view | `Slots`, `Classifier` |
| `Simulator`, `MCSimulator` | C5: day loop, submission, settlement, books; the contract's harness | `Arms` |
| `AuthoredConfig` | the figures of `config/default.yaml`, the rules of `config/classifier.yaml` that a simulated key meets, `EMISSIONS` | `Arms` |
| `Contact` | C10 and C13: enrichment, page, template, as operators | `Arms` |
| `Live`, `MCLive` | the allocator behind the worker: C1's decision with C2, C3, C4 and C13 in place | `Contact` |
| `Governor`, `MCGovernor` | C11's windows, notices, ceilings, admission | |
| `Jitter` | C11's spreading of slots, operators and theorems | `Slots` |
| `InvariantSearch`, `Ledger`, `MCSearch` | C7's `execute`, with C6 reading what it leaves | `Guard` |
| `Horizon` | C5's and C8's survival basis and crossing of two arms, as operators; `SimulatorProofs` takes it on the simulator's books | |
| `LiveProofs` | theorems about `Live`, `Classifier` and `Contact` | `Live` and `TLAPS` |
| `SearchProofs` | theorems about `InvariantSearch` and `Ledger` | `Ledger` and `TLAPS` |
| `*Proofs` | theorems about the module they are named after | it and `TLAPS` |

Definitions called "Variant" are plausible bugs, each standing beside the
definition it differs from. No specification uses them; putting one in place of
its neighbour must make a property fail.

### EventCore

The connection is opened with `isolation_level=None`: each SQL statement
commits by itself, and only `claim_jobs` and `assign_attempt_n` open a
transaction. An action is one commit. `pc[w]` names the statement worker `w`
runs next in `_process_one`; `cur`, `batch`, `resolved` and `number` are the
Python locals that outlive a statement.

| Code | Actions |
|---|---|
| `ingest_delivery` | `StorePayload`, then `Enqueue`; `IngestCrash` between them; `TurnAway` for the deliveries that change no state |
| `claim_jobs` | `claim_jobs`, with `ClaimExpires` for the passing of the timeout |
| `_process_one` 295-304, 306-321 | `RejectPayload`; `RefreshState`, `RefreshFails` |
| 341-381 | `open_case` (its INSERT), then `IgnoreStale` or `ReadCase` (its SELECT and the tests on what it read), `CloseCase`, `AuditClose` |
| 383-433 | `assign_attempt_n`, then `Decide` or `GuardBlocks` |
| 446-469 | `AuditDecision`, `AdvanceCase`, `finish_job` |
| process death, an exception out of `process_pending` | `Crash` |
| the bank answers late | `LateAuthorize` (external) |

Abstractions:

- Decide, admit and record are one action: the first two read only what the
  worker already holds, so moving them to the commit of the third changes no
  behaviour.
- The guard's checks on the clock are one free Boolean, `timely`; `Scheduling`
  models them. `contacts_seen` is 0, as the worker passes it. A guard is
  assumed to be installed (`process_pending` accepts none) and
  `require_state_refresh` to be true, as in `config/default.yaml`.
- The decider may return any member of `Decidable`. `DecisionAction` keeps one
  action of each kind: no obligation, execution, contact.
- The audit trail keeps the rows a property reads: the three that end a job
  without a decision, and `decision.recorded`.
- A job's attempts are counted up to `MaxAttempts`, since the code only asks
  `>=`. The age of a claim is free: any claim may become overdue at any time.
- The rowid that breaks ties in `ORDER BY` is left open.

### ComplianceCalendar, Guard, Scheduling

A moment is a number of half minutes since some midnight IST. The code's
datetimes carry seconds, and one fractional tick a minute is all its
comparisons can tell apart. A behaviour of `Scheduling` is one call of
`compliant_slot` (margin 15 minutes) or of the baseline arms' `_schedule`
(margin 10, otherwise the same text); `Init` picks the arguments, and the
actions are the turns of `next_compliant_slot` (`StepOverPeak`, `LeavePeak`) and
of the caller's loop (`TakeSlot`, `TryNextMorning`, `GiveUp`). The bound of 2880
turns in `next_compliant_slot` is not modelled: `LatticeAssumption`, which TLC
evaluates, says that a day's quarter hours never all lie in a peak.

The slot then goes to `Guard.check`: from the worker (`AdmitLive`), up to
`MaxDelay` after the allocator read the clock and with the payment's rail; or
from the simulator (`AdmitSimulated`), at the same clock and with no rail, since
`Environment._guard_request` passes none. The request is that of a case with a
live order, below its cap, with nothing pending. The guard's fields that no
caller sets (`already_decided`, `token_busy_until`, `auth_attempts`) are left
out. `_contact` is exercised by `Simulator` and `Live`.

`Slots` states the same answer in one operator, for use where a whole search is
one step of something larger; `LoopIsCompliantSlot` checks that the loop and the
operator agree from every argument of the run.

### Classifier, Arms

Operators only. A rule's match is a function on the fields it names, so that
"an omitted field is a wildcard" is a quantifier over its domain; precedence, a
lexicographic tuple in the code, is the number with those digits; the sort by
precedence and index is `Min(Candidates)`. Confidences are hundredths.
`load_classifier` is the conjunction of what the loader refuses, and
`AuthoredConfig` assumes it of the authored rules, so TLC evaluates it.

`Arms` gives, for a view and a clock, the proposals of A (cause-blind, T+n or
Emandate's next day), B (A with one contact first) and C (`plan`: classify, look
up the cell, adjust by the rail policy, then schedule, contact, hold or surrender).
Both rail policies and both counters of `allocator/policies.py` are there. Notes
and rationales are left out.

### Simulator

`run_arm`'s loops are actions: `NextDay` takes the list of open cases,
`Propose(c)` shows one of them to the arm, and each proposal is submitted in turn:
`SubmitMoot`, `SubmitRefused`, `AttemptSucceeds`, `AttemptFails`,
`ContactConverts`, `ContactIgnored`, then `finalise`. The cases of a day are shown
in any order, a superset of the code's. The world's rates are draws: an attempt
may succeed or fail (a TERMINAL one only fails), a notification may revoke the
mandate, an Emandate answer takes one of `PendingHours`. The harness of
`contract.py` (`drive`) is the second `driver`: it never asks the guard, and only
counts what was proposed. `ArmNames` has a fifth member, `any`, which proposes
whatever it likes: what the environment guarantees must not rest on the arm.
Failures all happen at 03:00 (the code spreads them over two hours, which no
comparison of dates can see).

### Live

`EventCore` leaves the action to choice; `Live` leaves the statements out and has
the action: the worker's `_classify` with `refine`, the view of `wiring.py`
(contacts 0, nothing pending), `decide`, and, at a later reading of the clock,
`execution_slot` and the guard's request. The network is off, as in the worker.

### Governor, Jitter

Time is kept as the age of each entry in hours, so that it does not run out; an
age stops at `Old`, past which nothing tells two apart. `observe` takes the age at
which an outcome is reported (`MaxLate`), since its `at` is the caller's. Readers
trim what they read: `snapshot` and `AdmitNothing` are those trims. `log`, a
history variable, remembers every admission of the last window, to compare with
what the queue counts. Each issuer has its own window: one stands for all.

`Jitter` needs no state: the offset is any number that a digest modulo
`jitter_minutes + 1` can come to.

### InvariantSearch, Ledger

`execute` runs whole calls, so an action here is a whole call, except that a drain
has an action for each of its jobs, which lets it be proved about by steps: between
two of them nothing interleaves. `run` is the drain under way, and no other call
begins before it has ended.

| Code | Actions |
|---|---|
| `execute`: the steps of a scenario | `Deliver`, `Redeliver`, `LateAuthorize`, `CrashWorker`, `ExpireOrder`, `ShiftPdnWindow`; `RunWorker` and `ConcurrentWorkers` begin a drain, `SecondWorker` the other worker's |
| `_process_one` on the first job of the claim | `RefreshFails`, `IgnoreStale`, `CloseResolved`, `Decide`, `SuppressDuplicate` |
| `execute` after a drain | `Observe`: the guard is asked for an execution of the case, and new decisions are noted |

The decider is the search's, which always holds. `FailNext` is a step of the
repository's tests, not of the search; it is there because the ledger tells its rows
apart, and is bounded to one so that no job comes to `max_attempts_per_job`. `Ledger`
adds no action: `_events_for`, `outcome_line` and `resolve` are functions of the tables.

### Contact, Horizon

Operators with theorems, no run of their own. A page is the set of methods it
names; a template is its pair of kind and family. Money is in paise and the
crossing is kept as gap and gain instead of their quotient.

## 3. Runs

| Run | Instance | What it shows |
|---|---|---|
| `event_core_race` | 2 workers, 2 payments of one order, 2 events, cap 2, 2 attempts a job | the safety properties, and the refinement of `DecideOnce` (which includes deciding once), under every interleaving, crash, reclaim and redelivery; and the case clock goes back only by a race on the row |
| `event_core_deploy` | 2 workers of two policy versions, 1 payment without order, 1 payload without payment id, 1 delivery that ingest filters, fairness | every queued job ends; each version decides at most once |
| `scheduling` | 2880 starting moments, 3 rails, 3 target days, 2 margins | the search ends with a nearly first slot that the guard admits |
| `simulator` | 5 arms and 2 drivers on 1 case of every rail, class and emission, 10 days from 2 starting days | environment and guard hold every arm to the rules; the arms are never refused; the allocator spends only on a reading |
| `governor` | 1 issuer and its method's notices, window 2 h, ceilings 3/2/1, 3 outcomes up to 1 h late | the window counts every admission, no ceiling is passed, without a notice the issuer recovers |
| `search` | every ordering of up to 7 actions, 2 payments, 2 deliveries | C7's checks, and the ledger's three readings, on all orderings |
| `lost_event`, `late_auth_race`, `case_clock_race`, `unaudited_decision`, `live_contacts`, `baseline_daily` | small instances | claims of the repository that the code does not keep (section 5) |

Why the bounds suffice. Two workers and two events of one chain give every
pairwise race on the case row, the chain's positions and the decisions table;
nothing in the code relates three jobs, and the proofs cover the
general case for the properties they state. A cap of 2 is reached by the second
payment of the order; `MaxAttempts` 2 lets a job be reclaimed once and then
exhausted; a batch of 2 leaves one job claimed behind another, which is how a
crash strands a batch. Workers are symmetric in `EventCoreRace` only, where no
liveness is checked. For the calendar a day of half minutes is every
distinguishable time of day, and target days 1 to 3 lie before, at and after
what the leads allow. The fallback lead is 24 h there (the file says 25), so
that the 23:50 cutoff matters and `GiveUp` really happens.

One case is enough for `Simulator`'s properties of a case, since cases share
nothing but the books' sums; `SimulatorProofs` has any number. Ten days see the cap
reached by the baseline, Emandate's answers of up to 60 hours and a wait for funding
that ends; the starting days 2 and 20 put a funding day inside the wait and outside
it. Every date rule of the configuration is in it, Sundays included. Three outcomes
and a window of two hours let the ceiling of `Governor` fall below what was already
admitted, rise again and age out. Seven actions of `InvariantSearch` are two
deliveries, two drains and three of the hazards; the repository's own tests find all
they look for in fewer, and two payments give the case that one opened and the other
joined. `MCLive` takes three payments, one more than the budget.

`Scheduling`, `Simulator`, `InvariantSearch` and `Live` end when their call, horizon
or bound is reached, so deadlock is not checked there; in `EventCore` a delivery may
always come again, and in `Governor` the clock never stops.

### Properties

`EventCore`:

- `DecidedOncePerPolicy`: a payment has at most one decision per policy version.
- `AttemptPositionsDense`: positions on a chain are 1, 2, 3 ... without repetition.
- `ExecutionsWithinCap`: one version schedules at most `AttemptCap - 1` executions on a chain.
- `NoSilentDone`: a job that is done has a decision on its payment or an audit row that says why not.
- `StaleOnlyBehindNewer`: an event is dismissed as stale only behind a newer one of its chain.
- `CaseRowJustified`: DECIDED and CLOSED rows have the decision or the settled payment they speak of.
- `LateAuthWindowCloses`: once a payment is settled and no worker holds an older snapshot of it, nothing is decided on it ever again.
- `CaseClockLostOnlyToARace`: a step that sets a case's `last_event_created_at` back is that
  of a worker which another one overtook: between the first one's stale check and its write,
  the other wrote the row. `CaseClockNeverRegresses`, without the exception, fails (section 5).
- `JobsSettle`: a queued job is eventually done or failed.
- `LedgerSpec`: the core implements `DecideOnce`.

`Scheduling`:

- `NeverGivesUp`: if lead and margin clear the cutoff, the search returns a slot.
- `GuardAgrees`: the guard admits every such slot, to the worker and to the simulator.
- `SlotNearlyFirst`: no permitted minute is passed over by more than half an hour.
- `LoopIsCompliantSlot`: what the loop answers is what `compliant_slot` of `Slots` says.
- `SearchEnds`: the loop over mornings terminates.

`Simulator`:

- `TypeOK`: with the types, no arm gets past the cap or the contact budget, and the
  harness of the contract finds none of the arms past them either.
- `ExecutionsInTurn`: no execution in a peak, and on Emandate none before the answer to the last.
- `ContactsSpaced`: a cooldown lies between any two contacts, whatever the arm.
- `ClosedIsFinal`: a recovered or revoked case has no further history.
- `NeverRefused`: the arms judge calendar, cap and pending attempt as the guard does.
- `SpendsOnlyOnReading`: the allocator spends an execution only where a rule reads the
  key, above LOW, as something a retry can cure.
- `BooksBalance`: metrics and cases agree, and the working mandates are the recovered ones.
- `WaitsForFunding`: an execution on an empty account waits for a funding day in reach.
- `BaselineRetriesDaily`: the n-th retry of the baseline is on T+n, which fails (section 5).

`Governor`:

- `CountsEveryAdmission`: the trimmed queue is the log of the window, late outcomes or not.
- `EvidenceIsRecent`: an outcome is counted no longer after its window than it was late.
- `CeilingHonoured`: no admission passes the ceiling of that moment, however it moved.
- `DegradationAgesOut`: without a notice an issuer returns to health by time alone.

`InvariantSearch`, `Ledger`:

- `NoObligationAfterSettlement`, `AdmittedWithinRules`, `OnceAndAudited`: the checks of
  `recovery/invariants.py`, the last with the stronger claim of one verdict per finished job.
- `TraceIsComplete`: every row about an event that reached the case is in its trace.
- `OutcomeLineFits`: the line says decided, settled or unavailable only if it is so.
- `ResolveFindsTheDecided`: whom the complaint names is found, if anything was decided for them.

`Live`: `ContactBudgetHolds`, which fails (section 5).

### Fairness

`FairSpec` of the event core assumes that every worker process keeps running its
own steps (`process_pending` is called in a loop), that claims age
(`ClaimExpires`), that Razorpay delivers every event and an uninterrupted
handler goes on (`StorePayload`, `Enqueue`), and that the gateway does not
refuse one payment for ever (strong fairness of `RefreshState` per event: the
step is disabled again and again while the job is pending). Crashes are free and
may recur without end: `JobsSettle` then holds by the attempt limit. `FairSpec`
of `Scheduling` says that a call that has begun goes on. `Governor` assumes that time
passes (`WF_vars(Tick)`) and nothing else: outcomes, notices, their ends and callers
may all fail to come.

## 4. Proofs

`tlapm` checks the eight proof modules to the last leaf. Every invariant and every
action property of the passing runs is a theorem.

`EventCoreProofs`, from `ConstantsAssumption` (finite sets, well-typed tables;
any number of events, payments, workers, versions):

- `Invariance`: `Inv` is inductive. `DecidedOncePerPolicy` is not inductive by
  itself, since a decision's key contains a position the worker holds in a local
  variable. `Inv` adds that a worker past `idle` holds a job with a payment where it
  needs one (`HoldsJob`), that the number it holds is the one in the store
  (`HeldPositions`), that every decision was taken at its payment's position
  (`DecidedAtPosition`), that keys are unique (`KeysUnique`) and that every chain
  has a top position (`TopExists`), which is what MAX + 1 rests on.
- `TypeCorrectness`, `DecidedOnce`, `PositionsDense`: the properties of the same runs.
- `CapHolds`: the guard reads one position and knows nothing of the others' decisions.
  Scheduled positions lie under the cap (`ScheduledUnderCap`), positions of a chain are
  distinct, so the executions of a version map injectively into `1..AttemptCap - 1`.
- `KnowledgeInvariance`, from which `NoJobIsSilent`, `CaseRowsJustified` and
  `StaleStandsBehindNewer` follow: what a worker holds was received, a place in
  `_process_one` is reached only with the evidence for it (`Grounded`: to close, that
  the payment is settled; to audit or advance, the decision; to finish, a decision or
  a row), and a case's clock is the time of a received event of its chain (`RowsDated`).
  That is enough although workers lose their claims, die and overwrite each other's
  case row, because decisions, trail and settled payments only grow.
- `LateAuthorisationWindowCloses`: the window is a set of workers that acts on an older
  snapshot; once empty for a settled payment, no refresh can fill it again.
- `ClockIsLostOnlyToARace`: what a worker has read of the case row is older than the row
  only if another has written it since (`LostByTheOvertaken`), so the stale check protects
  the clock from everything but that race. `OneWorkerKeepsTheClock` follows for a single
  worker, which nobody overtakes (`OvertakenByAnother`); with two it is false (section 5).
- `ImplementsDecideOnce`: `Init` maps to `Init`, and each action to a step of
  `DecideOnce` or to a stutter; `assign_attempt_n` is `Enrol`, `Decide` is `Rule`.

`SchedulingProofs`, from the assumptions on the calendar (any peaks, leads,
cutoff and deadline), on the margins (longer than the delay between the two
clocks), on the cap (above 1) and on the fallback lead (the shortest):

- `NotificationInTime`: a whole minute that lies lead plus margin ahead leaves
  the notification in time, up to the delay, if lead and margin clear the cutoff.
- `Invariance`: the candidate is a whole minute, at most one tick short of the
  soonest permitted moment; it only moves later; what leaves the loop was
  permitted.
- `AlwaysASlot`, `GuardAdmitsSlots`, `TypeCorrectness`: the run's properties, for
  every calendar.
- `LoopComputesSlot` and `NoSlotPassedOver`, whose invariant `Searching` says what the
  search has already ruled out: everything between the soonest moment and the candidate
  was barred. The first assumes `EarlyMorningIsFree` (00:30, where a new morning's search
  begins, is neither in a peak nor past the UPI deadline), the second also
  `QuarterHoursTell` (a step of a quarter of an hour passes over no free minute). Both are
  facts about the configured calendar, which `MCScheduling` assumes, so that TLC
  evaluates them on the figures of `config/default.yaml`.

`SimulatorProofs`, for any number of cases and any calendar, rules and world; draws and
arms enter as arbitrary values:

- `ClosedCasesAreFinal` and `NoArmOverspends`, whatever the arm proposes. `CasesOK` is the
  shape of a case's record plus "an entry that closes is the last, and the case is
  closed"; budgets follow because `_guard_request` takes the counters as they stand.
- `ExecutionsTakeTurns` and `ContactsStayApart`, whatever the arm: an entry of the history
  is compared with the ones before it, so the invariant (`AllPaced`) ties the last
  execution and the last contact to `last_attempt_resolved_at`,
  `attempt_pending_until` and `last_contact_at`, which are all that the guard sees.
- `PoliciesAreNeverRefused`, if arms and guard are configured alike (`Concerted`: the lead
  that the guard takes for an unnamed rail is none of the longest, and an arm allows
  itself at most one contact, within the budget). The hypothesis is needed: with a lead of
  40 hours for the unnamed rail, TLC finds a refusal.
- `BooksAddUp`, for finitely many cases, whatever the arm. A sum is the size of a set with
  so many elements for each summand (`Units`), so that one more attempt is one more element
  (`SumGrows`) and no fold over the cases is unfolded. The invariant (`Balanced`) adds that
  the money is the amount times `cases_recovered`, which counts the recovered cases, and
  that nothing is left to do once the books are closed.
- `WorkingIsTheCycle`, from the same invariant and with `Horizon` on the simulator's books:
  the basis "working" counts the recovered cases, so it says again what the cycle's money
  says, and "not_revoked" counts the halted ones besides.
- `FundingIsAwaited`, an action property, if a slot can be had on the day it is sought for
  (`FundingInReach`: 00:30 is free, and the first day of the wait lies past every lead).
  `SlotOnTheDay` and `NextFundingDay` say what the two searches then answer, and the
  invariant (`Patience`) carries it from the proposal to the submission.
- `SpendsOnReadingOnly`, if the table loads and the fallback's confidence is below the
  moderate band (`SoundLadder`).
- `TypeCorrectness`, if the contacts that an arm allows itself fit the budget
  (`Affordable`): with an arm that does not ask the guard nothing else keeps the counts.
  `MCSimulator` assumes the four hypotheses, so TLC evaluates them.

`GovernorProofs`, from `GovernorAssumption`, for any issuers, window, ceilings and
lateness:

- `CountIsExact`. The code trims a queue from its head by the clock of whoever calls, and
  an outcome may be reported by an earlier clock. The invariant `Recorded` therefore
  speaks of every age at once: the queue trimmed to that age is as long as the log has
  entries of at most that age, which a trim by an earlier clock does not disturb.
- `CeilingIsHonoured` follows: `admit` compares with the true count.
- `EvidenceAges`, from `Drifting`: an outcome is older than those before it in the queue
  by no more than outcomes are reported late.
- `TypeCorrectness`.

`SearchProofs`, from `SearchAssumption` and the calendar's and the guard's: orderings of any
length over any payments, deliveries and times, with at most one refusal.

- `Invariance`. `Inv` says that the claims of a drain are its own (`Claims`), that what it
  has decided so far was not settled (`RunClean`), and what the rows of the trail tell of
  the tables and of each other (`Told`): a finished job has its verdict, a job is refused
  before it is processed and never after, the opener's row names the case's payment, and
  the case's state follows from the decisions and the closing rows. None of the ledger's
  properties is inductive: the ledger keeps nothing, and each is a consequence of `Told`.
- `TypeCorrectness`, `NothingOwedAfterSettlement`, `AdmissionsKeepTheRules`,
  `EveryJobEndsOnce`: C7's checks, on every ordering and not only on the sampled ones.
  `GuardKeepsRules` is the lemma that reads the guard's word.
- `TraceLeavesNothingOut`, `TheLineIsRight`, `DecidedIsFound`: C6's.

`LiveProofs` has, of C2, from the loader's refusals: `AnswerIsUnambiguous` (the order of
rows decides nothing), `CandidatesAreOneRule`, with `PrecedenceNamesFields` (equal precedence, equal fields) behind them. Of C10 and C13:
`RefineChangesContentOnly` (C13's promise), `CachedAnswerRepeats`, `ShapingLeavesAWay`,
and three that show where the documents promise more: `OrderMayStrand`,
`ShapingsDisagreeOnAttention`, `RefinedWordsStayGeneric`. Of the live path:
`DecidesOnTheRecordedReading` ("the two agree by construction"), `SlotBelongsToDecision`
(planning twice never mixes two cells), `ContactsAreNeverRefused`, and
`LowReadingsSpendNothing`, whose invariant adds that the job in work is decided on its
own reading.

`HorizonProofs`: `AheadAtEveryHorizon`, `CrossoverIsExact`, `NeverWhenBehind`,
`NeverThoughAhead`, all from one lemma that writes the
difference of two values as the gap and L months of gain.

`Jitter`: `JitterKeepsNotice`, from the monotony of the notification deadline, and
`JitterReachesPeak`.

Model-checked only: the liveness properties (`JobsSettle`, `SearchEnds`,
`DegradationAgesOut`), out of the prover's reach.

## 5. Where code and documents disagree

1. `LostEvent`. A crash between `record_raw_event` and `enqueue_job` loses the
   event: the redelivery is acknowledged as a duplicate.
2. `LateAuthRace`. A payment that resolves after the refresh is decided all the
   same ("no obligation may be created against it", `recovery/invariants.py:302`).
3. `CaseClockRace`. With two workers an older event sets the case's clock back
   ("must never regress case state", `recovery/worker.py:13`).
4. `UnauditedDecision`. A crash after `record_decision` leaves a decision without an
   audit row, and the retry is suppressed as a duplicate.
5. `LiveContacts`. The guard is said to enforce the contact budget on the live path
   (`allocator/wiring.py:22-25`); the worker's request carries a count of 0
   (`recovery/worker.py:405`), and a case is sent a third contact.
6. `BaselineDaily`. The baseline retries on T+1, T+3 and T+5 in the simulator, not on T+1,
   T+2 and T+3 (`README.md:625`, `recovery/sim/arms.py:76`,
   `recovery/sim/environment.py:111-112`): the notification lead puts tomorrow's attempt
   after tomorrow's decision, where it is still pending, and the day after it is too late to
   announce one for the same day. In the contract's harness, which never has an attempt
   pending, the days are the documented ones.

Met while modelling and stated in theorems or in the shape of a property, not as runs
of their own:

- a closed case becomes DECIDED again when another payment of its order fails
  (`THREAT_MODEL.md:79`: "a re-opened case is not a state the model has");
- `next_compliant_slot` is not the "first non-peak minute": it moves in quarter hours
  (`SlotNearlyFirst` bounds the loss);
- jitter does move a slot into a peak (`recovery/governor.py:306-308`; `JitterReachesPeak`);
- "never" is also the verdict on an arm that is ahead for a while
  (`recovery/sim/horizon.py:92-93`; `NeverThoughAhead`);
- enrichment cannot make a message a card-change offer (`recovery/enrich.py:40-43`;
  `RefinedWordsStayGeneric`);
- arm C and the page disagree on the shaping of a confident ATTENTION reading
  (`recovery/rail_actions.py:32-34`; `ShapingsDisagreeOnAttention`);
- a payment whose event joined a case that another one opened, and was found stale or
  settled, does not lead to the case ("any payment on its chain", `recovery/ledger.py:152`):
  `ResolveFindsTheDecided` is about openers and decided payments only;
- an absent part of a key is no wildcard (`recovery/models.py:195`): a rule that names
  the field does not match it (`matches`).

The repository's own search (`recovery/invariants.py`) does not meet 1, 3 and 4:
its workers run one after the other and its crash comes only after a claim, which
then never times out while the search runs.

## 6. Not modelled

- Explanations, the report, latency, coverage, spreadsheets, reproduction scripts and
  fixtures: text and measurements with no state that a step could get wrong.
- Calibration, the sampling of worlds, percentiles and breaking points of the sweep, the
  statistics of the holdout: arithmetic on samples. The holdout's assignment is a hash;
  the one thing to say of it is in the hazards.
- The executor: HTTP calls behind a dry-run switch, no state between two of them, no retry.
- Parsing of YAML and payloads; signature checks; the prompt of the model and the wording
  of messages.
- Of the guard, the fields that no caller sets; of `contract.py`, all but `drive`; of
  `invariants.py`, the minimiser and the choice of strata.

`PROJECT.json` lists each with its reason.

## 7. State of the plan

Done: the event core and its refinement; calendar, guard and slot search; the decision
table and classifier; the simulator with every arm; the governor and its jitter; the
ledger on the search's cores; the live path; shaping, enrichment and messages; horizons.

Proved: every safety property of the passing runs. Left: the refinement of `Slots` by `Scheduling`, of which `LoopComputesSlot` is the last step, as
a refinement of specifications.
