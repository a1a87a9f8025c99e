----------------------------- MODULE Scheduling -----------------------------
(***************************************************************************)
(* C3's choice of an execution slot (allocator/scheduling.py, and the same *)
(* loop in recovery/sim/arms.py with a smaller margin), followed by the    *)
(* admission of that slot by the guard, which asks the same questions      *)
(* again at its own caller's clock.  One call is one behaviour: Init picks *)
(* its arguments, an action is one turn of a loop.                         *)
(***************************************************************************)
EXTENDS Slots

CONSTANTS
    Nows,        \* moments a decision is taken at
    Targets,     \* target days
    Margins,     \* minutes over the lead: 15 in the allocator, 10 in the baseline arms
    MaxDelay     \* ticks between the allocator's reading of the clock and the guard's

ASSUME SchedulingAssumption ==
    /\ Nows \subseteq Nat
    /\ Targets \subseteq Nat
    /\ Margins \subseteq Nat
    /\ MaxDelay \in Nat
    /\ \A m \in Margins : m * Minute > MaxDelay     \* "room for the notification itself"
    /\ AttemptCap > 1                                \* the first execution is in it
    /\ "" \in Rails                                 \* a rail the table does not list
    /\ \A r \in Rails : LeadHours[""] <= LeadHours[r]

VARIABLES
    now,           \* the call's arguments
    rail,
    target_day,
    margin,
    pc,            \* which statement is next
    not_before,    \* argument of the current next_compliant_slot
    slot,          \* the candidate, None once the search has given up
    verdict        \* what the guard said of it

args == <<now, rail, target_day, margin>>
vars == <<args, pc, not_before, slot, verdict>>

TypeOK ==
    /\ now \in Nows /\ rail \in Rails /\ target_day \in Targets /\ margin \in Margins
    /\ pc \in {"seek", "check", "offer", "done"}
    /\ not_before \in Nat
    /\ slot \in Nat \cup {None}
    /\ slot = None => pc = "offer"
    /\ verdict \in BlockReason \cup {"none", "allowed"}

(* The soonest moment the call may answer.                                 *)
floor ==
    LET soonest == earliest_permitted(now, rail, margin)
    IN  IF start_of(target_day) > soonest THEN start_of(target_day) ELSE soonest

Init ==
    /\ now \in Nows /\ rail \in Rails /\ target_day \in Targets /\ margin \in Margins
    /\ pc = "seek"
    /\ not_before = floor
    /\ slot = truncated(not_before)
    /\ verdict = "none"
-----------------------------------------------------------------------------
(* next_compliant_slot: step over the peak.                                *)
StepOverPeak ==
    /\ pc = "seek"
    /\ is_peak(slot)
    /\ slot' = slot + StepMinutes * Minute
    /\ UNCHANGED <<args, pc, not_before, verdict>>

LeavePeak ==
    /\ pc = "seek"
    /\ ~is_peak(slot)
    /\ pc' = "check"
    /\ UNCHANGED <<args, not_before, slot, verdict>>

Violation == check_attempt(now, slot, 0, rail)

TakeSlot ==
    /\ pc = "check"
    /\ Violation = "permitted"
    /\ pc' = "offer"
    /\ UNCHANGED <<args, not_before, slot, verdict>>

(* Variant: search again from the slot that was just refused.              *)
SearchAgain ==
    /\ pc = "check"
    /\ Violation = "past_upi_completion_deadline"
    /\ not_before' = slot
    /\ slot' = truncated(not_before')
    /\ pc' = "seek"
    /\ UNCHANGED <<args, verdict>>

(* Variant: the next morning begins at midnight, and not at 00:30.         *)
TryNextMidnight ==
    /\ pc = "check"
    /\ Violation = "past_upi_completion_deadline"
    /\ not_before' = combine(date(slot) + 1, 0)
    /\ slot' = truncated(not_before')
    /\ pc' = "seek"
    /\ UNCHANGED <<args, verdict>>

(* Past the completion deadline: search again from the next morning.       *)
TryNextMorning ==
    /\ pc = "check"
    /\ Violation = "past_upi_completion_deadline"
    /\ not_before' = start_of(date(slot) + 1)
    /\ slot' = truncated(not_before')
    /\ pc' = "seek"
    /\ UNCHANGED <<args, verdict>>

(* Any other violation: no slot, the case is held.                         *)
GiveUp ==
    /\ pc = "check"
    /\ Violation \notin {"permitted", "past_upi_completion_deadline"}
    /\ slot' = None
    /\ pc' = "offer"
    /\ UNCHANGED <<args, not_before, verdict>>
-----------------------------------------------------------------------------
Request(decided_at, execute_at, r) ==
    [kind |-> "EXECUTION", settled |-> FALSE, has_order |-> TRUE, order_expires_at |-> None,
     decided_at |-> decided_at, execute_at |-> execute_at, rail |-> r, attempts_seen |-> 1,
     attempt_pending_until |-> None]

(* Variant: a held case goes to the guard all the same.                    *)
AdmitLiveUnguarded ==
    /\ pc = "offer"
    /\ \E delay \in 0..MaxDelay : verdict' = check(Request(now + delay, slot, rail))
    /\ pc' = "done"
    /\ UNCHANGED <<args, not_before, slot>>

(* Variant: the decider's answer is (action, reason) and the slot is lost. *)
AdmitLiveWithoutSlot ==
    /\ pc = "offer" /\ slot # None
    /\ \E delay \in 0..MaxDelay : verdict' = check(Request(now + delay, None, rail))
    /\ pc' = "done"
    /\ UNCHANGED <<args, not_before, slot>>

(* The worker asks the guard, on the rail of the snapshot, a little later  *)
(* than the allocator read the clock.                                      *)
AdmitLive ==
    /\ pc = "offer" /\ slot # None
    /\ \E delay \in 0..MaxDelay : verdict' = check(Request(now + delay, slot, rail))
    /\ pc' = "done"
    /\ UNCHANGED <<args, not_before, slot>>

(* Environment._guard_request passes the arm's clock and no rail.          *)
AdmitSimulated ==
    /\ pc = "offer" /\ slot # None
    /\ verdict' = check(Request(now, slot, ""))
    /\ pc' = "done"
    /\ UNCHANGED <<args, not_before, slot>>

Next ==
    \/ StepOverPeak \/ LeavePeak
    \/ TakeSlot \/ TryNextMorning \/ GiveUp
    \/ AdmitLive \/ AdmitSimulated

Spec == Init /\ [][Next]_vars
FairSpec == Spec /\ WF_vars(Next)
-----------------------------------------------------------------------------
(* Lead and margin reach past midnight of the next day by more than the    *)
(* minutes after the cutoff, with ticks to spare.                          *)
ClearOfCutoff(ticks) ==
    LeadHours[rail] * Hour + margin * Minute > Day + (1440 - PdnCutoff) * Minute + ticks

(* 00:30, where the search restarts, is off peak and before the deadline.  *)
EarlyMorningIsFree == ~is_peak(start_of(0)) /\ UpiDeadline > 30

(* A peak window leaves no gap that a quarter hour steps over, neither     *)
(* before the next window nor before the completion deadline.              *)
QuarterHoursTell ==
    \A t \in 0..(Day - 1) : is_peak(t) =>
        LET next == t + StepMinutes * Minute
        IN  /\ is_peak(next) => \A m \in t..next : is_peak(m)
            /\ past_upi_completion_deadline(next) =>
                  \A m \in t..next : is_peak(m) \/ past_upi_completion_deadline(m)

(* The allocator never holds a case for want of a slot: whatever the hour, *)
(* the day and the rail, the search ends with one, unless the lead is so   *)
(* short that the 23:50 cutoff can come between the decision and its       *)
(* notification.                                                           *)
NeverGivesUp == pc = "offer" /\ ClearOfCutoff(0) => slot # None

(* The allocator and the guard, which ask the same questions in different  *)
(* places and at different clocks, never disagree: a slot chosen for a     *)
(* case that is under its cap, with a live order and nothing pending, is   *)
(* admitted, by the worker's request and by the simulator's.               *)
GuardAgrees == pc = "done" /\ ClearOfCutoff(MaxDelay) => verdict = "allowed"

(* No compliant minute is passed over by more than half an hour, although  *)
(* the search moves in quarter hours and restarts at 00:30.                *)
SlotNearlyFirst ==
    pc = "offer" /\ slot # None =>
        \A m \in floor..(slot - 30 * Minute - 1) :
            check_attempt(now, m, 0, rail) # "permitted"

(* The loop, whose restart may be refused again and whose steps start from *)
(* a truncated minute, answers what compliant_slot says it answers: the    *)
(* simulator may use the operator for the loop.                            *)
LoopIsCompliantSlot ==
    pc = "offer" => slot = compliant_slot(now, target_day, rail, margin)

(* The search ends.                                                        *)
SearchEnds == <>(pc \in {"offer", "done"})

=============================================================================
