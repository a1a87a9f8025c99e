------------------------------ MODULE Governor ------------------------------
(***************************************************************************)
(* C11 (recovery/governor.py): admission per issuer under a ceiling that   *)
(* follows the failures observed of the issuer in a sliding window and the *)
(* network's own downtime notices.  Time is kept as ages in hours, so that *)
(* it never runs out: an age stops at Old, beyond which none are told      *)
(* apart.  Outcomes may be reported late; calls of admit follow the clock. *)
(***************************************************************************)
EXTENDS Integers, Sequences, FiniteSets, FiniteSetsExt

CONSTANTS
    Issuers,
    Methods,            \* keys of notices that name no instrument
    Window,             \* window_hours
    BaseCeiling, StrainedCeiling, DegradedCeiling,
    MinObservations,
    StrainedShare,      \* strained_failure_share, in hundredths
    DegradedShare,
    NoNotice,
    MaxLate,            \* bound: hours by which an outcome is reported late
    MaxReports          \* bound: outcomes reported, in all

Old == Window + MaxLate + 1
Age == 0..Old
IssuerState == {"healthy", "strained", "degraded"}
Severity == {"high", "medium"}

ASSUME GovernorAssumption ==
    /\ Window \in Nat /\ MaxLate \in Nat /\ MaxReports \in Nat
    /\ BaseCeiling \in Nat
    /\ StrainedCeiling \in 0..BaseCeiling /\ DegradedCeiling \in 0..BaseCeiling
    /\ MinObservations \in Nat \ {0}
    /\ StrainedShare \in 0..100 /\ DegradedShare \in 0..100
    /\ NoNotice \notin Severity

VARIABLES
    observations,   \* [Issuers -> sequence of [age, failed]]
    admitted,       \* [Issuers -> sequence of [age]]
    downtime,       \* [Issuers \cup Methods -> severity or NoNotice]
    reported,       \* outcomes reported so far
    log             \* [Issuers -> set of the admissions of the last Window hours]

vars == <<observations, admitted, downtime, reported, log>>

Init ==
    /\ observations = [i \in Issuers |-> <<>>]
    /\ admitted = [i \in Issuers |-> <<>>]
    /\ downtime = [k \in Issuers \cup Methods |-> NoNotice]
    /\ reported = 0
    /\ log = [i \in Issuers |-> {}]
-----------------------------------------------------------------------------
(* Variant: what is exactly a window old is dropped.                       *)
TrimInclusive(queue, at) ==
    LET kept == {k \in DOMAIN queue : queue[k].age < at + Window}
    IN  IF kept = {} THEN <<>> ELSE SubSeq(queue, Min(kept), Len(queue))

(* Variant: the queue is never trimmed.                                    *)
TrimNothing(queue, at) == queue

(* Entries leave from the head only, up to the first that is no older than *)
(* the window was at age `at`.                                             *)
trim(queue, at) ==
    LET kept == {k \in DOMAIN queue : queue[k].age <= at + Window}
    IN  IF kept = {} THEN <<>> ELSE SubSeq(queue, Min(kept), Len(queue))

TrimBoth(i, at) ==
    /\ observations' = [observations EXCEPT ![i] = trim(@, at)]
    /\ admitted' = [admitted EXCEPT ![i] = trim(@, at)]

observe(i, late, failed) ==
    /\ reported < MaxReports
    /\ observations' = [observations EXCEPT ![i] =
                           trim(Append(@, [age |-> late, failed |-> failed]), late)]
    /\ admitted' = [admitted EXCEPT ![i] = trim(@, late)]
    /\ reported' = reported + 1
    /\ UNCHANGED <<downtime, log>>

(* A notice that names no instrument of its method is kept under the       *)
(* method, and one that names neither is dropped without a change.         *)
(* Started and scheduled notices are held until any other status arrives   *)
(* for the key; either may be lost or overtaken by the other.              *)
observe_downtime(key) ==
    /\ \E severity \in Severity : downtime' = [downtime EXCEPT ![key] = severity]
    /\ UNCHANGED <<observations, admitted, reported, log>>

Resolve(key) ==
    /\ downtime' = [downtime EXCEPT ![key] = NoNotice]
    /\ UNCHANGED <<observations, admitted, reported, log>>
-----------------------------------------------------------------------------
downtime_state(i) ==
    IF downtime[i] = "high" THEN "degraded" ELSE "strained"

Failures(seen) == Len(SelectSeq(seen, LAMBDA o : o.failed))

(* failure_share >= share; below min_observations nothing is measured.     *)
AtLeast(seen, share) ==
    /\ Len(seen) >= MinObservations
    /\ Failures(seen) * 100 >= share * Len(seen)

state_of(i) ==
    LET seen == trim(observations[i], 0)
    IN  IF downtime[i] # NoNotice THEN downtime_state(i) ELSE
        IF AtLeast(seen, DegradedShare) THEN "degraded" ELSE
        IF AtLeast(seen, StrainedShare) THEN "strained" ELSE "healthy"

ceiling == [healthy |-> BaseCeiling, strained |-> StrainedCeiling,
            degraded |-> DegradedCeiling]

ceiling_for(i) == ceiling[state_of(i)]

(* snapshot asks failure_share of every issuer that is known, which trims  *)
(* both its queues; the others have none.                                  *)
snapshot ==
    /\ observations' = [i \in Issuers |-> trim(observations[i], 0)]
    /\ admitted' = [i \in Issuers |-> trim(admitted[i], 0)]
    /\ UNCHANGED <<downtime, reported, log>>

used(i) == Len(trim(admitted[i], 0))

(* admit, at or over the ceiling, or asked without record: only the trim.  *)
AdmitNothing(i) ==
    /\ TrimBoth(i, 0)
    /\ UNCHANGED <<downtime, reported, log>>

(* Variant: the base ceiling, whatever the state.                          *)
MayAdmitAtBase(i) == used(i) < BaseCeiling

(* Variant: the ceiling itself is still admitted.                          *)
MayAdmitOneMore(i) == used(i) <= ceiling_for(i)

MayAdmit(i) == used(i) < ceiling_for(i)

Admit(i) ==
    /\ MayAdmit(i)
    /\ observations' = [observations EXCEPT ![i] = trim(@, 0)]
    /\ admitted' = [admitted EXCEPT ![i] = Append(trim(@, 0), [age |-> 0])]
    /\ log' = [log EXCEPT ![i] = @ \cup {[age |-> 0, nth |-> Cardinality(@)]}]
    /\ UNCHANGED <<downtime, reported>>

Older(queue) ==
    [k \in DOMAIN queue |-> [queue[k] EXCEPT !.age = IF @ < Old THEN @ + 1 ELSE Old]]

(* The admissions of a log that stay in the window an hour on.             *)
Remembered(entries) ==
    {[a EXCEPT !.age = @ + 1] : a \in {b \in entries : b.age < Window}}

(* An hour passes.                                                         *)
Tick ==
    /\ observations' = [i \in Issuers |-> Older(observations[i])]
    /\ admitted' = [i \in Issuers |-> Older(admitted[i])]
    /\ log' = [i \in Issuers |-> Remembered(log[i])]
    /\ UNCHANGED <<downtime, reported>>

Next ==
    \/ \E i \in Issuers, late \in 0..MaxLate, failed \in BOOLEAN : observe(i, late, failed)
    \/ \E key \in Issuers \cup Methods : observe_downtime(key) \/ Resolve(key)
    \/ snapshot
    \/ \E i \in Issuers : AdmitNothing(i) \/ Admit(i)
    \/ Tick

(* Nothing but the passing of time is certain: outcomes, notices, their    *)
(* ends and calls may all fail to come.                                    *)
Spec == Init /\ [][Next]_vars /\ WF_vars(Tick)
-----------------------------------------------------------------------------
(* Neither queue grows without end: admissions are bounded by the ceiling  *)
(* even while nothing trims them.                                          *)
TypeOK ==
    /\ observations \in [Issuers -> Seq([age : Age, failed : BOOLEAN])]
    /\ admitted \in [Issuers -> Seq([age : Age])]
    /\ \A i \in Issuers : Len(admitted[i]) <= BaseCeiling
    /\ downtime \in [Issuers \cup Methods -> Severity \cup {NoNotice}]
    /\ reported \in 0..MaxReports
    /\ log \in [Issuers -> SUBSET [age : 0..Window, nth : Nat]]

(* What the queue of an issuer forgets has left the window: the admissions *)
(* it counts are the admissions there were, although outcomes reported     *)
(* late trim it by another clock.                                          *)
CountsEveryAdmission == \A i \in Issuers : used(i) = Cardinality(log[i])

(* Entries leave from the head only, so a late outcome stands behind a     *)
(* younger one and outlives its window; but by no more than it was late.   *)
EvidenceIsRecent ==
    \A i \in Issuers : LET seen == trim(observations[i], 0)
                       IN  \A k \in DOMAIN seen : seen[k].age <= Window + MaxLate

(* In no window that ends with an admission are more executions admitted   *)
(* than the ceiling of the issuer's condition allowed at that moment, high *)
(* notice or measured share, however the ceiling moved before.             *)
AdmitsBelowCeiling ==
    \A i \in Issuers : Cardinality(log'[i]) > Cardinality(log[i]) =>
        /\ Cardinality(log'[i]) <= ceiling_for(i)
        /\ downtime[i] = "high" => Cardinality(log'[i]) <= DegradedCeiling

CeilingHonoured == [][AdmitsBelowCeiling]_vars

(* The record ages out: an issuer about which no notice is held returns to *)
(* health once its outcomes are old, though nobody calls the governor.     *)
DegradationAgesOut ==
    \A i \in Issuers :
        downtime[i] = NoNotice ~> (state_of(i) = "healthy" \/ downtime[i] # NoNotice)
=============================================================================
