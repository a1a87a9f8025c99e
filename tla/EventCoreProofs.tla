-------------------------- MODULE EventCoreProofs --------------------------
(***************************************************************************)
(* Theorems about EventCore, for any sets of events, payments and workers, *)
(* any batch size and any limits.                                          *)
(*                                                                         *)
(* The promise to prove is that a payment is decided at most once per      *)
(* policy version.  The conflict clause alone does not give it: it         *)
(* compares keys, and the key contains the position.  Hence Inv: positions *)
(* exist for the workers that carry one and are the ones in the table      *)
(* (HeldPositions), every decision was taken at its payment's position     *)
(* (DecidedAtPosition), no two decisions share a key (KeysUnique); and,    *)
(* for MAX(attempt_n) + 1 to mean something, every chain has a highest     *)
(* position (TopExists).                                                   *)
(*                                                                         *)
(* The promises about what is left behind when several workers run need    *)
(* what a worker's place in the code tells of the tables: Knowledge says   *)
(* that jobs are of stored events (Received), that each place is reached   *)
(* only with the evidence for it (Grounded) and that a case's clock is the *)
(* time of a stored event of its chain (RowsDated).  The cap follows from  *)
(* ScheduledUnderCap and the density of positions.  The case clock is kept *)
(* by whoever no other worker overtakes (OvertakenByAnother).              *)
(***************************************************************************)
EXTENDS EventCore, FiniteSetTheorems, TLAPS

(* A worker that is processing a job holds one, and past the fetch the     *)
(* job's payload names a payment.                                          *)
HoldsJob ==
    \A w \in Workers :
        /\ pc[w] # "idle" => cur[w] \in Events
        /\ pc[w] \notin {"idle", "fetch", "done", "failed", "pending"} => Pay(w) \in Payments

HeldPositions ==
    \A w \in Workers : pc[w] \in {"decide", "audit_decision"} =>
        /\ number[w] = attempt_n[Pay(w)]
        /\ number[w] # 0

DecidedAtPosition ==
    \A d \in decisions : d.attempt_n = attempt_n[d.payment]

KeysUnique ==
    \A d1, d2 \in decisions : KeyOf(d1) = KeyOf(d2) => d1 = d2

TopExists ==
    \A p \in Payments : \E t \in OnChain(p) : \A q \in OnChain(p) : attempt_n[q] <= attempt_n[t]

Inv ==
    /\ TypeOK
    /\ HoldsJob
    /\ HeldPositions
    /\ DecidedAtPosition
    /\ KeysUnique
    /\ TopExists
-----------------------------------------------------------------------------
(* The smaller of two numbers is one of them, and bounds both.             *)
LEMMA MinOfPair ==
    ASSUME NEW a \in Nat, NEW b \in Nat
    PROVE  /\ Min({a, b}) \in {a, b}
           /\ Min({a, b}) <= a
           /\ Min({a, b}) <= b
<1>1. \E x \in {a, b} : \A y \in {a, b} : x <= y
  <2>1. CASE a <= b
    BY <2>1
  <2>2. CASE b <= a
    BY <2>2
  <2>3. QED
    BY <2>1, <2>2
<1>2. QED
  BY <1>1 DEF Min

(* Where a chain has a highest position, NextAttempt is the one above it.  *)
LEMMA NextAttemptAboveTop ==
    ASSUME NEW p \in Payments, TypeOK, TopExists
    PROVE  /\ NextAttempt(p) \in Nat \ {0}
           /\ \A q \in OnChain(p) : attempt_n[q] < NextAttempt(p)
           /\ \E t \in OnChain(p) : NextAttempt(p) = attempt_n[t] + 1
<1> DEFINE S == {attempt_n[q] : q \in OnChain(p)}
<1>1. PICK t \in OnChain(p) : \A q \in OnChain(p) : attempt_n[q] <= attempt_n[t]
  BY DEF TopExists
<1>2. \A q \in OnChain(p) : attempt_n[q] \in Nat
  BY DEF TypeOK, OnChain
<1>3. \E x \in S : \A y \in S : x >= y
  BY <1>1, <1>2
<1>4. Max(S) \in S /\ \A y \in S : Max(S) >= y
  BY <1>3 DEF Max
<1>5. NextAttempt(p) = Max(S) + 1
  BY DEF NextAttempt
<1>6. PICK r \in OnChain(p) : Max(S) = attempt_n[r]
  BY <1>4
<1>7. \A q \in OnChain(p) : Max(S) >= attempt_n[q]
  BY <1>4
<1>8. Max(S) \in Nat
  BY <1>2, <1>6
<1> HIDE DEF S
<1>9. QED
  BY <1>2, <1>5, <1>6, <1>7, <1>8

LEMMA InitInv == Init => Inv
<1> SUFFICES ASSUME Init PROVE Inv
  OBVIOUS
<1>1. TypeOK
  BY ConstantsAssumption DEF Init, TypeOK, CaseRow, JobState, PC
<1>2. HoldsJob /\ HeldPositions /\ DecidedAtPosition /\ KeysUnique
  BY DEF Init, HoldsJob, HeldPositions, DecidedAtPosition, KeysUnique
<1>3. TopExists
  <2> SUFFICES ASSUME NEW p \in Payments
               PROVE  \E t \in OnChain(p) : \A q \in OnChain(p) : attempt_n[q] <= attempt_n[t]
    BY DEF TopExists
  <2>1. p \in OnChain(p)
    BY DEF OnChain
  <2>2. \A q \in OnChain(p) : attempt_n[q] <= attempt_n[p]
    BY DEF Init, OnChain
  <2> QED
    BY <2>1, <2>2
<1> QED
  BY <1>1, <1>2, <1>3 DEF Inv
-----------------------------------------------------------------------------
(* Where TakeUp leaves a worker.                                           *)
LEMMA TakeUpTyped ==
    ASSUME TypeOK, NEW w \in Workers, NEW B \in SUBSET Events, TakeUp(w, B)
    PROVE  /\ pc' \in [Workers -> PC]
           /\ batch' \in [Workers -> SUBSET Events]
           /\ cur' \in [Workers -> Events \cup {NoEvent}]
           /\ resolved' \in [Workers -> BOOLEAN]
           /\ number' \in [Workers -> Nat]
           /\ pc'[w] \in {"idle", "fetch"}
           /\ pc'[w] = "fetch" => cur'[w] \in Events
           /\ \A u \in Workers \ {w} : pc'[u] = pc[u] /\ cur'[u] = cur[u] /\ number'[u] = number[u]
BY DEF TakeUp, First, TypeOK, PC

(* Claiming keeps the job table well formed.                               *)
LEMMA ClaimTyped ==
    ASSUME TypeOK, NEW w \in Workers, claim_jobs(w)
    PROVE  TypeOK'
<1>1. PICK S \in Batches :
          /\ jobState' = [e \in Events |-> IF e \in S THEN "claimed"
                                           ELSE IF e \in Exhausted THEN "failed"
                                           ELSE jobState[e]]
          /\ jobAttempts' = [e \in Events |-> IF e \in S
                                              THEN Min({jobAttempts[e] + 1, MaxAttempts})
                                              ELSE jobAttempts[e]]
          /\ overdue' = overdue \ (S \cup Exhausted)
          /\ TakeUp(w, S)
  BY DEF claim_jobs
<1>2. S \in SUBSET Events
  BY DEF Batches, Claimable
<1>3. jobState' \in [Events -> JobState]
  BY <1>1 DEF TypeOK, JobState
<1>4. ASSUME NEW e \in Events
      PROVE  Min({jobAttempts[e] + 1, MaxAttempts}) \in 0..MaxAttempts
  <2>1. jobAttempts[e] + 1 \in Nat /\ MaxAttempts \in Nat
    BY ConstantsAssumption DEF TypeOK
  <2>2. QED
    BY <2>1, MinOfPair
<1>5. jobAttempts' \in [Events -> 0..MaxAttempts]
  BY <1>1, <1>4 DEF TypeOK
<1>6. /\ pc' \in [Workers -> PC]
      /\ batch' \in [Workers -> SUBSET Events]
      /\ cur' \in [Workers -> Events \cup {NoEvent}]
      /\ resolved' \in [Workers -> BOOLEAN]
      /\ number' \in [Workers -> Nat]
  BY <1>1, <1>2, TakeUpTyped
<1>7. QED
  BY <1>1, <1>3, <1>5, <1>6 DEF TypeOK, claim_jobs, ingestVars, caseVars, auditVars

LEMMA FinishTyped ==
    ASSUME TypeOK, HoldsJob, NEW w \in Workers, finish_job(w)
    PROVE  TypeOK'
<1>1. cur[w] \in Events /\ TakeUp(w, batch[w] \ {cur[w]})
  BY DEF finish_job, HoldsJob
<1>2. batch[w] \ {cur[w]} \in SUBSET Events
  BY DEF TypeOK
<1>3. /\ pc' \in [Workers -> PC]
      /\ batch' \in [Workers -> SUBSET Events]
      /\ cur' \in [Workers -> Events \cup {NoEvent}]
      /\ resolved' \in [Workers -> BOOLEAN]
      /\ number' \in [Workers -> Nat]
  BY <1>1, <1>2, TakeUpTyped
<1>4. jobState' \in [Events -> JobState]
  BY <1>1 DEF TypeOK, JobState, finish_job
<1>5. QED
  BY <1>1, <1>3, <1>4 DEF TypeOK, finish_job, ingestVars, caseVars, auditVars

LEMMA CrashTyped ==
    ASSUME TypeOK, NEW w \in Workers, Crash(w)
    PROVE  TypeOK'
<1>1. TakeUp(w, {})
  BY DEF Crash
<1>2. /\ pc' \in [Workers -> PC]
      /\ batch' \in [Workers -> SUBSET Events]
      /\ cur' \in [Workers -> Events \cup {NoEvent}]
      /\ resolved' \in [Workers -> BOOLEAN]
      /\ number' \in [Workers -> Nat]
  BY <1>1, TakeUpTyped
<1>3. QED
  BY <1>2 DEF TypeOK, Crash, ingestVars, jobVars, caseVars, auditVars

(* The row advance_case and open_case write is a case row of some chain.   *)
LEMMA CaseRowTyped ==
    ASSUME TypeOK, HoldsJob, NEW w \in Workers, Pay(w) \in Payments, cur[w] \in Events,
           NEW s \in {"OPEN", "DECIDED", "CLOSED_PAYMENT_RESOLVED"}
    PROVE  [cases EXCEPT ![Chain(w)] = [state |-> s, last |-> EventTime[cur[w]]]]
              \in [Chains -> CaseRow]
<1>1. EventTime[cur[w]] \in Nat
  BY ConstantsAssumption
<1>2. [state |-> s, last |-> EventTime[cur[w]]] \in CaseRow
  BY <1>1 DEF CaseRow
<1>3. QED
  BY <1>2 DEF TypeOK

(* The steps that touch no job and no batch.                               *)
LEMMA StepTyped ==
    ASSUME TypeOK, HoldsJob, HeldPositions, TopExists, NEW w \in Workers,
           \/ RejectPayload(w) \/ RefreshState(w) \/ RefreshFails(w)
           \/ open_case(w) \/ IgnoreStale(w) \/ ReadCase(w)
           \/ CloseCase(w) \/ AuditClose(w)
           \/ assign_attempt_n(w)
           \/ \E a \in Decidable, timely \in BOOLEAN :
                 Decide(w, a, timely) \/ GuardBlocks(w, a, timely)
           \/ AuditDecision(w) \/ AdvanceCase(w)
    PROVE  TypeOK'
<1> USE DEF ingestVars, jobVars, caseVars, auditVars, localVars, Goto, PC
<1>0. PolicyVersion[w] \in Versions
  BY ConstantsAssumption
<1>1. CASE RejectPayload(w) \/ RefreshState(w) \/ RefreshFails(w) \/ ReadCase(w)
  <2>0. \E l \in PC : pc' = [pc EXCEPT ![w] = l]
    <3>1. CASE RejectPayload(w) \/ RefreshState(w) \/ RefreshFails(w)
      BY <3>1 DEF RejectPayload, RefreshState, RefreshFails
    <3>2. CASE ReadCase(w)
      <4>1. CASE resolved[w]
        BY <3>2, <4>1 DEF ReadCase
      <4>2. CASE ~resolved[w]
        BY <3>2, <4>2 DEF ReadCase
      <4>3. QED
        BY <4>1, <4>2
    <3>3. QED
      BY <1>1, <3>1, <3>2
  <2>1. pc' \in [Workers -> PC]
    BY <2>0 DEF TypeOK
  <2>2. resolved' \in [Workers -> BOOLEAN]
    <3>1. CASE RefreshState(w)
      <4>1. (Pay(w) \in settled) \in BOOLEAN
        OBVIOUS
      <4>2. resolved' = [resolved EXCEPT ![w] = Pay(w) \in settled]
        BY <3>1 DEF RefreshState
      <4>3. QED
        BY <4>1, <4>2, Zenon DEF TypeOK
    <3>2. CASE RejectPayload(w) \/ RefreshFails(w) \/ ReadCase(w)
      BY <3>2 DEF TypeOK, RejectPayload, RefreshFails, ReadCase
    <3>3. QED
      BY <1>1, <3>1, <3>2
  <2>3. QED
    BY <1>1, <2>1, <2>2 DEF TypeOK, RejectPayload, RefreshState, RefreshFails, ReadCase
<1>2. CASE open_case(w)
  <2>1. Pay(w) \in Payments /\ cur[w] \in Events
    BY <1>2 DEF HoldsJob, open_case
  <2>2. cases' \in [Chains -> CaseRow]
    BY <1>2, <2>1, CaseRowTyped DEF TypeOK, open_case
  <2>3. QED
    BY <1>2, <2>2 DEF TypeOK, open_case
<1>3. CASE IgnoreStale(w) \/ AuditClose(w)
  <2>1. cur[w] \in Events
    BY <1>3 DEF HoldsJob, IgnoreStale, AuditClose
  <2>2. trail' \subseteq (Dismissal \X Events)
    BY <1>3, <2>1 DEF TypeOK, IgnoreStale, AuditClose, Dismissal
  <2>3. QED
    BY <1>3, <2>2 DEF TypeOK, IgnoreStale, AuditClose
<1>4. CASE CloseCase(w) \/ AdvanceCase(w)
  <2>1. Pay(w) \in Payments /\ cur[w] \in Events
    BY <1>4 DEF HoldsJob, CloseCase, AdvanceCase
  <2>2. cases' \in [Chains -> CaseRow]
    <3>1. CASE CloseCase(w)
      <4>1. cases' = [cases EXCEPT ![Chain(w)] =
                        [state |-> "CLOSED_PAYMENT_RESOLVED", last |-> EventTime[cur[w]]]]
        BY <3>1 DEF CloseCase, advance_case
      <4>2. QED
        BY <2>1, <4>1, CaseRowTyped
    <3>2. CASE AdvanceCase(w)
      <4>1. cases' = [cases EXCEPT ![Chain(w)] =
                        [state |-> "DECIDED", last |-> EventTime[cur[w]]]]
        BY <3>2 DEF AdvanceCase, advance_case
      <4>2. QED
        BY <2>1, <4>1, CaseRowTyped
    <3>3. QED
      BY <1>4, <3>1, <3>2
  <2>3. QED
    BY <1>4, <2>2 DEF TypeOK, CloseCase, AdvanceCase
<1>5. CASE assign_attempt_n(w)
  <2>1. Pay(w) \in Payments
    BY <1>5 DEF HoldsJob, assign_attempt_n
  <2>2. NextAttempt(Pay(w)) \in Nat
    BY <2>1, NextAttemptAboveTop
  <2>3. attempt_n' \in [Payments -> Nat]
    BY <1>5, <2>2 DEF TypeOK, assign_attempt_n
  <2>4. number' \in [Workers -> Nat]
    BY <1>5, <2>1, <2>3 DEF TypeOK, assign_attempt_n
  <2>5. QED
    BY <1>5, <2>3, <2>4 DEF TypeOK, assign_attempt_n
<1>6. ASSUME NEW a \in Decidable, NEW timely \in BOOLEAN, Decide(w, a, timely)
      PROVE  TypeOK'
  <2>1. Pay(w) \in Payments /\ number[w] \in Nat \ {0} /\ a \in DecisionAction
    BY <1>6, ConstantsAssumption DEF HoldsJob, HeldPositions, Decide, TypeOK
  <2>2. decisions' \subseteq DecisionRow
    BY <1>0, <1>6, <2>1 DEF TypeOK, Decide, DecisionRow
  <2>3. QED
    BY <1>6, <2>2 DEF TypeOK, Decide
<1>7. ASSUME NEW a \in Decidable, NEW timely \in BOOLEAN, GuardBlocks(w, a, timely)
      PROVE  TypeOK'
  <2>1. cur[w] \in Events
    BY <1>7 DEF HoldsJob, GuardBlocks
  <2>2. trail' \subseteq (Dismissal \X Events)
    BY <1>7, <2>1 DEF TypeOK, GuardBlocks, Dismissal
  <2>3. QED
    BY <1>7, <2>2 DEF TypeOK, GuardBlocks
<1>8. CASE AuditDecision(w)
  <2>1. Pay(w) \in Payments /\ number[w] \in Nat \ {0}
    BY <1>8 DEF HoldsJob, HeldPositions, AuditDecision, TypeOK
  <2>2. KeyFor(w) \in Key
    BY <1>0, <2>1 DEF KeyFor, idempotency_key, Key
  <2>3. QED
    BY <1>8, <2>2 DEF TypeOK, AuditDecision
<1>9. QED
  BY <1>1, <1>2, <1>3, <1>4, <1>5, <1>6, <1>7, <1>8

LEMMA TypePreserved ==
    ASSUME Inv, [Next]_vars
    PROVE  TypeOK'
<1> USE DEF Inv
<1>1. ASSUME NEW p \in Payments, LateAuthorize(p)
      PROVE  TypeOK'
  BY <1>1 DEF LateAuthorize, TypeOK, ingestVars, jobVars, caseVars, auditVars, localVars
<1>2. ASSUME NEW e \in Events,
             StorePayload(e) \/ TurnAway(e) \/ Enqueue(e) \/ IngestCrash(e) \/ ClaimExpires(e)
      PROVE  TypeOK'
  BY <1>2 DEF StorePayload, TurnAway, Enqueue, IngestCrash, ClaimExpires, TypeOK, JobState,
              vars, ingestVars, jobVars, caseVars, auditVars, localVars
<1>3. ASSUME NEW w \in Workers, WorkerStep(w) \/ RefreshFails(w) \/ Crash(w)
      PROVE  TypeOK'
  BY <1>3, ClaimTyped, FinishTyped, CrashTyped, StepTyped DEF WorkerStep
<1>4. CASE UNCHANGED vars
  BY <1>4 DEF TypeOK, vars, ingestVars, jobVars, caseVars, auditVars, localVars
<1>5. QED
  BY <1>1, <1>2, <1>3, <1>4 DEF Next
-----------------------------------------------------------------------------
(* What each kind of step does to the control of the workers: only the     *)
(* worker that moves is affected, and a number is handed out by            *)
(* assign_attempt_n alone.                                                 *)
LEMMA HoldsJobPreserved ==
    ASSUME Inv, [Next]_vars
    PROVE  HoldsJob'
<1> USE DEF Inv
<1>1. ASSUME NEW p \in Payments, LateAuthorize(p)
      PROVE  HoldsJob'
  BY <1>1 DEF LateAuthorize, HoldsJob, Pay, localVars
<1>2. ASSUME NEW e \in Events,
             StorePayload(e) \/ TurnAway(e) \/ Enqueue(e) \/ IngestCrash(e) \/ ClaimExpires(e)
      PROVE  HoldsJob'
  BY <1>2 DEF StorePayload, TurnAway, Enqueue, IngestCrash, ClaimExpires, HoldsJob, Pay,
              vars, localVars
<1>3. ASSUME NEW w \in Workers, NEW B \in SUBSET Events, TakeUp(w, B)
      PROVE  HoldsJob'
  <2>1. ASSUME NEW u \in Workers
        PROVE  /\ pc'[u] # "idle" => cur'[u] \in Events
               /\ pc'[u] \notin {"idle", "fetch", "done", "failed", "pending"} =>
                     EventPayment[cur'[u]] \in Payments
    <3>1. CASE u = w
      BY <1>3, <3>1, TakeUpTyped
    <3>2. CASE u # w
      BY <1>3, <3>2, TakeUpTyped DEF HoldsJob, Pay
    <3>3. QED
      BY <3>1, <3>2
  <2>2. QED
    BY <2>1 DEF HoldsJob, Pay
<1>4. ASSUME NEW w \in Workers, claim_jobs(w) \/ finish_job(w) \/ Crash(w)
      PROVE  HoldsJob'
  <2>1. \E B \in SUBSET Events : TakeUp(w, B)
    BY <1>4 DEF claim_jobs, finish_job, Crash, Batches, Claimable, TypeOK
  <2>2. QED
    BY <1>3, <2>1
<1>5. ASSUME NEW w \in Workers,
             \/ RejectPayload(w) \/ RefreshState(w) \/ RefreshFails(w)
             \/ open_case(w) \/ IgnoreStale(w) \/ ReadCase(w)
             \/ CloseCase(w) \/ AuditClose(w)
             \/ assign_attempt_n(w)
             \/ \E a \in Decidable, timely \in BOOLEAN :
                   Decide(w, a, timely) \/ GuardBlocks(w, a, timely)
             \/ AuditDecision(w) \/ AdvanceCase(w)
      PROVE  HoldsJob'
  <2>1. cur' = cur /\ pc[w] # "idle"
    BY <1>5 DEF RejectPayload, RefreshState, RefreshFails, open_case, IgnoreStale, ReadCase,
                CloseCase, AuditClose, assign_attempt_n, Decide, GuardBlocks, AuditDecision,
                AdvanceCase, localVars
  <2>2. \E l \in PC : Goto(w, l)
    BY <1>5 DEF RejectPayload, RefreshState, RefreshFails, open_case, IgnoreStale, ReadCase,
                CloseCase, AuditClose, assign_attempt_n, Decide, GuardBlocks, AuditDecision,
                AdvanceCase, PC
  <2>3. pc' \in [Workers -> PC] /\ \A u \in Workers \ {w} : pc'[u] = pc[u]
    BY <2>2 DEF Goto, TypeOK
  <2>4. cur[w] \in Events
    BY <2>1 DEF HoldsJob
  <2>5. pc'[w] \in {"done", "failed", "pending"} \/ Pay(w) \in Payments
    <3>1. EventPayment[cur[w]] \in Payments \cup {NoPayment}
      BY <2>4, ConstantsAssumption
    <3>2. CASE pc[w] = "fetch"
      BY <1>5, <3>1, <3>2 DEF RejectPayload, RefreshState, RefreshFails, open_case,
                IgnoreStale, ReadCase, CloseCase, AuditClose, assign_attempt_n, Decide,
                GuardBlocks, AuditDecision, AdvanceCase, Goto, TypeOK, Pay
    <3>3. CASE pc[w] # "fetch"
      BY <1>5, <3>3 DEF RejectPayload, RefreshState, RefreshFails, open_case, IgnoreStale,
                ReadCase, CloseCase, AuditClose, assign_attempt_n, Decide, GuardBlocks,
                AuditDecision, AdvanceCase, HoldsJob
    <3>4. QED
      BY <3>2, <3>3
  <2>6. QED
    BY <2>1, <2>3, <2>4, <2>5 DEF HoldsJob, Pay
<1>6. CASE UNCHANGED vars
  BY <1>6 DEF vars, localVars, HoldsJob, Pay
<1>7. QED
  BY <1>1, <1>2, <1>4, <1>5, <1>6 DEF Next, WorkerStep
-----------------------------------------------------------------------------
(* Steps other than assign_attempt_n and Decide leave positions, decisions *)
(* and the numbers in use alone.                                           *)
LEMMA LedgerUntouched ==
    ASSUME Inv, [Next]_vars,
           ~ \E w \in Workers : assign_attempt_n(w),
           ~ \E w \in Workers, a \in Decidable, timely \in BOOLEAN : Decide(w, a, timely)
    PROVE  /\ UNCHANGED <<attempt_n, decisions>>
           /\ \A w \in Workers : pc'[w] \in {"decide", "audit_decision"} =>
                 pc[w] = pc'[w] /\ cur'[w] = cur[w] /\ number'[w] = number[w]
<1> USE DEF Inv
<1>1. ASSUME NEW w \in Workers, NEW B \in SUBSET Events, TakeUp(w, B),
             UNCHANGED <<attempt_n, decisions>>
      PROVE  /\ UNCHANGED <<attempt_n, decisions>>
             /\ \A u \in Workers : pc'[u] \in {"decide", "audit_decision"} =>
                   pc[u] = pc'[u] /\ cur'[u] = cur[u] /\ number'[u] = number[u]
  BY <1>1, TakeUpTyped
<1>2. ASSUME NEW w \in Workers, claim_jobs(w) \/ finish_job(w) \/ Crash(w)
      PROVE  /\ UNCHANGED <<attempt_n, decisions>>
             /\ \A u \in Workers : pc'[u] \in {"decide", "audit_decision"} =>
                   pc[u] = pc'[u] /\ cur'[u] = cur[u] /\ number'[u] = number[u]
  <2>1. \E B \in SUBSET Events : TakeUp(w, B)
    BY <1>2 DEF claim_jobs, finish_job, Crash, Batches, Claimable, TypeOK
  <2>2. UNCHANGED <<attempt_n, decisions>>
    BY <1>2 DEF claim_jobs, finish_job, Crash, caseVars
  <2>3. QED
    BY <1>1, <2>1, <2>2
<1>3. ASSUME NEW w \in Workers,
             \/ RejectPayload(w) \/ RefreshState(w) \/ RefreshFails(w)
             \/ open_case(w) \/ IgnoreStale(w) \/ ReadCase(w)
             \/ CloseCase(w) \/ AuditClose(w) \/ AdvanceCase(w)
             \/ AuditDecision(w)
             \/ \E a \in Decidable, timely \in BOOLEAN : GuardBlocks(w, a, timely)
      PROVE  /\ UNCHANGED <<attempt_n, decisions, cur, number>>
             /\ \A u \in Workers : pc'[u] \in {"decide", "audit_decision"} => pc[u] = pc'[u]
  BY <1>3 DEF RejectPayload, RefreshState, RefreshFails, open_case, IgnoreStale, ReadCase,
              CloseCase, AuditClose, AdvanceCase, AuditDecision, GuardBlocks, Goto, TypeOK,
              caseVars, localVars
<1>4. ASSUME NEW e \in Events,
             StorePayload(e) \/ TurnAway(e) \/ Enqueue(e) \/ IngestCrash(e) \/ ClaimExpires(e)
      PROVE  UNCHANGED <<attempt_n, decisions, pc, cur, number>>
  BY <1>4 DEF StorePayload, TurnAway, Enqueue, IngestCrash, ClaimExpires, vars, caseVars,
              localVars
<1>5. ASSUME NEW p \in Payments, LateAuthorize(p)
      PROVE  UNCHANGED <<attempt_n, decisions, pc, cur, number>>
  BY <1>5 DEF LateAuthorize, caseVars, localVars
<1>6. CASE UNCHANGED vars
  BY <1>6 DEF vars, caseVars, localVars
<1>7. QED
  BY <1>2, <1>3, <1>4, <1>5, <1>6 DEF Next, WorkerStep

(* assign_attempt_n gives a payment without a position the next one of its *)
(* chain, and never moves a position already given.                        *)
LEMMA AssignStep ==
    ASSUME Inv, NEW w \in Workers, assign_attempt_n(w)
    PROVE  /\ Pay(w) \in Payments
           /\ attempt_n' \in [Payments -> Nat]
           /\ attempt_n'[Pay(w)] # 0
           /\ \A q \in Payments : attempt_n[q] # 0 => attempt_n'[q] = attempt_n[q]
           /\ \A q \in Payments \ {Pay(w)} : attempt_n'[q] = attempt_n[q]
           /\ attempt_n[Pay(w)] = 0 => attempt_n'[Pay(w)] = NextAttempt(Pay(w))
<1> USE DEF Inv
<1>1. Pay(w) \in Payments
  BY DEF HoldsJob, assign_attempt_n
<1>2. NextAttempt(Pay(w)) \in Nat \ {0}
  BY <1>1, NextAttemptAboveTop
<1>3. attempt_n \in [Payments -> Nat]
  BY DEF TypeOK
<1>4. QED
  BY <1>1, <1>2, <1>3 DEF assign_attempt_n

(* Decide adds at most one row, of the deciding worker's payment, at that  *)
(* payment's position, and only if no row has its key.                     *)
LEMMA DecideStep ==
    ASSUME Inv, NEW w \in Workers, NEW a \in Decidable, NEW timely \in BOOLEAN,
           Decide(w, a, timely)
    PROVE  /\ Pay(w) \in Payments /\ a \in DecisionAction /\ PolicyVersion[w] \in Versions
           /\ number[w] = attempt_n[Pay(w)] /\ number[w] # 0
           /\ UNCHANGED <<attempt_n, cur, number>>
           /\ \/ UNCHANGED decisions
              \/ /\ ~Recorded(KeyFor(w))
                 /\ decisions' = decisions \cup
                       {[payment |-> Pay(w), version |-> PolicyVersion[w],
                         attempt_n |-> number[w], action |-> a]}
BY ConstantsAssumption
   DEF Inv, HoldsJob, HeldPositions, Decide, caseVars, localVars

LEMMA HeldPositionsPreserved ==
    ASSUME Inv, [Next]_vars
    PROVE  HeldPositions'
<1> USE DEF Inv
<1>1. ASSUME NEW w \in Workers, assign_attempt_n(w)
      PROVE  HeldPositions'
  <2>1. ASSUME NEW u \in Workers, pc'[u] \in {"decide", "audit_decision"}
        PROVE  number'[u] = attempt_n'[EventPayment[cur'[u]]] /\ number'[u] # 0
    <3>1. cur' = cur
      BY <1>1 DEF assign_attempt_n
    <3>2. CASE u = w
      BY <1>1, <3>1, <3>2, AssignStep DEF assign_attempt_n, TypeOK, Pay
    <3>3. CASE u # w
      <4>1. pc'[u] = pc[u] /\ number'[u] = number[u]
        BY <1>1, <3>3 DEF assign_attempt_n, Goto, TypeOK
      <4>2. Pay(u) \in Payments /\ number[u] = attempt_n[Pay(u)] /\ number[u] # 0
        BY <2>1, <4>1 DEF HeldPositions, HoldsJob
      <4>3. attempt_n'[Pay(u)] = attempt_n[Pay(u)]
        BY <1>1, <4>2, AssignStep
      <4>4. QED
        BY <3>1, <4>1, <4>2, <4>3 DEF Pay
    <3>4. QED
      BY <3>2, <3>3
  <2>2. QED
    BY <2>1 DEF HeldPositions, Pay
<1>2. ASSUME NEW w \in Workers, NEW a \in Decidable, NEW timely \in BOOLEAN,
             Decide(w, a, timely)
      PROVE  HeldPositions'
  <2>1. \A u \in Workers \ {w} : pc'[u] = pc[u]
    BY <1>2 DEF Decide, Goto, TypeOK
  <2>2. QED
    BY <1>2, <2>1, DecideStep DEF HeldPositions, Pay
<1>3. CASE /\ ~ \E w \in Workers : assign_attempt_n(w)
           /\ ~ \E w \in Workers, a \in Decidable, timely \in BOOLEAN : Decide(w, a, timely)
  BY <1>3, LedgerUntouched DEF HeldPositions, Pay
<1>4. QED
  BY <1>1, <1>2, <1>3

LEMMA DecidedAtPositionPreserved ==
    ASSUME Inv, [Next]_vars
    PROVE  DecidedAtPosition'
<1> USE DEF Inv
<1>1. ASSUME NEW w \in Workers, assign_attempt_n(w)
      PROVE  DecidedAtPosition'
  <2>1. decisions' = decisions
    BY <1>1 DEF assign_attempt_n
  <2>2. \A d \in decisions : d.payment \in Payments /\ d.attempt_n # 0
    BY DEF TypeOK, DecisionRow
  <2>3. QED
    BY <1>1, <2>1, <2>2, AssignStep DEF DecidedAtPosition
<1>2. ASSUME NEW w \in Workers, NEW a \in Decidable, NEW timely \in BOOLEAN,
             Decide(w, a, timely)
      PROVE  DecidedAtPosition'
  BY <1>2, DecideStep DEF DecidedAtPosition
<1>3. CASE /\ ~ \E w \in Workers : assign_attempt_n(w)
           /\ ~ \E w \in Workers, a \in Decidable, timely \in BOOLEAN : Decide(w, a, timely)
  BY <1>3, LedgerUntouched DEF DecidedAtPosition
<1>4. QED
  BY <1>1, <1>2, <1>3

LEMMA KeysUniquePreserved ==
    ASSUME Inv, [Next]_vars
    PROVE  KeysUnique'
<1> USE DEF Inv
<1>1. ASSUME NEW w \in Workers, assign_attempt_n(w)
      PROVE  KeysUnique'
  BY <1>1 DEF assign_attempt_n, KeysUnique, KeyOf, idempotency_key
<1>2. ASSUME NEW w \in Workers, NEW a \in Decidable, NEW timely \in BOOLEAN,
             Decide(w, a, timely)
      PROVE  KeysUnique'
  <2>1. CASE UNCHANGED decisions
    BY <2>1 DEF KeysUnique, KeyOf, idempotency_key
  <2>2. CASE ~Recorded(KeyFor(w))
    <3> DEFINE r == [payment |-> Pay(w), version |-> PolicyVersion[w],
                     attempt_n |-> number[w], action |-> a]
    <3>1. KeyOf(r) = KeyFor(w)
      BY DEF KeyOf, KeyFor, idempotency_key
    <3>2. \A d \in decisions : KeyOf(d) # KeyOf(r)
      BY <2>2, <3>1 DEF Recorded
    <3>3. decisions' \subseteq decisions \cup {r}
      BY <1>2, DecideStep
    <3> HIDE DEF r
    <3>4. \A d1, d2 \in decisions' : KeyOf(d1) = KeyOf(d2) => d1 = d2
      BY <3>2, <3>3 DEF KeysUnique
    <3>5. QED
      BY <3>4 DEF KeysUnique, KeyOf, idempotency_key
  <2>3. QED
    BY <1>2, <2>1, <2>2, DecideStep
<1>3. CASE /\ ~ \E w \in Workers : assign_attempt_n(w)
           /\ ~ \E w \in Workers, a \in Decidable, timely \in BOOLEAN : Decide(w, a, timely)
  BY <1>3, LedgerUntouched DEF KeysUnique, KeyOf, idempotency_key
<1>4. QED
  BY <1>1, <1>2, <1>3

LEMMA TopExistsPreserved ==
    ASSUME Inv, [Next]_vars
    PROVE  TopExists'
<1> USE DEF Inv
<1>1. ASSUME NEW w \in Workers, assign_attempt_n(w), attempt_n[Pay(w)] = 0,
             NEW p \in Payments
      PROVE  \E t \in OnChain(p) : \A q \in OnChain(p) : attempt_n'[q] <= attempt_n'[t]
  <2>1. /\ Pay(w) \in Payments
        /\ attempt_n'[Pay(w)] = NextAttempt(Pay(w))
        /\ \A q \in Payments \ {Pay(w)} : attempt_n'[q] = attempt_n[q]
    BY <1>1, AssignStep
  <2>2. NextAttempt(Pay(w)) \in Nat
        /\ \A q \in OnChain(Pay(w)) : attempt_n[q] < NextAttempt(Pay(w))
    BY <2>1, NextAttemptAboveTop
  <2>3. CASE ChainKey(Pay(w)) = ChainKey(p)
    <3>1. OnChain(p) = OnChain(Pay(w)) /\ Pay(w) \in OnChain(p)
      BY <2>1, <2>3 DEF OnChain
    <3>2. \A q \in OnChain(p) : attempt_n[q] \in Nat /\ q \in Payments
      BY DEF OnChain, TypeOK
    <3>3. \A q \in OnChain(p) : attempt_n'[q] <= attempt_n'[Pay(w)]
      BY <2>1, <2>2, <3>1, <3>2
    <3>4. QED
      BY <3>1, <3>3
  <2>4. CASE ChainKey(Pay(w)) # ChainKey(p)
    <3>1. \A q \in OnChain(p) : attempt_n'[q] = attempt_n[q]
      BY <2>1, <2>4 DEF OnChain
    <3>2. QED
      BY <3>1 DEF TopExists
  <2>5. QED
    BY <2>3, <2>4
<1>2. ASSUME NEW w \in Workers, assign_attempt_n(w), attempt_n[Pay(w)] # 0
      PROVE  attempt_n' = attempt_n
  BY <1>2 DEF assign_attempt_n
<1>3. ASSUME NEW w \in Workers, NEW a \in Decidable, NEW timely \in BOOLEAN,
             Decide(w, a, timely)
      PROVE  attempt_n' = attempt_n
  BY <1>3, DecideStep
<1>4. CASE attempt_n' = attempt_n
  BY <1>4 DEF TopExists, OnChain
<1>5. CASE /\ ~ \E w \in Workers : assign_attempt_n(w)
           /\ ~ \E w \in Workers, a \in Decidable, timely \in BOOLEAN : Decide(w, a, timely)
  BY <1>4, <1>5, LedgerUntouched
<1>6. ASSUME NEW w \in Workers, assign_attempt_n(w)
      PROVE  TopExists'
  <2>1. CASE attempt_n[Pay(w)] = 0
    BY <1>1, <1>6, <2>1 DEF TopExists, OnChain
  <2>2. CASE attempt_n[Pay(w)] # 0
    BY <1>2, <1>4, <1>6, <2>2
  <2>3. QED
    BY <2>1, <2>2
<1>7. QED
  BY <1>3, <1>4, <1>5, <1>6
-----------------------------------------------------------------------------
(* Inv is inductive, hence an invariant.                                   *)
THEOREM Invariance == Spec => []Inv
<1>1. Inv /\ [Next]_vars => Inv'
  BY TypePreserved, HoldsJobPreserved, HeldPositionsPreserved, DecidedAtPositionPreserved,
     KeysUniquePreserved, TopExistsPreserved DEF Inv
<1>2. QED
  BY <1>1, InitInv, PTL DEF Spec

(* Every variable keeps its type: the rows the store holds are well formed *)
(* whatever the interleaving.                                              *)
THEOREM TypeCorrectness == Spec => []TypeOK
<1>1. Inv => TypeOK
  BY DEF Inv
<1>2. QED
  BY <1>1, Invariance, PTL

(* At most one decision per payment and policy version, for any number of  *)
(* workers, events and payments, and any crashes, reclaims and duplicates. *)
THEOREM DecidedOnce == Spec => []DecidedOncePerPolicy
<1>1. Inv => DecidedOncePerPolicy
  BY DEF Inv, DecidedAtPosition, KeysUnique, DecidedOncePerPolicy, KeyOf, idempotency_key
<1>2. QED
  BY <1>1, Invariance, PTL

(* The event core implements DecideOnce.                                   *)
LEMMA StepSimulation ==
    ASSUME Inv, [Next]_vars
    PROVE  [Ledger!Next]_(Ledger!ledgerVars)
<1> USE DEF Inv
<1>1. ASSUME NEW w \in Workers, assign_attempt_n(w)
      PROVE  [Ledger!Next]_(Ledger!ledgerVars)
  <2>1. CASE attempt_n[Pay(w)] # 0
    BY <1>1, <2>1 DEF assign_attempt_n, Ledger!ledgerVars
  <2>2. CASE attempt_n[Pay(w)] = 0
    <3>1. Pay(w) \in Payments
      BY <1>1, AssignStep
    <3>2. PICK t \in OnChain(Pay(w)) : NextAttempt(Pay(w)) = attempt_n[t] + 1
      BY <3>1, NextAttemptAboveTop
    <3>3. \A q \in OnChain(Pay(w)) : attempt_n[q] < NextAttempt(Pay(w))
      BY <3>1, NextAttemptAboveTop
    <3>4. attempt_n' = [attempt_n EXCEPT ![Pay(w)] = NextAttempt(Pay(w))] /\ UNCHANGED decisions
      BY <1>1, <2>2 DEF assign_attempt_n
    <3>5. Ledger!Enrol(Pay(w))
      BY <2>2, <3>2, <3>3, <3>4 DEF Ledger!Enrol, Ledger!OnChain, OnChain
    <3>6. QED
      BY <3>1, <3>5 DEF Ledger!Next
  <2>3. QED
    BY <2>1, <2>2
<1>2. ASSUME NEW w \in Workers, NEW a \in Decidable, NEW timely \in BOOLEAN,
             Decide(w, a, timely)
      PROVE  [Ledger!Next]_(Ledger!ledgerVars)
  <2>1. /\ Pay(w) \in Payments /\ a \in DecisionAction /\ PolicyVersion[w] \in Versions
        /\ number[w] = attempt_n[Pay(w)] /\ number[w] # 0
        /\ UNCHANGED attempt_n
    BY <1>2, DecideStep
  <2>2. CASE UNCHANGED decisions
    BY <2>1, <2>2 DEF Ledger!ledgerVars
  <2>3. CASE /\ ~Recorded(KeyFor(w))
             /\ decisions' = decisions \cup
                   {[payment |-> Pay(w), version |-> PolicyVersion[w],
                     attempt_n |-> number[w], action |-> a]}
    <3>1. \A d \in decisions : ~(d.payment = Pay(w) /\ d.version = PolicyVersion[w])
      BY <2>1, <2>3 DEF Recorded, KeyFor, KeyOf, idempotency_key, DecidedAtPosition
    <3>2. Ledger!Rule(Pay(w), PolicyVersion[w], a)
      BY <2>1, <2>3, <3>1 DEF Ledger!Rule
    <3>3. QED
      BY <2>1, <3>2 DEF Ledger!Next
  <2>4. QED
    BY <1>2, <2>2, <2>3, DecideStep
<1>3. CASE /\ ~ \E w \in Workers : assign_attempt_n(w)
           /\ ~ \E w \in Workers, a \in Decidable, timely \in BOOLEAN : Decide(w, a, timely)
  BY <1>3, LedgerUntouched DEF Ledger!ledgerVars
<1>4. QED
  BY <1>1, <1>2, <1>3

(* Webhooks, workers, crashes and reclaims together do what DecideOnce     *)
(* allows: positions and decisions are added once and never rewritten.     *)
THEOREM ImplementsDecideOnce == Spec => LedgerSpec
<1>1. Init => Ledger!Init
  BY DEF Init, Ledger!Init
<1>2. QED
  BY <1>1, StepSimulation, Invariance, PTL DEF Spec, LedgerSpec, Ledger!Spec
-----------------------------------------------------------------------------
(* Positions stay dense: the new one is one above the highest of its chain,*)
(* so it is shared by no payment and leaves no gap below it.               *)
LEMMA DensePreserved ==
    ASSUME Inv, AttemptPositionsDense, [Next]_vars
    PROVE  AttemptPositionsDense'
<1> USE DEF Inv
<1>1. CASE attempt_n' = attempt_n
  BY <1>1 DEF AttemptPositionsDense, OnChain
<1>2. ASSUME NEW w \in Workers, assign_attempt_n(w), attempt_n[Pay(w)] = 0
      PROVE  AttemptPositionsDense'
  <2> DEFINE n == Pay(w)
  <2>1. /\ n \in Payments
        /\ attempt_n'[n] = NextAttempt(n)
        /\ \A q \in Payments \ {n} : attempt_n'[q] = attempt_n[q]
    BY <1>2, AssignStep
  <2>2. PICK t \in OnChain(n) : NextAttempt(n) = attempt_n[t] + 1
    BY <2>1, NextAttemptAboveTop
  <2>3. \A q \in OnChain(n) : attempt_n[q] < NextAttempt(n)
    BY <2>1, NextAttemptAboveTop
  <2>4. \A q \in Payments : attempt_n[q] \in Nat
    BY DEF TypeOK
  <2>5. t \in Payments /\ attempt_n[n] = 0
    BY <1>2 DEF OnChain
  <2> HIDE DEF n
  <2>6. ASSUME NEW p \in Payments, NEW q \in OnChain(p), attempt_n'[p] = attempt_n'[q],
               attempt_n'[p] # 0
        PROVE  p = q
    <3>1. q \in Payments /\ (p = n \/ q = n => p \in OnChain(n) /\ q \in OnChain(n))
      BY DEF OnChain
    <3>2. p \in OnChain(q)
      BY DEF OnChain
    <3>3. CASE p = n \/ q = n
      BY <2>1, <2>3, <2>4, <2>6, <3>1, <3>3
    <3>4. CASE p # n /\ q # n
      BY <2>1, <2>6, <3>1, <3>4 DEF AttemptPositionsDense
    <3>5. QED
      BY <3>3, <3>4
  <2>7. ASSUME NEW p \in Payments, attempt_n'[p] > 1
        PROVE  \E q \in OnChain(p) : attempt_n'[q] = attempt_n'[p] - 1
    <3>1. CASE p = n
      <4>1. t # n
        BY <2>1, <2>2, <2>5, <2>7, <3>1
      <4>2. attempt_n'[t] = attempt_n'[p] - 1
        BY <2>1, <2>2, <2>4, <2>5, <3>1, <4>1
      <4>3. QED
        BY <3>1, <4>2
    <3>2. CASE p # n
      <4>1. attempt_n'[p] = attempt_n[p] /\ attempt_n[p] > 1
        BY <2>1, <2>7, <3>2
      <4>2. PICK q \in OnChain(p) : attempt_n[q] = attempt_n[p] - 1
        BY <4>1 DEF AttemptPositionsDense
      <4>3. q # n /\ q \in Payments
        BY <2>4, <2>5, <4>1, <4>2 DEF OnChain
      <4>4. QED
        BY <2>1, <4>1, <4>2, <4>3
    <3>3. QED
      BY <3>1, <3>2
  <2>8. QED
    BY <2>6, <2>7 DEF AttemptPositionsDense, OnChain
<1>3. ASSUME NEW w \in Workers, assign_attempt_n(w), attempt_n[Pay(w)] # 0
      PROVE  attempt_n' = attempt_n
  BY <1>3 DEF assign_attempt_n
<1>4. ASSUME NEW w \in Workers, NEW a \in Decidable, NEW timely \in BOOLEAN,
             Decide(w, a, timely)
      PROVE  attempt_n' = attempt_n
  BY <1>4, DecideStep
<1>5. QED
  BY <1>1, <1>2, <1>3, <1>4, LedgerUntouched

(* On every chain the positions are 1, 2, 3 ... without gap or repetition. *)
THEOREM PositionsDense == Spec => []AttemptPositionsDense
<1>1. Init => AttemptPositionsDense
  BY DEF Init, AttemptPositionsDense, OnChain
<1>2. Inv /\ AttemptPositionsDense /\ [Next]_vars => AttemptPositionsDense'
  BY DensePreserved
<1>3. QED
  BY <1>1, <1>2, Invariance, PTL DEF Spec
-----------------------------------------------------------------------------
(* What is established about an event whose job is over: a decision on its *)
(* payment, or a row of the trail that says why there is none.             *)
Accounted(e) ==
    \/ \E d \in decisions : d.payment = EventPayment[e]
    \/ \E why \in Dismissal : <<why, e>> \in trail

(* Every job in the table or in a worker's hands was stored first.         *)
Received ==
    /\ storing \subseteq raw
    /\ \A e \in Events : jobState[e] # "none" => e \in raw
    /\ \A w \in Workers : batch[w] \subseteq raw /\ (cur[w] # NoEvent => cur[w] \in raw)

(* Where a worker stands tells what it has found or done: it closes only   *)
(* on a settled payment, decides only on a snapshot that was not, and is   *)
(* through with a job only when the job is accounted for.                  *)
Grounded ==
    \A w \in Workers :
        /\ resolved[w] => cur[w] # NoEvent /\ Pay(w) \in settled
        /\ pc[w] = "close" => resolved[w]
        /\ pc[w] \in {"assign", "decide"} => ~resolved[w]
        /\ pc[w] \in {"audit_decision", "advance"} => \E d \in decisions : d.payment = Pay(w)
        /\ pc[w] = "done" => Accounted(cur[w])

(* A case row carries the time of an event of its chain that was received. *)
RowsDated ==
    \A c \in Chains : cases[c].last # 0 =>
        \E f \in raw : /\ EventPayment[f] \in Payments
                       /\ ChainKey(EventPayment[f]) = c
                       /\ EventTime[f] = cases[c].last

(* The guard let no execution through at a position at or past the cap.    *)
ScheduledUnderCap ==
    \A d \in decisions : d.action = "SCHEDULE_AT" => d.attempt_n < AttemptCap
-----------------------------------------------------------------------------
(* The tables that only grow.                                              *)
LEMMA TablesGrow ==
    ASSUME Inv, [Next]_vars
    PROVE  settled \subseteq settled' /\ raw \subseteq raw'
           /\ decisions \subseteq decisions' /\ trail \subseteq trail'
<1> USE DEF ingestVars, jobVars, caseVars, auditVars, localVars
<1>1. ASSUME NEW q \in Payments, LateAuthorize(q)
      PROVE  settled \subseteq settled' /\ raw \subseteq raw'
             /\ decisions \subseteq decisions' /\ trail \subseteq trail'
  BY <1>1 DEF LateAuthorize
<1>2. ASSUME NEW e \in Events,
             StorePayload(e) \/ TurnAway(e) \/ Enqueue(e) \/ IngestCrash(e) \/ ClaimExpires(e)
      PROVE  settled \subseteq settled' /\ raw \subseteq raw'
             /\ decisions \subseteq decisions' /\ trail \subseteq trail'
  BY <1>2 DEF StorePayload, TurnAway, Enqueue, IngestCrash, ClaimExpires, vars
<1>3. ASSUME NEW w \in Workers, WorkerStep(w) \/ RefreshFails(w) \/ Crash(w)
      PROVE  settled \subseteq settled' /\ raw \subseteq raw'
             /\ decisions \subseteq decisions' /\ trail \subseteq trail'
  <2>1. settled' = settled /\ raw' = raw
    BY <1>3 DEF WorkerStep, claim_jobs, finish_job, Crash, RejectPayload, RefreshState,
                RefreshFails, open_case, IgnoreStale, ReadCase, CloseCase, AuditClose,
                assign_attempt_n, Decide, GuardBlocks, AuditDecision, AdvanceCase
  <2>2. decisions \subseteq decisions'
    BY <1>3 DEF WorkerStep, claim_jobs, finish_job, Crash, RejectPayload, RefreshState,
                RefreshFails, open_case, IgnoreStale, ReadCase, CloseCase, AuditClose,
                assign_attempt_n, Decide, GuardBlocks, AuditDecision, AdvanceCase
  <2>3. trail \subseteq trail'
    BY <1>3 DEF WorkerStep, claim_jobs, finish_job, Crash, RejectPayload, RefreshState,
                RefreshFails, open_case, IgnoreStale, ReadCase, CloseCase, AuditClose,
                assign_attempt_n, Decide, GuardBlocks, AuditDecision, AdvanceCase
  <2>4. QED
    BY <2>1, <2>2, <2>3
<1>4. CASE UNCHANGED vars
  BY <1>4 DEF vars
<1>5. QED
  BY <1>1, <1>2, <1>3, <1>4 DEF Next

OwnStep(w) == WorkerStep(w) \/ RefreshFails(w) \/ Crash(w)

(* Only a worker's own step moves the worker.                              *)
LEMMA OthersStandStill ==
    ASSUME Inv, [Next]_vars, NEW u \in Workers, ~OwnStep(u)
    PROVE  /\ pc'[u] = pc[u] /\ cur'[u] = cur[u]
           /\ resolved'[u] = resolved[u] /\ batch'[u] = batch[u]
<1> USE DEF Inv, ingestVars, jobVars, caseVars, auditVars, localVars
<1>1. ASSUME NEW q \in Payments, LateAuthorize(q)
      PROVE  UNCHANGED <<pc, cur, resolved, batch>>
  BY <1>1 DEF LateAuthorize
<1>2. ASSUME NEW e \in Events,
             StorePayload(e) \/ TurnAway(e) \/ Enqueue(e) \/ IngestCrash(e) \/ ClaimExpires(e)
      PROVE  UNCHANGED <<pc, cur, resolved, batch>>
  BY <1>2 DEF StorePayload, TurnAway, Enqueue, IngestCrash, ClaimExpires, vars
<1>3. ASSUME NEW w \in Workers, NEW B, TakeUp(w, B), u # w
      PROVE  /\ pc'[u] = pc[u] /\ cur'[u] = cur[u]
             /\ resolved'[u] = resolved[u] /\ batch'[u] = batch[u]
  BY <1>3 DEF TakeUp, TypeOK
<1>4. ASSUME NEW w \in Workers, OwnStep(w), u # w
      PROVE  /\ pc'[u] = pc[u] /\ cur'[u] = cur[u]
             /\ resolved'[u] = resolved[u] /\ batch'[u] = batch[u]
  <2>1. CASE claim_jobs(w) \/ finish_job(w) \/ Crash(w)
    BY <1>3, <1>4, <2>1 DEF claim_jobs, finish_job, Crash
  <2>2. CASE ~(claim_jobs(w) \/ finish_job(w) \/ Crash(w))
    <3>1. cur' = cur /\ batch' = batch
      BY <1>4, <2>2 DEF OwnStep, WorkerStep, RejectPayload, RefreshState, RefreshFails,
                open_case, IgnoreStale, ReadCase, CloseCase, AuditClose, assign_attempt_n,
                Decide, GuardBlocks, AuditDecision, AdvanceCase
    <3>2. resolved'[u] = resolved[u]
      BY <1>4, <2>2 DEF OwnStep, WorkerStep, RejectPayload, RefreshState, RefreshFails,
                open_case, IgnoreStale, ReadCase, CloseCase, AuditClose, assign_attempt_n,
                Decide, GuardBlocks, AuditDecision, AdvanceCase, TypeOK
    <3>3. pc'[u] = pc[u]
      BY <1>4, <2>2 DEF OwnStep, WorkerStep, RejectPayload, RefreshState, RefreshFails,
                open_case, IgnoreStale, ReadCase, CloseCase, AuditClose, assign_attempt_n,
                Decide, GuardBlocks, AuditDecision, AdvanceCase, TypeOK, Goto
    <3>4. QED
      BY <3>1, <3>2, <3>3
  <2>3. QED
    BY <2>1, <2>2
<1>5. CASE UNCHANGED vars
  BY <1>5 DEF vars
<1>6. QED
  BY <1>1, <1>2, <1>4, <1>5 DEF Next, OwnStep

(* What a worker takes up, and what it forgets when it does.               *)
LEMMA TakenUp ==
    ASSUME Inv, NEW w \in Workers, NEW B, TakeUp(w, B)
    PROVE  /\ pc'[w] \in {"idle", "fetch"} /\ ~resolved'[w] /\ batch'[w] = B
           /\ cur'[w] = NoEvent \/ cur'[w] \in B
BY DEF Inv, TypeOK, TakeUp, First
-----------------------------------------------------------------------------
LEMMA ReceivedPreserved ==
    ASSUME Inv, Received, [Next]_vars
    PROVE  Received'
<1> USE DEF Inv
<1>1. raw \subseteq raw'
  BY TablesGrow
<1>2. storing' \subseteq raw' /\ \A e \in Events : jobState'[e] # "none" => e \in raw'
  <2> USE DEF ingestVars, jobVars
  <2>1. ASSUME NEW e \in Events,
               StorePayload(e) \/ TurnAway(e) \/ Enqueue(e) \/ IngestCrash(e) \/ ClaimExpires(e)
        PROVE  storing' \subseteq raw' /\ \A f \in Events : jobState'[f] # "none" => f \in raw'
    BY <1>1, <2>1 DEF StorePayload, TurnAway, Enqueue, IngestCrash, ClaimExpires, vars,
                      Received, TypeOK
  <2>2. ASSUME NEW w \in Workers, claim_jobs(w)
        PROVE  storing' \subseteq raw' /\ \A f \in Events : jobState'[f] # "none" => f \in raw'
    <3>1. PICK S \in Batches : jobState' = [e \in Events |-> IF e \in S THEN "claimed"
                                           ELSE IF e \in Exhausted THEN "failed"
                                           ELSE jobState[e]]
      BY <2>2 DEF claim_jobs
    <3>2. \A e \in S \cup Exhausted : jobState[e] # "none"
      BY DEF Batches, Claimable, Exhausted
    <3>3. UNCHANGED <<storing, raw>>
      BY <2>2 DEF claim_jobs
    <3>4. QED
      BY <3>1, <3>2, <3>3 DEF Received
  <2>3. ASSUME NEW w \in Workers, finish_job(w)
        PROVE  storing' \subseteq raw' /\ \A f \in Events : jobState'[f] # "none" => f \in raw'
    <3>1. cur[w] \in Events /\ cur[w] # NoEvent
      BY <2>3, ConstantsAssumption DEF finish_job, HoldsJob
    <3>2. QED
      BY <2>3, <3>1 DEF finish_job, Received, TypeOK
  <2>4. ASSUME NEW w \in Workers, OwnStep(w), ~claim_jobs(w), ~finish_job(w)
        PROVE  UNCHANGED <<storing, jobState>>
    BY <2>4 DEF OwnStep, WorkerStep, Crash, RejectPayload, RefreshState, RefreshFails,
                open_case, IgnoreStale, ReadCase, CloseCase, AuditClose, assign_attempt_n,
                Decide, GuardBlocks, AuditDecision, AdvanceCase
  <2>5. ASSUME NEW q \in Payments, LateAuthorize(q)
        PROVE  UNCHANGED <<storing, jobState>>
    BY <2>5 DEF LateAuthorize
  <2>6. CASE UNCHANGED <<storing, jobState>>
    BY <1>1, <2>6 DEF Received
  <2>7. QED
    BY <2>1, <2>2, <2>3, <2>4, <2>5, <2>6 DEF Next, OwnStep, vars
<1>3. ASSUME NEW u \in Workers
      PROVE  batch'[u] \subseteq raw' /\ (cur'[u] # NoEvent => cur'[u] \in raw')
  <2>1. CASE claim_jobs(u)
    <3>1. PICK S \in Batches : TakeUp(u, S)
      BY <2>1 DEF claim_jobs
    <3>2. S \subseteq raw
      BY DEF Batches, Claimable, Received
    <3>3. QED
      BY <1>1, <3>1, <3>2, TakenUp
  <2>2. CASE finish_job(u)
    <3>1. TakeUp(u, batch[u] \ {cur[u]})
      BY <2>2 DEF finish_job
    <3>2. batch[u] \subseteq raw
      BY DEF Received
    <3>3. QED
      BY <1>1, <3>1, <3>2, TakenUp
  <2>3. CASE Crash(u)
    <3>1. TakeUp(u, {})
      BY <2>3 DEF Crash
    <3>2. QED
      BY <3>1, TakenUp
  <2>4. CASE OwnStep(u) /\ ~claim_jobs(u) /\ ~finish_job(u) /\ ~Crash(u)
    <3>1. cur' = cur /\ batch' = batch
      BY <2>4 DEF OwnStep, WorkerStep, RejectPayload, RefreshState, RefreshFails,
                open_case, IgnoreStale, ReadCase, CloseCase, AuditClose, assign_attempt_n,
                Decide, GuardBlocks, AuditDecision, AdvanceCase, localVars
    <3>2. QED
      BY <1>1, <3>1 DEF Received
  <2>5. CASE ~OwnStep(u)
    BY <1>1, <2>5, OthersStandStill DEF Received
  <2>6. QED
    BY <2>1, <2>2, <2>3, <2>4, <2>5
<1>4. QED
  BY <1>2, <1>3 DEF Received

(* An event stays accounted for.                                           *)
LEMMA AccountedStays ==
    ASSUME Inv, [Next]_vars, NEW e, Accounted(e)
    PROVE  Accounted(e)'
BY TablesGrow DEF Accounted

LEMMA GroundedPreserved ==
    ASSUME Inv, Grounded, [Next]_vars
    PROVE  Grounded'
<1> USE DEF Inv
<1> DEFINE Fits(u) ==
        /\ resolved'[u] => cur'[u] # NoEvent /\ EventPayment[cur'[u]] \in settled'
        /\ pc'[u] = "close" => resolved'[u]
        /\ pc'[u] \in {"assign", "decide"} => ~resolved'[u]
        /\ pc'[u] \in {"audit_decision", "advance"} =>
              \E d \in decisions' : d.payment = EventPayment[cur'[u]]
        /\ pc'[u] = "done" => \A e : e = cur'[u] => Accounted(e)'
<1> SUFFICES ASSUME NEW u \in Workers
             PROVE  Fits(u)
  BY DEF Grounded, Pay, Accounted
<1>0. /\ resolved[u] => cur[u] # NoEvent /\ EventPayment[cur[u]] \in settled
      /\ pc[u] = "close" => resolved[u]
      /\ pc[u] \in {"assign", "decide"} => ~resolved[u]
      /\ pc[u] \in {"audit_decision", "advance"} =>
            \E d \in decisions : d.payment = EventPayment[cur[u]]
      /\ pc[u] = "done" => Accounted(cur[u])
  BY DEF Grounded, Pay
<1>1. settled \subseteq settled' /\ decisions \subseteq decisions' /\ trail \subseteq trail'
  BY TablesGrow
<1>2. ASSUME NEW e, Accounted(e)
      PROVE  Accounted(e)'
  BY <1>2, AccountedStays
<1>3. CASE pc'[u] = pc[u] /\ cur'[u] = cur[u] /\ resolved'[u] = resolved[u]
  BY <1>0, <1>1, <1>2, <1>3
<1>4. ASSUME NEW B, TakeUp(u, B)
      PROVE  Fits(u)
  BY <1>4, TakenUp
<1>5. CASE claim_jobs(u) \/ finish_job(u) \/ Crash(u)
  BY <1>4, <1>5 DEF claim_jobs, finish_job, Crash
<1>6. CASE RejectPayload(u) \/ RefreshFails(u) \/ open_case(u) \/ ReadCase(u) \/ CloseCase(u)
  BY <1>0, <1>1, <1>6 DEF RejectPayload, RefreshFails, open_case, ReadCase, CloseCase, Goto,
                          localVars, TypeOK
<1>7. CASE RefreshState(u)
  <2>1. cur' = cur /\ pc'[u] = "open" /\ (resolved'[u] => Pay(u) \in settled)
    BY <1>7 DEF RefreshState, Goto, TypeOK
  <2>2. cur[u] \in Events /\ cur[u] # NoEvent
    BY <1>7, ConstantsAssumption DEF RefreshState, HoldsJob
  <2>3. QED
    BY <1>1, <2>1, <2>2 DEF Pay
<1>8. CASE assign_attempt_n(u)
  BY <1>0, <1>1, <1>8 DEF assign_attempt_n, Goto, localVars, TypeOK
<1>9. ASSUME NEW a \in Decidable, NEW timely \in BOOLEAN, Decide(u, a, timely)
      PROVE  Fits(u)
  <2>1. /\ cur' = cur /\ resolved' = resolved /\ ~resolved[u]
        /\ pc'[u] \in {"done", "audit_decision"}
    BY <1>0, <1>9 DEF Decide, Goto, localVars, TypeOK
  <2>2. \E d \in decisions' : d.payment = EventPayment[cur[u]]
    <3>1. CASE Recorded(KeyFor(u))
      <4>1. PICK d \in decisions : KeyOf(d) = KeyFor(u)
        BY <3>1 DEF Recorded
      <4>2. d.payment = Pay(u)
        BY <4>1 DEF KeyOf, KeyFor, idempotency_key
      <4>3. QED
        BY <1>1, <4>2 DEF Pay
    <3>2. CASE ~Recorded(KeyFor(u))
      <4> DEFINE r == [payment |-> Pay(u), version |-> PolicyVersion[u],
                       attempt_n |-> number[u], action |-> a]
      <4>1. decisions' = decisions \cup {r}
        BY <1>9, <3>2 DEF Decide
      <4>2. r.payment = Pay(u)
        OBVIOUS
      <4>3. QED
        BY <4>1, <4>2 DEF Pay
    <3>3. QED
      BY <3>1, <3>2
  <2>3. \A e : e = cur'[u] => Accounted(e)'
    BY <2>1, <2>2 DEF Accounted
  <2>4. QED
    BY <2>1, <2>2, <2>3
<1>10. CASE IgnoreStale(u) \/ AuditClose(u)
            \/ \E a \in Decidable, timely \in BOOLEAN : GuardBlocks(u, a, timely)
  <2>1. /\ cur' = cur /\ resolved' = resolved /\ pc'[u] = "done"
        /\ \E why \in Dismissal : <<why, cur[u]>> \in trail'
    BY <1>10 DEF IgnoreStale, AuditClose, GuardBlocks, Goto, localVars, TypeOK, Dismissal
  <2>2. \A e : e = cur'[u] => Accounted(e)'
    BY <2>1 DEF Accounted
  <2>3. QED
    BY <1>0, <1>1, <2>1, <2>2
<1>11. CASE AuditDecision(u) \/ AdvanceCase(u)
  <2>1. /\ cur' = cur /\ resolved' = resolved
        /\ pc'[u] \in {"advance", "done"}
        /\ \E d \in decisions' : d.payment = EventPayment[cur[u]]
    BY <1>0, <1>1, <1>11 DEF AuditDecision, AdvanceCase, Goto, localVars, TypeOK
  <2>2. \A e : e = cur'[u] => Accounted(e)'
    BY <2>1 DEF Accounted
  <2>3. QED
    BY <1>0, <1>1, <2>1, <2>2
<1>12. QED
  BY <1>3, <1>5, <1>6, <1>7, <1>8, <1>9, <1>10, <1>11, OthersStandStill
     DEF OwnStep, WorkerStep

(* finish_job alone ends a job, and only where its worker stands.          *)
LEMMA EndedByItsWorker ==
    ASSUME Inv, [Next]_vars, NEW e \in Events, jobState'[e] = "done", jobState[e] # "done"
    PROVE  \E w \in Workers : pc[w] = "done" /\ cur[w] = e
<1> USE DEF Inv, jobVars
<1>1. ASSUME NEW f \in Events,
             StorePayload(f) \/ TurnAway(f) \/ Enqueue(f) \/ IngestCrash(f) \/ ClaimExpires(f)
      PROVE  jobState'[e] = jobState[e] \/ jobState'[e] = "pending"
  BY <1>1 DEF StorePayload, TurnAway, Enqueue, IngestCrash, ClaimExpires, vars, TypeOK
<1>2. ASSUME NEW w \in Workers, claim_jobs(w)
      PROVE  jobState'[e] = jobState[e] \/ jobState'[e] \in {"claimed", "failed"}
  BY <1>2 DEF claim_jobs
<1>3. ASSUME NEW w \in Workers, finish_job(w)
      PROVE  jobState'[e] = jobState[e] \/ (pc[w] = jobState'[e] /\ cur[w] = e)
  BY <1>3 DEF finish_job, TypeOK
<1>4. ASSUME NEW w \in Workers, OwnStep(w), ~claim_jobs(w), ~finish_job(w)
      PROVE  jobState' = jobState
  BY <1>4 DEF OwnStep, WorkerStep, Crash, RejectPayload, RefreshState, RefreshFails,
              open_case, IgnoreStale, ReadCase, CloseCase, AuditClose, assign_attempt_n,
              Decide, GuardBlocks, AuditDecision, AdvanceCase
<1>5. ASSUME NEW q \in Payments, LateAuthorize(q)
      PROVE  jobState' = jobState
  BY <1>5 DEF LateAuthorize
<1>6. CASE UNCHANGED vars
  BY <1>6 DEF vars
<1>7. QED
  BY <1>1, <1>2, <1>3, <1>4, <1>5, <1>6 DEF Next, OwnStep

(* A job that is done is accounted for, and stays so.                      *)
LEMMA NoSilentDonePreserved ==
    ASSUME Inv, Grounded, NoSilentDone, [Next]_vars
    PROVE  NoSilentDone'
<1>1. ASSUME NEW e \in Events, jobState'[e] = "done"
      PROVE  Accounted(e)'
  <2>1. CASE jobState[e] = "done"
    BY <2>1, AccountedStays DEF NoSilentDone, Accounted
  <2>2. CASE jobState[e] # "done"
    <3>1. PICK w \in Workers : pc[w] = "done" /\ cur[w] = e
      BY <1>1, <2>2, EndedByItsWorker
    <3>2. Accounted(e)
      BY <3>1 DEF Grounded
    <3>3. QED
      BY <3>2, AccountedStays
  <2>3. QED
    BY <2>1, <2>2
<1>2. QED
  BY <1>1 DEF NoSilentDone, Accounted
-----------------------------------------------------------------------------
(* A step writes at most one case row, for the chain of the worker's own   *)
(* event, with that event's time and a state the worker's place warrants.  *)
LEMMA RowWritten ==
    ASSUME Inv, [Next]_vars
    PROVE  \/ cases' = cases
           \/ \E w \in Workers :
                 /\ Pay(w) \in Payments /\ cur[w] \in Events
                 /\ \E s \in {"OPEN", "DECIDED", "CLOSED_PAYMENT_RESOLVED"} :
                       /\ cases' = [cases EXCEPT ![Chain(w)] =
                                        [state |-> s, last |-> EventTime[cur[w]]]]
                       /\ s = "OPEN" => cases[Chain(w)].state = "none" /\ pc[w] = "open"
                       /\ s = "DECIDED" => pc[w] = "advance"
                       /\ s = "CLOSED_PAYMENT_RESOLVED" => pc[w] = "close"
<1> USE DEF Inv, caseVars
<1>1. ASSUME NEW e \in Events,
             StorePayload(e) \/ TurnAway(e) \/ Enqueue(e) \/ IngestCrash(e) \/ ClaimExpires(e)
      PROVE  cases' = cases
  BY <1>1 DEF StorePayload, TurnAway, Enqueue, IngestCrash, ClaimExpires, vars
<1>2. ASSUME NEW q \in Payments, LateAuthorize(q)
      PROVE  cases' = cases
  BY <1>2 DEF LateAuthorize
<1>3. ASSUME NEW w \in Workers, OwnStep(w), ~open_case(w), ~CloseCase(w), ~AdvanceCase(w)
      PROVE  cases' = cases
  BY <1>3 DEF OwnStep, WorkerStep, claim_jobs, finish_job, Crash, RejectPayload, RefreshState,
              RefreshFails, IgnoreStale, ReadCase, AuditClose, assign_attempt_n,
              Decide, GuardBlocks, AuditDecision
<1>4. ASSUME NEW w \in Workers, open_case(w) \/ CloseCase(w) \/ AdvanceCase(w)
      PROVE  Pay(w) \in Payments /\ cur[w] \in Events
  BY <1>4 DEF open_case, CloseCase, AdvanceCase, HoldsJob
<1>5. ASSUME NEW w \in Workers, open_case(w), cases' # cases
      PROVE  /\ cases' = [cases EXCEPT ![Chain(w)] =
                    [state |-> "OPEN", last |-> EventTime[cur[w]]]]
             /\ cases[Chain(w)].state = "none" /\ pc[w] = "open"
  BY <1>5 DEF open_case
<1>6. ASSUME NEW w \in Workers, CloseCase(w)
      PROVE  /\ cases' = [cases EXCEPT ![Chain(w)] =
                    [state |-> "CLOSED_PAYMENT_RESOLVED", last |-> EventTime[cur[w]]]]
             /\ pc[w] = "close"
  BY <1>6 DEF CloseCase, advance_case
<1>7. ASSUME NEW w \in Workers, AdvanceCase(w)
      PROVE  /\ cases' = [cases EXCEPT ![Chain(w)] =
                    [state |-> "DECIDED", last |-> EventTime[cur[w]]]]
             /\ pc[w] = "advance"
  BY <1>7 DEF AdvanceCase, advance_case
<1>8. CASE UNCHANGED vars
  BY <1>8 DEF vars
<1>9. QED
  BY <1>1, <1>2, <1>3, <1>4, <1>5, <1>6, <1>7, <1>8 DEF Next, OwnStep

LEMMA RowsPreserved ==
    ASSUME Inv, Received, Grounded, RowsDated, CaseRowJustified, [Next]_vars
    PROVE  RowsDated' /\ CaseRowJustified'
<1> USE DEF Inv
<1>1. settled \subseteq settled' /\ raw \subseteq raw' /\ decisions \subseteq decisions'
  BY TablesGrow
<1>2. CASE cases' = cases
  BY <1>1, <1>2 DEF RowsDated, CaseRowJustified
<1>3. ASSUME NEW w \in Workers, Pay(w) \in Payments, cur[w] \in Events,
             NEW s \in {"OPEN", "DECIDED", "CLOSED_PAYMENT_RESOLVED"},
             cases' = [cases EXCEPT ![Chain(w)] = [state |-> s, last |-> EventTime[cur[w]]]],
             s = "DECIDED" => pc[w] = "advance",
             s = "CLOSED_PAYMENT_RESOLVED" => pc[w] = "close"
      PROVE  RowsDated' /\ CaseRowJustified'
  <2>1. /\ cases'[Chain(w)].state = s /\ cases'[Chain(w)].last = EventTime[cur[w]]
        /\ \A c \in Chains : c # Chain(w) => cases'[c] = cases[c]
    BY <1>3 DEF TypeOK, Chain, Chains
  <2>2. cur[w] \in raw
    BY <1>3, ConstantsAssumption DEF Received
  <2>3. RowsDated'
    BY <1>1, <1>3, <2>1, <2>2 DEF RowsDated, Chain, Pay
  <2>4. s = "DECIDED" => \E d \in decisions' : ChainKey(d.payment) = Chain(w)
    BY <1>1, <1>3 DEF Grounded, Chain
  <2>5. s = "CLOSED_PAYMENT_RESOLVED" => \E q \in settled' : ChainKey(q) = Chain(w)
    BY <1>1, <1>3 DEF Grounded, Chain
  <2>6. CaseRowJustified'
    BY <1>1, <2>1, <2>4, <2>5 DEF CaseRowJustified
  <2>7. QED
    BY <2>3, <2>6
<1>4. QED
  BY <1>2, <1>3, RowWritten

(* Only IgnoreStale dismisses an event as stale.                           *)
LEMMA StaleBehindRow ==
    ASSUME Inv, [Next]_vars, NEW e, <<"EVENT_STALE_IGNORED", e>> \in trail',
           <<"EVENT_STALE_IGNORED", e>> \notin trail
    PROVE  \E w \in Workers : cur[w] = e /\ Stale(w) /\ Pay(w) \in Payments /\ e \in Events
<1> USE DEF Inv, auditVars
<1>1. ASSUME NEW f \in Events,
             StorePayload(f) \/ TurnAway(f) \/ Enqueue(f) \/ IngestCrash(f) \/ ClaimExpires(f)
      PROVE  trail' = trail
  BY <1>1 DEF StorePayload, TurnAway, Enqueue, IngestCrash, ClaimExpires, vars
<1>2. ASSUME NEW q \in Payments, LateAuthorize(q)
      PROVE  trail' = trail
  BY <1>2 DEF LateAuthorize
<1>3. ASSUME NEW w \in Workers, OwnStep(w), ~IgnoreStale(w), ~AuditClose(w),
             ~ \E a \in Decidable, timely \in BOOLEAN : GuardBlocks(w, a, timely)
      PROVE  trail' = trail
  BY <1>3 DEF OwnStep, WorkerStep, claim_jobs, finish_job, Crash, RejectPayload, RefreshState,
              RefreshFails, open_case, ReadCase, CloseCase, assign_attempt_n,
              Decide, AuditDecision, AdvanceCase
<1>4. ASSUME NEW w \in Workers,
             AuditClose(w) \/ \E a \in Decidable, timely \in BOOLEAN : GuardBlocks(w, a, timely)
      PROVE  \E why \in {"CASE_CLOSED_PAYMENT_RESOLVED", "GUARD_BLOCKED"} :
                trail' = trail \cup {<<why, cur[w]>>}
  BY <1>4 DEF AuditClose, GuardBlocks
<1>5. ASSUME NEW w \in Workers, IgnoreStale(w)
      PROVE  /\ trail' = trail \cup {<<"EVENT_STALE_IGNORED", cur[w]>>}
             /\ Stale(w) /\ Pay(w) \in Payments /\ cur[w] \in Events
  BY <1>5 DEF IgnoreStale, HoldsJob
<1>6. CASE UNCHANGED vars
  BY <1>6 DEF vars
<1>7. QED
  BY <1>1, <1>2, <1>3, <1>4, <1>5, <1>6 DEF Next, OwnStep

LEMMA StalePreserved ==
    ASSUME Inv, RowsDated, StaleOnlyBehindNewer, [Next]_vars
    PROVE  StaleOnlyBehindNewer'
<1> USE DEF Inv
<1>0. raw \subseteq raw'
  BY TablesGrow
<1>1. ASSUME NEW e \in Events, <<"EVENT_STALE_IGNORED", e>> \in trail'
      PROVE  \E f \in raw' : /\ EventTime[f] > EventTime[e]
                             /\ EventPayment[f] \in Payments
                             /\ ChainKey(EventPayment[f]) = ChainKey(EventPayment[e])
  <2>1. CASE <<"EVENT_STALE_IGNORED", e>> \in trail
    BY <1>0, <2>1 DEF StaleOnlyBehindNewer
  <2>2. CASE <<"EVENT_STALE_IGNORED", e>> \notin trail
    <3>1. PICK w \in Workers : cur[w] = e /\ Stale(w) /\ Pay(w) \in Payments
      BY <1>1, <2>2, StaleBehindRow
    <3>2. EventTime[e] < cases[Chain(w)].last /\ EventTime[e] \in Nat /\ Chain(w) \in Chains
      BY <3>1, ConstantsAssumption DEF Stale, Chain, Chains
    <3>3. cases[Chain(w)].last \in Nat
      BY <3>2 DEF TypeOK, CaseRow
    <3>4. PICK f \in raw : /\ EventPayment[f] \in Payments
                           /\ ChainKey(EventPayment[f]) = Chain(w)
                           /\ EventTime[f] = cases[Chain(w)].last
      BY <3>2, <3>3 DEF RowsDated
    <3>5. QED
      BY <1>0, <3>1, <3>2, <3>3, <3>4 DEF Chain, Pay
  <2>3. QED
    BY <2>1, <2>2
<1>2. QED
  BY <1>1 DEF StaleOnlyBehindNewer
-----------------------------------------------------------------------------
(* A row for an execution is recorded only where the guard admitted it.    *)
LEMMA ScheduledUnderCapPreserved ==
    ASSUME Inv, ScheduledUnderCap, [Next]_vars
    PROVE  ScheduledUnderCap'
<1>1. ASSUME NEW w \in Workers, assign_attempt_n(w)
      PROVE  ScheduledUnderCap'
  BY <1>1 DEF assign_attempt_n, ScheduledUnderCap
<1>2. ASSUME NEW w \in Workers, NEW a \in Decidable, NEW timely \in BOOLEAN,
             Decide(w, a, timely)
      PROVE  ScheduledUnderCap'
  <2> DEFINE r == [payment |-> Pay(w), version |-> PolicyVersion[w],
                   attempt_n |-> number[w], action |-> a]
  <2>1. a = "SCHEDULE_AT" => number[w] < AttemptCap
    BY <1>2 DEF Decide, GuardAdmits, OBLIGATION_KIND
  <2>2. decisions' \subseteq decisions \cup {r}
    BY <1>2, DecideStep
  <2>3. r.action = a /\ r.attempt_n = number[w]
    OBVIOUS
  <2> HIDE DEF r
  <2>4. QED
    BY <2>1, <2>2, <2>3 DEF ScheduledUnderCap
<1>3. CASE /\ ~ \E w \in Workers : assign_attempt_n(w)
           /\ ~ \E w \in Workers, a \in Decidable, timely \in BOOLEAN : Decide(w, a, timely)
  BY <1>3, LedgerUntouched DEF ScheduledUnderCap
<1>4. QED
  BY <1>1, <1>2, <1>3

(* The executions of one version on one chain stand at different positions *)
(* below the cap, so there are fewer of them than the cap.                 *)
LEMMA DistinctPositionsBelowCap ==
    ASSUME Inv, AttemptPositionsDense, ScheduledUnderCap
    PROVE  ExecutionsWithinCap
<1> SUFFICES ASSUME NEW c \in Chains, NEW v \in Versions
             PROVE  Cardinality(ScheduledOn(c, v)) <= AttemptCap - 1
  BY DEF ExecutionsWithinCap
<1> DEFINE S == ScheduledOn(c, v)
           at == [d \in S |-> d.attempt_n]
<1>1. AttemptCap \in Nat /\ AttemptCap > 0
  BY ConstantsAssumption
<1>2. ASSUME NEW d \in S
      PROVE  /\ d \in DecisionRow /\ d.payment \in Payments /\ ChainKey(d.payment) = c
             /\ d.version = v /\ d.action = "SCHEDULE_AT"
             /\ d.attempt_n = attempt_n[d.payment]
             /\ d.attempt_n \in 1..(AttemptCap - 1)
  <2>1. d \in decisions /\ ChainKey(d.payment) = c /\ d.version = v /\ d.action = "SCHEDULE_AT"
    BY DEF ScheduledOn
  <2>2. d \in DecisionRow /\ d.payment \in Payments /\ d.attempt_n \in Nat \ {0}
    BY <2>1 DEF Inv, TypeOK, DecisionRow
  <2>3. d.attempt_n < AttemptCap
    BY <2>1 DEF ScheduledUnderCap
  <2>4. d.attempt_n = attempt_n[d.payment]
    BY <2>1 DEF Inv, DecidedAtPosition
  <2>5. QED
    BY <1>1, <2>1, <2>2, <2>3, <2>4
<1>3. ASSUME NEW d1 \in S, NEW d2 \in S, d1.attempt_n = d2.attempt_n
      PROVE  d1 = d2
  <2>1. d2.payment \in OnChain(d1.payment)
    BY <1>2 DEF OnChain
  <2>2. d1.payment = d2.payment
    BY <1>2, <1>3, <2>1 DEF AttemptPositionsDense
  <2>3. QED
    BY <1>2, <1>3, <2>2 DEF DecisionRow
<1>4. at \in Injection(S, 1..(AttemptCap - 1))
  <2>1. at \in [S -> 1..(AttemptCap - 1)]
    BY <1>2
  <2>2. \A d1, d2 \in S : at[d1] = at[d2] => d1 = d2
    BY <1>3
  <2> HIDE DEF at, S
  <2>3. QED
    BY <2>1, <2>2 DEF Injection, IsInjective
<1>5. IsFiniteSet(1..(AttemptCap - 1)) /\ Cardinality(1..(AttemptCap - 1)) = AttemptCap - 1
  BY <1>1, FS_Interval
<1> HIDE DEF at, S
<1>6. Cardinality(S) <= AttemptCap - 1
  BY <1>4, <1>5, FS_Injection
<1>7. QED
  BY <1>6 DEF S
-----------------------------------------------------------------------------
(* A decision is recorded by a worker whose snapshot was not resolved, and *)
(* such a snapshot comes only of a payment that is not settled.            *)
LEMMA WindowCloses ==
    ASSUME Inv, Grounded, [Next]_vars, NEW q \in settled, ~ActingOnUnresolved(q)
    PROVE  /\ ~ActingOnUnresolved(q)'
           /\ \A d \in decisions' \ decisions : d.payment # q
<1> USE DEF Inv
<1>1. ASSUME NEW u \in Workers, pc'[u] \in {"open", "read_case", "assign", "decide"},
             EventPayment[cur'[u]] = q, ~resolved'[u]
      PROVE  FALSE
  <2>1. ~(pc[u] \in {"open", "read_case", "assign", "decide"} /\ Pay(u) = q /\ ~resolved[u])
    BY DEF ActingOnUnresolved
  <2>2. CASE ~OwnStep(u)
    BY <1>1, <2>1, <2>2, OthersStandStill DEF Pay
  <2>3. CASE claim_jobs(u) \/ finish_job(u) \/ Crash(u)
    <3>1. \E B : TakeUp(u, B)
      BY <2>3 DEF claim_jobs, finish_job, Crash
    <3>2. QED
      BY <1>1, <3>1, TakenUp
  <2>4. CASE RefreshState(u)
    BY <1>1, <2>4 DEF RefreshState, Pay, TypeOK
  <2>5. CASE open_case(u) \/ ReadCase(u) \/ assign_attempt_n(u)
    BY <1>1, <2>1, <2>5 DEF open_case, ReadCase, assign_attempt_n, Pay, localVars
  <2>6. CASE \/ RejectPayload(u) \/ RefreshFails(u) \/ IgnoreStale(u) \/ CloseCase(u)
             \/ AuditClose(u) \/ AuditDecision(u) \/ AdvanceCase(u)
             \/ \E a \in Decidable, timely \in BOOLEAN :
                   Decide(u, a, timely) \/ GuardBlocks(u, a, timely)
    <3>1. pc'[u] \in {"failed", "pending", "done", "audit_close", "audit_decision", "advance"}
      BY <2>6 DEF RejectPayload, RefreshFails, IgnoreStale, CloseCase, AuditClose,
                  AuditDecision, AdvanceCase, Decide, GuardBlocks, Goto, TypeOK
    <3>2. QED
      BY <1>1, <3>1
  <2>7. QED
    BY <2>2, <2>3, <2>4, <2>5, <2>6 DEF OwnStep, WorkerStep
<1>2. ASSUME NEW d \in decisions' \ decisions
      PROVE  d.payment # q
  <2>1. PICK w \in Workers, a \in Decidable, timely \in BOOLEAN : Decide(w, a, timely)
    <3>1. ASSUME NEW w \in Workers, assign_attempt_n(w)
          PROVE  decisions' = decisions
      BY <3>1 DEF assign_attempt_n
    <3>2. QED
      BY <3>1, LedgerUntouched
  <2>2. pc[w] = "decide" /\ ~resolved[w]
    BY <2>1 DEF Decide, Grounded
  <2>3. Pay(w) # q
    BY <2>2 DEF ActingOnUnresolved
  <2> DEFINE r == [payment |-> Pay(w), version |-> PolicyVersion[w],
                   attempt_n |-> number[w], action |-> a]
  <2>4. decisions' \subseteq decisions \cup {r}
    BY <2>1, DecideStep
  <2>5. r.payment = Pay(w)
    OBVIOUS
  <2> HIDE DEF r
  <2>6. QED
    BY <2>3, <2>4, <2>5
<1>3. QED
  BY <1>1, <1>2 DEF ActingOnUnresolved, Pay
-----------------------------------------------------------------------------
(* What the workers know and what the tables say, over and above Inv.      *)
Knowledge == Received /\ Grounded /\ RowsDated

(* Whatever the interleaving, the crashes and the reclaims, what a worker  *)
(* holds was stored, where it stands it has the evidence for, and the case *)
(* clocks are dated by stored events (worker.py, _process_one; store.py).  *)
THEOREM KnowledgeInvariance == Spec => []Knowledge
<1>1. Init => Knowledge /\ CaseRowJustified
  BY DEF Init, Knowledge, Received, Grounded, RowsDated, CaseRowJustified, Chains
<1>2. Inv /\ Knowledge /\ CaseRowJustified /\ [Next]_vars => (Knowledge /\ CaseRowJustified)'
  BY ReceivedPreserved, GroundedPreserved, RowsPreserved DEF Knowledge
<1>3. QED
  BY <1>1, <1>2, Invariance, PTL DEF Spec

(* No job ends in silence, for any number of workers, crashes and reclaims:*)
(* whoever ends a job, possibly long after another worker reclaimed it,    *)
(* has a decision or a row of the trail to show (worker.py, _process_one). *)
THEOREM NoJobIsSilent == Spec => []NoSilentDone
<1>1. Init => NoSilentDone
  BY DEF Init, NoSilentDone
<1>2. Inv /\ Knowledge /\ NoSilentDone /\ [Next]_vars => NoSilentDone'
  BY NoSilentDonePreserved DEF Knowledge
<1>3. QED
  BY <1>1, <1>2, Invariance, KnowledgeInvariance, PTL DEF Spec

(* The case row, which workers overwrite without looking, is never ahead   *)
(* of the decisions and of the gateway (store.py, advance_case).           *)
THEOREM CaseRowsJustified == Spec => []CaseRowJustified
<1>1. Init => CaseRowJustified
  BY DEF Init, CaseRowJustified
<1>2. Inv /\ Knowledge /\ CaseRowJustified /\ [Next]_vars => CaseRowJustified'
  BY RowsPreserved DEF Knowledge
<1>3. QED
  BY <1>1, <1>2, Invariance, KnowledgeInvariance, PTL DEF Spec

(* What is dismissed as stale stands behind a newer event of its own chain *)
(* that was received, though the row it was compared with may have been    *)
(* written by any worker at any time (worker.py, stale event).             *)
THEOREM StaleStandsBehindNewer == Spec => []StaleOnlyBehindNewer
<1>1. Init => StaleOnlyBehindNewer
  BY DEF Init, StaleOnlyBehindNewer
<1>2. Inv /\ Knowledge /\ StaleOnlyBehindNewer /\ [Next]_vars => StaleOnlyBehindNewer'
  BY StalePreserved DEF Knowledge
<1>3. QED
  BY <1>1, <1>2, Invariance, KnowledgeInvariance, PTL DEF Spec

(* The cap on executions holds on every chain, for any cap, any number of  *)
(* payments on the chain and any interleaving of the workers: the guard    *)
(* reads a position, and positions are dense, distinct and kept.           *)
THEOREM CapHolds == Spec => []ExecutionsWithinCap
<1>1. Init => ScheduledUnderCap
  BY DEF Init, ScheduledUnderCap
<1>2. Inv /\ ScheduledUnderCap /\ [Next]_vars => ScheduledUnderCap'
  BY ScheduledUnderCapPreserved
<1>3. Inv /\ AttemptPositionsDense /\ ScheduledUnderCap => ExecutionsWithinCap
  BY DistinctPositionsBelowCap
<1>4. QED
  BY <1>1, <1>2, <1>3, Invariance, PositionsDense, PTL DEF Spec

(* The window in which a late authorisation is missed closes for good once *)
(* the last snapshot from before it is used up (worker.py, refresh).       *)
THEOREM LateAuthorisationWindowCloses == Spec => LateAuthWindowCloses
<1>1. Inv /\ Knowledge /\ [Next]_vars => WindowStaysClosed
  BY WindowCloses DEF Knowledge, WindowStaysClosed
<1>2. QED
  BY <1>1, Invariance, KnowledgeInvariance, PTL DEF Spec, LateAuthWindowCloses
-----------------------------------------------------------------------------
(* The comparison of a worker stands until another one, with a newer event *)
(* of the chain, writes the case row: its own steps do not disturb it.     *)
LEMMA OvertakenByAnother ==
    ASSUME Inv, [Next]_vars, NEW w \in Workers, Overtaken(w)', ~Overtaken(w)
    PROVE  \E u \in Workers \ {w} : EventTime[cur[u]] > EventTime[cur[w]] /\ SetsClock(u, Chain(w))
<1> USE DEF Inv
<1> DEFINE Checked == {"close", "assign", "decide", "audit_decision", "advance"}
           chain == ChainKey(EventPayment[cur'[w]])
<1>0. pc'[w] \in Checked /\ EventTime[cur'[w]] < cases'[chain].last
  BY DEF Overtaken, Chain, Pay
<1>1. CASE pc'[w] = pc[w] /\ cur'[w] = cur[w]
  <2>1. pc[w] \in Checked /\ cur[w] \in Events /\ Pay(w) \in Payments /\ chain = Chain(w)
    BY <1>0, <1>1 DEF HoldsJob, Chain, Pay
  <2>2. EventTime[cur[w]] \in Nat /\ Chain(w) \in Chains /\ cases[Chain(w)].last \in Nat
    BY <2>1, ConstantsAssumption DEF Chain, Chains, TypeOK, CaseRow
  <2>3. cases'[Chain(w)] # cases[Chain(w)]
    BY <1>0, <1>1, <2>1, <2>2 DEF Overtaken
  <2>4. PICK u \in Workers, s \in {"OPEN", "DECIDED", "CLOSED_PAYMENT_RESOLVED"} :
           /\ cases' = [cases EXCEPT ![Chain(u)] = [state |-> s, last |-> EventTime[cur[u]]]]
           /\ pc[u] \in {"open", "close", "advance"}
    BY <2>3, RowWritten
  <2>5. Chain(u) = Chain(w) /\ cases'[Chain(w)].last = EventTime[cur[u]]
    BY <2>2, <2>3, <2>4 DEF TypeOK
  <2>6. EventTime[cur[w]] < EventTime[cur[u]]
    BY <1>0, <1>1, <2>1, <2>5
  <2>7. u # w
    BY <2>2, <2>6
  <2>8. EventTime[cur[u]] \in Nat
    BY <2>4, ConstantsAssumption DEF HoldsJob
  <2>9. QED
    BY <2>2, <2>4, <2>5, <2>6, <2>7, <2>8 DEF SetsClock
<1>2. CASE OwnStep(w) /\ ~(pc'[w] = pc[w] /\ cur'[w] = cur[w])
  <2>1. ASSUME NEW B, TakeUp(w, B)
        PROVE  FALSE
    BY <1>0, <2>1, TakenUp
  <2>2. ~claim_jobs(w) /\ ~finish_job(w) /\ ~Crash(w)
    BY <2>1 DEF claim_jobs, finish_job, Crash
  <2>3. cur' = cur
    BY <1>2, <2>2 DEF OwnStep, WorkerStep, RejectPayload, RefreshState, RefreshFails,
                open_case, IgnoreStale, ReadCase, CloseCase, AuditClose, assign_attempt_n,
                Decide, GuardBlocks, AuditDecision, AdvanceCase, localVars
  <2>4. CASE ReadCase(w)
    BY <1>0, <2>3, <2>4 DEF ReadCase, Stale, Chain, Pay, caseVars
  <2>5. CASE assign_attempt_n(w) \/ AuditDecision(w)
             \/ \E a \in Decidable, timely \in BOOLEAN : Decide(w, a, timely)
    <3>1. cases' = cases /\ pc[w] \in {"assign", "decide", "audit_decision"}
      BY <2>5 DEF assign_attempt_n, AuditDecision, Decide, caseVars
    <3>2. QED
      BY <1>0, <2>3, <3>1 DEF Overtaken, Chain, Pay
  <2>6. CASE \/ RejectPayload(w) \/ RefreshState(w) \/ RefreshFails(w) \/ open_case(w)
             \/ IgnoreStale(w) \/ CloseCase(w) \/ AuditClose(w) \/ AdvanceCase(w)
             \/ \E a \in Decidable, timely \in BOOLEAN : GuardBlocks(w, a, timely)
    <3>1. pc'[w] \in {"failed", "open", "pending", "read_case", "done", "audit_close"}
      BY <2>6 DEF RejectPayload, RefreshState, RefreshFails, open_case, IgnoreStale,
                  CloseCase, AuditClose, AdvanceCase, GuardBlocks, Goto, TypeOK
    <3>2. QED
      BY <1>0, <3>1
  <2>7. QED
    BY <1>2, <2>2, <2>4, <2>5, <2>6 DEF OwnStep, WorkerStep
<1>3. QED
  BY <1>1, <1>2, OthersStandStill

(* A clock goes back in the write of a worker that was overtaken.          *)
LEMMA LostByTheOvertaken ==
    ASSUME Inv, [Next]_vars, NEW c \in Chains,
           cases[c].state # "none", cases'[c].last < cases[c].last
    PROVE  \E w \in Workers : Overtaken(w) /\ SetsClock(w, c)
<1>1. cases \in [Chains -> CaseRow] /\ cases[c].last \in Nat
  BY DEF Inv, TypeOK, CaseRow
<1>2. cases'[c] # cases[c]
  BY <1>1
<1>3. PICK w \in Workers, s \in {"OPEN", "DECIDED", "CLOSED_PAYMENT_RESOLVED"} :
         /\ cases' = [cases EXCEPT ![Chain(w)] = [state |-> s, last |-> EventTime[cur[w]]]]
         /\ s = "OPEN" => cases[Chain(w)].state = "none"
         /\ s = "DECIDED" => pc[w] = "advance"
         /\ s = "CLOSED_PAYMENT_RESOLVED" => pc[w] = "close"
  BY <1>2, RowWritten
<1>4. c = Chain(w) /\ cases'[c].last = EventTime[cur[w]]
  BY <1>1, <1>2, <1>3
<1>5. pc[w] \in {"close", "advance"}
  BY <1>3, <1>4
<1>6. QED
  BY <1>3, <1>4, <1>5 DEF Overtaken, SetsClock

(* What the repository's sentence about case state comes to with any number*)
(* of workers: the clock is lost to a race of two of them and to nothing   *)
(* else (worker.py, stale event; store.py, advance_case).                  *)
THEOREM ClockIsLostOnlyToARace == Spec => CaseClockLostOnlyToARace
<1>1. Inv /\ [Next]_vars => LostOnlyWhenOvertaken
  BY OvertakenByAnother, LostByTheOvertaken DEF LostOnlyWhenOvertaken
<1>2. QED
  BY <1>1, Invariance, PTL DEF Spec, CaseClockLostOnlyToARace

(* The sentence itself is true of one worker, which nobody can overtake;   *)
(* what run case_clock_race refutes needs a second one.                    *)
THEOREM OneWorkerKeepsTheClock ==
    ASSUME \A u, v \in Workers : u = v
    PROVE  Spec => CaseClockNeverRegresses
<1> DEFINE NoneOvertaken == \A w \in Workers : ~Overtaken(w)
<1>1. Init => NoneOvertaken
  BY DEF Init, Overtaken
<1>2. Inv /\ NoneOvertaken /\ [Next]_vars => NoneOvertaken'
  BY OvertakenByAnother
<1>3. Inv /\ NoneOvertaken /\ [Next]_vars => ClockKept
  <2> SUFFICES ASSUME Inv, NoneOvertaken, [Next]_vars, NEW c \in Chains, cases[c].state # "none"
               PROVE  cases'[c].last >= cases[c].last
    BY DEF ClockKept
  <2>1. ~(cases'[c].last < cases[c].last)
    BY LostByTheOvertaken
  <2>2. cases[c].last \in Nat /\ cases'[c].last \in Nat
    BY TypePreserved DEF Inv, TypeOK, CaseRow
  <2>3. QED
    BY <2>1, <2>2
<1> HIDE DEF NoneOvertaken
<1>4. QED
  BY <1>1, <1>2, <1>3, Invariance, PTL DEF Spec, CaseClockNeverRegresses
=============================================================================
