---------------------------- MODULE SearchProofs ----------------------------
(***************************************************************************)
(* The search of recovery/invariants.py and the ledger that reads what it  *)
(* leaves, for orderings of any length over any number of payments and     *)
(* deliveries, any times, and every calendar and guard.                    *)
(***************************************************************************)
EXTENDS Ledger, FiniteSetTheorems, SequenceTheorems, WellFoundedInduction, TLAPS

LEMMA SeqFacts ==
    ASSUME NEW S, NEW s \in Seq(S)
    PROVE  /\ Len(s) \in Nat /\ DOMAIN s = 1..Len(s)
           /\ \A i \in 1..Len(s) : s[i] \in S
OBVIOUS

LEMMA Appended ==
    ASSUME NEW S, NEW s \in Seq(S), NEW x \in S
    PROVE  /\ Append(s, x) \in Seq(S) /\ Len(Append(s, x)) = Len(s) + 1
           /\ DOMAIN Append(s, x) = 1..(Len(s) + 1)
           /\ \A i \in 1..Len(s) : Append(s, x)[i] = s[i]
           /\ Append(s, x)[Len(s) + 1] = x
OBVIOUS

(* What the types say of a state, element by element.                      *)
LEMMA Elements ==
    ASSUME TypeOK
    PROVE  /\ Len(event) \in Nat /\ DOMAIN event = 1..Len(event)
           /\ DOMAIN job = 1..Len(event)
           /\ \A e \in 1..Len(event) :
                 /\ event[e].payment \in Payments /\ event[e].created_at \in Nat
                 /\ job[e] \in JobState
           /\ Len(audit) \in Nat /\ DOMAIN audit = 1..Len(audit)
           /\ \A i \in 1..Len(audit) :
                 audit[i].type \in PreCase \cup OfCase /\ audit[i].event \in 1..Len(event)
           /\ Len(decisions) \in Nat /\ DOMAIN decisions = 1..Len(decisions)
           /\ Len(chain) \in Nat /\ DOMAIN chain = 1..Len(chain)
<1>1. Times \subseteq Nat
  BY SearchAssumption
<1>2. /\ Len(event) \in Nat /\ DOMAIN event = 1..Len(event)
      /\ \A e \in 1..Len(event) : event[e] \in [payment : Payments, created_at : Times]
  BY SeqFacts, Zenon DEF TypeOK
<1>3. /\ DOMAIN job = 1..Len(event)
      /\ \A e \in 1..Len(event) : job[e] \in JobState
  BY DEF TypeOK
<1>4. /\ Len(audit) \in Nat /\ DOMAIN audit = 1..Len(audit)
      /\ \A i \in 1..Len(audit) : audit[i] \in Row
  <2>1. audit \in Seq(Row)
    BY Zenon DEF TypeOK
  <2> QED
    BY <2>1, SeqFacts, Zenon
<1>5. /\ Len(decisions) \in Nat /\ DOMAIN decisions = 1..Len(decisions)
      /\ Len(chain) \in Nat /\ DOMAIN chain = 1..Len(chain)
  BY DEF TypeOK
<1> QED
  BY <1>1, <1>2, <1>3, <1>4, <1>5 DEF Row

(* A table to which a row of R each is added at the end.                   *)
Written(R) ==
    /\ \A i \in DOMAIN audit : i \in DOMAIN audit' /\ audit'[i] = audit[i]
    /\ \A i \in DOMAIN audit' :
          i \in DOMAIN audit \/ (i > Len(audit) /\ audit'[i] \in R)
    /\ \A r \in R : \E n \in DOMAIN audit' :
          /\ n > Len(audit) /\ audit'[n] = r
          /\ \A i \in DOMAIN audit' : i > Len(audit) /\ audit'[i] = r => i = n
    /\ Len(audit') \in Nat /\ DOMAIN audit' = 1..Len(audit') /\ Len(audit) <= Len(audit')

LEMMA WriteNone ==
    ASSUME TypeOK, UNCHANGED audit
    PROVE  Written({})
<1>1. Len(audit) \in Nat /\ DOMAIN audit = 1..Len(audit)
  BY Elements
<1> QED
  BY <1>1 DEF Written

LEMMA WriteOne ==
    ASSUME TypeOK, NEW r, audit' = Append(audit, r)
    PROVE  Written({r}) /\ (r \in Row => audit' \in Seq(Row))
<1>1. audit \in Seq(Row) /\ Len(audit) \in Nat
  BY DEF TypeOK
<1>2. audit \in Seq(Row \cup {r})
  BY <1>1
<1>3. /\ DOMAIN audit = 1..Len(audit) /\ DOMAIN audit' = 1..(Len(audit) + 1)
      /\ Len(audit') = Len(audit) + 1
      /\ \A i \in 1..Len(audit) : audit'[i] = audit[i]
      /\ audit'[Len(audit) + 1] = r
  BY <1>2
<1>4. \A i \in DOMAIN audit' : i \in DOMAIN audit \/ i = Len(audit) + 1
  BY <1>1, <1>3
<1>5. Len(audit) + 1 \in DOMAIN audit' /\ Len(audit) + 1 > Len(audit)
  BY <1>1, <1>3
<1>6. r \in Row => audit' \in Seq(Row)
  BY <1>1
<1> QED
  BY <1>1, <1>3, <1>4, <1>5, <1>6 DEF Written

LEMMA WriteThree ==
    ASSUME TypeOK, NEW q, NEW r, NEW s, q # r, r # s, s # q, audit' = audit \o <<q, r, s>>
    PROVE  /\ Written({q, r, s})
           /\ q \in Row /\ r \in Row /\ s \in Row => audit' \in Seq(Row)
<1> DEFINE T == Row \cup {q, r, s}
           three == <<q, r, s>>
<1>1. PICK n \in Nat : n = Len(audit) /\ DOMAIN audit = 1..n /\ audit \in Seq(Row)
  BY DEF TypeOK
<1>2. audit \in Seq(T)
  BY <1>1
<1>3. /\ three \in Seq(T) /\ Len(three) = 3 /\ three[1] = q /\ three[2] = r /\ three[3] = s
      /\ q \in Row /\ r \in Row /\ s \in Row => three \in Seq(Row)
  OBVIOUS
<1> HIDE DEF T, three
<1>4. /\ audit' \in Seq(T) /\ Len(audit') = n + 3
      /\ \A i \in 1..(n + 3) : audit'[i] = IF i <= n THEN audit[i] ELSE three[i - n]
  BY <1>1, <1>2, <1>3, ConcatProperties, Zenon DEF three
<1>5. q \in Row /\ r \in Row /\ s \in Row => audit' \in Seq(Row)
  BY <1>1, <1>3, ConcatProperties, Zenon DEF three
<1>6. PICK D : D = DOMAIN audit' /\ D = 1..(n + 3)
  BY <1>4
<1>7. /\ \A i \in DOMAIN audit : i \in D /\ ~(i > n) /\ audit'[i] = audit[i]
      /\ audit'[n + 1] = q /\ audit'[n + 2] = r /\ audit'[n + 3] = s
  <2>1. \A i \in 1..n : i \in 1..(n + 3) /\ i <= n
    OBVIOUS
  <2>2. /\ n + 1 \in 1..(n + 3) /\ ~(n + 1 <= n) /\ (n + 1) - n = 1
        /\ n + 2 \in 1..(n + 3) /\ ~(n + 2 <= n) /\ (n + 2) - n = 2
        /\ n + 3 \in 1..(n + 3) /\ ~(n + 3 <= n) /\ (n + 3) - n = 3
    OBVIOUS
  <2>3. audit'[n + 1] = three[1] /\ audit'[n + 2] = three[2] /\ audit'[n + 3] = three[3]
    BY <1>4, <2>2
  <2> QED
    BY <1>1, <1>3, <1>4, <1>6, <2>1, <2>3
<1>8. /\ \A i \in D : i \in DOMAIN audit \/ i = n + 1 \/ i = n + 2 \/ i = n + 3
      /\ n + 1 \in D /\ n + 2 \in D /\ n + 3 \in D
      /\ n + 1 > n /\ n + 2 > n /\ n + 3 > n
  BY <1>1, <1>6
<1>9. \A w \in {q, r, s} : \E k \in D :
          k > n /\ audit'[k] = w /\ \A i \in D : i > n /\ audit'[i] = w => i = k
  BY <1>7, <1>8
<1>10. \A i \in D : i \in DOMAIN audit \/ (i > n /\ audit'[i] \in {q, r, s})
  BY <1>7, <1>8
<1>11. Len(audit') \in Nat /\ D = 1..Len(audit') /\ n <= Len(audit')
  BY <1>4, <1>6
<1>12. Written({q, r, s})
  <2>1. n = Len(audit) /\ D = DOMAIN audit'
    BY <1>1, <1>6
  <2>2. /\ \A i \in DOMAIN audit : i \in DOMAIN audit' /\ audit'[i] = audit[i]
        /\ Len(audit') \in Nat /\ DOMAIN audit' = 1..Len(audit') /\ Len(audit) <= Len(audit')
    BY <1>7, <1>11, <2>1
  <2>3. \A i \in DOMAIN audit' :
            i \in DOMAIN audit \/ (i > Len(audit) /\ audit'[i] \in {q, r, s})
    BY <1>10, <2>1, Zenon
  <2>4. \A w \in {q, r, s} : \E k \in DOMAIN audit' :
            /\ k > Len(audit) /\ audit'[k] = w
            /\ \A i \in DOMAIN audit' : i > Len(audit) /\ audit'[i] = w => i = k
    <3> TAKE w \in {q, r, s}
    <3>1. PICK k \in D :
              k > n /\ audit'[k] = w /\ \A i \in D : i > n /\ audit'[i] = w => i = k
      BY <1>9
    <3>2. k \in DOMAIN audit' /\ k > Len(audit)
      BY <2>1, <3>1
    <3>3. \A i \in DOMAIN audit' : i > Len(audit) /\ audit'[i] = w => i = k
      BY <2>1, <3>1
    <3> QED
      BY <3>1, <3>2, <3>3, Zenon
  <2> QED
    BY <2>2, <2>3, <2>4, Zenon DEF Written
<1> QED
  BY <1>5, <1>12
-----------------------------------------------------------------------------
(* What the jobs of a claim and of a finished run become.                  *)
LEMMA FunctionIsSeq ==
    ASSUME NEW S, NEW n \in Nat, NEW f \in [1..n -> S]
    PROVE  f \in Seq(S) /\ Len(f) = n
<1>1. f \in Seq(S)
  BY SeqDef
<1>2. Len(f) \in Nat /\ 1..Len(f) = 1..n
  BY <1>1
<1> QED
  BY <1>1, <1>2

Jobs(f) == f \in Seq(JobState) /\ Len(f) = Len(event)

LEMMA Claiming ==
    ASSUME TypeOK, claim_jobs
    PROVE  /\ Jobs(job')
           /\ \A e \in 1..Len(event) :
                 job'[e] = IF job[e] = "pending" THEN "claimed" ELSE job[e]
<1>1. Len(event) \in Nat /\ DOMAIN job = 1..Len(event) /\ \A e \in 1..Len(event) : job[e] \in JobState
  BY Elements
<1>2. job' = [e \in 1..Len(event) |-> IF job[e] = "pending" THEN "claimed" ELSE job[e]]
  BY <1>1 DEF claim_jobs
<1>3. job' \in [1..Len(event) -> JobState]
  BY <1>1, <1>2 DEF JobState
<1> QED
  BY <1>1, <1>2, <1>3, FunctionIsSeq DEF Jobs

LEMMA Moving ==
    ASSUME TypeOK, NEW e \in 1..Len(event), NEW s \in JobState, job' = [job EXCEPT ![e] = s]
    PROVE  /\ Jobs(job')
           /\ \A d \in 1..Len(event) : job'[d] = IF d = e THEN s ELSE job[d]
<1>1. job \in Seq(JobState) /\ Len(job) = Len(event)
  BY DEF TypeOK
<1> QED
  BY <1>1, ExceptSeq DEF Jobs

(* A job in work is claimed, and no other run has it.                      *)
Claims == \A e \in run.queue : job[e] = "claimed"

LEMMA TakingUp ==
    ASSUME TypeOK, Claims, NEW e, TakeUp(e)
    PROVE  /\ e \in 1..Len(event) /\ job[e] = "claimed"
           /\ run'.queue = run.queue \ {e} /\ run'.workers = run.workers
           /\ run'.decided = run.decided
           /\ run' \in Runs
           /\ UNCHANGED <<event, settled, world, trace, actions>>
<1>1. run \in Runs
  BY DEF TypeOK
<1>2. e \in run.queue /\ run' = [run EXCEPT !.queue = @ \ {e}]
      /\ UNCHANGED <<event, settled, world, trace, actions>>
  BY DEF TakeUp
<1>3. DOMAIN event = 1..Len(event)
  BY Elements
<1> QED
  BY <1>1, <1>2, <1>3 DEF Claims, Runs

Opening(e) == row(IF Opened THEN "case.attached" ELSE "case.opened", e)

(* What _process_one leaves of a job, whatever its verdict.                *)
Ended(e, verdict) ==
    /\ e \in 1..Len(event) /\ job[e] = "claimed"
    /\ Written({row("refreshed", e), Opening(e), row(verdict, e)})
    /\ audit' \in Seq(Row)
    /\ Jobs(job')
    /\ \A d \in 1..Len(event) : job'[d] = IF d = e THEN "done" ELSE job[d]
    /\ run'.queue = run.queue \ {e} /\ run'.workers = run.workers /\ run'.decided = run.decided
    /\ run' \in Runs
    /\ UNCHANGED <<event, settled, fail_next, world, trace, actions>>

LEMMA Processing ==
    ASSUME TypeOK, Claims, NEW e, NEW verdict \in Verdicts, Process(e, verdict)
    PROVE  Ended(e, verdict)
<1>1. TakeUp(e) /\ job' = [job EXCEPT ![e] = "done"] /\ UNCHANGED fail_next
      /\ audit' = audit \o <<row("refreshed", e), Opening(e), row(verdict, e)>>
  BY DEF Process, Opening
<1>2. e \in 1..Len(event) /\ job[e] = "claimed" /\ DOMAIN event = 1..Len(event)
  BY <1>1, TakingUp, Elements
<1>3. /\ Jobs(job')
      /\ \A d \in 1..Len(event) : job'[d] = IF d = e THEN "done" ELSE job[d]
  <2>1. "done" \in JobState
    BY DEF JobState
  <2> QED
    BY <1>1, <1>2, <2>1, Moving
<1>4. /\ row("refreshed", e) \in Row /\ Opening(e) \in Row /\ row(verdict, e) \in Row
      /\ row("refreshed", e) # Opening(e) /\ Opening(e) # row(verdict, e)
      /\ row(verdict, e) # row("refreshed", e)
  BY <1>2 DEF Row, row, Opening, Verdicts, OfCase, PreCase
<1>5. /\ Written({row("refreshed", e), Opening(e), row(verdict, e)})
      /\ audit' \in Seq(Row)
  BY <1>1, <1>4, WriteThree
<1> QED
  BY <1>1, <1>2, <1>3, <1>5, TakingUp, Zenon DEF Ended
-----------------------------------------------------------------------------
LEMMA Values ==
    /\ NoRun \in Runs /\ 0 \in Payments /\ CLOCK - Hour \in Int
    /\ MaxActions \in Nat /\ MaxEvents \in Nat /\ 0 \in 0..MaxRefusals /\ MaxRefusals \in Nat
<1>1. PaymentCount \in Nat \ {0} /\ MaxActions \in Nat /\ MaxEvents \in Nat
      /\ MaxRefusals \in Nat
  <2>1. PaymentCount \in Nat \ {0} /\ MaxActions \in Nat /\ MaxEvents \in Nat
        /\ MaxRefusals \in 0..1
    BY SearchAssumption, Zenon
  <2> QED
    BY <2>1
<1>2. 0 \in Payments
  BY <1>1 DEF Payments
<1>3. CLOCK - Hour \in Int
  BY DEF CLOCK, combine, Day, Minute, Hour
<1> QED
  BY <1>1, <1>2, <1>3 DEF NoRun, Runs

LEMMA TypedInitially == Init => TypeOK
<1> SUFFICES ASSUME Init PROVE TypeOK
  OBVIOUS
<1>1. /\ event = <<>> /\ job = <<>> /\ settled = {} /\ fail_next = FALSE
      /\ case = [payment_id |-> 0, state |-> "none", last_event_created_at |-> 0]
      /\ chain = <<>> /\ decisions = <<>> /\ audit = <<>>
      /\ world = [expires_at |-> None, pdn_shift |-> 0]
      /\ trace = [admitted |-> <<>>, decided_settled |-> {}, refusals |-> 0]
      /\ run = NoRun /\ actions = 0
  BY DEF Init
<1>2. \A S : <<>> \in Seq(S) /\ Len(<<>>) = 0
  OBVIOUS
<1>3. case \in Case /\ world \in World /\ trace \in Trace /\ run \in Runs /\ actions \in 0..MaxActions
  BY <1>1, <1>2, Values DEF Case, World, Trace
<1>4. IsInjective(chain)
  BY <1>1 DEF IsInjective
<1>5. 0 <= MaxEvents
  BY Values
<1> QED
  BY <1>1, <1>2, <1>3, <1>4, <1>5 DEF TypeOK

(* The calls that stand between two drains.                                *)
LEMMA CallsKeepTypes ==
    ASSUME TypeOK,
           \/ FailNext \/ ExpireOrder \/ ShiftPdnWindow \/ CrashWorker
           \/ \E p \in Payments : LateAuthorize(p)
           \/ \E p \in Payments, t \in Times : Deliver(p, t)
           \/ \E e \in Events : Redeliver(e)
    PROVE  TypeOK'
<1>1. run = NoRun /\ run' = run /\ actions' \in 0..MaxActions
  <2>1. run = NoRun /\ run' = run /\ actions < MaxActions /\ actions' = actions + 1
    BY DEF FailNext, ExpireOrder, ShiftPdnWindow, CrashWorker, LateAuthorize, Deliver,
           Redeliver, Counted
  <2>2. actions \in 0..MaxActions
    BY DEF TypeOK
  <2> QED
    BY <2>1, <2>2, Values
<1>2. case' = case /\ chain' = chain /\ decisions' = decisions
  BY DEF FailNext, ExpireOrder, ShiftPdnWindow, CrashWorker, LateAuthorize, Deliver,
         Redeliver, core
<1>3. run' \in Runs'
  BY <1>1, Values DEF NoRun, Runs
<1>4. CASE \E p \in Payments, t \in Times : Deliver(p, t)
  <2>1. PICK p \in Payments, t \in Times : Deliver(p, t)
    BY <1>4
  <2>2. /\ event' = Append(event, [payment |-> p, created_at |-> t])
        /\ job' = Append(job, "pending") /\ Len(event) < MaxEvents
        /\ audit' = Append(audit, row("webhook.received", Len(event) + 1))
        /\ UNCHANGED <<settled, fail_next, world, trace>>
    BY <2>1 DEF Deliver
  <2>3. [payment |-> p, created_at |-> t] \in [payment : Payments, created_at : Times]
    OBVIOUS
  <2>4. event \in Seq([payment : Payments, created_at : Times]) /\ Len(event) \in Nat
    BY Elements DEF TypeOK
  <2>5. /\ event' \in Seq([payment : Payments, created_at : Times])
        /\ Len(event') = Len(event) + 1 /\ DOMAIN event' = 1..(Len(event) + 1)
    <3> HIDE DEF Payments
    <3>1. \A S : \A s \in Seq(S), x \in S :
              /\ Append(s, x) \in Seq(S) /\ Len(Append(s, x)) = Len(s) + 1
              /\ DOMAIN Append(s, x) = 1..(Len(s) + 1)
      OBVIOUS
    <3> QED
      BY <2>2, <2>3, <2>4, <3>1, Zenon
  <2>6. Len(event') <= MaxEvents
    BY <2>2, <2>4, <2>5, Values
  <2>7. job' \in Seq(JobState) /\ Len(job') = Len(event')
    BY <2>2, <2>5 DEF TypeOK, JobState
  <2>8. audit' \in Seq(Row')
    <3>1. audit \in Seq(Row') /\ row("webhook.received", Len(event) + 1) \in Row'
      <4>1. row("webhook.received", Len(event) + 1) \in Row'
        BY <2>4, <2>5 DEF row, Row, PreCase
      <4>2. Row \subseteq Row'
        <5>1. DOMAIN event \subseteq DOMAIN event'
          BY <2>4, <2>5, Elements
        <5> QED
          BY <5>1 DEF Row
      <4>3. audit \in Seq(Row)
        BY DEF TypeOK
      <4> QED
        BY <4>1, <4>2, <4>3, SeqMonotonic, Zenon
    <3> QED
      BY <2>2, <3>1
  <2> QED
    BY <1>1, <1>2, <1>3, <2>2, <2>5, <2>6, <2>7, <2>8, Zenon DEF TypeOK, Case, World, Trace
<1>5. ASSUME event' = event /\ (job' = job \/ claim_jobs)
             /\ (audit' = audit \/ \E r \in Row : audit' = Append(audit, r))
             /\ settled' \subseteq Payments /\ fail_next' \in BOOLEAN
             /\ world' \in World /\ trace' \in Trace
      PROVE  TypeOK'
  <2>1. Jobs(job')
    BY <1>5, Claiming DEF Jobs, TypeOK
  <2>2. audit' \in Seq(Row)
    BY <1>5, WriteOne DEF TypeOK
  <2>3. Row' = Row /\ Runs' = Runs
    BY <1>5 DEF Row, Runs
  <2>4. run' \in Runs /\ case \in Case /\ chain \in Seq(Payments) /\ IsInjective(chain)
        /\ decisions \in Seq(Payments)
        /\ event \in Seq([payment : Payments, created_at : Times]) /\ Len(event) <= MaxEvents
    BY <1>1 DEF TypeOK
  <2>5. job' \in Seq(JobState) /\ Len(job') = Len(event')
    BY <1>5, <2>1 DEF Jobs
  <2> QED
    BY <1>1, <1>2, <1>5, <2>2, <2>3, <2>4, <2>5, Zenon DEF TypeOK
<1>6. settled \subseteq Payments /\ fail_next \in BOOLEAN /\ world \in World /\ trace \in Trace
  BY DEF TypeOK
<1>7. CASE \E e \in Events : Redeliver(e)
  <2>1. PICK e \in Events : Redeliver(e)
    BY <1>7
  <2>2. row("webhook.duplicate", e) \in Row
    BY <2>1 DEF Redeliver, row, Row, PreCase
  <2> QED
    BY <1>5, <1>6, <2>1, <2>2 DEF Redeliver
<1>8. CASE \E p \in Payments : LateAuthorize(p)
  BY <1>5, <1>6, <1>8 DEF LateAuthorize, core
<1>9. CASE CrashWorker
  BY <1>5, <1>6, <1>9 DEF CrashWorker, core
<1>10. CASE ExpireOrder
  <2>1. world' \in World
    BY <1>6, <1>10 DEF ExpireOrder, World
  <2> QED
    BY <1>5, <1>6, <1>10, <2>1 DEF ExpireOrder, core
<1>11. CASE ShiftPdnWindow
  <2>1. world' \in World
    BY <1>6, <1>11 DEF ShiftPdnWindow, World
  <2> QED
    BY <1>5, <1>6, <1>11, <2>1 DEF ShiftPdnWindow, core
<1>12. CASE FailNext
  <2>1. trace' \in Trace
    <3>1. trace.refusals + 1 \in 0..MaxRefusals
      BY <1>6, <1>12, Values DEF FailNext, Trace
    <3> QED
      BY <1>6, <1>12, <3>1 DEF FailNext, Trace
  <2> QED
    BY <1>5, <1>6, <1>12, <2>1 DEF FailNext, core
<1> QED
  BY <1>4, <1>7, <1>8, <1>9, <1>10, <1>11, <1>12

(* The start of a drain, the second worker's, and a refresh that fails.    *)
LEMMA ClaimsKeepTypes ==
    ASSUME TypeOK, Claims,
           \/ \E p \in Payments : RunWorker(p) \/ ConcurrentWorkers(p)
           \/ SecondWorker \/ \E e \in Events : RefreshFails(e)
    PROVE  TypeOK'
<1>1. /\ UNCHANGED <<event, settled, case, chain, decisions, world, trace>>
      /\ actions' \in 0..MaxActions
  <2>1. actions \in 0..MaxActions
    BY DEF TypeOK
  <2>2. actions' = actions \/ (actions < MaxActions /\ actions' = actions + 1)
    BY DEF RunWorker, ConcurrentWorkers, StartWorkers, Counted, SecondWorker, RefreshFails,
           TakeUp
  <2>3. actions' \in 0..MaxActions
    BY <2>1, <2>2, Values
  <2> QED
    BY <2>3 DEF RunWorker, ConcurrentWorkers, StartWorkers, SecondWorker, RefreshFails,
                TakeUp, core
<1>2. DOMAIN event = 1..Len(event) /\ DOMAIN job = 1..Len(event) /\ run \in Runs
      /\ fail_next \in BOOLEAN /\ audit \in Seq(Row)
  BY Elements DEF TypeOK
<1>3. Pending \in SUBSET DOMAIN event
  BY <1>2 DEF Pending
<1>4. Jobs(job') /\ run' \in Runs /\ fail_next' \in BOOLEAN /\ audit' \in Seq(Row)
  <2>1. CASE \E p \in Payments : RunWorker(p) \/ ConcurrentWorkers(p)
    <3>1. PICK p \in Payments, w \in {1, 2} : StartWorkers(w, p)
      BY <2>1 DEF RunWorker, ConcurrentWorkers
    <3>2. ToSet(decisions) \in SUBSET Payments
      <4>1. decisions \in Seq(Payments)
        BY DEF TypeOK
      <4> QED
        BY <4>1, SeqFacts DEF ToSet
    <3>3. [workers |-> w, index |-> p, queue |-> Pending, decided |-> ToSet(decisions)] \in Runs
      BY <1>3, <3>2 DEF Runs
    <3> QED
      BY <1>2, <3>1, <3>3, Claiming DEF StartWorkers, core
  <2>2. CASE SecondWorker
    <3>1. run' \in Runs
      <4>1. run' = [workers |-> 1, index |-> run.index, queue |-> Pending,
                    decided |-> run.decided]
        BY <1>2, <2>2 DEF SecondWorker, Runs
      <4> QED
        BY <1>2, <1>3, <4>1 DEF Runs
    <3> QED
      BY <1>2, <2>2, <3>1, Claiming DEF SecondWorker, core
  <2>3. CASE \E e \in Events : RefreshFails(e)
    <3>1. PICK e \in Events : RefreshFails(e)
      BY <2>3
    <3>2. TakeUp(e) /\ fail_next' = FALSE /\ job' = [job EXCEPT ![e] = "pending"]
          /\ audit' = Append(audit, row("refresh_failed", e))
      BY <3>1 DEF RefreshFails
    <3>3. e \in 1..Len(event) /\ run' \in Runs
      BY <3>2, TakingUp
    <3>4. row("refresh_failed", e) \in Row
      BY <1>2, <3>3 DEF row, Row, PreCase
    <3>5. "pending" \in JobState
      BY DEF JobState
    <3> QED
      BY <3>2, <3>3, <3>4, <3>5, WriteOne, Moving
  <2> QED
    BY <2>1, <2>2, <2>3
<1>5. Row' = Row /\ Runs' = Runs
  BY <1>1 DEF Row, Runs
<1>6. job' \in Seq(JobState) /\ Len(job') = Len(event')
  BY <1>1, <1>4 DEF Jobs
<1>7. case \in Case /\ chain \in Seq(Payments) /\ IsInjective(chain)
      /\ decisions \in Seq(Payments) /\ settled \subseteq Payments
      /\ world \in World /\ trace \in Trace
      /\ event \in Seq([payment : Payments, created_at : Times]) /\ Len(event) <= MaxEvents
  BY DEF TypeOK
<1> QED
  BY <1>1, <1>4, <1>5, <1>6, <1>7, Zenon DEF TypeOK

Verdict(e, verdict) ==
    \/ verdict = "stale_ignored" /\ IgnoreStale(e)
    \/ verdict = "closed_resolved" /\ CloseResolved(e)
    \/ verdict = "decision.recorded" /\ Decide(e)
    \/ verdict = "decision.duplicate" /\ SuppressDuplicate(e)

LEMMA VerdictEnds ==
    ASSUME TypeOK, Claims, NEW e, NEW verdict, Verdict(e, verdict)
    PROVE  Ended(e, verdict) /\ verdict \in Verdicts
<1>1. Process(e, verdict) /\ verdict \in Verdicts
  BY DEF Verdict, IgnoreStale, CloseResolved, Decide, SuppressDuplicate, Verdicts
<1> QED
  BY <1>1, Processing

LEMMA CaseRow ==
    ASSUME TypeOK, NEW e \in 1..Len(event)
    PROVE  /\ open_case(e) \in Case
           /\ \A s \in {"DECIDED", "CLOSED_PAYMENT_RESOLVED"} : advance_case(s, e) \in Case
<1>1. case \in Case /\ event[e].payment \in Payments /\ event[e].created_at \in Nat
  BY Elements DEF TypeOK
<1>2. open_case(e) \in Case
  BY <1>1 DEF open_case, Case
<1> QED
  BY <1>1, <1>2 DEF advance_case, Case

LEMMA Positions ==
    ASSUME TypeOK, NEW p \in Payments
    PROVE  assign_attempt_n(p) \in Seq(Payments) /\ IsInjective(assign_attempt_n(p))
<1>1. chain \in Seq(Payments) /\ IsInjective(chain)
      /\ Len(chain) \in Nat /\ DOMAIN chain = 1..Len(chain)
  BY Elements DEF TypeOK
<1>2. ASSUME p \notin ToSet(chain)
      PROVE  Append(chain, p) \in Seq(Payments) /\ IsInjective(Append(chain, p))
  <2>1. /\ Append(chain, p) \in Seq(Payments)
        /\ DOMAIN Append(chain, p) = 1..(Len(chain) + 1)
        /\ \A i \in 1..Len(chain) : Append(chain, p)[i] = chain[i]
        /\ Append(chain, p)[Len(chain) + 1] = p
    <3> HIDE DEF Payments
    <3> QED
      BY <1>1
  <2>2. \A i \in 1..Len(chain) : chain[i] # p
    BY <1>1, <1>2 DEF ToSet
  <2>3. \A i \in 1..(Len(chain) + 1) : i \in 1..Len(chain) \/ i = Len(chain) + 1
    BY <1>1
  <2> QED
    BY <1>1, <2>1, <2>2, <2>3 DEF IsInjective
<1> QED
  BY <1>1, <1>2 DEF assign_attempt_n

LEMMA VerdictsKeepTypes ==
    ASSUME TypeOK, Claims, NEW e, NEW verdict, Verdict(e, verdict)
    PROVE  TypeOK'
<1>1. Ended(e, verdict)
  BY VerdictEnds
<1>2. /\ e \in 1..Len(event) /\ Jobs(job') /\ audit' \in Seq(Row) /\ run' \in Runs
      /\ UNCHANGED <<event, settled, fail_next, world, trace, actions>>
  BY <1>1 DEF Ended
<1>3. event[e].payment \in Payments /\ case \in Case /\ chain \in Seq(Payments)
      /\ IsInjective(chain) /\ decisions \in Seq(Payments)
  BY <1>2, Elements DEF TypeOK
<1>4. case' \in Case
  BY <1>2, CaseRow DEF Verdict, IgnoreStale, CloseResolved, Decide, SuppressDuplicate
<1>5. chain' \in Seq(Payments) /\ IsInjective(chain')
  BY <1>3, Positions DEF Verdict, IgnoreStale, CloseResolved, Decide, SuppressDuplicate
<1>6. decisions' \in Seq(Payments)
  <2>1. decisions' = decisions \/ decisions' = Append(decisions, event[e].payment)
    BY DEF Verdict, IgnoreStale, CloseResolved, Decide, SuppressDuplicate
  <2> HIDE DEF Payments
  <2> QED
    BY <1>3, <2>1
<1>7. Row' = Row /\ Runs' = Runs
  BY <1>2 DEF Row, Runs
<1>8. job' \in Seq(JobState) /\ Len(job') = Len(event')
  BY <1>2 DEF Jobs
<1>9. settled \subseteq Payments /\ world \in World /\ trace \in Trace
      /\ fail_next \in BOOLEAN /\ actions \in 0..MaxActions
      /\ event \in Seq([payment : Payments, created_at : Times]) /\ Len(event) <= MaxEvents
  BY DEF TypeOK
<1> QED
  BY <1>2, <1>4, <1>5, <1>6, <1>7, <1>8, <1>9, Zenon DEF TypeOK
-----------------------------------------------------------------------------
LEMMA DateClock ==
    ASSUME NEW t \in Int
    PROVE  date(t) \in Int /\ date(t) * Day <= t /\ t < date(t) * Day + Day
BY DEF date, Day

LEMMA NotificationInteger ==
    ASSUME NEW t \in Int, NEW r \in Rails
    PROVE  pdn_deadline_for(t, r) \in Int
<1>1. LeadHours[r] \in Nat /\ PdnCutoff \in Int
  BY CalendarAssumption DEF MinuteOfDay
<1>2. t - LeadHours[r] * Hour \in Int
  BY <1>1 DEF Hour
<1>3. combine(date(t - LeadHours[r] * Hour), PdnCutoff - 1) \in Int
  BY <1>1, <1>2, DateClock DEF combine, Day, Minute
<1> QED
  BY <1>2, <1>3 DEF pdn_deadline_for

(* What the guard's word is worth: an execution that it lets pass keeps    *)
(* the rules of the search.                                                *)
LEMMA GuardKeepsRules ==
    ASSUME TypeOK, NEW index \in Payments, check(request(index)) = "allowed"
    PROVE  LET a == Admission(request(index))
           IN  /\ a \in Admitted /\ ~a.payment_settled /\ ~a.expired
               /\ ~is_peak(a.execute_at)
               /\ a.decided_at <= pdn_deadline_for(a.execute_at, "")
               /\ Len(trace.admitted) + 1 < AttemptCap
<1> DEFINE at == CLOCK + (26 + 8 * index) * Hour
           by == CLOCK + world.pdn_shift * Hour
           n == Len(trace.admitted)
<1>1. /\ index \in Nat /\ world.pdn_shift \in Nat /\ world.expires_at \in {None, CLOCK - Hour}
      /\ n \in Nat
  <2>1. PaymentCount \in Nat
    BY SearchAssumption
  <2>2. index \in Nat
    BY <2>1 DEF Payments
  <2>3. trace.admitted \in Seq(Admitted)
    BY DEF TypeOK, Trace
  <2>4. n \in Nat
    BY <2>3, SeqFacts
  <2> QED
    BY <2>2, <2>4 DEF TypeOK, World
<1>2. at \in Nat /\ by \in Nat /\ at >= CLOCK - Hour /\ CLOCK - Hour \in Int
  BY <1>1 DEF CLOCK, combine, Day, Hour, Minute
<1> HIDE DEF at, by, n
<1>3. /\ request(index).kind = "EXECUTION" /\ request(index).rail = ""
      /\ request(index).has_order = TRUE
      /\ request(index).settled = (case.payment_id \in settled)
      /\ request(index).order_expires_at = world.expires_at
      /\ request(index).execute_at = at /\ request(index).decided_at = by
      /\ request(index).attempts_seen = 1 + n
  BY DEF request, RequestAfter, at, by, n
<1>4. ~(case.payment_id \in settled) /\ _order(request(index)) = "allowed"
      /\ _execution(request(index)) = "allowed"
  BY <1>3 DEF check
<1>5. at # None
  BY <1>2, GuardAssumption
<1>6. world.expires_at = None
  <2>1. moment(request(index)) = at
    BY <1>3, <1>5 DEF moment
  <2>2. ~(world.expires_at # None /\ at >= world.expires_at)
    BY <1>3, <1>4, <2>1 DEF _order
  <2> QED
    BY <1>1, <1>2, <2>2
<1>7. ~(1 + n >= AttemptCap) /\ ~is_peak(at) /\ ~(by > pdn_deadline_for(at, ""))
  BY <1>3, <1>4 DEF _execution
<1>8. PICK notice \in Int : notice = pdn_deadline_for(at, "")
  <2>1. "" \in Rails
    BY SearchAssumption, Zenon
  <2>2. at \in Int
    BY <1>2
  <2> QED
    BY <2>1, <2>2, NotificationInteger, Zenon
<1>9. AttemptCap \in Nat
  BY CalendarAssumption
<1>10. n + 1 < AttemptCap /\ by <= notice
  <2>1. ~(1 + n >= AttemptCap) /\ ~(by > notice)
    BY <1>7, <1>8
  <2> QED
    BY <1>1, <1>2, <1>9, <2>1
<1>11. (case.payment_id \in settled) = FALSE /\ (world.expires_at # None) = FALSE
  BY <1>4, <1>6
<1> DEFINE a == Admission(request(index))
<1>12. a = [execute_at |-> at, decided_at |-> by, payment_settled |-> FALSE, expired |-> FALSE]
  BY <1>3, <1>11, Zenon DEF Admission
<1>13. a \in Admitted
  BY <1>2, <1>12 DEF Admitted
<1>14. a.execute_at = at /\ a.decided_at = by /\ ~a.payment_settled /\ ~a.expired
  BY <1>12
<1> HIDE DEF a
<1>15. a \in Admitted /\ ~a.payment_settled /\ ~a.expired /\ ~is_peak(a.execute_at)
       /\ a.decided_at <= pdn_deadline_for(a.execute_at, "")
  BY <1>7, <1>8, <1>10, <1>13, <1>14
<1> QED
  BY <1>10, <1>15 DEF a, n

LEMMA ObservingKeepsTypes ==
    ASSUME TypeOK, Observe
    PROVE  TypeOK'
<1>1. trace \in Trace /\ run \in Runs /\ settled \subseteq Payments
  BY DEF TypeOK
<1>2. \A a \in Admitted : Append(trace.admitted, a) \in Seq(Admitted)
  <2>1. trace.admitted \in Seq(Admitted)
    BY <1>1 DEF Trace
  <2> HIDE DEF Admitted
  <2> QED
    BY <2>1
<1>3. run.index \in Payments
  BY <1>1 DEF Runs
<1>4. check(request(run.index)) = "allowed" => Admission(request(run.index)) \in Admitted
  BY <1>3, GuardKeepsRules
<1>5. trace' \in Trace
  BY <1>1, <1>2, <1>4 DEF Observe, Trace
<1>6. run' \in Runs /\ Row' = Row /\ Runs' = Runs
  BY Values DEF Observe, Row, Runs
<1>7. UNCHANGED <<event, job, settled, fail_next, case, chain, decisions, audit, world, actions>>
  BY DEF Observe, core
<1> QED
  BY <1>5, <1>6, <1>7 DEF TypeOK
-----------------------------------------------------------------------------
(* What the rows of the trail say, of the tables and of each other.        *)
MoneyTold == \A i \in DOMAIN audit : audit[i].type = "closed_resolved" => settled # {}

OpenerTold ==
    \A i \in DOMAIN audit : audit[i].type = "case.opened" =>
        Opened /\ case.payment_id = event[audit[i].event].payment

DecisionTold ==
    \A i \in DOMAIN audit : audit[i].type \in {"decision.recorded", "decision.duplicate"} =>
        Recorded(event[audit[i].event].payment)

CaseRowsDone ==
    \A i \in DOMAIN audit : audit[i].type \in OfCase => job[audit[i].event] = "done"

(* A job is refused before it is processed and never after.                *)
RefusedBefore ==
    \A i, k \in DOMAIN audit :
        /\ audit[i].type = "refresh_failed" /\ audit[k].type \in OfCase
        /\ audit[i].event = audit[k].event
        => i < k

DoneTold ==
    \A e \in DOMAIN event : job[e] = "done" =>
        \E i \in DOMAIN audit : audit[i].event = e /\ audit[i].type \in Verdicts

ClosedRow == \E i \in DOMAIN audit : audit[i].type = "closed_resolved"

(* The case's state follows from the decisions and the trail: it is opened *)
(* and decided or closed in one go, and stays closed until a decision.     *)
CaseTold ==
    /\ case.state # "OPEN"
    /\ ~Opened => decisions = <<>> /\ ~ClosedRow
    /\ case.state = "DECIDED" => decisions # <<>>
    /\ case.state = "CLOSED_PAYMENT_RESOLVED" => ClosedRow
    /\ ClosedRow /\ decisions = <<>> => case.state = "CLOSED_PAYMENT_RESOLVED"

Told == /\ MoneyTold /\ OpenerTold /\ DecisionTold /\ CaseRowsDone
        /\ RefusedBefore /\ DoneTold /\ CaseTold

(* Steps that leave the core alone.                                        *)
Quiet ==
    /\ UNCHANGED <<event, case, chain, decisions, audit>>
    /\ settled \subseteq settled'
    /\ \A e \in DOMAIN event : job'[e] = "done" <=> job[e] = "done"

LEMMA QuietKeepsTold ==
    ASSUME TypeOK, Told, OnceAndAudited, Quiet
    PROVE  Told' /\ OnceAndAudited'
<1>1. UNCHANGED <<event, case, chain, decisions, audit>> /\ settled \subseteq settled'
  BY DEF Quiet
<1>2. \A e \in DOMAIN event : job'[e] = "done" <=> job[e] = "done"
  BY DEF Quiet
<1>3. \A i \in DOMAIN audit : audit[i].event \in DOMAIN event
  BY Elements
<1>4. MoneyTold'
  BY <1>1 DEF Told, MoneyTold
<1>5. OpenerTold' /\ DecisionTold'
  BY <1>1 DEF Told, OpenerTold, DecisionTold, Opened, Recorded
<1>6. CaseRowsDone'
  BY <1>1, <1>2, <1>3 DEF Told, CaseRowsDone
<1>7. RefusedBefore'
  BY <1>1 DEF Told, RefusedBefore
<1>8. DoneTold'
  BY <1>1, <1>2 DEF Told, DoneTold
<1>9. CaseTold'
  BY <1>1 DEF Told, CaseTold, ClosedRow, Opened
<1>10. OnceAndAudited'
  BY <1>1, <1>2 DEF OnceAndAudited, RowsOf, VerdictsOn, IsInjective
<1> QED
  BY <1>4, <1>5, <1>6, <1>7, <1>8, <1>9, <1>10 DEF Told
-----------------------------------------------------------------------------
(* Counting the rows.                                                      *)
LEMMA RowsAreFinite ==
    ASSUME TypeOK, NEW S, S \subseteq DOMAIN audit
    PROVE  IsFiniteSet(S) /\ Cardinality(S) \in Nat
<1>1. Len(audit) \in Nat /\ DOMAIN audit = 1..Len(audit)
  BY Elements
<1>2. IsFiniteSet(1..Len(audit))
  BY <1>1, FS_Interval
<1> QED
  BY <1>1, <1>2, FS_Subset, FS_CardinalityType

LEMMA OneMore ==
    ASSUME TypeOK, NEW S, S \subseteq DOMAIN audit, NEW n, n \notin DOMAIN audit
    PROVE  Cardinality(S \cup {n}) = Cardinality(S) + 1
<1>1. IsFiniteSet(S) /\ n \notin S
  BY RowsAreFinite
<1> QED
  BY <1>1, FS_AddElement

(* Of the rows written, none or one is of a set of types.                  *)
LEMMA RowsAfter ==
    ASSUME TypeOK, NEW R, Written(R), NEW types
    PROVE  /\ (\A r \in R : r.type \notin types) => RowsOf(types)' = RowsOf(types)
           /\ \A r \in R : r.type \in types /\ (\A q \in R : q.type \in types => q = r) =>
                 \E n : /\ n \notin DOMAIN audit /\ audit'[n] = r
                        /\ RowsOf(types)' = RowsOf(types) \cup {n}
<1>1. Len(audit) \in Nat /\ DOMAIN audit = 1..Len(audit)
  BY Elements
<1>2. /\ \A i \in DOMAIN audit : i \in DOMAIN audit' /\ audit'[i] = audit[i]
      /\ \A i \in DOMAIN audit' :
            i \in DOMAIN audit \/ (i > Len(audit) /\ audit'[i] \in R)
      /\ \A r \in R : \E n \in DOMAIN audit' :
            /\ n > Len(audit) /\ audit'[n] = r
            /\ \A i \in DOMAIN audit' : i > Len(audit) /\ audit'[i] = r => i = n
  BY DEF Written
<1>3. /\ RowsOf(types) = {i \in DOMAIN audit : audit[i].type \in types}
      /\ RowsOf(types)' = {i \in DOMAIN audit' : audit'[i].type \in types}
  BY DEF RowsOf
<1>4. ASSUME \A r \in R : r.type \notin types
      PROVE  RowsOf(types)' = RowsOf(types)
  BY <1>2, <1>3, <1>4
<1>5. ASSUME NEW r \in R, r.type \in types, \A q \in R : q.type \in types => q = r
      PROVE  \E n : /\ n \notin DOMAIN audit /\ audit'[n] = r
                    /\ RowsOf(types)' = RowsOf(types) \cup {n}
  <2>1. PICK n \in DOMAIN audit' :
            /\ n > Len(audit) /\ audit'[n] = r
            /\ \A i \in DOMAIN audit' : i > Len(audit) /\ audit'[i] = r => i = n
    BY <1>2
  <2>2. n \notin DOMAIN audit
    BY <1>1, <2>1
  <2>3. RowsOf(types)' = RowsOf(types) \cup {n}
    <3>1. ASSUME NEW i \in RowsOf(types)'
          PROVE  i \in RowsOf(types) \cup {n}
      <4>1. i \in DOMAIN audit' /\ audit'[i].type \in types
        BY <1>3
      <4>2. CASE i \in DOMAIN audit
        BY <1>2, <1>3, <4>1, <4>2
      <4>3. CASE i > Len(audit) /\ audit'[i] \in R
        BY <1>5, <2>1, <4>1, <4>3
      <4> QED
        BY <1>2, <4>1, <4>2, <4>3
    <3>2. RowsOf(types) \subseteq RowsOf(types)'
      BY <1>2, <1>3
    <3>3. n \in RowsOf(types)'
      BY <1>3, <1>5, <2>1
    <3> QED
      BY <3>1, <3>2, <3>3, Zenon
  <2> QED
    BY <2>1, <2>2, <2>3
<1> QED
  BY <1>4, <1>5

(* The same for the verdicts on one event.                                 *)
LEMMA VerdictsAfter ==
    ASSUME TypeOK, NEW R, Written(R), NEW e
    PROVE  /\ (\A r \in R : r.type \in Verdicts => r.event # e) =>
                 VerdictsOn(e)' = VerdictsOn(e)
           /\ \A r \in R :
                 r.type \in Verdicts /\ r.event = e /\ (\A q \in R : q.type \in Verdicts => q = r)
                 => \E n : n \notin DOMAIN audit /\ VerdictsOn(e)' = VerdictsOn(e) \cup {n}
<1>1. Len(audit) \in Nat /\ DOMAIN audit = 1..Len(audit)
  BY Elements
<1>2. /\ \A i \in DOMAIN audit : i \in DOMAIN audit' /\ audit'[i] = audit[i]
      /\ \A i \in DOMAIN audit' :
            i \in DOMAIN audit \/ (i > Len(audit) /\ audit'[i] \in R)
  BY DEF Written
<1>3. /\ VerdictsOn(e) = {i \in DOMAIN audit : audit[i].type \in Verdicts /\ audit[i].event = e}
      /\ VerdictsOn(e)' =
            {i \in DOMAIN audit' : audit'[i].type \in Verdicts /\ audit'[i].event = e}
      /\ RowsOf(Verdicts) = {i \in DOMAIN audit : audit[i].type \in Verdicts}
      /\ RowsOf(Verdicts)' = {i \in DOMAIN audit' : audit'[i].type \in Verdicts}
  BY DEF VerdictsOn, RowsOf
<1>4. ASSUME \A r \in R : r.type \in Verdicts => r.event # e
      PROVE  VerdictsOn(e)' = VerdictsOn(e)
  BY <1>2, <1>3, <1>4
<1>5. ASSUME NEW r \in R, r.type \in Verdicts, r.event = e,
             \A q \in R : q.type \in Verdicts => q = r
      PROVE  \E n : n \notin DOMAIN audit /\ VerdictsOn(e)' = VerdictsOn(e) \cup {n}
  <2>1. PICK n : /\ n \notin DOMAIN audit /\ audit'[n] = r
                 /\ RowsOf(Verdicts)' = RowsOf(Verdicts) \cup {n}
    BY <1>5, RowsAfter
  <2>2. VerdictsOn(e)' = VerdictsOn(e) \cup {n}
    BY <1>2, <1>3, <1>5, <2>1
  <2> QED
    BY <2>1, <2>2
<1> QED
  BY <1>4, <1>5

LEMMA NoRowNoCount ==
    ASSUME TypeOK, NEW R, Written(R), NEW types, \A r \in R : r.type \notin types
    PROVE  Cardinality(RowsOf(types)') = Cardinality(RowsOf(types))
BY RowsAfter

LEMMA OneRowCounts ==
    ASSUME TypeOK, NEW R, Written(R), NEW types, NEW r \in R, r.type \in types,
           \A q \in R : q.type \in types => q = r
    PROVE  Cardinality(RowsOf(types)') = Cardinality(RowsOf(types)) + 1
<1>1. PICK n : n \notin DOMAIN audit /\ RowsOf(types)' = RowsOf(types) \cup {n}
  BY RowsAfter
<1>2. RowsOf(types) \subseteq DOMAIN audit
  BY DEF RowsOf
<1> QED
  BY <1>1, <1>2, OneMore
-----------------------------------------------------------------------------
(* A delivery, a delivery again, a refusal: one row that is not the case's.*)
Noted(r) ==
    /\ Written({r}) /\ r.type \in PreCase
    /\ UNCHANGED <<case, chain, decisions, settled>>
    /\ DOMAIN event \subseteq DOMAIN event' /\ r.event \in DOMAIN event'
    /\ \A e \in DOMAIN event : event'[e] = event[e] /\ (job'[e] = "done" <=> job[e] = "done")
    /\ \A e \in DOMAIN event' : e \notin DOMAIN event => job'[e] # "done"
    /\ r.type = "refresh_failed" => r.event \in DOMAIN event /\ job[r.event] # "done"

LEMMA NotingKeepsTold ==
    ASSUME TypeOK, Told, NEW r, Noted(r)
    PROVE  Told'
<1>1. /\ r.type \in PreCase
      /\ UNCHANGED <<case, chain, decisions, settled>>
      /\ DOMAIN event \subseteq DOMAIN event' /\ r.event \in DOMAIN event'
      /\ \A e \in DOMAIN event : event'[e] = event[e] /\ (job'[e] = "done" <=> job[e] = "done")
      /\ \A e \in DOMAIN event' : e \notin DOMAIN event => job'[e] # "done"
      /\ r.type = "refresh_failed" => r.event \in DOMAIN event /\ job[r.event] # "done"
  BY DEF Noted
<1>2. /\ \A i \in DOMAIN audit : i \in DOMAIN audit' /\ audit'[i] = audit[i]
      /\ \A i \in DOMAIN audit' :
            i \in DOMAIN audit \/ (i > Len(audit) /\ audit'[i] = r)
  BY DEF Noted, Written
<1>3. /\ \A i \in DOMAIN audit : audit[i].event \in DOMAIN event
      /\ Len(audit) \in Nat /\ DOMAIN audit = 1..Len(audit)
  BY Elements
<1>4. /\ r.type \notin OfCase /\ r.type # "closed_resolved" /\ r.type # "case.opened"
      /\ r.type \notin {"decision.recorded", "decision.duplicate"}
  BY <1>1 DEF PreCase, OfCase, Verdicts
<1>5. MoneyTold'
  BY <1>1, <1>2, <1>4 DEF Told, MoneyTold
<1>6. OpenerTold'
  BY <1>1, <1>2, <1>3, <1>4 DEF Told, OpenerTold, Opened
<1>7. DecisionTold'
  BY <1>1, <1>2, <1>3, <1>4 DEF Told, DecisionTold, Recorded
<1>8. CaseRowsDone'
  BY <1>1, <1>2, <1>3, <1>4 DEF Told, CaseRowsDone
<1>9. RefusedBefore'
  <2> SUFFICES ASSUME NEW i \in DOMAIN audit', NEW k \in DOMAIN audit',
                      audit'[i].type = "refresh_failed", audit'[k].type \in OfCase,
                      audit'[i].event = audit'[k].event
               PROVE  i < k
    BY DEF RefusedBefore
  <2>1. k \in DOMAIN audit /\ audit'[k] = audit[k]
    BY <1>2, <1>4
  <2>2. job[audit[k].event] = "done"
    BY <2>1 DEF Told, CaseRowsDone
  <2>3. i \in DOMAIN audit /\ audit'[i] = audit[i]
    BY <1>1, <1>2, <2>1, <2>2
  <2> QED
    BY <2>1, <2>3 DEF Told, RefusedBefore
<1>10. DoneTold'
  <2> SUFFICES ASSUME NEW e \in DOMAIN event', job'[e] = "done"
               PROVE  \E i \in DOMAIN audit' : audit'[i].event = e /\ audit'[i].type \in Verdicts
    BY DEF DoneTold
  <2>1. e \in DOMAIN event /\ job[e] = "done"
    BY <1>1
  <2>2. PICK i \in DOMAIN audit : audit[i].event = e /\ audit[i].type \in Verdicts
    BY <2>1 DEF Told, DoneTold
  <2> QED
    BY <1>2, <2>2
<1>11. ClosedRow' <=> ClosedRow
  BY <1>2, <1>4 DEF ClosedRow
<1>12. CaseTold'
  BY <1>1, <1>11 DEF Told, CaseTold, Opened
<1> QED
  BY <1>5, <1>6, <1>7, <1>8, <1>9, <1>10, <1>12 DEF Told

LEMMA NotingKeepsCounts ==
    ASSUME TypeOK, TypeOK', Told, OnceAndAudited, NEW r, Noted(r),
           IF r.type = "webhook.received" THEN Len(event') = Len(event) + 1 ELSE event' = event
    PROVE  OnceAndAudited'
<1>1. /\ Written({r}) /\ r.type \in PreCase /\ decisions' = decisions
      /\ DOMAIN event \subseteq DOMAIN event'
      /\ \A e \in DOMAIN event : job'[e] = "done" <=> job[e] = "done"
      /\ \A e \in DOMAIN event' : e \notin DOMAIN event => job'[e] # "done"
  BY DEF Noted
<1>2. r.type \notin Verdicts /\ r.type \notin {"decision.recorded"}
  BY <1>1 DEF PreCase, Verdicts
<1>3. Cardinality(RowsOf({"decision.recorded"})') = Len(decisions')
  BY <1>1, <1>2, NoRowNoCount DEF OnceAndAudited
<1>4. Cardinality(RowsOf({"webhook.received"})') = Len(event')
  <2>1. CASE r.type = "webhook.received"
    <3>1. Cardinality(RowsOf({"webhook.received"})') = Cardinality(RowsOf({"webhook.received"})) + 1
      BY <1>1, <2>1, OneRowCounts
    <3> QED
      BY <2>1, <3>1 DEF OnceAndAudited
  <2>2. CASE r.type # "webhook.received"
    <3>1. Cardinality(RowsOf({"webhook.received"})') = Cardinality(RowsOf({"webhook.received"}))
      BY <1>1, <2>2, NoRowNoCount
    <3> QED
      BY <2>2, <3>1 DEF OnceAndAudited
  <2> QED
    BY <2>1, <2>2
<1>5. ASSUME NEW e \in DOMAIN event'
      PROVE  Cardinality(VerdictsOn(e)') = (IF job'[e] = "done" THEN 1 ELSE 0)
  <2>1. VerdictsOn(e)' = VerdictsOn(e)
    BY <1>1, <1>2, VerdictsAfter
  <2>2. CASE e \in DOMAIN event
    BY <1>1, <2>1, <2>2 DEF OnceAndAudited
  <2>3. CASE e \notin DOMAIN event
    <3>1. VerdictsOn(e) = {}
      BY <2>3, Elements DEF VerdictsOn, RowsOf
    <3> QED
      BY <1>1, <2>1, <2>3, <3>1, FS_EmptySet
  <2> QED
    BY <2>2, <2>3
<1>6. IsInjective(decisions')
  BY <1>1 DEF OnceAndAudited
<1> QED
  BY <1>3, <1>4, <1>5, <1>6 DEF OnceAndAudited, IsInjective

NotesKept == Told' /\ OnceAndAudited'

LEMMA DeliverKeepsTold ==
    ASSUME TypeOK, TypeOK', Told, OnceAndAudited, NEW p \in Payments, NEW t \in Times,
           Deliver(p, t)
    PROVE  NotesKept
<1> DEFINE r == row("webhook.received", Len(event) + 1)
<1>1. /\ event' = Append(event, [payment |-> p, created_at |-> t])
      /\ job' = Append(job, "pending") /\ audit' = Append(audit, r)
      /\ UNCHANGED <<case, chain, decisions, settled>>
  BY DEF Deliver
<1>2. r.type = "webhook.received" /\ r.event = Len(event) + 1 /\ r.type \in PreCase
  BY DEF row, PreCase
<1>3. Written({r})
  BY <1>1, WriteOne
<1>4. /\ Len(event) \in Nat /\ DOMAIN event = 1..Len(event) /\ DOMAIN job = 1..Len(event)
  BY Elements
<1> HIDE DEF r
<1>5. /\ DOMAIN event' = 1..(Len(event) + 1) /\ Len(event') = Len(event) + 1
      /\ \A e \in DOMAIN event : event'[e] = event[e]
  <2>1. event \in Seq([payment : Payments, created_at : Times])
        /\ [payment |-> p, created_at |-> t] \in [payment : Payments, created_at : Times]
    BY DEF TypeOK
  <2>2. /\ DOMAIN Append(event, [payment |-> p, created_at |-> t]) = 1..(Len(event) + 1)
        /\ Len(Append(event, [payment |-> p, created_at |-> t])) = Len(event) + 1
        /\ \A i \in 1..Len(event) :
              Append(event, [payment |-> p, created_at |-> t])[i] = event[i]
    BY <2>1, Appended
  <2> QED
    BY <1>1, <1>4, <2>2
<1>6. /\ \A e \in DOMAIN event : job'[e] = job[e]
      /\ job'[Len(event) + 1] = "pending"
  <2>1. job \in Seq(JobState) /\ Len(job) = Len(event) /\ "pending" \in JobState
    BY DEF TypeOK, JobState
  <2> QED
    BY <1>1, <1>4, <2>1
<1>7. Noted(r)
  BY <1>1, <1>2, <1>3, <1>4, <1>5, <1>6 DEF Noted
<1> QED
  BY <1>2, <1>5, <1>7, NotingKeepsTold, NotingKeepsCounts DEF NotesKept

LEMMA RedeliverKeepsTold ==
    ASSUME TypeOK, TypeOK', Told, OnceAndAudited, NEW e, Redeliver(e)
    PROVE  NotesKept
<1> DEFINE r == row("webhook.duplicate", e)
<1>1. /\ e \in DOMAIN event /\ audit' = Append(audit, r)
      /\ UNCHANGED <<event, job, case, chain, decisions, settled>>
  BY DEF Redeliver
<1>2. r.type = "webhook.duplicate" /\ r.event = e /\ r.type \in PreCase
  BY DEF row, PreCase
<1>3. Written({r})
  BY <1>1, WriteOne
<1> HIDE DEF r
<1>4. Noted(r)
  BY <1>1, <1>2, <1>3 DEF Noted
<1> QED
  BY <1>1, <1>2, <1>4, NotingKeepsTold, NotingKeepsCounts DEF NotesKept

LEMMA RefusalKeepsTold ==
    ASSUME TypeOK, TypeOK', Claims, Told, OnceAndAudited, NEW e, RefreshFails(e)
    PROVE  NotesKept
<1> DEFINE r == row("refresh_failed", e)
<1>1. /\ TakeUp(e) /\ audit' = Append(audit, r) /\ job' = [job EXCEPT ![e] = "pending"]
      /\ UNCHANGED <<case, chain, decisions>>
  BY DEF RefreshFails
<1>2. r.type = "refresh_failed" /\ r.event = e /\ r.type \in PreCase
  BY DEF row, PreCase
<1>3. Written({r})
  BY <1>1, WriteOne
<1>4. e \in 1..Len(event) /\ job[e] = "claimed" /\ UNCHANGED <<event, settled>>
      /\ DOMAIN event = 1..Len(event)
  BY <1>1, TakingUp, Elements
<1>5. \A d \in 1..Len(event) : job'[d] = IF d = e THEN "pending" ELSE job[d]
  BY <1>1, <1>4, Moving DEF JobState
<1> HIDE DEF r
<1>6. Noted(r)
  BY <1>1, <1>2, <1>3, <1>4, <1>5 DEF Noted
<1> QED
  BY <1>2, <1>4, <1>6, NotingKeepsTold, NotingKeepsCounts DEF NotesKept
-----------------------------------------------------------------------------
(* What a verdict does to the tables.                                      *)
LEMMA VerdictEffects ==
    ASSUME TypeOK, Told, NEW e \in 1..Len(event), NEW verdict, Verdict(e, verdict)
    PROVE  /\ case'.state # "none" /\ case'.state # "OPEN"
           /\ IF Opened THEN case'.payment_id = case.payment_id
              ELSE case'.payment_id = event[e].payment
           /\ ToSet(decisions) \subseteq ToSet(decisions')
           /\ verdict \in {"decision.recorded", "decision.duplicate"}
                => event[e].payment \in ToSet(decisions')
           /\ verdict = "closed_resolved" => settled # {}
           /\ decisions' = <<>> => decisions = <<>>
           /\ case'.state = "DECIDED" => decisions' # <<>>
           /\ verdict = "closed_resolved" => case'.state = "CLOSED_PAYMENT_RESOLVED"
           /\ verdict # "closed_resolved" =>
                 \/ case' = case /\ decisions' = decisions
                 \/ case'.state = "DECIDED"
<1>1. /\ decisions \in Seq(Payments) /\ Len(decisions) \in Nat
      /\ DOMAIN decisions = 1..Len(decisions) /\ event[e].payment \in Payments
      /\ event[e].created_at \in Nat
  BY Elements DEF TypeOK
<1>2. /\ case.state # "OPEN" /\ (~Opened => decisions = <<>>)
      /\ case.state = "DECIDED" => decisions # <<>>
  BY DEF Told, CaseTold
<1>3. \A p : p \in Payments =>
         /\ Append(decisions, p) # <<>>
         /\ \A q : q \in ToSet(decisions) \/ q = p => q \in ToSet(Append(decisions, p))
  <2> HIDE DEF Payments
  <2> TAKE p
  <2> HAVE p \in Payments
  <2>1. /\ DOMAIN Append(decisions, p) = 1..(Len(decisions) + 1)
        /\ Len(Append(decisions, p)) = Len(decisions) + 1
        /\ \A i \in 1..Len(decisions) : Append(decisions, p)[i] = decisions[i]
        /\ Append(decisions, p)[Len(decisions) + 1] = p
    BY <1>1
  <2>2. Append(decisions, p) # <<>>
    BY <1>1, <2>1
  <2>3. \A i \in 1..Len(decisions) : i \in 1..(Len(decisions) + 1)
    BY <1>1
  <2>4. Len(decisions) + 1 \in 1..(Len(decisions) + 1)
    BY <1>1
  <2> QED
    BY <1>1, <2>1, <2>2, <2>3, <2>4 DEF ToSet
<1>4. Opened => open_case(e) = case
  BY DEF open_case
<1>5. ~Opened => /\ open_case(e).payment_id = event[e].payment
                 /\ ~IsStale(e)
  BY <1>1 DEF open_case, IsStale
<1> HIDE DEF Opened
<1>6. CASE verdict = "stale_ignored" /\ IgnoreStale(e)
  <2>1. case' = case /\ decisions' = decisions /\ Opened
    BY <1>4, <1>5, <1>6 DEF IgnoreStale
  <2> QED
    BY <1>2, <1>6, <2>1 DEF Opened
<1>7. CASE verdict = "closed_resolved" /\ CloseResolved(e)
  <2>1. /\ case' = advance_case("CLOSED_PAYMENT_RESOLVED", e) /\ decisions' = decisions
        /\ event[e].payment \in settled
    BY <1>7 DEF CloseResolved, is_resolved
  <2>2. case'.state = "CLOSED_PAYMENT_RESOLVED" /\ case'.payment_id = open_case(e).payment_id
    BY <2>1 DEF advance_case
  <2> QED
    BY <1>4, <1>5, <1>7, <2>1, <2>2
<1>8. CASE verdict = "decision.recorded" /\ Decide(e)
  <2>1. case' = advance_case("DECIDED", e) /\ decisions' = Append(decisions, event[e].payment)
    BY <1>8 DEF Decide
  <2>2. case'.state = "DECIDED" /\ case'.payment_id = open_case(e).payment_id
    BY <2>1 DEF advance_case
  <2>3. /\ decisions' # <<>>
        /\ \A q : q \in ToSet(decisions) \/ q = event[e].payment => q \in ToSet(decisions')
    BY <1>1, <1>3, <2>1
  <2> QED
    BY <1>4, <1>5, <1>8, <2>2, <2>3
<1>9. CASE verdict = "decision.duplicate" /\ SuppressDuplicate(e)
  <2>1. case' = open_case(e) /\ decisions' = decisions /\ event[e].payment \in ToSet(decisions)
    BY <1>9 DEF SuppressDuplicate, Recorded
  <2>2. decisions # <<>>
    BY <2>1 DEF ToSet
  <2>3. case' = case /\ Opened
    BY <1>2, <1>4, <2>1, <2>2
  <2> QED
    BY <1>2, <1>9, <2>1, <2>2, <2>3 DEF Opened
<1> QED
  BY <1>6, <1>7, <1>8, <1>9 DEF Verdict

(* The rows of a processed job, one by one.                                *)
LEMMA RowsOfTheJob ==
    ASSUME TypeOK, NEW e, NEW verdict \in Verdicts, Ended(e, verdict)
    PROVE  /\ \A i \in DOMAIN audit : i \in DOMAIN audit' /\ audit'[i] = audit[i]
           /\ \A i \in DOMAIN audit' : i \notin DOMAIN audit =>
                 /\ i \in Nat /\ i > Len(audit) /\ audit'[i].event = e
                 /\ audit'[i].type \in {"refreshed", "case.attached", "case.opened", verdict}
                 /\ audit'[i].type = "case.opened" => ~Opened
           /\ \E i \in DOMAIN audit' : audit'[i].event = e /\ audit'[i].type = verdict
<1>1. Written({row("refreshed", e), Opening(e), row(verdict, e)})
  BY DEF Ended
<1>2. \A r \in {row("refreshed", e), Opening(e), row(verdict, e)} :
         /\ r.event = e /\ r.type \in {"refreshed", "case.attached", "case.opened", verdict}
         /\ r.type = "case.opened" => ~Opened
  BY DEF row, Opening, Verdicts
<1>3. row(verdict, e).event = e /\ row(verdict, e).type = verdict
  BY DEF row
<1> HIDE DEF Opened
<1> QED
  BY <1>1, <1>2, <1>3 DEF Written

LEMMA VerdictsKeepTold ==
    ASSUME TypeOK, Claims, Told, NEW e, NEW verdict, Verdict(e, verdict)
    PROVE  Told'
<1>1. Ended(e, verdict) /\ verdict \in Verdicts
  BY VerdictEnds
<1>2. /\ e \in 1..Len(event) /\ event' = event /\ settled' = settled
      /\ \A d \in 1..Len(event) : job'[d] = IF d = e THEN "done" ELSE job[d]
  BY <1>1 DEF Ended
<1>3. /\ \A i \in DOMAIN audit : i \in DOMAIN audit' /\ audit'[i] = audit[i]
      /\ \A i \in DOMAIN audit' : i \notin DOMAIN audit =>
            /\ i \in Nat /\ i > Len(audit) /\ audit'[i].event = e
            /\ audit'[i].type \in {"refreshed", "case.attached", "case.opened", verdict}
            /\ audit'[i].type = "case.opened" => ~Opened
      /\ \E i \in DOMAIN audit' : audit'[i].event = e /\ audit'[i].type = verdict
  BY <1>1, RowsOfTheJob
<1>4. /\ case'.state # "none" /\ case'.state # "OPEN"
      /\ IF Opened THEN case'.payment_id = case.payment_id
         ELSE case'.payment_id = event[e].payment
      /\ ToSet(decisions) \subseteq ToSet(decisions')
      /\ verdict \in {"decision.recorded", "decision.duplicate"}
            => event[e].payment \in ToSet(decisions')
      /\ verdict = "closed_resolved" => settled # {}
      /\ decisions' = <<>> => decisions = <<>>
      /\ case'.state = "DECIDED" => decisions' # <<>>
      /\ verdict = "closed_resolved" => case'.state = "CLOSED_PAYMENT_RESOLVED"
      /\ verdict # "closed_resolved" =>
            \/ case' = case /\ decisions' = decisions
            \/ case'.state = "DECIDED"
  BY <1>2, VerdictEffects
<1>5. /\ Len(event) \in Nat /\ DOMAIN event = 1..Len(event)
      /\ Len(audit) \in Nat /\ DOMAIN audit = 1..Len(audit)
      /\ \A i \in DOMAIN audit : audit[i].event \in 1..Len(event)
  BY Elements
<1>6. /\ verdict # "refreshed" /\ verdict # "case.attached" /\ verdict # "case.opened"
      /\ verdict # "refresh_failed"
  BY <1>1 DEF Verdicts
<1>7. MoneyTold'
  BY <1>2, <1>3, <1>4, <1>6 DEF Told, MoneyTold
<1>8. OpenerTold'
  BY <1>2, <1>3, <1>4, <1>6 DEF Told, OpenerTold, Opened
<1>9. DecisionTold'
  BY <1>2, <1>3, <1>4, <1>6 DEF Told, DecisionTold, Recorded
<1>10. CaseRowsDone'
  BY <1>2, <1>3, <1>5 DEF Told, CaseRowsDone
<1>11. RefusedBefore'
  <2> SUFFICES ASSUME NEW i \in DOMAIN audit', NEW k \in DOMAIN audit',
                      audit'[i].type = "refresh_failed", audit'[k].type \in OfCase,
                      audit'[i].event = audit'[k].event
               PROVE  i < k
    BY DEF RefusedBefore
  <2>1. i \in DOMAIN audit /\ audit'[i] = audit[i]
    BY <1>3, <1>6
  <2>2. CASE k \in DOMAIN audit
    BY <1>3, <2>1, <2>2 DEF Told, RefusedBefore
  <2>3. CASE k \notin DOMAIN audit
    BY <1>3, <1>5, <2>1, <2>3
  <2> QED
    BY <2>2, <2>3
<1>12. DoneTold'
  <2> SUFFICES ASSUME NEW d \in DOMAIN event, job'[d] = "done"
               PROVE  \E i \in DOMAIN audit' : audit'[i].event = d /\ audit'[i].type \in Verdicts
    BY <1>2 DEF DoneTold
  <2>1. CASE d = e
    BY <1>1, <1>3, <2>1
  <2>2. CASE d # e
    <3>1. PICK i \in DOMAIN audit : audit[i].event = d /\ audit[i].type \in Verdicts
      BY <1>2, <1>5, <2>2 DEF Told, DoneTold
    <3> QED
      BY <1>3, <3>1
  <2> QED
    BY <2>1, <2>2
<1>13. ClosedRow' <=> ClosedRow \/ verdict = "closed_resolved"
  BY <1>3 DEF ClosedRow
<1>14. CaseTold'
  <2>1. /\ case'.state = "CLOSED_PAYMENT_RESOLVED" => ClosedRow'
        /\ ClosedRow' /\ decisions' = <<>> => case'.state = "CLOSED_PAYMENT_RESOLVED"
    BY <1>4, <1>13 DEF Told, CaseTold
  <2> QED
    BY <1>4, <2>1 DEF CaseTold, Opened
<1> QED
  BY <1>7, <1>8, <1>9, <1>10, <1>11, <1>12, <1>14 DEF Told

(* A decision is appended only for a payment that had none.                *)
LEMMA DecisionsAfter ==
    ASSUME TypeOK, NEW e \in 1..Len(event), NEW verdict, Verdict(e, verdict),
           IsInjective(decisions)
    PROVE  /\ IsInjective(decisions')
           /\ Len(decisions') =
                 Len(decisions) + (IF verdict = "decision.recorded" THEN 1 ELSE 0)
<1>1. /\ decisions \in Seq(Payments) /\ Len(decisions) \in Nat
      /\ DOMAIN decisions = 1..Len(decisions) /\ event[e].payment \in Payments
  BY Elements DEF TypeOK
<1>2. CASE verdict = "decision.recorded" /\ Decide(e)
  <2>1. /\ decisions' = Append(decisions, event[e].payment)
        /\ event[e].payment \notin ToSet(decisions)
    BY <1>2 DEF Decide, Recorded
  <2>2. /\ Len(decisions') = Len(decisions) + 1
        /\ DOMAIN decisions' = 1..(Len(decisions) + 1)
        /\ \A i \in 1..Len(decisions) : decisions'[i] = decisions[i]
        /\ decisions'[Len(decisions) + 1] = event[e].payment
    <3>1. PICK S : S = Payments
      OBVIOUS
    <3>2. decisions \in Seq(S) /\ event[e].payment \in S
      BY <1>1, <3>1
    <3>3. /\ Len(Append(decisions, event[e].payment)) = Len(decisions) + 1
          /\ DOMAIN Append(decisions, event[e].payment) = 1..(Len(decisions) + 1)
          /\ \A i \in 1..Len(decisions) :
                Append(decisions, event[e].payment)[i] = decisions[i]
          /\ Append(decisions, event[e].payment)[Len(decisions) + 1] = event[e].payment
      BY <3>2, Appended
    <3> QED
      BY <2>1, <3>3
  <2>3. \A i \in 1..Len(decisions) : decisions[i] # event[e].payment
    BY <1>1, <2>1 DEF ToSet
  <2>4. \A i \in 1..(Len(decisions) + 1) :
            i \in 1..Len(decisions) \/ i = Len(decisions) + 1
    BY <1>1
  <2>5. IsInjective(decisions')
    BY <1>1, <2>2, <2>3, <2>4 DEF IsInjective
  <2> QED
    BY <1>2, <2>2, <2>5
<1>3. CASE verdict # "decision.recorded"
  <2>1. decisions' = decisions
    BY <1>3 DEF Verdict, IgnoreStale, CloseResolved, SuppressDuplicate
  <2> QED
    BY <1>1, <1>3, <2>1 DEF IsInjective
<1> QED
  BY <1>2, <1>3 DEF Verdict

LEMMA VerdictsKeepCounts ==
    ASSUME TypeOK, Claims, OnceAndAudited, NEW e, NEW verdict, Verdict(e, verdict)
    PROVE  OnceAndAudited'
<1> DEFINE R == {row("refreshed", e), Opening(e), row(verdict, e)}
<1>1. Ended(e, verdict) /\ verdict \in Verdicts
  BY VerdictEnds
<1>2. /\ e \in 1..Len(event) /\ job[e] = "claimed" /\ event' = event /\ Written(R)
      /\ \A d \in 1..Len(event) : job'[d] = IF d = e THEN "done" ELSE job[d]
  BY <1>1 DEF Ended
<1>3. \A r \in R : /\ r.event = e
                   /\ r.type \in Verdicts \/ r.type = "decision.recorded" => r = row(verdict, e)
                   /\ r.type # "webhook.received"
  BY <1>1 DEF row, Opening, Verdicts
<1>4. row(verdict, e) \in R /\ row(verdict, e).type = verdict /\ row(verdict, e).event = e
  BY DEF row
<1>5. DOMAIN event = 1..Len(event) /\ Len(decisions) \in Nat
  BY Elements
<1> HIDE DEF R
<1>6. /\ IsInjective(decisions')
      /\ Len(decisions') = Len(decisions) + (IF verdict = "decision.recorded" THEN 1 ELSE 0)
  BY <1>2, DecisionsAfter DEF OnceAndAudited
<1>7. Cardinality(RowsOf({"decision.recorded"})') = Len(decisions')
  <2>1. CASE verdict = "decision.recorded"
    <3>1. Cardinality(RowsOf({"decision.recorded"})')
             = Cardinality(RowsOf({"decision.recorded"})) + 1
      BY <1>2, <1>3, <1>4, <2>1, OneRowCounts
    <3> QED
      BY <1>6, <2>1, <3>1 DEF OnceAndAudited
  <2>2. CASE verdict # "decision.recorded"
    <3>1. \A r \in R : r.type \notin {"decision.recorded"}
      BY <1>3, <1>4, <2>2
    <3>2. Cardinality(RowsOf({"decision.recorded"})') = Cardinality(RowsOf({"decision.recorded"}))
      BY <1>2, <3>1, NoRowNoCount
    <3> QED
      BY <1>5, <1>6, <2>2, <3>2 DEF OnceAndAudited
  <2> QED
    BY <2>1, <2>2
<1>8. Cardinality(RowsOf({"webhook.received"})') = Len(event')
  <2>1. \A r \in R : r.type \notin {"webhook.received"}
    BY <1>3
  <2>2. Cardinality(RowsOf({"webhook.received"})') = Cardinality(RowsOf({"webhook.received"}))
    BY <1>2, <2>1, NoRowNoCount
  <2> QED
    BY <1>2, <2>2 DEF OnceAndAudited
<1>9. ASSUME NEW d \in DOMAIN event
      PROVE  Cardinality(VerdictsOn(d)') = (IF job'[d] = "done" THEN 1 ELSE 0)
  <2>1. Cardinality(VerdictsOn(d)) = (IF job[d] = "done" THEN 1 ELSE 0)
    BY DEF OnceAndAudited
  <2>2. CASE d = e
    <3>1. PICK n : n \notin DOMAIN audit /\ VerdictsOn(e)' = VerdictsOn(e) \cup {n}
      <4>1. /\ row(verdict, e).type \in Verdicts /\ row(verdict, e).event = e
            /\ \A q \in R : q.type \in Verdicts => q = row(verdict, e)
        BY <1>1, <1>3, <1>4
      <4> QED
        BY <1>2, <1>4, <4>1, VerdictsAfter
    <3>2. VerdictsOn(e) \subseteq DOMAIN audit
      BY DEF VerdictsOn, RowsOf
    <3>3. Cardinality(VerdictsOn(e) \cup {n}) = Cardinality(VerdictsOn(e)) + 1
      BY <3>1, <3>2, OneMore
    <3> QED
      BY <1>2, <2>1, <2>2, <3>1, <3>3
  <2>3. CASE d # e
    <3>1. VerdictsOn(d)' = VerdictsOn(d)
      BY <1>2, <1>3, <2>3, VerdictsAfter
    <3> QED
      BY <1>2, <1>5, <2>1, <2>3, <3>1
  <2> QED
    BY <2>2, <2>3
<1> QED
  BY <1>2, <1>6, <1>7, <1>8, <1>9 DEF OnceAndAudited, IsInjective
-----------------------------------------------------------------------------
(* Whatever a drain has decided so far was due when it was decided.        *)
RunClean ==
    /\ run.workers = 0 => run = NoRun
    /\ run.workers # 0 => NewlyDecided \cap settled = {}

Rules == NoObligationAfterSettlement /\ AdmittedWithinRules

(* Everything that a step may rely on.                                     *)
Inv == TypeOK /\ Claims /\ RunClean /\ Rules /\ Told /\ OnceAndAudited

Calls ==
    \/ FailNext \/ ExpireOrder \/ ShiftPdnWindow \/ CrashWorker
    \/ \E p \in Payments : LateAuthorize(p)

Starts == \E p \in Payments : RunWorker(p) \/ ConcurrentWorkers(p)

Verdicting(e) == \E verdict \in Verdicts : Verdict(e, verdict)

LEMMA NextSplits ==
    ASSUME Next
    PROVE  \/ Calls \/ Starts \/ SecondWorker \/ Observe
           \/ \E p \in Payments, t \in Times : Deliver(p, t)
           \/ \E e \in Events : Redeliver(e) \/ RefreshFails(e) \/ Verdicting(e)
<1>1. \A e \in Events :
         IgnoreStale(e) \/ CloseResolved(e) \/ Decide(e) \/ SuppressDuplicate(e) => Verdicting(e)
  BY DEF Verdicting, Verdict, Verdicts
<1> QED
  BY <1>1, Zenon DEF Next, Calls, Starts

LEMMA InvInitially == Init => Inv
<1> SUFFICES ASSUME Init PROVE Inv
  OBVIOUS
<1>1. TypeOK
  BY TypedInitially
<1>2. /\ event = <<>> /\ settled = {} /\ decisions = <<>> /\ audit = <<>> /\ run = NoRun
      /\ case = [payment_id |-> 0, state |-> "none", last_event_created_at |-> 0]
      /\ trace = [admitted |-> <<>>, decided_settled |-> {}, refusals |-> 0]
  BY DEF Init
<1>3. DOMAIN audit = {} /\ DOMAIN event = {} /\ DOMAIN decisions = {}
  BY <1>2
<1>4. Claims /\ RunClean
  BY <1>2 DEF Claims, RunClean, NoRun
<1>5. Rules
  <2>1. trace.admitted = <<>> /\ Len(trace.admitted) = 0 /\ DOMAIN trace.admitted = {}
        /\ trace.decided_settled = {}
    BY <1>2
  <2>2. 0 + 1 <= AttemptCap
    BY CalendarAssumption
  <2> QED
    BY <2>1, <2>2 DEF Rules, NoObligationAfterSettlement, AdmittedWithinRules
<1>6. Told
  BY <1>2, <1>3 DEF Told, MoneyTold, OpenerTold, DecisionTold, CaseRowsDone, RefusedBefore,
                    DoneTold, CaseTold, ClosedRow, Opened
<1>7. OnceAndAudited
  <2>1. \A types : RowsOf(types) = {}
    BY <1>3 DEF RowsOf
  <2>2. Len(decisions) = 0 /\ Len(event) = 0
    BY <1>2
  <2> QED
    BY <1>3, <2>1, <2>2, FS_EmptySet DEF OnceAndAudited, IsInjective
<1> QED
  BY <1>1, <1>4, <1>5, <1>6, <1>7 DEF Inv

LEMMA TypesKept ==
    ASSUME TypeOK, Claims, Next
    PROVE  TypeOK'
<1>1. CASE Calls \/ \E p \in Payments, t \in Times : Deliver(p, t)
  BY <1>1, CallsKeepTypes DEF Calls
<1>2. CASE Starts \/ SecondWorker
  BY <1>2, ClaimsKeepTypes DEF Starts
<1>3. CASE Observe
  BY <1>3, ObservingKeepsTypes
<1>4. CASE \E e \in Events : Redeliver(e) \/ RefreshFails(e) \/ Verdicting(e)
  BY <1>4, CallsKeepTypes, ClaimsKeepTypes, VerdictsKeepTypes DEF Verdicting
<1> QED
  BY <1>1, <1>2, <1>3, <1>4, NextSplits

(* Of the calls, only a claim moves a job, and not to done.                *)
LEMMA QuietSteps ==
    ASSUME TypeOK, Calls \/ Starts \/ SecondWorker \/ Observe
    PROVE  Quiet
<1>1. DOMAIN event = 1..Len(event)
  BY Elements
<1>2. claim_jobs => \A e \in DOMAIN event : job'[e] = "done" <=> job[e] = "done"
  BY <1>1, Claiming
<1>3. /\ UNCHANGED <<event, case, chain, decisions, audit>> /\ settled \subseteq settled'
      /\ job' = job \/ claim_jobs
  BY DEF Calls, Starts, FailNext, ExpireOrder, ShiftPdnWindow, CrashWorker, LateAuthorize,
         RunWorker, ConcurrentWorkers, StartWorkers, SecondWorker, Observe, core
<1> QED
  BY <1>2, <1>3 DEF Quiet

LEMMA ToldKept ==
    ASSUME TypeOK, TypeOK', Claims, Told, OnceAndAudited, Next
    PROVE  Told' /\ OnceAndAudited'
<1>1. CASE Calls \/ Starts \/ SecondWorker \/ Observe
  BY <1>1, QuietSteps, QuietKeepsTold
<1>2. CASE \E p \in Payments, t \in Times : Deliver(p, t)
  BY <1>2, DeliverKeepsTold DEF NotesKept
<1>3. CASE \E e \in Events : Redeliver(e) \/ RefreshFails(e)
  BY <1>3, RedeliverKeepsTold, RefusalKeepsTold DEF NotesKept
<1>4. CASE \E e \in Events : Verdicting(e)
  BY <1>4, VerdictsKeepTold, VerdictsKeepCounts DEF Verdicting
<1> QED
  BY <1>1, <1>2, <1>3, <1>4, NextSplits

LEMMA ClaimsKept ==
    ASSUME TypeOK, Claims, Next
    PROVE  Claims'
<1>1. DOMAIN event = 1..Len(event) /\ DOMAIN job = 1..Len(event) /\ run \in Runs
  BY Elements DEF TypeOK
<1>2. ASSUME run = NoRun, run' = run
      PROVE  Claims'
  BY <1>2 DEF Claims, NoRun
<1>3. ASSUME claim_jobs, run'.queue = Pending
      PROVE  Claims'
  BY <1>1, <1>3, Claiming DEF Claims, Pending
<1>4. ASSUME NEW e, TakeUp(e), NEW s, \A d \in 1..Len(event) : job'[d] = IF d = e THEN s ELSE job[d]
      PROVE  Claims'
  <2>1. run'.queue = run.queue \ {e} /\ run.queue \subseteq 1..Len(event)
    BY <1>1, <1>4, TakingUp DEF Runs
  <2> QED
    BY <1>4, <2>1 DEF Claims
<1>5. CASE Calls \/ (\E p \in Payments, t \in Times : Deliver(p, t)) \/ (\E e \in Events : Redeliver(e))
  BY <1>2, <1>5 DEF Calls, FailNext, ExpireOrder, ShiftPdnWindow, CrashWorker, LateAuthorize,
                    Deliver, Redeliver, Counted
<1>6. CASE Starts \/ SecondWorker
  <2>1. claim_jobs
    BY <1>6 DEF Starts, RunWorker, ConcurrentWorkers, StartWorkers, SecondWorker
  <2>2. run'.queue = Pending
    <3>1. CASE Starts
      <4>1. PICK w, p : StartWorkers(w, p)
        BY <3>1 DEF Starts, RunWorker, ConcurrentWorkers
      <4> QED
        BY <4>1 DEF StartWorkers
    <3>2. CASE SecondWorker
      <4>1. run' = [run EXCEPT !.workers = 1, !.queue = Pending]
        BY <3>2 DEF SecondWorker
      <4> HIDE DEF Pending
      <4> QED
        BY <1>1, <4>1 DEF Runs
    <3> QED
      BY <1>6, <3>1, <3>2
  <2> QED
    BY <1>3, <2>1, <2>2
<1>7. CASE Observe
  BY <1>7 DEF Observe, NoRun, Claims
<1>8. CASE \E e \in Events : RefreshFails(e)
  <2>1. PICK e : TakeUp(e) /\ job' = [job EXCEPT ![e] = "pending"]
    BY <1>8 DEF RefreshFails
  <2>2. e \in 1..Len(event) /\ "pending" \in JobState
    BY <2>1, TakingUp DEF JobState
  <2> QED
    BY <1>4, <2>1, <2>2, Moving
<1>9. CASE \E e \in Events : Verdicting(e)
  <2>1. PICK e, verdict : Verdict(e, verdict)
    BY <1>9 DEF Verdicting
  <2>2. TakeUp(e)
    BY <2>1 DEF Verdict, IgnoreStale, CloseResolved, Decide, SuppressDuplicate, Process
  <2>3. \A d \in 1..Len(event) : job'[d] = IF d = e THEN "done" ELSE job[d]
    BY <2>1, VerdictEnds DEF Ended
  <2> QED
    BY <1>4, <2>2, <2>3
<1> QED
  BY <1>5, <1>6, <1>7, <1>8, <1>9, NextSplits

LEMMA RunCleanKept ==
    ASSUME TypeOK, Claims, RunClean, Next
    PROVE  RunClean'
<1>1. run \in Runs
  BY DEF TypeOK
<1>2. ASSUME run = NoRun, run' = run
      PROVE  RunClean'
  BY <1>2 DEF RunClean, NoRun
<1>3. ASSUME run'.workers # 0, run.workers # 0, run'.decided = run.decided,
             settled' = settled,
             \A p \in ToSet(decisions') : p \in ToSet(decisions) \/ p \notin settled
      PROVE  RunClean'
  BY <1>3 DEF RunClean, NewlyDecided
<1>4. CASE Calls \/ (\E p \in Payments, t \in Times : Deliver(p, t)) \/ (\E e \in Events : Redeliver(e))
  BY <1>2, <1>4 DEF Calls, FailNext, ExpireOrder, ShiftPdnWindow, CrashWorker, LateAuthorize,
                    Deliver, Redeliver, Counted
<1>5. CASE Starts
  <2>1. run'.workers # 0 /\ run'.decided = ToSet(decisions) /\ decisions' = decisions
    BY <1>5 DEF Starts, RunWorker, ConcurrentWorkers, StartWorkers, core
  <2>2. NewlyDecided' = {}
    BY <2>1 DEF NewlyDecided
  <2> QED
    BY <2>1, <2>2 DEF RunClean
<1>6. CASE SecondWorker
  <2>1. /\ run.workers = 2 /\ run'.workers = 1 /\ run'.decided = run.decided
        /\ UNCHANGED <<decisions, settled>>
    BY <1>1, <1>6 DEF SecondWorker, Runs, core
  <2> QED
    BY <1>3, <2>1
<1>7. CASE Observe
  BY <1>7 DEF Observe, RunClean, NoRun
<1>8. ASSUME NEW e, TakeUp(e)
      PROVE  /\ run.workers # 0 /\ run'.workers = run.workers /\ run'.decided = run.decided
             /\ settled' = settled
  <2>1. e \in run.queue /\ run'.workers = run.workers /\ run'.decided = run.decided
        /\ settled' = settled
    BY <1>8, TakingUp DEF TakeUp
  <2>2. run # NoRun
    BY <2>1 DEF NoRun
  <2> QED
    BY <2>1, <2>2 DEF RunClean
<1>9. CASE \E e \in Events : RefreshFails(e)
  BY <1>3, <1>8, <1>9 DEF RefreshFails
<1>10. CASE \E e \in Events : Verdicting(e)
  <2>1. PICK e, verdict : Verdict(e, verdict)
    BY <1>10 DEF Verdicting
  <2>2. TakeUp(e) /\ e \in 1..Len(event)
    BY <2>1, TakingUp
       DEF Verdict, IgnoreStale, CloseResolved, Decide, SuppressDuplicate, Process
  <2>3. \A p \in ToSet(decisions') : p \in ToSet(decisions) \/ p \notin settled
    <3>1. CASE Decide(e)
      <4>1. /\ decisions' = Append(decisions, event[e].payment)
            /\ event[e].payment \notin settled
        BY <3>1 DEF Decide, is_resolved
      <4>2. PICK S : S = Payments
        OBVIOUS
      <4>3. decisions \in Seq(S) /\ event[e].payment \in S /\ Len(decisions) \in Nat
            /\ DOMAIN decisions = 1..Len(decisions)
        BY <2>2, <4>2, Elements DEF TypeOK
      <4>4. /\ DOMAIN decisions' = 1..(Len(decisions) + 1)
            /\ \A i \in 1..Len(decisions) : decisions'[i] = decisions[i]
            /\ decisions'[Len(decisions) + 1] = event[e].payment
        BY <4>1, <4>3, Appended
      <4>5. \A i \in 1..(Len(decisions) + 1) : i \in 1..Len(decisions) \/ i = Len(decisions) + 1
        BY <4>3
      <4> QED
        BY <4>1, <4>3, <4>4, <4>5 DEF ToSet
    <3>2. CASE decisions' = decisions
      BY <3>2
    <3> QED
      BY <2>1, <3>1, <3>2 DEF Verdict, IgnoreStale, CloseResolved, SuppressDuplicate
  <2> QED
    BY <1>3, <1>8, <2>2, <2>3
<1> QED
  BY <1>4, <1>5, <1>6, <1>7, <1>9, <1>10, NextSplits

LEMMA RulesKept ==
    ASSUME TypeOK, RunClean, Rules, Next
    PROVE  Rules'
<1>1. trace \in Trace /\ run \in Runs
  BY DEF TypeOK
<1>2. ASSUME trace'.admitted = trace.admitted, trace'.decided_settled = trace.decided_settled
      PROVE  Rules'
  BY <1>2 DEF Rules, NoObligationAfterSettlement, AdmittedWithinRules
<1>3. CASE Observe
  <2>1. trace'.decided_settled = {}
    <3>1. NewlyDecided \cap settled = {} /\ trace.decided_settled = {}
      BY <1>3 DEF Observe, RunClean, Rules, NoObligationAfterSettlement
    <3> QED
      BY <1>1, <1>3, <3>1 DEF Observe, Trace
  <2>2. CASE Opened /\ check(request(run.index)) = "allowed"
    <3>1. PICK a : a = Admission(request(run.index))
      OBVIOUS
    <3>2. /\ a \in Admitted /\ ~a.payment_settled /\ ~a.expired /\ ~is_peak(a.execute_at)
          /\ a.decided_at <= pdn_deadline_for(a.execute_at, "")
          /\ Len(trace.admitted) + 1 < AttemptCap
      <4>1. run.index \in Payments
        BY <1>1 DEF Runs
      <4> QED
        BY <2>2, <3>1, <4>1, GuardKeepsRules
    <3>3. trace'.admitted = Append(trace.admitted, a)
      BY <1>1, <1>3, <2>2, <3>1 DEF Observe, Trace
    <3>4. trace.admitted \in Seq(Admitted)
      BY <1>1 DEF Trace
    <3>5. /\ Len(trace'.admitted) = Len(trace.admitted) + 1
          /\ DOMAIN trace'.admitted = 1..(Len(trace.admitted) + 1)
          /\ \A i \in 1..Len(trace.admitted) : trace'.admitted[i] = trace.admitted[i]
          /\ trace'.admitted[Len(trace.admitted) + 1] = a
          /\ Len(trace.admitted) \in Nat /\ DOMAIN trace.admitted = 1..Len(trace.admitted)
      <4>1. PICK S : S = Admitted
        OBVIOUS
      <4>2. PICK s : s = trace.admitted
        OBVIOUS
      <4>3. s \in Seq(S) /\ a \in S
        BY <3>2, <3>4, <4>1, <4>2
      <4>4. /\ Len(Append(s, a)) = Len(s) + 1 /\ DOMAIN Append(s, a) = 1..(Len(s) + 1)
            /\ \A i \in 1..Len(s) : Append(s, a)[i] = s[i]
            /\ Append(s, a)[Len(s) + 1] = a
            /\ Len(s) \in Nat /\ DOMAIN s = 1..Len(s)
        BY <4>3, Appended, SeqFacts
      <4> QED
        BY <3>3, <4>2, <4>4
    <3>6. \A i \in DOMAIN trace'.admitted :
              i \in DOMAIN trace.admitted \/ i = Len(trace.admitted) + 1
      BY <3>5
    <3>7. Len(trace'.admitted) + 1 <= AttemptCap
      <4>1. AttemptCap \in Nat
        BY CalendarAssumption
      <4>2. PICK n \in Nat : n = Len(trace.admitted)
        BY <3>5
      <4>3. n + 1 < AttemptCap /\ Len(trace'.admitted) = n + 1
        BY <3>2, <3>5, <4>2, Zenon
      <4>4. (n + 1) + 1 <= AttemptCap
        BY <4>1, <4>3
      <4> QED
        BY <4>3, <4>4, Zenon
    <3>8. \A i \in DOMAIN trace'.admitted : ~trace'.admitted[i].payment_settled
      BY <3>2, <3>5, <3>6 DEF Rules, NoObligationAfterSettlement
    <3>9. \A i \in DOMAIN trace'.admitted :
              LET b == trace'.admitted[i]
              IN  /\ ~b.expired /\ ~is_peak(b.execute_at)
                  /\ b.decided_at <= pdn_deadline_for(b.execute_at, "")
      BY <3>2, <3>5, <3>6 DEF Rules, AdmittedWithinRules
    <3> QED
      BY <2>1, <3>7, <3>8, <3>9 DEF Rules, NoObligationAfterSettlement, AdmittedWithinRules
  <2>3. CASE ~(Opened /\ check(request(run.index)) = "allowed")
    <3>1. trace'.admitted = trace.admitted
      BY <1>1, <1>3, <2>3 DEF Observe, Trace
    <3> QED
      BY <1>2, <2>1, <3>1 DEF Rules, NoObligationAfterSettlement
  <2> QED
    BY <2>2, <2>3
<1>4. CASE FailNext
  BY <1>1, <1>2, <1>4 DEF FailNext, Trace
<1>5. CASE trace' = trace
  BY <1>2, <1>5
<1>6. CASE Next /\ ~Observe /\ ~FailNext
  BY <1>5, <1>6 DEF Next, ExpireOrder, ShiftPdnWindow, CrashWorker, LateAuthorize, Deliver, Redeliver,
          RunWorker, ConcurrentWorkers, StartWorkers, SecondWorker, RefreshFails, IgnoreStale,
          CloseResolved, Decide, SuppressDuplicate, Process, TakeUp
<1> QED
  BY <1>3, <1>4, <1>6

LEMMA InvKept == Inv /\ [Next]_vars => Inv'
<1> SUFFICES ASSUME Inv, [Next]_vars PROVE Inv'
  OBVIOUS
<1>1. CASE Next
  <2>1. TypeOK' /\ Claims' /\ RunClean' /\ Rules'
    BY <1>1, TypesKept, ClaimsKept, RunCleanKept, RulesKept DEF Inv
  <2>2. Told' /\ OnceAndAudited'
    BY <1>1, <2>1, ToldKept DEF Inv
  <2> QED
    BY <2>1, <2>2 DEF Inv
<1>2. CASE UNCHANGED vars
  <2>1. UNCHANGED <<event, job, settled, fail_next, case, chain, decisions, audit, world, trace,
                    run, actions>>
    BY <1>2 DEF vars, core
  <2>2. TypeOK'
    BY <2>1 DEF Inv, TypeOK, Row, Runs
  <2>3. Claims' /\ RunClean' /\ Rules'
    BY <2>1 DEF Inv, Claims, RunClean, Rules, NewlyDecided, NoObligationAfterSettlement,
                AdmittedWithinRules
  <2>4. Quiet
    BY <2>1 DEF Quiet
  <2>5. Told' /\ OnceAndAudited'
    BY <2>4, QuietKeepsTold DEF Inv
  <2> QED
    BY <2>2, <2>3, <2>5 DEF Inv
<1> QED
  BY <1>1, <1>2

(* The search never leaves the states of Inv.                              *)
THEOREM Invariance == Spec => []Inv
BY InvInitially, InvKept, PTL DEF Spec

(* The rows keep their types, and no payment has two positions.            *)
THEOREM TypeCorrectness == Spec => []TypeOK
<1>1. Inv => TypeOK
  BY DEF Inv
<1> QED
  BY <1>1, Invariance, PTL

(* No decision and no admission against a payment whose money arrived.     *)
THEOREM NothingOwedAfterSettlement == Spec => []NoObligationAfterSettlement
<1>1. Inv => NoObligationAfterSettlement
  BY DEF Inv, Rules
<1> QED
  BY <1>1, Invariance, PTL

(* Whatever the guard admits after a drain is within the cap, before the   *)
(* expiry, outside the peaks and announced in time.                        *)
THEOREM AdmissionsKeepTheRules == Spec => []AdmittedWithinRules
<1>1. Inv => AdmittedWithinRules
  BY DEF Inv, Rules
<1> QED
  BY <1>1, Invariance, PTL

(* One decision per payment and one verdict per finished job, through      *)
(* deliveries again, dead workers, two workers and refusals.               *)
THEOREM EveryJobEndsOnce == Spec => []OnceAndAudited
<1>1. Inv => OnceAndAudited
  BY DEF Inv
<1> QED
  BY <1>1, Invariance, PTL
-----------------------------------------------------------------------------
(* The ledger, which keeps nothing: what it shows follows from the rows.   *)
LEMMA LatestOf ==
    ASSUME NEW n \in Nat, NEW S, S \subseteq 1..n, S # {}
    PROVE  Max(S) \in S /\ \A y \in S : Max(S) >= y
<1> DEFINE T == {n - i : i \in S}
<1>1. T \subseteq Nat /\ T # {}
  <2>1. \A i \in 1..n : n - i \in Nat
    OBVIOUS
  <2> QED
    BY <2>1
<1>2. PICK x \in T : \A y \in T : ~(<<y, x>> \in OpToRel(<, Nat))
  BY <1>1, NatLessThanWellFounded, WFMin, Zenon
<1>3. \A y \in T : ~(y < x)
  BY <1>1, <1>2 DEF OpToRel
<1>4. PICK m \in S : x = n - m
  BY <1>2
<1>5. \A y \in S : m >= y
  BY <1>3, <1>4
<1> QED
  BY <1>5 DEF Max

(* An event with a row of the case is finished and has its verdict.        *)
LEMMA EventsOfTheCase ==
    ASSUME Inv
    PROVE  /\ \A i \in DOMAIN audit : audit[i].type \in OfCase => i \in _events_for
           /\ \A e \in DOMAIN event : e \in event_ids <=> job[e] = "done"
           /\ \A i \in _events_for : i \in DOMAIN audit /\ audit[i].event \in event_ids
           /\ \A i \in DOMAIN audit : audit[i].event \in event_ids => i \in _events_for
<1>1. \A i \in DOMAIN audit :
          audit[i].type \in PreCase \cup OfCase /\ audit[i].event \in DOMAIN event
  BY Elements DEF Inv
<1>2. CaseRowsDone /\ DoneTold
  BY DEF Inv, Told
<1>3. Verdicts \subseteq OfCase
  BY DEF OfCase
<1> QED
  BY <1>1, <1>2, <1>3 DEF audit_trail, event_ids, _events_for, CaseRowsDone, DoneTold

LEMMA Undecided ==
    ASSUME Inv, Opened, decisions = <<>>
    PROVE  case.state = "CLOSED_PAYMENT_RESOLVED" /\ ClosedRow
<1>1. case \in Case
  BY DEF Inv, TypeOK
<1> QED
  BY <1>1 DEF Inv, Told, CaseTold, Opened, Case

(* Whatever was written about an event that reached the case is in the     *)
(* case's trace.                                                           *)
THEOREM TraceLeavesNothingOut == Spec => []TraceIsComplete
<1>1. Inv => TraceIsComplete
  BY EventsOfTheCase DEF TraceIsComplete
<1> QED
  BY <1>1, Invariance, PTL

(* The line is read off the last row that tells, and is right.             *)
LEMMA LineFits ==
    ASSUME Inv
    PROVE  OutcomeLineFits
<1> DEFINE telling == {"closed_resolved", "refresh_failed"}
           found == {i \in _events_for : audit[i].type \in telling}
           hidden == \E i, j \in DOMAIN audit :
                        /\ i < j /\ audit[i].event = audit[j].event
                        /\ audit[i].type = "refresh_failed"
                        /\ audit[j].type = "stale_ignored"
<1> SUFFICES ASSUME Opened PROVE OutcomeLineFits
  BY DEF OutcomeLineFits
<1>1. CASE decisions # <<>>
  <2>1. outcome_line = "decided"
    BY <1>1 DEF outcome_line
  <2> QED
    BY <1>1, <2>1 DEF OutcomeLineFits
<1>2. CASE decisions = <<>>
  <2>1. case.state = "CLOSED_PAYMENT_RESOLVED" /\ ClosedRow /\ settled # {}
    BY <1>2, Undecided DEF Inv, Told, MoneyTold, ClosedRow
  <2>2. PICK c \in DOMAIN audit : audit[c].type = "closed_resolved"
    BY <2>1 DEF ClosedRow
  <2>3. c \in found
    BY <2>2, EventsOfTheCase DEF OfCase, Verdicts
  <2>4. PICK n \in Nat : DOMAIN audit = 1..n
    BY Elements DEF Inv
  <2>5. found \subseteq 1..n
    BY <2>4, EventsOfTheCase
  <2>6. PICK last : last = Max(found)
    OBVIOUS
  <2>7. last \in found /\ \A i \in found : last >= i
    BY <2>3, <2>5, <2>6, LatestOf
  <2>8. Latest(telling) = audit[last].type
    BY <2>3, <2>6 DEF Latest
  <2>9. CASE audit[last].type = "closed_resolved"
    <3>1. outcome_line = "settled"
      BY <1>2, <2>8, <2>9 DEF outcome_line
    <3> QED
      BY <1>2, <2>1, <3>1 DEF OutcomeLineFits
  <2>10. CASE audit[last].type = "refresh_failed"
    <3>1. outcome_line = "unavailable"
      BY <1>2, <2>8, <2>10 DEF outcome_line
    <3>2. PICK j \in DOMAIN audit :
              audit[j].event = audit[last].event /\ audit[j].type \in Verdicts
      <4>1. last \in DOMAIN audit /\ job[audit[last].event] = "done"
        BY <2>7, EventsOfTheCase, Elements DEF Inv
      <4> QED
        BY <4>1, Elements DEF Inv, Told, DoneTold
    <3>3. last < j
      BY <2>7, <2>10, <3>2, EventsOfTheCase DEF Inv, Told, RefusedBefore, OfCase
    <3>4. audit[j].type # "closed_resolved"
      <4>1. j \in _events_for
        BY <3>2, EventsOfTheCase DEF OfCase
      <4>2. j \in found => last >= j
        BY <2>7
      <4> QED
        BY <2>4, <2>5, <2>7, <3>2, <3>3, <4>1, <4>2
    <3>5. audit[j].type \notin {"decision.recorded", "decision.duplicate"}
      <4>1. ToSet(decisions) = {}
        BY <1>2 DEF ToSet
      <4> QED
        BY <3>2, <4>1 DEF Inv, Told, DecisionTold, Recorded
    <3>6. hidden
      BY <2>7, <2>10, <3>2, <3>3, <3>4, <3>5, EventsOfTheCase DEF Verdicts
    <3> QED
      BY <1>2, <3>1, <3>6 DEF OutcomeLineFits
  <2> QED
    BY <2>7, <2>9, <2>10
<1> QED
  BY <1>1, <1>2

THEOREM TheLineIsRight == Spec => []OutcomeLineFits
BY LineFits, Invariance, PTL

(* A payment that opened the case, or that was decided on, leads to it.    *)
THEOREM DecidedIsFound == Spec => []ResolveFindsTheDecided
<1>1. Inv => ResolveFindsTheDecided
  <2> SUFFICES ASSUME Inv, NEW e \in DOMAIN event, ~resolve(event[e].payment),
                      NEW i \in DOMAIN audit, audit[i].event = e,
                      audit[i].type \in {"case.opened", "decision.recorded", "decision.duplicate"}
               PROVE  FALSE
    BY DEF ResolveFindsTheDecided
  <2>1. CASE audit[i].type = "case.opened"
    BY <2>1 DEF Inv, Told, OpenerTold, resolve
  <2>2. CASE audit[i].type \in {"decision.recorded", "decision.duplicate"}
    <3>1. event[e].payment \in ToSet(decisions)
      BY <2>2 DEF Inv, Told, DecisionTold, Recorded
    <3>2. Opened
      <4>1. decisions # <<>>
        BY <3>1 DEF ToSet
      <4> QED
        BY <4>1 DEF Inv, Told, CaseTold
    <3> QED
      BY <3>1, <3>2 DEF resolve
  <2> QED
    BY <2>1, <2>2
<1> QED
  BY <1>1, Invariance, PTL
=============================================================================
