--------------------------- MODULE SimulatorProofs ---------------------------
(***************************************************************************)
(* The environment against any arm: what a proposal may not do to a case,  *)
(* for any number of cases, any calendar, any world and whatever the arm   *)
(* proposes.                                                               *)
(***************************************************************************)
EXTENDS Simulator, WellFoundedInduction, FiniteSetTheorems, SequenceTheorems, TLAPS

Fields == {"attempts_used", "contacts_used", "notifications", "outcome",
           "attempt_pending_until", "last_attempt_resolved_at", "last_contact_at", "history"}

Closing == {"recovered_via_attempt", "recovered_via_link", "mandate_revoked"}

Shaped(s) == s = [f \in Fields |-> s[f]] /\ \E S : s.history \in Seq(S)

(* A case that nothing closed, and any case.                               *)
OpenOK(s) == Shaped(s) /\ \A i \in 1..Len(s.history) : s.history[i][1] \notin Closing

CaseOK(s) ==
    /\ Shaped(s)
    /\ \A i \in 1..Len(s.history) :
          s.history[i][1] \in Closing => i = Len(s.history) /\ s.outcome # "open"

CasesOK == /\ case = [c \in Cases |-> case[c]]
           /\ \A c \in Cases : CaseOK(case[c])
-----------------------------------------------------------------------------
LEMMA AppendAny ==
    ASSUME NEW S, NEW h \in Seq(S), NEW e
    PROVE  /\ Append(h, e) \in Seq(S \cup {e})
           /\ Len(h) \in Nat /\ Len(Append(h, e)) = Len(h) + 1
           /\ \A i \in 1..Len(h) : Append(h, e)[i] = h[i]
           /\ Append(h, e)[Len(h) + 1] = e
<1>1. h \in Seq(S \cup {e})
  OBVIOUS
<1> QED
  BY <1>1

LEMMA OpenIsCase ==
    ASSUME NEW s
    PROVE  /\ OpenOK(s) => CaseOK(s)
           /\ CaseOK(s) /\ s.outcome = "open" => OpenOK(s)
BY DEF OpenOK, CaseOK

LEMMA Updated ==
    ASSUME NEW s, NEW f \in Fields \ {"history", "outcome"}, NEW v
    PROVE  /\ OpenOK(s) => OpenOK([s EXCEPT ![f] = v])
           /\ CaseOK(s) => CaseOK([s EXCEPT ![f] = v])
           /\ Shaped(s) => [s EXCEPT ![f] = v].outcome = s.outcome
<1> DEFINE t == [s EXCEPT ![f] = v]
<1>1. ASSUME Shaped(s)
      PROVE  Shaped(t) /\ t.history = s.history /\ t.outcome = s.outcome
  <2>1. s = [g \in Fields |-> s[g]] /\ \E S : s.history \in Seq(S)
    BY <1>1 DEF Shaped
  <2>2. "history" \in Fields /\ "outcome" \in Fields
    BY DEF Fields
  <2>3. t = [g \in Fields |-> t[g]] /\ t.history = s.history /\ t.outcome = s.outcome
    BY <2>1, <2>2
  <2> QED
    BY <2>1, <2>3 DEF Shaped
<1> QED
  BY <1>1 DEF OpenOK, CaseOK

LEMMA LoggedOpen ==
    ASSUME NEW s, OpenOK(s), NEW what
    PROVE  /\ what \notin Closing => OpenOK(Logged(s, what))
           /\ \A o : o # "open" => CaseOK([Logged(s, what) EXCEPT !.outcome = o])
<1> DEFINE e == <<what, p.execute_at>>
           t == Logged(s, what)
<1>1. s = [f \in Fields |-> s[f]] /\ "history" \in Fields /\ "outcome" \in Fields
  BY DEF OpenOK, Shaped, Fields
<1>2. /\ t = [f \in Fields |-> t[f]]
      /\ t.history = Append(s.history, e) /\ t.outcome = s.outcome
  BY <1>1 DEF Logged
<1>3. PICK S : s.history \in Seq(S)
  BY DEF OpenOK, Shaped
<1> HIDE DEF t
<1>4. /\ t.history \in Seq(S \cup {e})
      /\ Len(s.history) \in Nat /\ Len(t.history) = Len(s.history) + 1
      /\ \A i \in 1..Len(s.history) : t.history[i] = s.history[i]
      /\ t.history[Len(s.history) + 1] = e
  <2> DEFINE h == s.history
  <2>1. h \in Seq(S)
    BY <1>3
  <2> HIDE DEF h, e
  <2>2. /\ Append(h, e) \in Seq(S \cup {e})
        /\ Len(h) \in Nat /\ Len(Append(h, e)) = Len(h) + 1
        /\ \A i \in 1..Len(h) : Append(h, e)[i] = h[i]
        /\ Append(h, e)[Len(h) + 1] = e
    BY <2>1, AppendAny
  <2> QED
    BY <1>2, <2>2 DEF h
<1>5. \A i \in 1..Len(t.history) : i = Len(t.history) \/ t.history[i][1] \notin Closing
  BY <1>4 DEF OpenOK
<1>6. t.history[Len(t.history)][1] = what
  BY <1>4
<1> HIDE DEF e
<1>7. ASSUME what \notin Closing
      PROVE  OpenOK(t)
  BY <1>2, <1>4, <1>5, <1>6, <1>7 DEF OpenOK, Shaped
<1>8. ASSUME NEW o, o # "open"
      PROVE  CaseOK([t EXCEPT !.outcome = o])
  <2> DEFINE u == [t EXCEPT !.outcome = o]
  <2>1. u = [f \in Fields |-> u[f]] /\ u.history = t.history /\ u.outcome = o
    BY <1>1, <1>2
  <2> HIDE DEF u
  <2>2. CaseOK(u)
    BY <2>1, <1>4, <1>5, <1>8 DEF CaseOK, Shaped
  <2> QED
    BY <2>2 DEF u
<1> QED
  BY <1>7, <1>8 DEF t

LEMMA Notified ==
    ASSUME NEW s, OpenOK(s), NEW t \in _notify(s)
    PROVE  CaseOK(t)
<1> DEFINE told == [s EXCEPT !.notifications = s.notifications + 1]
<1>1. OpenOK(told)
  BY Updated DEF Fields
<1>2. t = told \/ t = [Logged(told, "mandate_revoked") EXCEPT !.outcome = "revoked"]
  BY DEF _notify
<1> HIDE DEF told
<1>3. CaseOK(told) /\ CaseOK([Logged(told, "mandate_revoked") EXCEPT !.outcome = "revoked"])
  <2>1. "revoked" # "open"
    OBVIOUS
  <2> QED
    BY <1>1, <2>1, OpenIsCase, LoggedOpen
<1> QED
  BY <1>2, <1>3

LEMMA OneCase ==
    ASSUME CasesOK, NEW t, case' = [case EXCEPT ![shown] = t],
           shown \in Cases => CaseOK(t)
    PROVE  CasesOK'
<1>1. case' = [c \in Cases |-> case'[c]] /\ \A c \in Cases : case'[c] = IF c = shown THEN t ELSE case[c]
  BY DEF CasesOK
<1>2. \A c \in Cases : CaseOK(case'[c])
  BY <1>1 DEF CasesOK
<1> QED
  BY <1>1, <1>2 DEF CasesOK, CaseOK, Shaped

LEMMA ShownIsOpen ==
    ASSUME CasesOK, NEW kind, Submitting(kind), shown \in Cases
    PROVE  OpenOK(case[shown])
BY OpenIsCase DEF CasesOK, Submitting, is_open
-----------------------------------------------------------------------------
LEMMA InitCases == Init => CasesOK
<1> SUFFICES ASSUME Init
             PROVE  CasesOK
  OBVIOUS
<1>1. \A c \in Cases : case[c] = NewCase
  BY DEF Init
<1>2. NewCase = [f \in Fields |-> NewCase[f]] /\ NewCase.history = <<>>
  BY DEF NewCase, Fields
<1>3. <<>> \in Seq({}) /\ \A i \in 1..Len(<<>>) : FALSE
  OBVIOUS
<1>4. CaseOK(NewCase)
  <2>1. Shaped(NewCase)
    BY <1>2, <1>3 DEF Shaped
  <2>2. \A i \in 1..Len(NewCase.history) : FALSE
    BY <1>2, <1>3
  <2> QED
    BY <2>1, <2>2 DEF CaseOK
<1> QED
  BY <1>1, <1>4 DEF CasesOK, Init

LEMMA NextCases == CasesOK /\ [Next]_vars => CasesOK'
<1> SUFFICES ASSUME CasesOK, [Next]_vars
             PROVE  CasesOK'
  OBVIOUS
<1>1. ASSUME UNCHANGED case
      PROVE  CasesOK'
  BY <1>1 DEF CasesOK, CaseOK, Shaped
<1>2. ASSUME NEW c \in Cases, Drive(c)
      PROVE  CasesOK'
  <2>1. PICK n, m : case' = [case EXCEPT ![c] = [case[c] EXCEPT !.attempts_used = n,
                                                               !.contacts_used = m]]
    BY <1>2 DEF Drive
  <2>2. CaseOK([case[c] EXCEPT !.attempts_used = n])
    BY Updated DEF CasesOK, Fields
  <2>3. CaseOK([case[c] EXCEPT !.attempts_used = n, !.contacts_used = m])
    BY <2>2, Updated DEF Fields
  <2>4. /\ case' = [d \in Cases |-> case'[d]]
        /\ \A d \in Cases : case'[d] = case[d] \/
               case'[d] = [case[c] EXCEPT !.attempts_used = n, !.contacts_used = m]
    BY <2>1 DEF CasesOK
  <2>5. \A d \in Cases : CaseOK(case'[d])
    BY <2>3, <2>4 DEF CasesOK
  <2> QED
    BY <2>4, <2>5 DEF CasesOK, CaseOK, Shaped
<1>3. CASE AttemptSucceeds
  <2> DEFINE s == Attempted(case[shown])
             t == _recover(s, "recovered_via_attempt")
  <2>1. case' = [case EXCEPT ![shown] = t]
    BY <1>3 DEF AttemptSucceeds
  <2>2. ASSUME shown \in Cases
        PROVE  CaseOK(t)
    <3>1. OpenOK(s)
      BY <1>3, <2>2, ShownIsOpen, Updated DEF AttemptSucceeds, Attempted, Fields
    <3>2. "recovered" # "open"
      OBVIOUS
    <3> QED
      BY <3>1, <3>2, LoggedOpen DEF _recover
  <2> QED
    BY <2>1, <2>2, OneCase
<1>4. CASE AttemptFails
  <2> DEFINE s == Logged(Attempted(case[shown]), "attempt_failed")
  <2>0. PICK hours \in PendingHours : \E t \in _notify(s) :
            case' = [case EXCEPT ![shown] = [t EXCEPT !.attempt_pending_until = ResolvedAt(hours),
                                                      !.last_attempt_resolved_at = ResolvedAt(hours)]]
    BY <1>4, Zenon DEF AttemptFails
  <2> DEFINE at == ResolvedAt(hours)
  <2>1. PICK t \in _notify(s) :
            case' = [case EXCEPT ![shown] = [t EXCEPT !.attempt_pending_until = at,
                                                      !.last_attempt_resolved_at = at]]
    BY <2>0
  <2> DEFINE u == [t EXCEPT !.attempt_pending_until = at]
             w == [u EXCEPT !.last_attempt_resolved_at = at]
  <2>2. ASSUME shown \in Cases
        PROVE  CaseOK(w)
    <3>1. OpenOK(Attempted(case[shown]))
      BY <1>4, <2>2, ShownIsOpen, Updated DEF AttemptFails, Attempted, Fields
    <3>2. OpenOK(s)
      <4>1. "attempt_failed" \notin Closing
        BY DEF Closing
      <4> QED
        BY <3>1, <4>1, LoggedOpen
    <3>3. CaseOK(t)
      BY <3>2, Notified
    <3>4. CaseOK(u)
      BY <3>3, Updated DEF Fields
    <3> QED
      BY <3>4, Updated DEF Fields
  <2>3. case' = [case EXCEPT ![shown] = w]
    BY <2>1
  <2> HIDE DEF w
  <2> QED
    BY <2>2, <2>3, OneCase
<1>5. CASE ContactConverts
  <2> DEFINE s == Contacted(case[shown])
             t == _recover(s, "recovered_via_link")
  <2>1. case' = [case EXCEPT ![shown] = t]
    BY <1>5 DEF ContactConverts
  <2>2. ASSUME shown \in Cases
        PROVE  CaseOK(t)
    <3>1. OpenOK([case[shown] EXCEPT !.last_contact_at = p.execute_at])
      BY <1>5, <2>2, ShownIsOpen, Updated DEF ContactConverts, Fields
    <3>2. OpenOK(s)
      BY <3>1, Updated DEF Contacted, Fields
    <3>3. "recovered" # "open"
      OBVIOUS
    <3> QED
      BY <3>2, <3>3, LoggedOpen DEF _recover
  <2> QED
    BY <2>1, <2>2, OneCase
<1>6. CASE ContactIgnored
  <2> DEFINE s == Logged(Contacted(case[shown]), "contact_ignored")
  <2>1. PICK t \in _notify(s) : case' = [case EXCEPT ![shown] = t]
    BY <1>6 DEF ContactIgnored
  <2>2. ASSUME shown \in Cases
        PROVE  CaseOK(t)
    <3>1. OpenOK([case[shown] EXCEPT !.last_contact_at = p.execute_at])
      BY <1>6, <2>2, ShownIsOpen, Updated DEF ContactIgnored, Fields
    <3>2. OpenOK(Contacted(case[shown]))
      BY <3>1, Updated DEF Contacted, Fields
    <3>3. OpenOK(s)
      <4>1. "contact_ignored" \notin Closing
        BY DEF Closing
      <4> QED
        BY <3>2, <4>1, LoggedOpen
    <3> QED
      BY <3>3, Notified
  <2> QED
    BY <2>1, <2>2, OneCase
<1>7. CASE finalise
  <2>1. /\ case' = [c \in Cases |-> case'[c]]
        /\ \A c \in Cases : case'[c] = case[c] \/
               (is_open(c) /\ case'[c] = [case[c] EXCEPT !.outcome = "halted"])
    BY <1>7 DEF finalise
  <2>2. ASSUME NEW c \in Cases
        PROVE  CaseOK([case[c] EXCEPT !.outcome = "halted"])
    <3> DEFINE t == [case[c] EXCEPT !.outcome = "halted"]
    <3>1. CaseOK(case[c])
      BY DEF CasesOK
    <3>2. t = [f \in Fields |-> t[f]] /\ t.history = case[c].history /\ t.outcome = "halted"
      BY <3>1 DEF CaseOK, Shaped, Fields
    <3>3. "halted" # "open"
      OBVIOUS
    <3> HIDE DEF t
    <3>4. CaseOK(t)
      BY <3>1, <3>2, <3>3 DEF CaseOK, Shaped
    <3> QED
      BY <3>4 DEF t
  <2>3. \A c \in Cases : CaseOK(case'[c])
    BY <2>1, <2>2 DEF CasesOK
  <2> QED
    BY <2>1, <2>3 DEF CasesOK, CaseOK, Shaped
<1>8. CASE NextDay \/ SubmitMoot \/ SubmitRefused \/ \E c \in Cases : Propose(c)
  BY <1>1, <1>8 DEF NextDay, SubmitMoot, SubmitRefused, Propose
<1> QED
  BY <1>1, <1>2, <1>3, <1>4, <1>5, <1>6, <1>7, <1>8 DEF Next, vars

(* Nothing happens to a case after it was recovered or its mandate revoked,*)
(* whatever the arm proposes in the same breath (environment.py, submit).  *)
THEOREM ClosedCasesAreFinal == Spec => []ClosedIsFinal
<1>1. CasesOK => ClosedIsFinal
  <2> SUFFICES ASSUME CasesOK, NEW c \in Cases, NEW i \in DOMAIN case[c].history,
                      case[c].history[i][1] \in Closing
               PROVE  i = Len(case[c].history)
    BY DEF ClosedIsFinal, Closing
  <2>1. CaseOK(case[c])
    BY DEF CasesOK
  <2>2. \E S : case[c].history \in Seq(S)
    BY <2>1 DEF CaseOK, Shaped
  <2>3. i \in 1..Len(case[c].history)
    BY <2>2
  <2> QED
    BY <2>1, <2>3 DEF CaseOK
<1> QED
  BY <1>1, InitCases, NextCases, PTL DEF Spec
-----------------------------------------------------------------------------
(* What the two kinds of submission do to the case.                        *)
Kept(s, t, fields) == \A f \in fields : t[f] = s[f]

Executed(s, t, x) ==
    /\ t.attempts_used = s.attempts_used + 1
    /\ Kept(s, t, {"contacts_used", "last_contact_at"})
    /\ \/ /\ t.history = Append(s.history, <<"recovered_via_attempt", x>>)
          /\ t.outcome = "recovered"
          /\ Kept(s, t, {"notifications", "attempt_pending_until", "last_attempt_resolved_at"})
       \/ /\ \/ /\ t.history = Append(s.history, <<"attempt_failed", x>>)
                /\ t.outcome = s.outcome
             \/ /\ t.history = Append(Append(s.history, <<"attempt_failed", x>>),
                                      <<"mandate_revoked", x>>)
                /\ t.outcome = "revoked"
          /\ t.notifications = s.notifications + 1
          /\ \E hours \in PendingHours : /\ t.attempt_pending_until = ResolvedAt(hours)
                                         /\ t.last_attempt_resolved_at = ResolvedAt(hours)

ContactMade(s, t, x) ==
    /\ t.contacts_used = s.contacts_used + 1 /\ t.last_contact_at = x
    /\ Kept(s, t, {"attempts_used", "attempt_pending_until", "last_attempt_resolved_at"})
    /\ \/ /\ t.history = Append(s.history, <<"recovered_via_link", x>>)
          /\ t.outcome = "recovered" /\ t.notifications = s.notifications
       \/ /\ \/ /\ t.history = Append(s.history, <<"contact_ignored", x>>)
                /\ t.outcome = s.outcome
             \/ /\ t.history = Append(Append(s.history, <<"contact_ignored", x>>),
                                      <<"mandate_revoked", x>>)
                /\ t.outcome = "revoked"
          /\ t.notifications = s.notifications + 1

Driven(c) ==
    /\ driver = "contract" /\ c \in left
    /\ \E ps \in propose(c) :
          /\ case'[c].attempts_used = case[c].attempts_used + OfKind(ps, "EXECUTION")
          /\ case'[c].contacts_used = case[c].contacts_used + OfKind(ps, "CONTACT")
    /\ Kept(case[c], case'[c], Fields \ {"attempts_used", "contacts_used"})

Halted(c) == /\ is_open(c) /\ case'[c].outcome = "halted"
             /\ Kept(case[c], case'[c], Fields \ {"outcome"})

Effect(c) ==
    \/ case'[c] = case[c]
    \/ Driven(c)
    \/ Halted(c)
    \/ c = shown /\ Submitting("EXECUTION") /\ Executed(case[c], case'[c], p.execute_at)
    \/ c = shown /\ Submitting("CONTACT") /\ ContactMade(case[c], case'[c], p.execute_at)

LEMMA NotifiedEffect ==
    ASSUME NEW s, Shaped(s), NEW t \in _notify(s)
    PROVE  /\ Shaped(t)
           /\ Kept(s, t, Fields \ {"notifications", "outcome", "history"})
           /\ t.notifications = s.notifications + 1
           /\ \/ t.history = s.history /\ t.outcome = s.outcome
              \/ /\ t.history = Append(s.history, <<"mandate_revoked", p.execute_at>>)
                 /\ t.outcome = "revoked"
<1> DEFINE told == [s EXCEPT !.notifications = @ + 1]
           e == <<"mandate_revoked", p.execute_at>>
<1>1. s = [f \in Fields |-> s[f]] /\ \E S : s.history \in Seq(S)
  BY DEF Shaped
<1>2. /\ told = [f \in Fields |-> told[f]] /\ told.notifications = s.notifications + 1
      /\ \A f \in Fields \ {"notifications"} : told[f] = s[f]
  BY <1>1 DEF Fields
<1>3. t = told \/ t = [Logged(told, "mandate_revoked") EXCEPT !.outcome = "revoked"]
  BY DEF _notify
<1> HIDE DEF told
<1>4. CASE t = told
  BY <1>1, <1>2, <1>4 DEF Shaped, Kept, Fields
<1>5. CASE t = [Logged(told, "mandate_revoked") EXCEPT !.outcome = "revoked"]
  <2>1. t = [told EXCEPT !.history = Append(told.history, e), !.outcome = "revoked"]
    BY <1>5 DEF Logged
  <2>2. /\ t = [f \in Fields |-> t[f]] /\ t.history = Append(s.history, e)
        /\ t.outcome = "revoked"
        /\ \A f \in Fields \ {"history", "outcome"} : t[f] = told[f]
    BY <1>2, <2>1 DEF Fields
  <2>3. PICK S : s.history \in Seq(S)
    BY <1>1
  <2>4. Append(s.history, e) \in Seq(S \cup {e})
    BY <2>3, AppendAny
  <2>5. Shaped(t)
    BY <2>2, <2>4 DEF Shaped
  <2> QED
    BY <1>2, <2>2, <2>5 DEF Kept, Fields
<1> QED
  BY <1>3, <1>4, <1>5
LEMMA OthersKept ==
    ASSUME CasesOK, NEW t, case' = [case EXCEPT ![shown] = t], NEW c \in Cases
    PROVE  case'[c] = IF c = shown THEN t ELSE case[c]
BY DEF CasesOK

LEMMA LoggedExecution ==
    ASSUME NEW s, Shaped(s), NEW what, NEW t, t = Logged(Attempted(s), what)
    PROVE  /\ Shaped(t)
           /\ t.history = Append(s.history, <<what, p.execute_at>>)
           /\ t.attempts_used = s.attempts_used + 1
           /\ Kept(s, t, Fields \ {"history", "attempts_used"})
<1> DEFINE e == <<what, p.execute_at>>
           n == s.attempts_used + 1
           h == Append(s.history, e)
<1>1. PICK S : s.history \in Seq(S)
  BY DEF Shaped
<1>2. s = [f \in Fields |-> s[f]]
  BY DEF Shaped
<1>3. h \in Seq(S \cup {e})
  BY <1>1, AppendAny
<1>4. t = [s EXCEPT !.attempts_used = n, !.history = h]
  BY <1>2 DEF Logged, Attempted, Fields
<1> HIDE DEF h, n
<1>5. /\ t = [f \in Fields |-> t[f]] /\ t.history = h /\ t.attempts_used = n
      /\ Kept(s, t, Fields \ {"history", "attempts_used"})
  BY <1>2, <1>4 DEF Fields, Kept
<1>6. Shaped(t)
  BY <1>3, <1>5 DEF Shaped
<1> QED
  BY <1>5, <1>6 DEF h, n

LEMMA LoggedContact ==
    ASSUME NEW s, Shaped(s), NEW what, NEW t, t = Logged(Contacted(s), what)
    PROVE  /\ Shaped(t)
           /\ t.history = Append(s.history, <<what, p.execute_at>>)
           /\ t.contacts_used = s.contacts_used + 1 /\ t.last_contact_at = p.execute_at
           /\ Kept(s, t, Fields \ {"history", "last_contact_at", "contacts_used"})
<1> DEFINE e == <<what, p.execute_at>>
           x == p.execute_at
           n == s.contacts_used + 1
           h == Append(s.history, e)
<1>1. PICK S : s.history \in Seq(S)
  BY DEF Shaped
<1>2. s = [f \in Fields |-> s[f]]
  BY DEF Shaped
<1>3. h \in Seq(S \cup {e})
  BY <1>1, AppendAny
<1>4. t = [s EXCEPT !.last_contact_at = x, !.contacts_used = n, !.history = h]
  BY <1>2 DEF Logged, Contacted, Fields
<1> HIDE DEF h, n, x
<1>5. /\ t = [f \in Fields |-> t[f]] /\ t.history = h
      /\ t.contacts_used = n /\ t.last_contact_at = x
      /\ Kept(s, t, Fields \ {"history", "last_contact_at", "contacts_used"})
  BY <1>2, <1>4 DEF Fields, Kept
<1>6. Shaped(t)
  BY <1>3, <1>5 DEF Shaped
<1> QED
  BY <1>5, <1>6 DEF h, n, x

LEMMA EffectOfExecution ==
    ASSUME CasesOK, AttemptSucceeds \/ AttemptFails, NEW c \in Cases
    PROVE  Effect(c)
<1> DEFINE s == case[shown]
           x == p.execute_at
<1>1. Submitting("EXECUTION")
  BY DEF AttemptSucceeds, AttemptFails
<1>2. CASE AttemptSucceeds
  <2> DEFINE l == Logged(Attempted(s), "recovered_via_attempt")
             t == [l EXCEPT !.outcome = "recovered"]
  <2>1. case' = [case EXCEPT ![shown] = t]
    BY <1>2 DEF AttemptSucceeds, _recover
  <2> HIDE DEF l
  <2>2. case'[c] = IF c = shown THEN t ELSE case[c]
    BY <2>1, OthersKept
  <2>3. CASE c = shown
    <3>1. Shaped(s)
      BY <2>3 DEF CasesOK, CaseOK
    <3>2. /\ Shaped(l) /\ l.history = Append(s.history, <<"recovered_via_attempt", x>>)
          /\ l.attempts_used = s.attempts_used + 1
          /\ Kept(s, l, Fields \ {"history", "attempts_used"})
      <4>1. l = Logged(Attempted(s), "recovered_via_attempt")
        BY DEF l
      <4> QED
        BY <3>1, <4>1, LoggedExecution
    <3>3. t.outcome = "recovered" /\ Kept(l, t, Fields \ {"outcome"})
      BY <3>2 DEF Shaped, Kept, Fields
    <3> HIDE DEF t, s, x
    <3>4. Executed(s, t, x)
      BY <3>2, <3>3 DEF Executed, Kept, Fields
    <3> QED
      BY <1>1, <2>2, <2>3, <3>4 DEF Effect, s, x
  <2> QED
    BY <2>2, <2>3 DEF Effect
<1>3. CASE AttemptFails
  <2> DEFINE l == Logged(Attempted(s), "attempt_failed")
  <2>0. PICK hours \in PendingHours : \E t \in _notify(l) :
            case' = [case EXCEPT ![shown] = [t EXCEPT !.attempt_pending_until = ResolvedAt(hours),
                                                      !.last_attempt_resolved_at = ResolvedAt(hours)]]
    BY <1>3, Zenon DEF AttemptFails
  <2> DEFINE at == ResolvedAt(hours)
  <2>1. PICK t \in _notify(l) :
            case' = [case EXCEPT ![shown] = [t EXCEPT !.attempt_pending_until = at,
                                                      !.last_attempt_resolved_at = at]]
    BY <2>0
  <2> DEFINE w == [t EXCEPT !.attempt_pending_until = at, !.last_attempt_resolved_at = at]
  <2> HIDE DEF l, at
  <2>2. case'[c] = IF c = shown THEN w ELSE case[c]
    BY <2>1, OthersKept
  <2>3. CASE c = shown
    <3>1. Shaped(s)
      BY <2>3 DEF CasesOK, CaseOK
    <3>2. /\ Shaped(l) /\ l.history = Append(s.history, <<"attempt_failed", x>>)
          /\ l.attempts_used = s.attempts_used + 1
          /\ Kept(s, l, Fields \ {"history", "attempts_used"})
      <4>1. l = Logged(Attempted(s), "attempt_failed")
        BY DEF l
      <4> QED
        BY <3>1, <4>1, LoggedExecution
    <3>3. /\ Shaped(t)
          /\ Kept(l, t, Fields \ {"notifications", "outcome", "history"})
          /\ t.notifications = l.notifications + 1
          /\ \/ t.history = l.history /\ t.outcome = l.outcome
             \/ /\ t.history = Append(l.history, <<"mandate_revoked", x>>)
                /\ t.outcome = "revoked"
      BY <3>2, NotifiedEffect
    <3>4. /\ Kept(t, w, Fields \ {"attempt_pending_until", "last_attempt_resolved_at"})
          /\ w.attempt_pending_until = at /\ w.last_attempt_resolved_at = at
      BY <3>3 DEF Shaped, Kept, Fields
    <3> HIDE DEF w, s, x
    <3>5. \E h \in PendingHours : /\ w.attempt_pending_until = ResolvedAt(h)
                                  /\ w.last_attempt_resolved_at = ResolvedAt(h)
      BY <3>4 DEF at
    <3>6. /\ w.attempts_used = s.attempts_used + 1
          /\ Kept(s, w, {"contacts_used", "last_contact_at"})
          /\ w.notifications = s.notifications + 1
      BY <3>2, <3>3, <3>4 DEF Kept, Fields
    <3>7. \/ /\ w.history = Append(s.history, <<"attempt_failed", x>>)
             /\ w.outcome = s.outcome
          \/ /\ w.history = Append(Append(s.history, <<"attempt_failed", x>>),
                                   <<"mandate_revoked", x>>)
             /\ w.outcome = "revoked"
      BY <3>2, <3>3, <3>4 DEF Kept, Fields
    <3>8. Executed(s, w, x)
      BY <3>5, <3>6, <3>7 DEF Executed
    <3> QED
      BY <1>1, <2>2, <2>3, <3>8 DEF Effect, s, x
  <2> QED
    BY <2>2, <2>3 DEF Effect
<1> QED
  BY <1>2, <1>3

LEMMA EffectOfContact ==
    ASSUME CasesOK, ContactConverts \/ ContactIgnored, NEW c \in Cases
    PROVE  Effect(c)
<1> DEFINE s == case[shown]
           x == p.execute_at
<1>1. Submitting("CONTACT")
  BY DEF ContactConverts, ContactIgnored
<1>2. CASE ContactConverts
  <2> DEFINE l == Logged(Contacted(s), "recovered_via_link")
             t == [l EXCEPT !.outcome = "recovered"]
  <2>1. case' = [case EXCEPT ![shown] = t]
    BY <1>2 DEF ContactConverts, _recover
  <2> HIDE DEF l
  <2>2. case'[c] = IF c = shown THEN t ELSE case[c]
    BY <2>1, OthersKept
  <2>3. CASE c = shown
    <3>1. Shaped(s)
      BY <2>3 DEF CasesOK, CaseOK
    <3>2. /\ Shaped(l) /\ l.history = Append(s.history, <<"recovered_via_link", x>>)
          /\ l.contacts_used = s.contacts_used + 1 /\ l.last_contact_at = x
          /\ Kept(s, l, Fields \ {"history", "last_contact_at", "contacts_used"})
      <4>1. l = Logged(Contacted(s), "recovered_via_link")
        BY DEF l
      <4> QED
        BY <3>1, <4>1, LoggedContact
    <3>3. t.outcome = "recovered" /\ Kept(l, t, Fields \ {"outcome"})
      BY <3>2 DEF Shaped, Kept, Fields
    <3> HIDE DEF t, s, x
    <3>4. ContactMade(s, t, x)
      BY <3>2, <3>3 DEF ContactMade, Kept, Fields
    <3> QED
      BY <1>1, <2>2, <2>3, <3>4 DEF Effect, s, x
  <2> QED
    BY <2>2, <2>3 DEF Effect
<1>3. CASE ContactIgnored
  <2> DEFINE l == Logged(Contacted(s), "contact_ignored")
  <2>1. PICK t \in _notify(l) : case' = [case EXCEPT ![shown] = t]
    BY <1>3 DEF ContactIgnored
  <2> HIDE DEF l
  <2>2. case'[c] = IF c = shown THEN t ELSE case[c]
    BY <2>1, OthersKept
  <2>3. CASE c = shown
    <3>1. Shaped(s)
      BY <2>3 DEF CasesOK, CaseOK
    <3>2. /\ Shaped(l) /\ l.history = Append(s.history, <<"contact_ignored", x>>)
          /\ l.contacts_used = s.contacts_used + 1 /\ l.last_contact_at = x
          /\ Kept(s, l, Fields \ {"history", "last_contact_at", "contacts_used"})
      <4>1. l = Logged(Contacted(s), "contact_ignored")
        BY DEF l
      <4> QED
        BY <3>1, <4>1, LoggedContact
    <3>3. /\ Kept(l, t, Fields \ {"notifications", "outcome", "history"})
          /\ t.notifications = l.notifications + 1
          /\ \/ t.history = l.history /\ t.outcome = l.outcome
             \/ /\ t.history = Append(l.history, <<"mandate_revoked", x>>)
                /\ t.outcome = "revoked"
      BY <3>2, NotifiedEffect
    <3> HIDE DEF s, x
    <3>4. ContactMade(s, t, x)
      BY <3>2, <3>3 DEF ContactMade, Kept, Fields
    <3> QED
      BY <1>1, <2>2, <2>3, <3>4 DEF Effect, s, x
  <2> QED
    BY <2>2, <2>3 DEF Effect
<1> QED
  BY <1>2, <1>3

(* Every step does to a case one of five things.                           *)
LEMMA EffectOfStep ==
    ASSUME CasesOK, [Next]_vars, NEW c \in Cases
    PROVE  Effect(c)
<1>1. ASSUME NEW d \in Cases, Drive(d)
      PROVE  Effect(c)
  <2>1. PICK ps \in propose(d) :
            case' = [case EXCEPT ![d].attempts_used = @ + OfKind(ps, "EXECUTION"),
                                 ![d].contacts_used = @ + OfKind(ps, "CONTACT")]
    BY <1>1 DEF Drive
  <2> DEFINE n == case[d].attempts_used + OfKind(ps, "EXECUTION")
             m == case[d].contacts_used + OfKind(ps, "CONTACT")
             t == [case[d] EXCEPT !.attempts_used = n, !.contacts_used = m]
  <2>2. case[d] = [f \in Fields |-> case[d][f]]
    BY DEF CasesOK, CaseOK, Shaped
  <2>3. case' = [case EXCEPT ![d] = t]
    BY <2>1, <2>2 DEF CasesOK, Fields
  <2> HIDE DEF n, m
  <2>4. case'[c] = IF c = d THEN t ELSE case[c]
    BY <2>3 DEF CasesOK
  <2>5. CASE c = d
    <3>1. /\ t.attempts_used = n /\ t.contacts_used = m
          /\ Kept(case[d], t, Fields \ {"attempts_used", "contacts_used"})
      BY <2>2 DEF Kept, Fields
    <3>2. driver = "contract" /\ d \in left
      BY <1>1 DEF Drive
    <3> QED
      BY <2>4, <2>5, <3>1, <3>2 DEF Effect, Driven, n, m
  <2> QED
    BY <2>4, <2>5 DEF Effect
<1>2. CASE AttemptSucceeds \/ AttemptFails
  BY <1>2, EffectOfExecution
<1>3. CASE ContactConverts \/ ContactIgnored
  BY <1>3, EffectOfContact
<1>4. CASE finalise
  <2>1. case'[c] = IF is_open(c) THEN [case[c] EXCEPT !.outcome = "halted"] ELSE case[c]
    BY <1>4 DEF finalise
  <2>2. case[c] = [f \in Fields |-> case[c][f]]
    BY DEF CasesOK, CaseOK, Shaped
  <2> QED
    BY <2>1, <2>2 DEF Effect, Halted, Kept, Fields
<1>5. CASE UNCHANGED case
  BY <1>5 DEF Effect
<1>6. CASE NextDay \/ SubmitMoot \/ SubmitRefused \/ \E d \in Cases : Propose(d)
  BY <1>5, <1>6 DEF NextDay, SubmitMoot, SubmitRefused, Propose
<1> QED
  BY <1>1, <1>2, <1>3, <1>4, <1>5, <1>6 DEF Next, vars
-----------------------------------------------------------------------------
(* What a run of the environment may have spent on a case.                 *)
Spent(s) ==
    /\ s.attempts_used \in Nat /\ s.attempts_used <= AttemptCap
    /\ s.contacts_used \in Nat /\ s.contacts_used <= ContactBudget

WithinBudgets == driver = "environment" => \A c \in Cases : Spent(case[c])

LEMMA AdmittedExecution ==
    ASSUME Submitting("EXECUTION")
    PROVE  ~(case[shown].attempts_used >= AttemptCap)
<1> DEFINE r == _guard_request(shown)
<1>1. check(r) = "allowed" /\ p.kind = "EXECUTION"
  BY DEF Submitting, verdict
<1>2. r.kind = p.kind /\ r.attempts_seen = case[shown].attempts_used
  BY DEF _guard_request
<1> HIDE DEF r
<1>3. _execution(r) = "allowed"
  BY <1>1, <1>2, Zenon DEF check
<1> QED
  BY <1>2, <1>3, Zenon DEF _execution

LEMMA AdmittedContact ==
    ASSUME Submitting("CONTACT")
    PROVE  ~(case[shown].contacts_used >= ContactBudget)
<1> DEFINE r == _guard_request(shown)
<1>1. check(r) = "allowed" /\ p.kind = "CONTACT"
  BY DEF Submitting, verdict
<1>2. r.kind = p.kind /\ r.contacts_seen = case[shown].contacts_used
  BY DEF _guard_request
<1> HIDE DEF r
<1>3. _contact(r) = "allowed"
  <2>1. "CONTACT" # "EXECUTION"
    OBVIOUS
  <2> QED
    BY <1>1, <1>2, <2>1, Zenon DEF check
<1> QED
  BY <1>2, <1>3, Zenon DEF _contact

LEMMA NextBudgets == CasesOK /\ WithinBudgets /\ [Next]_vars => WithinBudgets'
<1> SUFFICES ASSUME CasesOK, WithinBudgets, [Next]_vars, driver' = "environment", NEW c \in Cases
             PROVE  Spent(case'[c])
  BY DEF WithinBudgets, Spent
<1> DEFINE s == case[c]
           t == case'[c]
<1>1. driver = "environment"
  BY DEF Next, vars, NextDay, Propose, Drive, SubmitMoot, SubmitRefused, AttemptSucceeds,
         AttemptFails, ContactConverts, ContactIgnored, Submitting, finalise
<1>2. Spent(s) /\ AttemptCap \in Nat /\ ContactBudget \in Nat
  BY <1>1, CalendarAssumption, GuardAssumption DEF WithinBudgets
<1>3. CASE c = shown /\ Submitting("EXECUTION") /\ Executed(s, t, p.execute_at)
  <2>1. ~(s.attempts_used >= AttemptCap)
    BY <1>3, AdmittedExecution
  <2>2. t.attempts_used = s.attempts_used + 1 /\ t.contacts_used = s.contacts_used
    BY <1>3 DEF Executed, Kept
  <2> HIDE DEF s, t
  <2>3. Spent(t)
    BY <1>2, <2>1, <2>2 DEF Spent
  <2> QED
    BY <2>3 DEF t
<1>4. CASE c = shown /\ Submitting("CONTACT") /\ ContactMade(s, t, p.execute_at)
  <2>1. ~(s.contacts_used >= ContactBudget)
    BY <1>4, AdmittedContact
  <2>2. t.contacts_used = s.contacts_used + 1 /\ t.attempts_used = s.attempts_used
    BY <1>4 DEF ContactMade, Kept
  <2> HIDE DEF s, t
  <2>3. Spent(t)
    BY <1>2, <2>1, <2>2 DEF Spent
  <2> QED
    BY <2>3 DEF t
<1>5. CASE Halted(c) \/ t = s
  <2>1. t.attempts_used = s.attempts_used /\ t.contacts_used = s.contacts_used
    BY <1>5 DEF Halted, Kept, Fields
  <2> QED
    BY <1>2, <2>1 DEF Spent
<1>6. ~Driven(c)
  BY <1>1 DEF Driven
<1> QED
  BY <1>3, <1>4, <1>5, <1>6, EffectOfStep DEF Effect

(* No arm, whatever it proposes and however often, gets a case past the    *)
(* cap on executions or past the contact budget: the environment asks the  *)
(* guard with the counters as they stand (environment.py, submit).         *)
THEOREM NoArmOverspends == Spec => []WithinBudgets
<1>1. Init => WithinBudgets
  <2> SUFFICES ASSUME Init, NEW c \in Cases
               PROVE  Spent(case[c])
    BY DEF WithinBudgets
  <2>1. case[c].attempts_used = 1 /\ case[c].contacts_used = 0
    BY DEF Init, NewCase
  <2> QED
    BY <2>1, CalendarAssumption, GuardAssumption DEF Spent
<1> QED
  BY <1>1, InitCases, NextCases, NextBudgets, PTL DEF Spec
-----------------------------------------------------------------------------
(* The search of a slot, over every calendar that has a free quarter of an *)
(* hour in every lattice of a day.                                         *)
LEMMA LeastOf ==
    ASSUME NEW S, S \subseteq Nat, S # {}
    PROVE  Min(S) \in S /\ \A y \in S : Min(S) <= y
<1>1. PICK x \in S : \A y \in S : ~(<<y, x>> \in OpToRel(<, Nat))
  BY NatLessThanWellFounded, WFMin, Zenon
<1>2. \A y \in S : ~(y < x)
  BY <1>1 DEF OpToRel
<1>3. \A y \in S : x <= y
  BY <1>2
<1> QED
  BY <1>3 DEF Min

LEMMA GreaterOf ==
    ASSUME NEW a \in Int, NEW b \in Int
    PROVE  Max({a, b}) \in {a, b} /\ Max({a, b}) >= a /\ Max({a, b}) >= b
<1>1. \E x \in {a, b} : \A y \in {a, b} : x >= y
  <2>1. CASE a >= b
    BY <2>1
  <2>2. CASE ~(a >= b)
    BY <2>2
  <2> QED
    BY <2>1, <2>2
<1> QED
  BY <1>1 DEF Max

LEMMA DayAndClock ==
    ASSUME NEW u \in Int
    PROVE  \E v \in 0..(Day - 1), q \in Int : u = Day * q + v
<1>1. /\ u \div 2880 \in Int
      /\ (u \div 2880) * 2880 <= u /\ u < (u \div 2880) * 2880 + 2880
  OBVIOUS
<1>2. PICK q \in Int : q * 2880 <= u /\ u < q * 2880 + 2880
  BY <1>1
<1>3. u - 2880 * q \in 0..2879 /\ u = 2880 * q + (u - 2880 * q)
  BY <1>2
<1>4. u - 2880 * q \in 0..(Day - 1) /\ u = Day * q + (u - 2880 * q)
  BY <1>3 DEF Day
<1> QED
  BY <1>2, <1>4

(* A search that starts at a moment ends at one.                           *)
LEMMA NextSlotIsMoment ==
    ASSUME NEW t \in Int
    PROVE  next_compliant_slot(t) \in Int
<1> DEFINE u == truncated(t)
           offThePeaks == {k \in 0..95 : ~is_peak(u + k * StepMinutes * Minute)}
<1>1. u \in Int
  BY DEF truncated, Minute
<1> HIDE DEF u
<1>2. PICK v \in 0..(Day - 1), q \in Int : u = Day * q + v
  BY <1>1, DayAndClock
<1>3. PICK k \in 0..95 : ~is_peak(v + k * StepMinutes * Minute)
  BY <1>2, LatticeAssumption
<1>4. clock(u + k * StepMinutes * Minute) = clock(v + k * StepMinutes * Minute)
  <2>1. \A a, b, n \in Int : a = 2880 * n + b => a % 2880 = b % 2880
    OBVIOUS
  <2>2. \A n \in Int : u + n \in Int /\ v + n \in Int /\ u + n = 2880 * q + (v + n)
    BY <1>1, <1>2 DEF Day
  <2>3. k * StepMinutes * Minute \in Int
    BY DEF StepMinutes, Minute
  <2> QED
    BY <1>2, <2>1, <2>2, <2>3 DEF clock, Day
<1>5. offThePeaks # {}
  BY <1>3, <1>4 DEF is_peak
<1>6. offThePeaks \subseteq Nat
  OBVIOUS
<1> HIDE DEF offThePeaks
<1>7. Min(offThePeaks) \in Nat
  BY <1>5, <1>6, LeastOf
<1>8. u + StepMinutes * Minute * Min(offThePeaks) \in Int
  BY <1>1, <1>7 DEF StepMinutes, Minute
<1> QED
  BY <1>8 DEF next_compliant_slot, offThePeaks, u

LEMMA SlotIsMoment ==
    ASSUME NEW t \in Int, NEW d \in Int, NEW r \in Rails, NEW m \in Nat
    PROVE  /\ compliant_slot(t, d, r, m) \in Int \cup {None}
           /\ compliant_slot(t, d, r, m) # None =>
                  check_attempt(t, compliant_slot(t, d, r, m), 0, r) = "permitted"
<1>1. start_of(d) \in Int /\ earliest_permitted(t, r, m) \in Int
  <2>1. LeadHours[r] \in Nat
    BY CalendarAssumption
  <2> QED
    BY <2>1 DEF start_of, combine, earliest_permitted, Day, Hour, Minute
<1>2. floor_of(t, d, r, m) \in Int
  BY <1>1, GreaterOf DEF floor_of
<1> DEFINE first == next_compliant_slot(floor_of(t, d, r, m))
           second == next_compliant_slot(start_of(date(first) + 1))
<1>3. first \in Int
  BY <1>2, NextSlotIsMoment
<1> HIDE DEF first
<1>4. start_of(date(first) + 1) \in Int
  BY <1>3 DEF date, start_of, combine, Day, Minute
<1>5. second \in Int
  BY <1>4, NextSlotIsMoment
<1> HIDE DEF second
<1>6. \E slot \in {first, second} :
          compliant_slot(t, d, r, m) =
              IF check_attempt(t, slot, 0, r) = "permitted" THEN slot ELSE None
  BY Zenon DEF compliant_slot, first, second
<1> QED
  BY <1>3, <1>5, <1>6
-----------------------------------------------------------------------------
Moment == Nat \cup {None}

Proposal == [kind : {"EXECUTION", "CONTACT"}, execute_at : Int]

Happening == {"recovered_via_attempt", "recovered_via_link", "attempt_failed",
              "contact_ignored", "mandate_revoked"}

Histories == Seq(Happening \X Nat)

CaseTyped(s) ==
    /\ s.attempts_used \in Nat \ {0} /\ s.contacts_used \in Nat /\ s.notifications \in Nat
    /\ s.outcome \in Outcome
    /\ s.attempt_pending_until \in Moment /\ s.last_attempt_resolved_at \in Moment
    /\ s.last_contact_at \in Moment
    /\ s.history \in Histories

(* Proposals wait only while the environment submits those of a case, and  *)
(* nothing is asked before the first day.                                  *)
Typed ==
    /\ arm \in ArmNames /\ driver \in Drivers /\ (arm = "any" => driver = "environment")
    /\ \E d \in StartDays : failure \in [Cases -> Failures(d)]
    /\ \A c \in Cases : CaseTyped(case[c])
    /\ day \in 0..HorizonDays /\ left \subseteq Cases /\ shown \in Cases \cup {None}
    /\ proposals \in Seq(Proposal)
    /\ proposals # <<>> => shown \in Cases /\ driver = "environment"
    /\ left # {} \/ proposals # <<>> => day # 0

(* The first decision of a day is at a moment, for there is a failure.     *)
LEMMA NowIsMoment ==
    ASSUME Typed, NEW c \in Cases, day # 0
    PROVE  /\ now \in Nat /\ failure[c].failed_at \in Nat /\ failure[c].rail \in Rails
           /\ start \in Nat
<1>1. PICK d \in StartDays : failure \in [Cases -> Failures(d)]
  BY DEF Typed
<1>2. d \in Nat /\ DECISION_TIME = 60 /\ day \in Nat
  <2>1. day \in 0..HorizonDays
    BY DEF Typed
  <2>2. StartDays \subseteq Nat /\ HorizonDays \in Nat
    BY SimulatorAssumption
  <2>3. day \in Nat
    BY <2>1, <2>2
  <2>4. d \in Nat
    BY <2>2
  <2> QED
    BY <2>3, <2>4 DEF DECISION_TIME
<1>3. ASSUME NEW e \in Cases
      PROVE  failure[e].failed_at = d * 2880 + 360 /\ failure[e].rail \in Rails
  <2>1. failure[e] \in Failures(d)
    BY <1>1
  <2>2. failure[e].failed_at = combine(d, 180) /\ failure[e].rail \in SimulatedRails
    BY <2>1 DEF Failures
  <2>3. failure[e].rail \in Rails
    BY <2>2, SimulatorAssumption
  <2>4. combine(d, 180) = d * 2880 + 360
    BY <1>2 DEF combine, Day, Minute
  <2> QED
    BY <2>2, <2>3, <2>4
<1>4. \A e \in Cases : date(failure[e].failed_at) = d
  <2>1. (d * 2880 + 360) \div 2880 = d
    BY <1>2
  <2> QED
    BY <1>3, <2>1 DEF date, Day
<1>5. {date(failure[e].failed_at) : e \in Cases} = {d}
  BY <1>4
<1>6. start = d
  <2>1. {d} \subseteq Nat /\ {d} # {}
    BY <1>2
  <2>2. Min({d}) \in {d}
    BY <2>1, LeastOf
  <2> QED
    BY <1>5, <2>2 DEF start
<1>7. now = (d + day - 1) * 2880 + 120
  BY <1>2, <1>6 DEF now, combine, Day, Minute
<1> QED
  BY <1>2, <1>3, <1>6, <1>7

LEMMA FundingDayIsDay ==
    ASSUME NEW d \in Nat
    PROVE  next_funding_day(d) \in Nat
<1> DEFINE reachable == {e \in d..(d + MaxWaitDays) : day_of_month(e) \in FundingDays}
<1>1. reachable \subseteq Nat
  BY ArmsAssumption
<1> HIDE DEF reachable
<1>2. reachable # {} => Min(reachable) \in Nat
  BY <1>1, LeastOf
<1> QED
  BY <1>2 DEF next_funding_day, reachable

LEMMA TargetIsDay ==
    ASSUME NEW t \in Nat, NEW reading
    PROVE  _target_day(t, reading) \in Nat
<1>1. date(t) \in Nat
  BY DEF date, Day
<1>2. date(t) + LiquidityMinOffset \in Nat
  BY <1>1, ArmsAssumption
<1>3. next_funding_day(date(t) + LiquidityMinOffset) \in Nat
  BY <1>2, FundingDayIsDay
<1> QED
  BY <1>1, <1>3, ArmsAssumption DEF _target_day

LEMMA BaselineIsDay ==
    ASSUME NEW v, NEW t \in Nat, v.failed_at \in Nat, v.attempts_used \in Nat,
           v.last_attempt_resolved_at \in Moment
    PROVE  BaselineDay(v, t) \in Int
<1> DEFINE since == IF v.last_attempt_resolved_at = None THEN v.failed_at
                                                         ELSE v.last_attempt_resolved_at
           due == Max({date(since), date(t)}) + 1
<1>1. since \in Nat
  BY DEF Moment
<1> HIDE DEF since
<1>2. date(since) \in Int /\ date(t) \in Int /\ date(v.failed_at) \in Int
  BY <1>1 DEF date, Day
<1>3. due \in Int
  <2> DEFINE a == date(since)
             b == date(t)
  <2>1. a \in Int /\ b \in Int
    BY <1>2
  <2> HIDE DEF a, b
  <2>2. Max({a, b}) \in {a, b}
    BY <2>1, GreaterOf
  <2>3. Max({a, b}) + 1 \in Int
    BY <2>1, <2>2
  <2> QED
    BY <2>3 DEF a, b
<1> HIDE DEF due
<1>4. shift_for_bank_holidays(due) \in Int
  BY <1>3 DEF shift_for_bank_holidays
<1>5. BaselineDay(v, t) \in {shift_for_bank_holidays(due), date(v.failed_at) + v.attempts_used}
  BY DEF BaselineDay, due, since
<1> QED
  BY <1>2, <1>4, <1>5
-----------------------------------------------------------------------------
(* The key of a case's payload, and the cell that the allocator finds.     *)
Key(c) == normalize_entity(view(c).observed)

Cell(c) == LET reading == classify(Key(c))
           IN  lookup(reading.failure_class, reading.band)

(* When an arm that has a policy proposes to execute, and when to contact. *)
MayExecute(c) ==
    /\ case[c].attempts_used < AttemptCap /\ ~view(c).attempt_pending
    /\ arm \notin {"A", "B"} => spends_execution(Cell(c))

MayContact(c) ==
    IF arm = "B" THEN case[c].contacts_used = 0 ELSE case[c].contacts_used < MaxContacts

(* The calendar permits the slot, asked as the arms ask it: of the case's  *)
(* own rail, as if nothing had been spent.                                 *)
Permitted(c, x) == check_attempt(now, x, 0, failure[c].rail) = "permitted"

Offer(c, ps) ==
    \/ ps = <<>>
    \/ MayExecute(c) /\ \E x \in Int : Permitted(c, x) /\ ps = <<Attempt(x)>>
    \/ MayContact(c) /\ ps = <<Contact(now + Hour)>>
    \/ /\ MayExecute(c) /\ MayContact(c)
       /\ \E x \in Int : Permitted(c, x) /\ ps = <<Contact(now + Hour), Attempt(x)>>

LEMMA OffersOfA ==
    ASSUME Typed, NEW c \in Cases, day # 0, arm \in {"A", "B"}
    PROVE  \/ ArmA(view(c), now) = <<>>
           \/ /\ MayExecute(c)
              /\ \E x \in Int : Permitted(c, x) /\ ArmA(view(c), now) = <<Attempt(x)>>
<1> DEFINE v == view(c)
           slot == compliant_slot(now, BaselineDay(v, now), v.rail, BaselineMargin)
<1>1. now \in Nat /\ failure[c].failed_at \in Nat /\ failure[c].rail \in Rails
  BY NowIsMoment
<1>2. /\ v.failed_at \in Nat /\ v.rail \in Rails
      /\ v.attempts_used = case[c].attempts_used /\ v.attempts_used \in Nat
      /\ v.last_attempt_resolved_at \in Moment
  BY <1>1 DEF view, Typed, CaseTyped
<1>3. BaselineDay(v, now) \in Int
  <2> HIDE DEF v
  <2> QED
    BY <1>1, <1>2, BaselineIsDay
<1>4. slot \in Int \cup {None} /\ (slot # None => Permitted(c, slot))
  <2>0. v.rail = failure[c].rail
    BY DEF view
  <2> HIDE DEF v
  <2>1. BaselineMargin \in Nat /\ now \in Int
    BY <1>1 DEF BaselineMargin
  <2>2. /\ slot \in Int \cup {None}
        /\ slot # None => check_attempt(now, slot, 0, v.rail) = "permitted"
    BY <1>2, <1>3, <2>1, SlotIsMoment, Zenon
  <2> HIDE DEF slot
  <2> QED
    BY <2>0, <2>2 DEF Permitted
<1>5. BaselineMayRetry(v) => MayExecute(c)
  <2>1. v.attempts_used = case[c].attempts_used
    BY <1>2
  <2> QED
    BY <2>1 DEF BaselineMayRetry, MayExecute
<1>6. ArmA(v, now) = IF ~BaselineMayRetry(v) THEN <<>>
                     ELSE IF slot = None THEN <<>> ELSE <<Attempt(slot)>>
  BY DEF ArmA, offered
<1> HIDE DEF slot
<1> QED
  BY <1>4, <1>5, <1>6

LEMMA OffersOfB ==
    ASSUME Typed, NEW c \in Cases, day # 0, arm = "B"
    PROVE  Offer(c, ArmB(view(c), now))
<1> DEFINE v == view(c)
           told == IF v.contacts_used = 0 THEN <<Contact(now + Hour)>> ELSE <<>>
           tried == ArmA(v, now)
<1>2. v.contacts_used = case[c].contacts_used
  BY DEF view
<1>3. \/ tried = <<>>
      \/ MayExecute(c) /\ \E x \in Int : Permitted(c, x) /\ tried = <<Attempt(x)>>
  BY OffersOfA
<1>4. \/ told = <<>>
      \/ MayContact(c) /\ told = <<Contact(now + Hour)>>
  BY <1>2 DEF MayContact
<1>5. ArmB(v, now) = told \o tried
  BY DEF ArmB
<1> HIDE DEF told, tried, v
<1>6. ASSUME NEW s
      PROVE  <<>> \o <<s>> = <<s>> /\ <<s>> \o <<>> = <<s>>
  <2>1. <<>> \in Seq({s}) /\ <<s>> \in Seq({s})
    OBVIOUS
  <2>2. <<>> \o <<s>> = <<s>>
    BY <2>1
  <2>3. <<s>> \o <<>> = <<s>>
    BY <2>1
  <2> QED
    BY <2>2, <2>3
<1>7. <<>> \o <<>> = <<>>
  OBVIOUS
<1>14. ASSUME NEW s, NEW t
       PROVE  <<s>> \o <<t>> = <<s, t>>
  <2>1. <<s>> \in Seq({s, t}) /\ <<t>> \in Seq({s, t})
    OBVIOUS
  <2> DEFINE a == <<s>>
             b == <<t>>
             q == a \o b
  <2>2. Len(a) = 1 /\ Len(b) = 1 /\ a[1] = s /\ b[1] = t
    OBVIOUS
  <2>3. a \in Seq({s, t}) /\ b \in Seq({s, t})
    BY <2>1
  <2> HIDE DEF a, b
  <2>4. /\ q \in Seq({s, t}) /\ Len(q) = 2
        /\ \A i \in 1..2 : q[i] = IF i <= 1 THEN a[i] ELSE b[i - 1]
    <3>1. /\ q \in Seq({s, t}) /\ Len(q) = Len(a) + Len(b)
          /\ \A i \in 1..Len(a) + Len(b) : q[i] = IF i <= Len(a) THEN a[i] ELSE b[i - Len(a)]
      BY <2>3, ConcatProperties
    <3> QED
      BY <2>2, <3>1
  <2>6. q[1] = s /\ q[2] = t
    BY <2>2, <2>4
  <2> HIDE DEF q
  <2>5. q = <<s, t>>
    BY <2>4, <2>6
  <2> QED
    BY <2>5 DEF a, b, q
<1>8. CASE told = <<>> /\ tried = <<>>
  BY <1>5, <1>7, <1>8 DEF Offer, v
<1>9. CASE told = <<>> /\ MayExecute(c) /\ \E x \in Int : Permitted(c, x) /\ tried = <<Attempt(x)>>
  BY <1>5, <1>6, <1>9, Zenon DEF Offer, v
<1>10. CASE (MayContact(c) /\ told = <<Contact(now + Hour)>>) /\ tried = <<>>
  BY <1>5, <1>6, <1>10, Zenon DEF Offer, v
<1>11. CASE /\ MayContact(c) /\ told = <<Contact(now + Hour)>>
            /\ MayExecute(c) /\ \E x \in Int : Permitted(c, x) /\ tried = <<Attempt(x)>>
  BY <1>5, <1>14, <1>11, Zenon DEF Offer, v
<1> QED
  BY <1>3, <1>4, <1>8, <1>9, <1>10, <1>11

LEMMA OffersOfC ==
    ASSUME Typed, NEW c \in Cases, day # 0, arm \notin {"A", "B"}
    PROVE  Offer(c, plan(rail_policy(arm), execution_counter, view(c), now).proposals)
<1> DEFINE v == view(c)
           reading == classify(Key(c))
           slot == compliant_slot(now, _target_day(now, reading), v.rail, PDN_MARGIN_MINUTES)
           answer == plan(rail_policy(arm), execution_counter, v, now)
<1>1. now \in Nat /\ now + Hour \in Int /\ v.rail \in Rails
  BY NowIsMoment DEF view, Hour
<1>2. /\ v.attempts_used = case[c].attempts_used
      /\ v.contacts_used = case[c].contacts_used /\ v.attempt_pending = view(c).attempt_pending
  BY DEF view
<1>3. slot \in Int \cup {None} /\ (slot # None => Permitted(c, slot))
  <2>0. v.rail = failure[c].rail
    BY DEF view
  <2>1. _target_day(now, reading) \in Int /\ PDN_MARGIN_MINUTES \in Nat /\ now \in Int
    <3> HIDE DEF reading
    <3> QED
      BY <1>1, TargetIsDay DEF PDN_MARGIN_MINUTES
  <2> HIDE DEF reading, v
  <2>2. /\ slot \in Int \cup {None}
        /\ slot # None => check_attempt(now, slot, 0, v.rail) = "permitted"
    BY <1>1, <2>1, SlotIsMoment, Zenon
  <2> HIDE DEF slot
  <2> QED
    BY <2>0, <2>2 DEF Permitted
<1>4. executions_used(execution_counter, v) = case[c].attempts_used
  BY <1>2 DEF executions_used, execution_counter
<1>5. answer = IF adjusts_cell(rail_policy(arm), v, reading.failure_class)
               THEN Plan("SURRENDER", <<>>) ELSE
               IF spends_execution(Cell(c))
               THEN _plan_execution(execution_counter, v, now, reading)
               ELSE _plan_contact(v, now, Cell(c))
  BY DEF plan, Cell, Key
<1>6. _plan_execution(execution_counter, v, now, reading) =
          IF case[c].attempts_used >= AttemptCap THEN Plan("SURRENDER", <<>>) ELSE
          IF view(c).attempt_pending \/ slot = None THEN Plan("HOLD", <<>>) ELSE
          Plan("SCHEDULE_AT", <<Attempt(slot)>>)
  BY <1>4 DEF _plan_execution, may_attempt
<1>7. _plan_contact(v, now, Cell(c)) =
          IF case[c].contacts_used >= MaxContacts THEN Plan("SURRENDER", <<>>)
          ELSE Plan(Cell(c), <<Contact(now + Hour)>>)
  BY <1>2 DEF _plan_contact
<1>8. \A a, s : Plan(a, s).proposals = s
  BY DEF Plan
<1>9. ~(case[c].attempts_used >= AttemptCap) => case[c].attempts_used < AttemptCap
  BY CalendarAssumption DEF Typed, CaseTyped
<1>10. ~(case[c].contacts_used >= MaxContacts) => case[c].contacts_used < MaxContacts
  BY ArmsAssumption DEF Typed, CaseTyped
<1> HIDE DEF answer, slot, reading, v
<1>12. \/ answer.proposals = <<>>
       \/ MayExecute(c) /\ slot \in Int /\ Permitted(c, slot) /\ answer.proposals = <<Attempt(slot)>>
       \/ MayContact(c) /\ answer.proposals = <<Contact(now + Hour)>>
  BY <1>3, <1>5, <1>6, <1>7, <1>8, <1>9, <1>10 DEF MayExecute, MayContact
<1>13. Offer(c, answer.proposals)
  BY <1>12 DEF Offer
<1> QED
  BY <1>13 DEF answer, v

LEMMA OffersOfAnArm ==
    ASSUME Typed, NEW c \in Cases, day # 0, NEW ps \in propose(c)
    PROVE  /\ arm # "any" => Offer(c, ps)
           /\ arm = "any" => ps = <<>> \/ \E e \in Proposal : ps = <<e>>
<1>1. CASE arm = "A"
  <2>1. ps = ArmA(view(c), now)
    BY <1>1 DEF propose
  <2> QED
    BY <1>1, <2>1, OffersOfA DEF Offer
<1>2. CASE arm = "B"
  <2>1. ps = ArmB(view(c), now)
    BY <1>2 DEF propose
  <2> QED
    BY <1>2, <2>1, OffersOfB
<1>3. CASE arm = "any"
  <2>1. ps = <<>> \/ \E k \in {"EXECUTION", "CONTACT"}, d \in AnyDelays :
                         ps = <<[kind |-> k, execute_at |-> now + d]>>
    BY <1>3 DEF propose
  <2>2. ASSUME NEW k \in {"EXECUTION", "CONTACT"}, NEW d \in AnyDelays,
               ps = <<[kind |-> k, execute_at |-> now + d]>>
        PROVE  \E e \in Proposal : ps = <<e>>
    <3>1. now + d \in Int
      <4>1. now \in Nat
        BY NowIsMoment
      <4>2. d \in Int
        BY SimulatorAssumption
      <4> QED
        BY <4>1, <4>2
    <3>2. [kind |-> k, execute_at |-> now + d] \in Proposal
      BY <3>1 DEF Proposal
    <3> QED
      BY <2>2, <3>2
  <2> QED
    BY <1>3, <2>1, <2>2
<1>4. CASE arm \notin {"A", "B", "any"}
  <2>1. ps = plan(rail_policy(arm), execution_counter, view(c), now).proposals
    BY <1>4 DEF propose
  <2> QED
    BY <1>4, <2>1, OffersOfC
<1> QED
  BY <1>1, <1>2, <1>3, <1>4

LEMMA OffersAreProposals ==
    ASSUME Typed, NEW c \in Cases, day # 0, NEW ps \in propose(c)
    PROVE  ps \in Seq(Proposal)
<1>1. \A x \in Int : Attempt(x) \in Proposal /\ Contact(x) \in Proposal
  BY DEF Attempt, Contact, Proposal
<1>5. now + Hour \in Int
  <2>1. now \in Nat
    BY NowIsMoment
  <2> QED
    BY <2>1 DEF Hour
<1>2. \A e, f \in Proposal : <<>> \in Seq(Proposal) /\ <<e>> \in Seq(Proposal)
                             /\ <<e, f>> \in Seq(Proposal)
  OBVIOUS
<1>3. \/ ps = <<>>
      \/ \E e \in Proposal : ps = <<e>>
      \/ \E e, f \in Proposal : ps = <<e, f>>
  BY <1>1, <1>5, OffersOfAnArm, Zenon DEF Offer
<1>4. <<>> \in Seq(Proposal)
  OBVIOUS
<1> QED
  BY <1>2, <1>3, <1>4, Zenon

(* How often an offer names each of the kinds.                             *)
LEMMA KindsOfOffer ==
    ASSUME NEW c, NEW ps, Offer(c, ps)
    PROVE  /\ OfKind(ps, "EXECUTION") \in {0, 1}
           /\ OfKind(ps, "EXECUTION") # 0 => MayExecute(c)
           /\ OfKind(ps, "CONTACT") \in {0, 1}
           /\ OfKind(ps, "CONTACT") # 0 => MayContact(c)
<1> DEFINE E == {i \in DOMAIN ps : ps[i].kind = "EXECUTION"}
           C == {i \in DOMAIN ps : ps[i].kind = "CONTACT"}
<1>1. Cardinality({}) = 0 /\ \A i : Cardinality({i}) = 1
  BY FS_EmptySet, FS_Singleton
<1>2. \A x : Attempt(x).kind = "EXECUTION" /\ Contact(x).kind = "CONTACT"
  BY DEF Attempt, Contact
<1>3. "EXECUTION" # "CONTACT"
  OBVIOUS
<1>4. CASE ps = <<>>
  <2>1. E = {} /\ C = {}
    BY <1>4
  <2> QED
    BY <1>1, <2>1 DEF OfKind
<1>5. ASSUME MayExecute(c), NEW x, ps = <<Attempt(x)>>
      PROVE  E = {1} /\ C = {}
  BY <1>2, <1>3, <1>5
<1>6. ASSUME MayContact(c), NEW x, ps = <<Contact(x)>>
      PROVE  E = {} /\ C = {1}
  BY <1>2, <1>3, <1>6
<1>7. ASSUME MayExecute(c), MayContact(c), NEW x, NEW y,
             ps = <<Contact(y), Attempt(x)>>
      PROVE  E = {2} /\ C = {1}
  <2>1. DOMAIN ps = {1, 2} /\ ps[1] = Contact(y) /\ ps[2] = Attempt(x)
    BY <1>7
  <2> QED
    BY <1>2, <1>3, <2>1
<1>8. OfKind(ps, "EXECUTION") = Cardinality(E) /\ OfKind(ps, "CONTACT") = Cardinality(C)
  BY DEF OfKind
<1> HIDE DEF E, C
<1> QED
  BY <1>1, <1>4, <1>5, <1>6, <1>7, <1>8 DEF Offer
-----------------------------------------------------------------------------
LEMMA AdmittedAt ==
    ASSUME Submitting("EXECUTION")
    PROVE  /\ p.execute_at # None /\ ~(p.execute_at <= now) /\ ~is_peak(p.execute_at)
           /\ ~(/\ case[shown].attempt_pending_until # None
                /\ p.execute_at < case[shown].attempt_pending_until)
<1> DEFINE r == _guard_request(shown)
<1>1. check(r) = "allowed" /\ p.kind = "EXECUTION"
  BY DEF Submitting, verdict
<1>2. /\ r.kind = p.kind /\ r.execute_at = p.execute_at /\ r.decided_at = now
      /\ r.attempt_pending_until = case[shown].attempt_pending_until
  BY DEF _guard_request
<1> HIDE DEF r
<1>3. _execution(r) = "allowed"
  BY <1>1, <1>2, Zenon DEF check
<1> QED
  BY <1>2, <1>3, Zenon DEF _execution

LEMMA ContactedAt ==
    ASSUME Submitting("CONTACT"), p.execute_at # None
    PROVE  /\ ~(p.execute_at <= now)
           /\ ~(/\ case[shown].last_contact_at # None
                /\ p.execute_at - case[shown].last_contact_at < CooldownHours * Hour)
<1> DEFINE r == _guard_request(shown)
<1>1. check(r) = "allowed" /\ p.kind = "CONTACT"
  BY DEF Submitting, verdict
<1>2. /\ r.kind = p.kind /\ r.execute_at = p.execute_at /\ r.decided_at = now
      /\ r.last_contact_at = case[shown].last_contact_at
  BY DEF _guard_request
<1> HIDE DEF r
<1>3. _contact(r) = "allowed"
  <2>1. "CONTACT" # "EXECUTION"
    OBVIOUS
  <2> QED
    BY <1>1, <1>2, <2>1, Zenon DEF check
<1>4. moment(r) = p.execute_at
  BY <1>2 DEF moment
<1> QED
  BY <1>2, <1>3, <1>4, Zenon DEF _contact

(* What is admitted is ahead of the decision, hence a moment.              *)
LEMMA AdmittedMoment ==
    ASSUME Typed, NEW kind, kind \in {"EXECUTION", "CONTACT"}, Submitting(kind)
    PROVE  shown \in Cases /\ driver = "environment" /\ p.execute_at \in Nat
<1>1. proposals \in Seq(Proposal) /\ proposals # <<>>
  BY DEF Typed, Submitting
<1>2. p \in Proposal
  BY <1>1 DEF p
<1>3. p.execute_at \in Int
  BY <1>2 DEF Proposal
<1>4. shown \in Cases /\ driver = "environment" /\ day # 0
  BY <1>1 DEF Typed
<1>5. now \in Nat
  BY <1>4, NowIsMoment
<1>6. ~(p.execute_at <= now)
  BY <1>3, AdmittedAt, ContactedAt, GuardAssumption
<1> QED
  BY <1>3, <1>4, <1>5, <1>6

-----------------------------------------------------------------------------
LEMMA AnswersAreMoments ==
    ASSUME NEW x \in Nat, p.execute_at = x, NEW hours \in PendingHours
    PROVE  ResolvedAt(hours) \in Nat
<1>1. hours \in Nat
  BY SimulatorAssumption
<1> QED
  BY <1>1 DEF ResolvedAt, Hour

LEMMA LongerHistory ==
    ASSUME NEW h \in Histories, NEW what \in Happening, NEW x \in Nat
    PROVE  Append(h, <<what, x>>) \in Histories
<1>1. <<what, x>> \in Happening \X Nat
  OBVIOUS
<1> QED
  BY <1>1 DEF Histories

LEMMA TypedCase ==
    ASSUME CasesOK, Typed, [Next]_vars, NEW c \in Cases
    PROVE  CaseTyped(case'[c])
<1> DEFINE s == case[c]
           t == case'[c]
           x == p.execute_at
<1>0. CaseTyped(s)
  BY DEF Typed
<1>1. CASE t = s
  BY <1>0, <1>1
<1>2. CASE Driven(c)
  <2>1. PICK ps \in propose(c) : /\ t.attempts_used = s.attempts_used + OfKind(ps, "EXECUTION")
                                 /\ t.contacts_used = s.contacts_used + OfKind(ps, "CONTACT")
    BY <1>2 DEF Driven
  <2>2. Kept(s, t, Fields \ {"attempts_used", "contacts_used"})
    BY <1>2 DEF Driven
  <2>3. arm # "any" /\ day # 0
    <3>1. driver = "contract" /\ left # {}
      BY <1>2 DEF Driven
    <3> QED
      BY <3>1 DEF Typed
  <2>4. OfKind(ps, "EXECUTION") \in Nat /\ OfKind(ps, "CONTACT") \in Nat
    <3>1. Offer(c, ps)
      BY <2>3, OffersOfAnArm
    <3> QED
      BY <3>1, KindsOfOffer
  <2> HIDE DEF s, t
  <2>5. t.attempts_used \in Nat \ {0} /\ t.contacts_used \in Nat
    BY <1>0, <2>1, <2>4 DEF CaseTyped
  <2>9. CaseTyped(t)
    BY <1>0, <2>2, <2>5 DEF CaseTyped, Kept, Fields
  <2> QED
    BY <2>9 DEF t
<1>3. CASE Halted(c)
  <2>1. t.outcome = "halted" /\ Kept(s, t, Fields \ {"outcome"})
    BY <1>3 DEF Halted
  <2> HIDE DEF s, t
  <2>9. CaseTyped(t)
    BY <1>0, <2>1 DEF CaseTyped, Kept, Fields, Outcome
  <2> QED
    BY <2>9 DEF t
<1>4. CASE c = shown /\ Submitting("EXECUTION") /\ Executed(s, t, x)
  <2>1. x \in Nat
    BY <1>4, AdmittedMoment
  <2>2. \A hours \in PendingHours : ResolvedAt(hours) \in Nat
    BY <2>1, AnswersAreMoments
  <2>3. Executed(s, t, x)
    BY <1>4
  <2> HIDE DEF s, t, x
  <2>4. /\ t.attempts_used \in Nat \ {0}
        /\ t.contacts_used \in Nat /\ t.last_contact_at \in Moment
    BY <1>0, <2>3 DEF Executed, Kept, CaseTyped
  <2>5. \A h \in Histories, what \in Happening :
            Append(h, <<what, x>>) \in Histories
    BY <2>1, LongerHistory
  <2>6. t.history \in Histories
    <3>1. s.history \in Histories
      BY <1>0 DEF CaseTyped
    <3>2. {"recovered_via_attempt", "attempt_failed", "mandate_revoked"} \subseteq Happening
      BY DEF Happening
    <3>3. t.history \in {Append(s.history, <<"recovered_via_attempt", x>>),
                         Append(s.history, <<"attempt_failed", x>>),
                         Append(Append(s.history, <<"attempt_failed", x>>),
                                <<"mandate_revoked", x>>)}
      BY <2>3 DEF Executed
    <3> QED
      BY <2>5, <3>1, <3>2, <3>3
  <2>7. t.outcome \in Outcome
    BY <1>0, <2>3 DEF Executed, CaseTyped, Outcome
  <2>8. /\ t.notifications \in Nat /\ t.attempt_pending_until \in Moment
        /\ t.last_attempt_resolved_at \in Moment
    BY <1>0, <2>2, <2>3 DEF Executed, CaseTyped, Moment, Kept
  <2>9. CaseTyped(t)
    BY <2>4, <2>6, <2>7, <2>8 DEF CaseTyped
  <2> QED
    BY <2>9 DEF t
<1>5. CASE c = shown /\ Submitting("CONTACT") /\ ContactMade(s, t, x)
  <2>1. x \in Nat
    BY <1>5, AdmittedMoment
  <2>3. ContactMade(s, t, x)
    BY <1>5
  <2> HIDE DEF s, t, x
  <2>4. /\ t.attempts_used \in Nat \ {0} /\ t.attempt_pending_until \in Moment
        /\ t.last_attempt_resolved_at \in Moment
        /\ t.contacts_used \in Nat /\ t.last_contact_at \in Moment
    BY <1>0, <2>1, <2>3 DEF ContactMade, Kept, CaseTyped, Moment
  <2>5. \A h \in Histories, what \in Happening :
            Append(h, <<what, x>>) \in Histories
    BY <2>1, LongerHistory
  <2>6. t.history \in Histories
    <3>1. s.history \in Histories
      BY <1>0 DEF CaseTyped
    <3>2. {"recovered_via_link", "contact_ignored", "mandate_revoked"} \subseteq Happening
      BY DEF Happening
    <3>3. t.history \in {Append(s.history, <<"recovered_via_link", x>>),
                         Append(s.history, <<"contact_ignored", x>>),
                         Append(Append(s.history, <<"contact_ignored", x>>),
                                <<"mandate_revoked", x>>)}
      BY <2>3 DEF ContactMade
    <3> QED
      BY <2>5, <3>1, <3>2, <3>3
  <2>7. t.outcome \in Outcome /\ t.notifications \in Nat
    BY <1>0, <2>3 DEF ContactMade, CaseTyped, Outcome
  <2>9. CaseTyped(t)
    BY <2>4, <2>6, <2>7 DEF CaseTyped
  <2> QED
    BY <2>9 DEF t
<1> QED
  BY <1>1, <1>2, <1>3, <1>4, <1>5, EffectOfStep DEF Effect

LEMMA InitTyped == Init => Typed
<1> SUFFICES ASSUME Init
             PROVE  Typed
  OBVIOUS
<1>1. /\ arm \in ArmNames /\ driver \in Drivers /\ (arm = "any" => driver = "environment")
      /\ \E d \in StartDays : failure \in [Cases -> Failures(d)]
  BY DEF Init
<1>2. ASSUME NEW c \in Cases
      PROVE  CaseTyped(case[c])
  <2>1. case[c] = NewCase
    BY DEF Init
  <2>2. NewCase.history \in Histories
    BY DEF NewCase, Histories
  <2> QED
    BY <2>1, <2>2 DEF NewCase, CaseTyped, Moment, Outcome
<1>3. /\ day \in 0..HorizonDays /\ left \subseteq Cases /\ shown \in Cases \cup {None}
      /\ proposals \in Seq(Proposal) /\ proposals = <<>> /\ left = {}
  <2>1. HorizonDays \in Nat
    BY SimulatorAssumption
  <2>2. day = 0 /\ left = {} /\ shown = None /\ proposals = <<>>
    BY DEF Init
  <2>3. <<>> \in Seq(Proposal) /\ 0 \in 0..HorizonDays
    BY <2>1
  <2> QED
    BY <2>2, <2>3
<1> QED
  BY <1>1, <1>2, <1>3 DEF Typed

LEMMA NextTyped == CasesOK /\ Typed /\ [Next]_vars => Typed'
<1> SUFFICES ASSUME CasesOK, Typed, [Next]_vars
             PROVE  Typed'
  OBVIOUS
<1>1. \A c \in Cases : CaseTyped(case'[c])
  BY TypedCase
<1>2. UNCHANGED <<arm, driver, failure>>
  BY DEF Next, vars, NextDay, Propose, Drive, SubmitMoot, SubmitRefused, AttemptSucceeds,
         AttemptFails, ContactConverts, ContactIgnored, Submitting, finalise
<1> DEFINE Rest == /\ day \in 0..HorizonDays /\ left \subseteq Cases
                   /\ shown \in Cases \cup {None} /\ proposals \in Seq(Proposal)
                   /\ proposals # <<>> => shown \in Cases /\ driver = "environment"
                   /\ left # {} \/ proposals # <<>> => day # 0
<1>3. Rest
  BY DEF Typed
<1>4. Rest'
  <2>1. CASE UNCHANGED <<driver, day, left, shown, proposals>>
    BY <1>3, <2>1
  <2>2. CASE NextDay
    <3>1. /\ day \in 0..HorizonDays /\ day < HorizonDays /\ day' = day + 1
          /\ left' = open_case_ids /\ UNCHANGED <<driver, shown, proposals>>
      BY <1>3, <2>2 DEF NextDay
    <3>2. day' \in 0..HorizonDays /\ day' # 0
      <4>1. HorizonDays \in Nat
        BY SimulatorAssumption
      <4> QED
        BY <3>1, <4>1
    <3>3. open_case_ids \subseteq Cases
      BY DEF open_case_ids
    <3> QED
      BY <1>3, <3>1, <3>2, <3>3
  <2>3. ASSUME NEW c \in Cases, Propose(c)
        PROVE  Rest'
    <3>1. /\ driver = "environment" /\ c \in left /\ left' = left \ {c} /\ shown' = c
          /\ proposals' \in propose(c) /\ UNCHANGED <<driver, day>>
      BY <2>3 DEF Propose
    <3>2. day # 0
      BY <1>3, <3>1
    <3>3. proposals' \in Seq(Proposal)
      BY <3>1, <3>2, OffersAreProposals
    <3> QED
      BY <1>3, <3>1, <3>2, <3>3
  <2>4. ASSUME NEW c \in Cases, Drive(c)
        PROVE  Rest'
    <3>1. /\ driver = "contract" /\ c \in left /\ left' = left \ {c} /\ shown' = c
          /\ UNCHANGED <<driver, day, proposals>>
      BY <2>4 DEF Drive
    <3>2. day # 0 /\ proposals = <<>>
      BY <1>3, <3>1
    <3> QED
      BY <1>3, <3>1, <3>2
  <2>5. CASE proposals # <<>> /\ proposals' = Tail(proposals) /\ UNCHANGED <<driver, day, left, shown>>
    <3>1. Tail(proposals) \in Seq(Proposal)
      BY <1>3, <2>5
    <3> QED
      BY <1>3, <2>5, <3>1
  <2>6. SubmitMoot \/ SubmitRefused \/ AttemptSucceeds \/ AttemptFails
        \/ ContactConverts \/ ContactIgnored
        => proposals # <<>> /\ proposals' = Tail(proposals) /\ UNCHANGED <<driver, day, left, shown>>
    BY DEF SubmitMoot, SubmitRefused, AttemptSucceeds, AttemptFails, ContactConverts,
           ContactIgnored, Submitting
  <2>7. finalise \/ UNCHANGED vars => UNCHANGED <<driver, day, left, shown, proposals>>
    BY DEF finalise, vars
  <2> HIDE DEF Rest
  <2> QED
    BY <2>1, <2>2, <2>3, <2>4, <2>5, <2>6, <2>7 DEF Next
<1> QED
  BY <1>1, <1>2, <1>4 DEF Typed

-----------------------------------------------------------------------------
(* The entries of a history that are of some kind, and how they are spaced.*)
Made(h, kinds) == {i \in DOMAIN h : h[i][1] \in kinds}

Spaced(h, kinds, gap) ==
    \A i, j \in Made(h, kinds) : i < j => h[j][2] >= h[i][2] + gap

Until(h, kinds, gap, x) == \A i \in Made(h, kinds) : x >= h[i][2] + gap

OffPeak(h, kinds) == \A i \in Made(h, kinds) : ~is_peak(h[i][2])

Longer(h, g, what, x) == g = Append(h, <<what, x>>)

LEMMA MadeIsMoment ==
    ASSUME NEW h \in Histories, NEW kinds, NEW i \in Made(h, kinds)
    PROVE  i \in 1..Len(h) /\ h[i][2] \in Nat
BY DEF Made, Histories

Entered(h, g, what, x, kinds) ==
    /\ g \in Histories
    /\ what \in kinds => Made(g, kinds) = Made(h, kinds) \cup {Len(h) + 1}
    /\ what \notin kinds => Made(g, kinds) = Made(h, kinds)
    /\ \A i \in Made(h, kinds) : i \in 1..Len(h) /\ g[i] = h[i]
    /\ g[Len(h) + 1][1] = what /\ g[Len(h) + 1][2] = x
    /\ Len(h) \in Nat

LEMMA MadeOnAppend ==
    ASSUME NEW h \in Histories, NEW what \in Happening, NEW x \in Nat, NEW kinds,
           NEW g, Longer(h, g, what, x)
    PROVE  Entered(h, g, what, x, kinds)
<1> DEFINE e == <<what, x>>
<1>1. e \in Happening \X Nat /\ e[1] = what /\ e[2] = x
  OBVIOUS
<1>2. g = Append(h, e)
  BY DEF Longer
<1> HIDE DEF e
<1>3. g \in Histories /\ DOMAIN g = 1..(Len(h) + 1) /\ DOMAIN h = 1..Len(h)
      /\ Len(h) \in Nat
  BY <1>1, <1>2 DEF Histories
<1>4. g[Len(h) + 1] = e /\ \A i \in 1..Len(h) : g[i] = h[i]
  BY <1>1, <1>2 DEF Histories
<1>5. DOMAIN g = DOMAIN h \cup {Len(h) + 1}
  BY <1>3
<1>6. /\ what \in kinds => Made(g, kinds) = Made(h, kinds) \cup {Len(h) + 1}
      /\ what \notin kinds => Made(g, kinds) = Made(h, kinds)
  BY <1>1, <1>3, <1>4, <1>5 DEF Made
<1> QED
  BY <1>1, <1>3, <1>4, <1>6 DEF Made, Entered

Untouched(h, g, kinds) ==
    /\ Made(g, kinds) = Made(h, kinds)
    /\ OffPeak(h, kinds) => OffPeak(g, kinds)
    /\ \A gap : Spaced(h, kinds, gap) => Spaced(g, kinds, gap)
    /\ \A gap, y : Until(h, kinds, gap, y) => Until(g, kinds, gap, y)

(* An entry of another kind changes nothing.                               *)
LEMMA OtherKindAppended ==
    ASSUME NEW h \in Histories, NEW what \in Happening, NEW x \in Nat, NEW kinds,
           NEW g, Longer(h, g, what, x), what \notin kinds
    PROVE  Untouched(h, g, kinds)
<1>1. Made(g, kinds) = Made(h, kinds) /\ \A i \in Made(h, kinds) : g[i] = h[i]
  <2>1. Entered(h, g, what, x, kinds)
    BY MadeOnAppend
  <2> QED
    BY <2>1 DEF Entered
<1> QED
  BY <1>1 DEF Spaced, OffPeak, Until, Untouched

(* An entry that comes late enough keeps the spacing.                      *)
LEMMA LateEntryAppended ==
    ASSUME NEW h \in Histories, NEW what \in Happening, NEW x \in Nat, NEW kinds,
           NEW g, Longer(h, g, what, x), what \in kinds, NEW gap \in Nat,
           Spaced(h, kinds, gap), Until(h, kinds, gap, x)
    PROVE  Spaced(g, kinds, gap)
<1> DEFINE n == Len(h) + 1
<1>1. /\ Made(g, kinds) = Made(h, kinds) \cup {n} /\ Len(h) \in Nat
      /\ \A i \in Made(h, kinds) : i \in 1..Len(h) /\ g[i] = h[i]
      /\ g[n][2] = x
  <2>1. Entered(h, g, what, x, kinds)
    BY MadeOnAppend
  <2> QED
    BY <2>1 DEF Entered
<1>2. \A i \in Made(h, kinds) : i < n /\ ~(n < i)
  BY <1>1
<1>3. ~(n < n)
  BY <1>1
<1> HIDE DEF n
<1> QED
  BY <1>1, <1>2, <1>3 DEF Spaced, Until

LEMMA UntilAppended ==
    ASSUME NEW h \in Histories, NEW what \in Happening, NEW x \in Nat, NEW kinds,
           NEW g, Longer(h, g, what, x), NEW gap \in Nat, NEW y \in Nat, y >= x,
           what \in kinds => y >= x + gap, Until(h, kinds, gap, x)
    PROVE  Until(g, kinds, gap, y)
<1>1. /\ Made(g, kinds) \subseteq Made(h, kinds) \cup {Len(h) + 1}
      /\ Len(h) + 1 \in Made(g, kinds) => what \in kinds
      /\ \A i \in Made(h, kinds) : i \in 1..Len(h) /\ g[i] = h[i]
      /\ g[Len(h) + 1][2] = x
  <2>1. /\ what \in kinds => Made(g, kinds) = Made(h, kinds) \cup {Len(h) + 1}
        /\ what \notin kinds => Made(g, kinds) = Made(h, kinds)
        /\ \A i \in Made(h, kinds) : i \in 1..Len(h) /\ g[i] = h[i]
        /\ g[Len(h) + 1][2] = x /\ Len(h) \in Nat
    <3>1. Entered(h, g, what, x, kinds)
      BY MadeOnAppend
    <3> QED
      BY <3>1 DEF Entered
  <2>2. Len(h) + 1 \notin Made(h, kinds)
    BY <2>1
  <2> QED
    BY <2>1, <2>2
<1>2. \A i \in Made(h, kinds) : h[i][2] \in Nat
  BY MadeIsMoment
<1>3. \A i \in Made(h, kinds) : y >= h[i][2] + gap
  BY <1>2 DEF Until
<1> QED
  BY <1>1, <1>3 DEF Until

LEMMA OffPeakAppended ==
    ASSUME NEW h \in Histories, NEW what \in Happening, NEW x \in Nat, NEW kinds,
           NEW g, Longer(h, g, what, x), ~is_peak(x), OffPeak(h, kinds)
    PROVE  OffPeak(g, kinds)
<1>1. /\ Made(g, kinds) \subseteq Made(h, kinds) \cup {Len(h) + 1}
      /\ \A i \in Made(h, kinds) : g[i] = h[i]
      /\ g[Len(h) + 1][2] = x
  <2>1. Entered(h, g, what, x, kinds)
    BY MadeOnAppend
  <2> QED
    BY <2>1 DEF Entered
<1> QED
  BY <1>1 DEF OffPeak
-----------------------------------------------------------------------------
Executing == {"attempt_failed", "recovered_via_attempt"}
Contacting == {"contact_ignored", "recovered_via_link"}

Cooldown == CooldownHours * Hour

(* While a case is open, every execution of it is answered by the moment   *)
(* until which the next is held; and the last contact is the latest.       *)
Paced(s, answer) ==
    /\ OffPeak(s.history, Executing)
    /\ Spaced(s.history, Executing, answer)
    /\ Spaced(s.history, Contacting, Cooldown)
    /\ s.outcome = "open" /\ Made(s.history, Executing) # {} =>
          /\ s.attempt_pending_until # None
          /\ Until(s.history, Executing, answer, s.attempt_pending_until)
    /\ Made(s.history, Contacting) # {} =>
          /\ s.last_contact_at # None
          /\ Until(s.history, Contacting, 0, s.last_contact_at)

AllPaced == \A c \in Cases : Paced(case[c], AnswerTicks(c))

LEMMA AnswerIsNat ==
    ASSUME NEW c
    PROVE  /\ AnswerTicks(c) \in Nat
           /\ \A hours \in PendingHours : failure[c].rail = "emandate" =>
                  hours \in Nat /\ hours * Hour >= AnswerTicks(c)
<1>1. /\ PendingHours \subseteq Nat /\ PendingHours # {}
  BY SimulatorAssumption
<1> DEFINE m == Min(PendingHours)
<1>2. m \in Nat /\ \A h \in PendingHours : h \in Nat /\ m <= h
  BY <1>1, LeastOf
<1>3. AnswerTicks(c) = IF failure[c].rail = "emandate" THEN m * Hour ELSE 0
  BY DEF AnswerTicks
<1> HIDE DEF m
<1> QED
  BY <1>2, <1>3 DEF Hour

LEMMA ExecutedPaced ==
    ASSUME NEW s, NEW t, NEW x \in Nat, NEW answer \in Nat, CaseTyped(s), Paced(s, answer),
           s.outcome = "open", Executed(s, t, x), ~is_peak(x),
           ~(s.attempt_pending_until # None /\ x < s.attempt_pending_until),
           \A hours \in PendingHours : ResolvedAt(hours) \in Nat /\ ResolvedAt(hours) >= x + answer
    PROVE  Paced(t, answer)
<1> DEFINE h == s.history
           pending == s.attempt_pending_until
<1>1. h \in Histories /\ pending \in Moment
  BY DEF CaseTyped
<1>2. OffPeak(h, Executing) /\ Spaced(h, Executing, answer) /\ Spaced(h, Contacting, Cooldown)
  BY DEF Paced
<1>3. Until(h, Executing, answer, x)
  <2>1. CASE Made(h, Executing) = {}
    BY <2>1 DEF Until
  <2>2. CASE Made(h, Executing) # {}
    <3>1. pending # None /\ Until(h, Executing, answer, pending)
      BY <2>2 DEF Paced
    <3>2. pending \in Nat /\ x >= pending
      BY <1>1, <3>1 DEF Moment
    <3>3. \A i \in Made(h, Executing) : h[i][2] \in Nat /\ pending >= h[i][2] + answer
      BY <1>1, <3>1, MadeIsMoment DEF Until
    <3> HIDE DEF h, pending
    <3> QED
      BY <3>2, <3>3 DEF Until
  <2> QED
    BY <2>1, <2>2
<1>4. t.last_contact_at = s.last_contact_at
  BY DEF Executed, Kept
<1>5. Made(h, Contacting) # {} => /\ s.last_contact_at # None
                                  /\ Until(h, Contacting, 0, s.last_contact_at)
  BY DEF Paced
<1> HIDE DEF h
<1>6. ASSUME NEW what \in Executing, NEW g, Longer(h, g, what, x)
      PROVE  /\ g \in Histories
             /\ OffPeak(g, Executing) /\ Spaced(g, Executing, answer)
             /\ Spaced(g, Contacting, Cooldown)
             /\ \A y \in Nat : y >= x + answer => Until(g, Executing, answer, y)
             /\ Made(g, Contacting) = Made(h, Contacting)
             /\ \A y : Until(h, Contacting, 0, y) => Until(g, Contacting, 0, y)
  <2>1. what \in Happening /\ what \notin Contacting
    BY DEF Executing, Contacting, Happening
  <2>2. g \in Histories
    <3>1. Entered(h, g, what, x, Executing)
      BY <1>1, <1>6, <2>1, MadeOnAppend
    <3> QED
      BY <3>1 DEF Entered
  <2>3. OffPeak(g, Executing)
    BY <1>1, <1>2, <1>6, <2>1, OffPeakAppended
  <2>4. Spaced(g, Executing, answer)
    BY <1>1, <1>2, <1>3, <1>6, <2>1, LateEntryAppended
  <2>5. /\ Spaced(g, Contacting, Cooldown) /\ Made(g, Contacting) = Made(h, Contacting)
        /\ \A y : Until(h, Contacting, 0, y) => Until(g, Contacting, 0, y)
    <3>1. Untouched(h, g, Contacting)
      BY <1>1, <1>6, <2>1, OtherKindAppended
    <3> QED
      BY <1>2, <3>1 DEF Untouched
  <2>6. ASSUME NEW y \in Nat, y >= x + answer
        PROVE  Until(g, Executing, answer, y)
    <3>1. y >= x
      BY <2>6
    <3> QED
      BY <1>1, <1>3, <1>6, <2>1, <2>6, <3>1, UntilAppended
  <2> QED
    BY <2>2, <2>3, <2>4, <2>5, <2>6
<1>7. ASSUME NEW g \in Histories, NEW k, Longer(g, k, "mandate_revoked", x)
      PROVE  /\ OffPeak(g, Executing) => OffPeak(k, Executing)
             /\ Spaced(g, Executing, answer) => Spaced(k, Executing, answer)
             /\ Spaced(g, Contacting, Cooldown) => Spaced(k, Contacting, Cooldown)
             /\ Made(k, Contacting) = Made(g, Contacting)
             /\ \A y : Until(g, Contacting, 0, y) => Until(k, Contacting, 0, y)
  <2>1. /\ "mandate_revoked" \in Happening /\ "mandate_revoked" \notin Executing
        /\ "mandate_revoked" \notin Contacting
    BY DEF Executing, Contacting, Happening
  <2>2. Untouched(g, k, Executing) /\ Untouched(g, k, Contacting)
    BY <1>7, <2>1, OtherKindAppended
  <2> QED
    BY <2>2 DEF Untouched
<1>8. {"recovered_via_attempt", "attempt_failed"} \subseteq Executing
  BY DEF Executing
<1>9. CASE Longer(h, t.history, "recovered_via_attempt", x) /\ t.outcome = "recovered"
  BY <1>4, <1>5, <1>6, <1>8, <1>9 DEF Paced
<1>10. ASSUME Longer(h, t.history, "attempt_failed", x),
              NEW y \in Nat, y >= x + answer, t.attempt_pending_until = y
       PROVE  Paced(t, answer)
  <2>1. y # None
    BY GuardAssumption
  <2> QED
    BY <1>4, <1>5, <1>6, <1>8, <1>10, <2>1 DEF Paced
<1>11. ASSUME NEW g, Longer(h, g, "attempt_failed", x),
              Longer(g, t.history, "mandate_revoked", x), t.outcome = "revoked"
       PROVE  Paced(t, answer)
  <2>1. /\ g \in Histories
        /\ OffPeak(g, Executing) /\ Spaced(g, Executing, answer)
        /\ Spaced(g, Contacting, Cooldown)
        /\ Made(g, Contacting) = Made(h, Contacting)
        /\ \A y : Until(h, Contacting, 0, y) => Until(g, Contacting, 0, y)
    BY <1>6, <1>8, <1>11
  <2> QED
    BY <1>4, <1>5, <1>7, <1>11, <2>1 DEF Paced
<1>12. \/ Longer(h, t.history, "recovered_via_attempt", x) /\ t.outcome = "recovered"
       \/ /\ Longer(h, t.history, "attempt_failed", x)
          /\ \E hours \in PendingHours : t.attempt_pending_until = ResolvedAt(hours)
       \/ /\ \E g : Longer(h, g, "attempt_failed", x) /\ Longer(g, t.history, "mandate_revoked", x)
          /\ t.outcome = "revoked"
  BY DEF Executed, Longer, h
<1> QED
  BY <1>9, <1>10, <1>11, <1>12

LEMMA ContactedPaced ==
    ASSUME NEW s, NEW t, NEW x \in Nat, NEW answer \in Nat, CaseTyped(s), Paced(s, answer),
           ContactMade(s, t, x),
           ~(s.last_contact_at # None /\ x - s.last_contact_at < Cooldown)
    PROVE  Paced(t, answer)
<1> DEFINE h == s.history
           last == s.last_contact_at
           pending == s.attempt_pending_until
<1>1. h \in Histories /\ last \in Moment
  BY DEF CaseTyped
<1>2. OffPeak(h, Executing) /\ Spaced(h, Executing, answer) /\ Spaced(h, Contacting, Cooldown)
  BY DEF Paced
<1>3. Cooldown \in Nat
  BY GuardAssumption DEF Cooldown, Hour
<1>4. Until(h, Contacting, Cooldown, x) /\ Until(h, Contacting, 0, x)
  <2>1. CASE Made(h, Contacting) = {}
    BY <2>1 DEF Until
  <2>2. CASE Made(h, Contacting) # {}
    <3>1. last # None /\ Until(h, Contacting, 0, last)
      BY <2>2 DEF Paced
    <3>2. last \in Nat /\ x >= last + Cooldown
      BY <1>1, <1>3, <3>1 DEF Moment
    <3>3. \A i \in Made(h, Contacting) : h[i][2] \in Nat /\ last >= h[i][2] + 0
      BY <1>1, <3>1, MadeIsMoment DEF Until
    <3> HIDE DEF h, last
    <3> QED
      BY <1>3, <3>2, <3>3 DEF Until
  <2> QED
    BY <2>1, <2>2
<1>5. t.attempt_pending_until = pending /\ t.last_contact_at = x
  BY DEF ContactMade, Kept
<1>6. s.outcome = "open" /\ Made(h, Executing) # {} =>
          pending # None /\ Until(h, Executing, answer, pending)
  BY DEF Paced
<1>7. x # None
  BY GuardAssumption
<1> HIDE DEF h, last, pending
<1> DEFINE Good(g) == /\ g \in Histories
                      /\ OffPeak(g, Executing) /\ Spaced(g, Executing, answer)
                      /\ Spaced(g, Contacting, Cooldown)
                      /\ Made(g, Executing) = Made(h, Executing)
                      /\ \A y : Until(h, Executing, answer, y) => Until(g, Executing, answer, y)
                      /\ Until(g, Contacting, 0, x)
<1>8. ASSUME NEW what \in Contacting, NEW g, Longer(h, g, what, x)
      PROVE  Good(g)
  <2>1. what \in Happening /\ what \notin Executing
    BY DEF Executing, Contacting, Happening
  <2>2. g \in Histories
    <3>1. Entered(h, g, what, x, Executing)
      BY <1>1, <1>8, <2>1, MadeOnAppend
    <3> QED
      BY <3>1 DEF Entered
  <2>3. Spaced(g, Contacting, Cooldown)
    BY <1>1, <1>2, <1>3, <1>4, <1>8, <2>1, LateEntryAppended
  <2>4. Untouched(h, g, Executing)
    BY <1>1, <1>8, <2>1, OtherKindAppended
  <2>5. Until(g, Contacting, 0, x)
    <3>1. x >= x /\ x >= x + 0 /\ 0 \in Nat
      OBVIOUS
    <3> QED
      BY <1>1, <1>4, <1>8, <2>1, <3>1, UntilAppended
  <2> QED
    BY <1>2, <2>2, <2>3, <2>4, <2>5 DEF Untouched
<1>9. ASSUME NEW g, Good(g), NEW k, Longer(g, k, "mandate_revoked", x)
      PROVE  Good(k)
  <2>1. /\ "mandate_revoked" \in Happening /\ "mandate_revoked" \notin Executing
        /\ "mandate_revoked" \notin Contacting
    BY DEF Executing, Contacting, Happening
  <2>2. Untouched(g, k, Executing) /\ Untouched(g, k, Contacting)
    BY <1>9, <2>1, OtherKindAppended
  <2>3. k \in Histories
    <3>1. Entered(g, k, "mandate_revoked", x, Executing)
      BY <1>9, <2>1, MadeOnAppend
    <3> QED
      BY <3>1 DEF Entered
  <2> QED
    BY <1>9, <2>2, <2>3 DEF Untouched
<1>10. {"recovered_via_link", "contact_ignored"} \subseteq Contacting
  BY DEF Contacting
<1>11. \/ Longer(h, t.history, "recovered_via_link", x) /\ t.outcome = "recovered"
       \/ Longer(h, t.history, "contact_ignored", x) /\ t.outcome = s.outcome
       \/ /\ \E g : Longer(h, g, "contact_ignored", x) /\ Longer(g, t.history, "mandate_revoked", x)
          /\ t.outcome = "revoked"
  BY DEF ContactMade, Longer, h
<1>12. Good(t.history) /\ (t.outcome = "open" => s.outcome = "open")
  <2> HIDE DEF Good
  <2> QED
    BY <1>8, <1>9, <1>10, <1>11
<1> QED
  BY <1>5, <1>6, <1>7, <1>12 DEF Paced

LEMMA PacedAlike ==
    ASSUME NEW s, NEW t, NEW answer, Paced(s, answer), t.history = s.history,
           t.attempt_pending_until = s.attempt_pending_until,
           t.last_contact_at = s.last_contact_at, t.outcome = "open" => s.outcome = "open"
    PROVE  Paced(t, answer)
BY DEF Paced

LEMMA NextPaced == CasesOK /\ Typed /\ AllPaced /\ [Next]_vars => AllPaced'
<1> SUFFICES ASSUME CasesOK, Typed, AllPaced, [Next]_vars, NEW c \in Cases
             PROVE  Paced(case'[c], AnswerTicks(c)')
  BY DEF AllPaced
<1> DEFINE s == case[c]
           t == case'[c]
           x == p.execute_at
           answer == AnswerTicks(c)
<1>1. CaseTyped(s) /\ Paced(s, answer) /\ answer \in Nat
  BY AnswerIsNat DEF Typed, AllPaced
<1>2. AnswerTicks(c)' = answer
  <2>1. failure' = failure
    BY DEF Next, vars, NextDay, Propose, Drive, SubmitMoot, SubmitRefused, AttemptSucceeds,
           AttemptFails, ContactConverts, ContactIgnored, Submitting, finalise
  <2> QED
    BY <2>1 DEF AnswerTicks
<1>3. CASE t = s
  BY <1>1, <1>2, <1>3
<1>4. CASE Driven(c) \/ Halted(c)
  <2>1. /\ t.history = s.history /\ t.attempt_pending_until = s.attempt_pending_until
        /\ t.last_contact_at = s.last_contact_at /\ (t.outcome = "open" => s.outcome = "open")
    BY <1>4 DEF Driven, Halted, Kept, Fields
  <2> HIDE DEF s, t
  <2>2. Paced(t, answer)
    BY <1>1, <2>1, PacedAlike
  <2> QED
    BY <1>2, <2>2 DEF t
<1>5. CASE c = shown /\ Submitting("EXECUTION") /\ Executed(s, t, x)
  <2>1. x \in Nat
    BY <1>5, AdmittedMoment
  <2>2. /\ ~is_peak(x)
        /\ ~(s.attempt_pending_until # None /\ x < s.attempt_pending_until)
    BY <1>5, AdmittedAt
  <2>3. s.outcome = "open"
    BY <1>5 DEF Submitting, is_open
  <2>4. ASSUME NEW hours \in PendingHours
        PROVE  ResolvedAt(hours) \in Nat /\ ResolvedAt(hours) >= x + answer
    <3>1. /\ ResolvedAt(hours) = IF failure[c].rail = "emandate" THEN x + hours * Hour ELSE x
          /\ answer = IF failure[c].rail = "emandate" THEN answer ELSE 0
      BY <1>5 DEF ResolvedAt, AnswerTicks
    <3>2. hours \in Nat /\ (failure[c].rail = "emandate" => hours * Hour >= answer)
      BY SimulatorAssumption, AnswerIsNat
    <3> HIDE DEF x, answer
    <3> QED
      BY <1>1, <2>1, <3>1, <3>2 DEF Hour
  <2>5. Executed(s, t, x)
    BY <1>5
  <2> HIDE DEF s, t, x, answer
  <2>6. Paced(t, answer)
    BY <1>1, <2>1, <2>2, <2>3, <2>4, <2>5, ExecutedPaced
  <2> QED
    BY <1>2, <2>6 DEF t
<1>6. CASE c = shown /\ Submitting("CONTACT") /\ ContactMade(s, t, x)
  <2>1. x \in Nat
    BY <1>6, AdmittedMoment
  <2>2. ~(s.last_contact_at # None /\ x - s.last_contact_at < Cooldown)
    <3>1. p.execute_at # None
      BY <2>1, GuardAssumption
    <3> QED
      BY <1>6, <3>1, ContactedAt DEF Cooldown
  <2>3. ContactMade(s, t, x)
    BY <1>6
  <2> HIDE DEF s, t, x, answer
  <2>4. Paced(t, answer)
    BY <1>1, <2>1, <2>2, <2>3, ContactedPaced
  <2> QED
    BY <1>2, <2>4 DEF t
<1> QED
  BY <1>3, <1>4, <1>5, <1>6, EffectOfStep DEF Effect

LEMMA InitPaced == Init => AllPaced
<1> SUFFICES ASSUME Init, NEW c \in Cases
             PROVE  Paced(case[c], AnswerTicks(c))
  BY DEF AllPaced
<1>1. case[c] = NewCase
  BY DEF Init
<1>2. \A kinds : Made(case[c].history, kinds) = {}
  BY <1>1 DEF NewCase, Made
<1> QED
  BY <1>2 DEF Paced, OffPeak, Spaced

LEMMA PacedAlways == Spec => [](CasesOK /\ Typed /\ AllPaced)
BY InitCases, NextCases, InitTyped, NextTyped, InitPaced, NextPaced, PTL DEF Spec

(* Whatever the arm proposes, the executions of a case follow each other at*)
(* no less than the answer takes, and none is in a peak window: the guard  *)
(* is shown the moment until which the case is pending, and that moment is *)
(* behind every answer still owed (environment.py, submit; guard.py).      *)
THEOREM ExecutionsTakeTurns == Spec => []ExecutionsInTurn
<1>1. AllPaced => ExecutionsInTurn
  BY DEF AllPaced, Paced, OffPeak, Spaced, Made, ExecutionsInTurn, Executions, Entries, When,
         Executing
<1> QED
  BY <1>1, PacedAlways, PTL

(* Whatever the arm proposes, two contacts of a case are a cooldown apart. *)
THEOREM ContactsStayApart == Spec => []ContactsSpaced
<1>1. AllPaced => ContactsSpaced
  BY DEF AllPaced, Paced, Spaced, Made, ContactsSpaced, Contacts, Entries, When,
         Contacting, Cooldown
<1> QED
  BY <1>1, PacedAlways, PTL

-----------------------------------------------------------------------------
(* A shorter lead leaves the notification more time, to either side of the *)
(* cutoff of the day before, for the cutoff is not at midnight.            *)
LEMMA ShorterLead ==
    ASSUME NEW x \in Int, NEW r \in Rails, NEW s \in Rails, LeadHours[r] <= LeadHours[s],
           PdnCutoff >= 1
    PROVE  /\ pdn_deadline_for(x, s) \in Int /\ pdn_deadline_for(x, r) \in Int
           /\ pdn_deadline_for(x, s) <= pdn_deadline_for(x, r)
<1> DEFINE d(l) == x - l * Hour
           cutoff(l) == combine(date(d(l)), PdnCutoff - 1)
           deadline(l) == IF date(x) - date(d(l)) <= 1 /\ cutoff(l) < d(l) THEN cutoff(l)
                                                                         ELSE d(l)
<1>1. LeadHours[r] \in Nat /\ LeadHours[s] \in Nat /\ PdnCutoff \in Int
  BY CalendarAssumption DEF MinuteOfDay
<1>2. \A u \in {r, s} : pdn_deadline_for(x, u) = deadline(LeadHours[u])
  BY DEF pdn_deadline_for
<1>3. PICK l, m \in Nat : l = LeadHours[r] /\ m = LeadHours[s] /\ l <= m
  BY <1>1
<1>4. PICK a, b \in Int : a = d(l) /\ b = d(m) /\ b <= a
  BY <1>3 DEF Hour
<1>5. \A u \in Int : date(u) \in Int /\ date(u) * 2880 <= u /\ u < date(u) * 2880 + 2880
  BY DEF date, Day
<1>6. PICK X \in Int : X = date(x)
  BY <1>5
<1>14. PICK A \in Int : A = date(a) /\ A * 2880 <= a /\ a < A * 2880 + 2880
  <2>1. date(a) \in Int /\ date(a) * 2880 <= a /\ a < date(a) * 2880 + 2880
    BY <1>4, <1>5
  <2> QED
    BY <2>1
<1>15. PICK B \in Int : B = date(b) /\ B * 2880 <= b /\ b < B * 2880 + 2880
  <2>1. date(b) \in Int /\ date(b) * 2880 <= b /\ b < date(b) * 2880 + 2880
    BY <1>4, <1>5
  <2> QED
    BY <2>1
<1>7. PICK g, h \in Int : /\ g = cutoff(l) /\ g = A * 2880 + PdnCutoff * 2 - 2
                          /\ h = cutoff(m) /\ h = B * 2880 + PdnCutoff * 2 - 2
  BY <1>1, <1>4, <1>14, <1>15 DEF combine, Day, Minute
<1>8. PICK y, z \in Int : /\ y = deadline(l) /\ y = IF X - A <= 1 /\ g < a THEN g ELSE a
                          /\ z = deadline(m) /\ z = IF X - B <= 1 /\ h < b THEN h ELSE b
  BY <1>4, <1>6, <1>7, <1>14, <1>15
<1> HIDE DEF d, cutoff, deadline
<1>9. z <= y
  <2>1. CASE B = A
    <3>1. h = g
      BY <1>7, <2>1
    <3> QED
      BY <1>4, <1>8, <2>1, <3>1
  <2>2. CASE B < A
    <3>1. b < A * 2880
      BY <1>15, <2>2
    <3>2. A * 2880 <= g
      BY <1>1, <1>7
    <3>3. z <= b
      BY <1>8
    <3>4. b <= a /\ b < g
      BY <1>4, <3>1, <3>2
    <3>5. y = g \/ y = a
      BY <1>8
    <3> QED
      BY <3>3, <3>4, <3>5
  <2>3. ~(A < B)
    BY <1>4, <1>14, <1>15
  <2> QED
    BY <2>1, <2>2, <2>3
<1> QED
  BY <1>2, <1>3, <1>8, <1>9
-----------------------------------------------------------------------------
(* What waits to be submitted was proposed by the policy in this very state*)
(* of the case, as far as the guard will look at it.                       *)
Queued(ps, c) ==
    \A i \in DOMAIN ps :
        \/ /\ ps[i].kind = "EXECUTION" /\ i = Len(ps)
           /\ MayExecute(c) /\ ps[i].execute_at \in Int /\ Permitted(c, ps[i].execute_at)
        \/ /\ ps[i].kind = "CONTACT" /\ i = 1
           /\ MayContact(c) /\ ps[i].execute_at = now + Hour

Queue == arm # "any" => Queued(proposals, shown)

Untold == \A c \in Cases : case[c].contacts_used = 0 => case[c].last_contact_at = None

LEMMA OffersQueue ==
    ASSUME NEW c, NEW ps, Offer(c, ps)
    PROVE  Queued(ps, c)
<1>1. \A x : /\ Attempt(x).kind = "EXECUTION" /\ Contact(x).kind = "CONTACT"
             /\ Attempt(x).execute_at = x /\ Contact(x).execute_at = x
  BY DEF Attempt, Contact
<1>2. CASE ps = <<>>
  BY <1>2 DEF Queued
<1>3. ASSUME MayExecute(c), NEW x \in Int, Permitted(c, x), ps = <<Attempt(x)>>
      PROVE  Queued(ps, c)
  <2>1. DOMAIN ps = {1} /\ Len(ps) = 1 /\ ps[1] = Attempt(x)
    BY <1>3
  <2> QED
    BY <1>1, <1>3, <2>1 DEF Queued
<1>4. CASE MayContact(c) /\ ps = <<Contact(now + Hour)>>
  <2>1. DOMAIN ps = {1} /\ ps[1] = Contact(now + Hour)
    BY <1>4
  <2> QED
    BY <1>1, <1>4, <2>1 DEF Queued
<1>5. ASSUME MayExecute(c), MayContact(c), NEW x \in Int, Permitted(c, x),
             ps = <<Contact(now + Hour), Attempt(x)>>
      PROVE  Queued(ps, c)
  <2>1. /\ DOMAIN ps = {1, 2} /\ Len(ps) = 2
        /\ ps[1] = Contact(now + Hour) /\ ps[2] = Attempt(x)
    BY <1>5
  <2> QED
    BY <1>1, <1>5, <2>1 DEF Queued
<1> QED
  BY <1>2, <1>3, <1>4, <1>5 DEF Offer

LEMMA SameMoment ==
    ASSUME UNCHANGED <<failure, day>>
    PROVE  now' = now
BY DEF now, start

(* The rest of a queue stands when its head is submitted.                  *)
LEMMA QueueAdvances ==
    ASSUME CasesOK, Typed, Queue, [Next]_vars, proposals # <<>>, proposals' = Tail(proposals),
           UNCHANGED <<arm, failure, day, shown>>
    PROVE  Queue'
<1> SUFFICES ASSUME arm # "any", NEW i \in DOMAIN Tail(proposals)
             PROVE  /\ Tail(proposals)[i].kind = "EXECUTION" /\ i = Len(Tail(proposals))
                    /\ MayExecute(shown)'
                    /\ \E x \in Int : /\ Tail(proposals)[i].execute_at = x
                                      /\ Permitted(shown, x)'
  <2>1. (Queue)' = (arm' # "any" => Queued(proposals, shown)')
    BY DEF Queue
  <2>2. ASSUME \A i \in DOMAIN proposals' :
                   /\ proposals'[i].kind = "EXECUTION" /\ i = Len(proposals')
                   /\ MayExecute(shown)'
                   /\ \E x \in Int : proposals'[i].execute_at = x /\ Permitted(shown, x)'
        PROVE  Queued(proposals, shown)'
    BY <2>2 DEF Queued, Permitted
  <2> QED
    BY <2>1, <2>2
<1>1. /\ proposals \in Seq(Proposal) /\ shown \in Cases
  BY DEF Typed
<1>2. /\ i + 1 \in DOMAIN proposals /\ Tail(proposals)[i] = proposals[i + 1]
      /\ Len(Tail(proposals)) = Len(proposals) - 1 /\ i \in Nat /\ i # 0
      /\ Len(proposals) \in Nat
  BY <1>1
<1>9. Queued(proposals, shown)
  BY DEF Queue
<1>3. PICK x \in Int : /\ proposals[i + 1].kind = "EXECUTION" /\ i + 1 = Len(proposals)
                       /\ MayExecute(shown) /\ proposals[i + 1].execute_at = x
                       /\ Permitted(shown, x)
  <2>1. i + 1 # 1
    BY <1>2
  <2> QED
    BY <1>2, <1>9, <2>1 DEF Queued
<1>4. p.kind # "EXECUTION"
  <2>1. 1 \in DOMAIN proposals /\ p = proposals[1] /\ 1 # Len(proposals)
    BY <1>1, <1>2, <1>3 DEF p
  <2> QED
    BY <1>9, <2>1 DEF Queued
<1>5. now' = now
  BY SameMoment
<1>6. /\ case'[shown].attempts_used = case[shown].attempts_used
      /\ case'[shown].attempt_pending_until = case[shown].attempt_pending_until
  <2>1. Effect(shown)
    BY <1>1, EffectOfStep
  <2>2. ~Driven(shown)
    BY DEF Typed, Driven
  <2>3. ~Submitting("EXECUTION")
    BY <1>4 DEF Submitting
  <2> QED
    BY <2>1, <2>2, <2>3 DEF Effect, Halted, ContactMade, Kept, Fields
<1>7. MayExecute(shown)'
  <2>1. Cell(shown)' = Cell(shown)
    BY DEF Cell, Key, view
  <2>2. view(shown)'.attempt_pending = view(shown).attempt_pending
    BY <1>5, <1>6 DEF view
  <2> QED
    BY <1>3, <1>6, <2>1, <2>2 DEF MayExecute
<1>8. Permitted(shown, x)'
  BY <1>3, <1>5 DEF Permitted
<1> QED
  BY <1>2, <1>3, <1>7, <1>8

LEMMA NextQueue == CasesOK /\ Typed /\ Queue /\ [Next]_vars => Queue'
<1> SUFFICES ASSUME CasesOK, Typed, Queue, [Next]_vars
             PROVE  Queue'
  OBVIOUS
<1>1. CASE proposals' = <<>>
  BY <1>1 DEF Queue, Queued
<1>2. ASSUME NEW c \in Cases, Propose(c)
      PROVE  Queue'
  <2>1. /\ c \in left /\ proposals' \in propose(c) /\ shown' = c
        /\ UNCHANGED <<arm, failure, case, day>>
    BY <1>2 DEF Propose
  <2>2. day # 0
    BY <2>1 DEF Typed
  <2>3. arm # "any" => Queued(proposals', c)
    BY <2>1, <2>2, OffersOfAnArm, OffersQueue
  <2>4. now' = now
    BY <2>1, SameMoment
  <2>5. MayExecute(c)' = MayExecute(c) /\ MayContact(c)' = MayContact(c)
    BY <2>1, <2>4 DEF MayExecute, MayContact, Cell, Key, view
  <2>6. \A x : Permitted(c, x)' = Permitted(c, x)
    BY <2>1, <2>4 DEF Permitted
  <2> QED
    BY <2>1, <2>3, <2>4, <2>5, <2>6 DEF Queue, Queued
<1>3. CASE SubmitMoot \/ SubmitRefused \/ AttemptSucceeds \/ AttemptFails
           \/ ContactConverts \/ ContactIgnored
  <2>1. /\ proposals # <<>> /\ proposals' = Tail(proposals)
        /\ UNCHANGED <<arm, failure, day, shown>>
    BY <1>3 DEF SubmitMoot, SubmitRefused, AttemptSucceeds, AttemptFails, ContactConverts,
                ContactIgnored, Submitting
  <2> QED
    BY <2>1, QueueAdvances
<1>4. CASE NextDay \/ finalise
  BY <1>1, <1>4 DEF NextDay, finalise, Idle
<1>5. ASSUME NEW c \in Cases, Drive(c)
      PROVE  Queue'
  <2>1. proposals' = <<>>
    BY <1>5 DEF Drive, Typed
  <2> QED
    BY <1>1, <2>1
<1>6. CASE UNCHANGED vars
  <2>1. now' = now /\ UNCHANGED <<arm, failure, case, shown, proposals>>
    BY <1>6, SameMoment DEF vars
  <2>2. MayExecute(shown)' = MayExecute(shown) /\ MayContact(shown)' = MayContact(shown)
    BY <2>1 DEF MayExecute, MayContact, Cell, Key, view
  <2>3. \A x : Permitted(shown, x)' = Permitted(shown, x)
    BY <2>1 DEF Permitted
  <2> QED
    BY <2>1, <2>2, <2>3 DEF Queue, Queued
<1> QED
  BY <1>2, <1>3, <1>4, <1>5, <1>6 DEF Next

LEMMA NextUntold == CasesOK /\ Typed /\ Untold /\ [Next]_vars => Untold'
<1> SUFFICES ASSUME CasesOK, Typed, Untold, [Next]_vars, NEW c \in Cases,
                    case'[c].contacts_used = 0
             PROVE  case'[c].last_contact_at = None
  BY DEF Untold
<1>1. case[c].contacts_used \in Nat /\ (case[c].contacts_used = 0 => case[c].last_contact_at = None)
  BY DEF Typed, CaseTyped, Untold
<1>2. CASE Driven(c)
  <2>1. PICK ps \in propose(c) :
            case'[c].contacts_used = case[c].contacts_used + OfKind(ps, "CONTACT")
    BY <1>2 DEF Driven
  <2>2. case'[c].last_contact_at = case[c].last_contact_at
    BY <1>2 DEF Driven, Kept, Fields
  <2>3. arm # "any" /\ day # 0
    BY <1>2 DEF Driven, Typed
  <2>4. OfKind(ps, "CONTACT") \in Nat
    BY <2>3, OffersOfAnArm, KindsOfOffer
  <2> QED
    BY <1>1, <2>1, <2>2, <2>4
<1>3. CASE Halted(c) \/ case'[c] = case[c]
  BY <1>1, <1>3 DEF Halted, Kept, Fields
<1>4. ASSUME NEW x, Executed(case[c], case'[c], x)
      PROVE  case'[c].last_contact_at = None
  BY <1>1, <1>4 DEF Executed, Kept
<1>5. ASSUME NEW x, ContactMade(case[c], case'[c], x)
      PROVE  FALSE
  <2>1. case'[c].contacts_used = case[c].contacts_used + 1
    BY <1>5 DEF ContactMade
  <2> QED
    BY <1>1, <2>1
<1> QED
  BY <1>2, <1>3, <1>4, <1>5, EffectOfStep DEF Effect

-----------------------------------------------------------------------------
LEMMA ExecutionIsAllowed ==
    ASSUME Concerted, Typed, Queue, arm # "any", proposals # <<>>, p.kind = "EXECUTION"
    PROVE  verdict = "allowed"
<1> DEFINE r == _guard_request(shown)
           x == p.execute_at
<1>1. shown \in Cases /\ day # 0 /\ proposals \in Seq(Proposal) /\ 1 \in DOMAIN proposals
      /\ p = proposals[1]
  BY DEF Typed, p
<1>2. MayExecute(shown) /\ x \in Int /\ Permitted(shown, x)
  BY <1>1 DEF Queue, Queued
<1>3. now \in Nat /\ failure[shown].rail \in Rails
  BY <1>1, NowIsMoment
<1>4. /\ ~(x <= now) /\ ~is_peak(x) /\ ~(now > pdn_deadline_for(x, failure[shown].rail))
  BY <1>2, Zenon DEF Permitted, check_attempt
<1>5. ~(now > pdn_deadline_for(x, ""))
  <2>1. failure[shown].rail \in SimulatedRails
    BY <1>1 DEF Typed, Failures
  <2>2. LeadHours[""] <= LeadHours[failure[shown].rail] /\ "" \in Rails
    BY <2>1, SimulatorAssumption DEF Concerted
  <2> DEFINE rail == failure[shown].rail
             a == pdn_deadline_for(x, rail)
             b == pdn_deadline_for(x, "")
  <2>3. a \in Int /\ b \in Int /\ a <= b
    <3> HIDE DEF x, rail
    <3>1. rail \in Rails /\ LeadHours[""] <= LeadHours[rail]
      BY <1>3, <2>2 DEF rail
    <3> QED
      BY <1>2, <2>2, <3>1, ShorterLead DEF Concerted
  <2>4. ~(now > a)
    BY <1>4
  <2> HIDE DEF a, b
  <2>5. ~(now > b)
    BY <1>3, <2>3, <2>4
  <2> QED
    BY <2>5 DEF b
<1>6. ~(case[shown].attempts_used >= AttemptCap)
  <2>1. case[shown].attempts_used \in Nat
    BY <1>1 DEF Typed, CaseTyped
  <2> QED
    BY <1>2, <2>1, CalendarAssumption DEF MayExecute
<1>7. ~(/\ case[shown].attempt_pending_until # None
        /\ x < case[shown].attempt_pending_until)
  <2>1. ~(/\ case[shown].attempt_pending_until # None
          /\ now < case[shown].attempt_pending_until)
    BY <1>2 DEF MayExecute, view
  <2>2. case[shown].attempt_pending_until \in Moment
    BY <1>1 DEF Typed, CaseTyped
  <2> HIDE DEF x
  <2> QED
    BY <1>2, <1>3, <1>4, <2>1, <2>2 DEF Moment
<1>8. x # None
  BY <1>2, GuardAssumption
<1>9. /\ r.kind = "EXECUTION" /\ r.settled = FALSE /\ r.has_order = TRUE
      /\ r.order_expires_at = None /\ r.decided_at = now /\ r.execute_at = x /\ r.rail = ""
      /\ r.attempts_seen = case[shown].attempts_used
      /\ r.attempt_pending_until = case[shown].attempt_pending_until
  BY DEF _guard_request
<1>10. verdict = check(r)
  BY DEF verdict
<1> HIDE DEF r, x
<1>11. _order(r) = "allowed"
  BY <1>9, Zenon DEF _order
<1>12. _execution(r) = "allowed"
  <2>1. r.rail # "upi"
    BY <1>9
  <2>2. /\ ~(r.attempts_seen >= AttemptCap) /\ r.execute_at # None
        /\ ~(r.execute_at <= r.decided_at) /\ ~is_peak(r.execute_at)
        /\ ~(r.attempt_pending_until # None /\ r.execute_at < r.attempt_pending_until)
        /\ ~(r.decided_at > pdn_deadline_for(r.execute_at, r.rail))
    BY <1>4, <1>5, <1>6, <1>7, <1>8, <1>9
  <2> QED
    BY <2>1, <2>2, Zenon DEF _execution
<1> QED
  BY <1>9, <1>10, <1>11, <1>12, Zenon DEF check

LEMMA ContactIsAllowed ==
    ASSUME Concerted, Typed, Queue, Untold, arm # "any", proposals # <<>>, p.kind = "CONTACT"
    PROVE  verdict = "allowed"
<1> DEFINE r == _guard_request(shown)
           x == p.execute_at
<1>1. shown \in Cases /\ day # 0 /\ proposals \in Seq(Proposal) /\ 1 \in DOMAIN proposals
      /\ p = proposals[1]
  BY DEF Typed, p
<1>2. MayContact(shown) /\ x = now + Hour
  BY <1>1 DEF Queue, Queued
<1>3. now \in Nat
  BY <1>1, NowIsMoment
<1>4. ~(x <= now) /\ x \in Int
  <2> HIDE DEF x
  <2> QED
    BY <1>2, <1>3 DEF Hour
<1>5. case[shown].contacts_used = 0
  <2>1. case[shown].contacts_used \in Nat
    BY <1>1 DEF Typed, CaseTyped
  <2>2. MaxContacts \in Nat
    BY ArmsAssumption
  <2>3. MaxContacts <= 1
    BY DEF Concerted
  <2>4. case[shown].contacts_used = 0 \/ case[shown].contacts_used < MaxContacts
    BY <1>2 DEF MayContact
  <2> QED
    BY <2>1, <2>2, <2>3, <2>4
<1>6. case[shown].last_contact_at = None
  BY <1>1, <1>5 DEF Untold
<1>7. ~(case[shown].contacts_used >= ContactBudget)
  <2>1. 1 <= ContactBudget
    BY DEF Concerted
  <2>2. ContactBudget \in Nat
    BY GuardAssumption
  <2> QED
    BY <1>5, <2>1, <2>2
<1>8. x # None
  BY <1>4, GuardAssumption
<1>9. /\ r.kind = "CONTACT" /\ r.settled = FALSE
      /\ r.order_expires_at = None /\ r.decided_at = now /\ r.execute_at = x
      /\ r.contacts_seen = case[shown].contacts_used
      /\ r.last_contact_at = case[shown].last_contact_at
  BY DEF _guard_request
<1>10. verdict = check(r)
  BY DEF verdict
<1>13. "CONTACT" # "EXECUTION"
  OBVIOUS
<1> HIDE DEF r, x
<1>11. _order(r) = "allowed"
  BY <1>9, <1>13, Zenon DEF _order
<1>12. _contact(r) = "allowed"
  <2>1. /\ ~(r.contacts_seen >= ContactBudget)
        /\ ~(r.execute_at <= r.decided_at) /\ r.last_contact_at = None
    BY <1>4, <1>6, <1>7, <1>9
  <2> QED
    BY <2>1, Zenon DEF _contact
<1> QED
  BY <1>9, <1>10, <1>11, <1>12, <1>13, Zenon DEF check

LEMMA VerdictIsAllowed ==
    ASSUME Concerted, Typed, Queue, Untold, arm # "any", proposals # <<>>
    PROVE  verdict = "allowed"
<1>1. p.kind \in {"EXECUTION", "CONTACT"}
  <2>1. proposals \in Seq(Proposal)
    BY DEF Typed
  <2>2. p \in Proposal
    BY <2>1 DEF p
  <2> QED
    BY <2>2 DEF Proposal
<1> QED
  BY <1>1, ExecutionIsAllowed, ContactIsAllowed

Tallies == {"attempts_spent", "contacts_sent", "terminal_attempts_wasted",
            "terminal_contacts_sent", "contact_cost", "money_recovered", "money_at_risk",
            "cases", "cases_recovered", "proposals_rejected", "moot", "preserved",
            "revoked", "halted"}

Ruled(m) == m = [f \in Tallies |-> m[f]]

(* Each way to write in the books leaves their columns as they are, and    *)
(* none but a refusal counts one.                                          *)
LEMMA RuledEntries ==
    ASSUME NEW m, Ruled(m)
    PROVE  /\ Ruled([m EXCEPT !.moot = @ + 1])
           /\ [m EXCEPT !.moot = @ + 1].proposals_rejected = m.proposals_rejected
           /\ Ruled([m EXCEPT !.proposals_rejected = @ + 1])
           /\ Ruled(record_attempt(m))
           /\ record_attempt(m).proposals_rejected = m.proposals_rejected
           /\ Ruled(record_contact(m))
           /\ record_contact(m).proposals_rejected = m.proposals_rejected
           /\ Ruled(recovered(m))
           /\ recovered(m).proposals_rejected = m.proposals_rejected
<1>1. m = [f \in Tallies |-> m[f]]
  BY DEF Ruled
<1>2. /\ Ruled([m EXCEPT !.moot = @ + 1]) /\ Ruled([m EXCEPT !.proposals_rejected = @ + 1])
      /\ [m EXCEPT !.moot = @ + 1].proposals_rejected = m.proposals_rejected
  BY <1>1 DEF Ruled, Tallies
<1>3. /\ Ruled(record_attempt(m))
      /\ record_attempt(m).proposals_rejected = m.proposals_rejected
  BY <1>1 DEF Ruled, Tallies, record_attempt
<1>4. /\ Ruled(record_contact(m))
      /\ record_contact(m).proposals_rejected = m.proposals_rejected
  BY <1>1 DEF Ruled, Tallies, record_contact
<1>5. /\ Ruled(recovered(m))
      /\ recovered(m).proposals_rejected = m.proposals_rejected
  BY <1>1 DEF Ruled, Tallies, recovered
<1> QED
  BY <1>2, <1>3, <1>4, <1>5

LEMMA RuledBooks ==
    ASSUME Ruled(metrics)
    PROVE  Ruled(Books) /\ Books.proposals_rejected = metrics.proposals_rejected
<1> DEFINE A == Cardinality(Cases)
           B == Amount * Cardinality(Cases)
           C == Count({"revoked"})
           D == Count({"open", "halted"})
           E == Count({"open", "halted", "recovered"})
<1>1. metrics = [f \in Tallies |-> metrics[f]]
  BY DEF Ruled
<1>2. Books = [metrics EXCEPT !.cases = A, !.money_at_risk = B, !.revoked = C, !.halted = D,
                              !.preserved = E]
  BY DEF Books
<1> HIDE DEF A, B, C, D, E
<1> QED
  BY <1>1, <1>2 DEF Ruled, Tallies

(* What a step does to the books.                                          *)
LEMMA RuledStep ==
    ASSUME Ruled(metrics), [Next]_vars
    PROVE  /\ Ruled(metrics')
           /\ SubmitRefused \/ metrics'.proposals_rejected = metrics.proposals_rejected
<1>1. CASE UNCHANGED metrics
  BY <1>1
<1>2. CASE SubmitMoot \/ SubmitRefused
  BY <1>2, RuledEntries DEF SubmitMoot, SubmitRefused
<1>3. CASE AttemptFails
  BY <1>3, RuledEntries DEF AttemptFails
<1>4. CASE ContactIgnored
  BY <1>4, RuledEntries DEF ContactIgnored
<1>5. CASE AttemptSucceeds
  <2>1. metrics' = recovered(record_attempt(metrics))
    BY <1>5 DEF AttemptSucceeds
  <2> DEFINE m == record_attempt(metrics)
  <2>2. Ruled(m) /\ m.proposals_rejected = metrics.proposals_rejected
    BY RuledEntries
  <2> HIDE DEF m
  <2>3. Ruled(recovered(m)) /\ recovered(m).proposals_rejected = m.proposals_rejected
    BY <2>2, RuledEntries
  <2> QED
    BY <2>1, <2>2, <2>3 DEF m
<1>6. CASE ContactConverts
  <2>1. metrics' = recovered(record_contact(metrics))
    BY <1>6 DEF ContactConverts
  <2> DEFINE m == record_contact(metrics)
  <2>2. Ruled(m) /\ m.proposals_rejected = metrics.proposals_rejected
    BY RuledEntries
  <2> HIDE DEF m
  <2>3. Ruled(recovered(m)) /\ recovered(m).proposals_rejected = m.proposals_rejected
    BY <2>2, RuledEntries
  <2> QED
    BY <2>1, <2>2, <2>3 DEF m
<1>7. CASE finalise
  BY <1>7, RuledBooks DEF finalise
<1>8. CASE NextDay \/ \E c \in Cases : Propose(c) \/ Drive(c)
  BY <1>1, <1>8 DEF NextDay, Propose, Drive
<1> QED
  BY <1>1, <1>2, <1>3, <1>4, <1>5, <1>6, <1>7, <1>8 DEF Next, vars

LEMMA InitRuled == Init => Ruled(metrics)
BY DEF Init, NoMetrics, Ruled, Tallies

(* Under a concerted configuration the guard never contradicts an arm: what*)
(* each of the four judged from the view (the cap, the calendar, the answer*)
(* still owed, its own limit on contacts) is what the guard finds in the   *)
(* state, though it asks for no rail (arms.py, allocator/, guard.py).      *)
THEOREM PoliciesAreNeverRefused ==
    ASSUME Concerted
    PROVE  Spec => []NeverRefused
<1>1. Init => Queue /\ Untold /\ NeverRefused
  <2> SUFFICES ASSUME Init
               PROVE  Queue /\ Untold /\ NeverRefused
    OBVIOUS
  <2>1. proposals = <<>> /\ metrics.proposals_rejected = 0
    BY DEF Init, NoMetrics
  <2>2. \A c \in Cases : case[c].last_contact_at = None
    BY DEF Init, NewCase
  <2> QED
    BY <2>1, <2>2 DEF Queue, Queued, Untold, NeverRefused
<1>2. /\ Typed /\ Queue /\ Untold /\ Ruled(metrics) /\ NeverRefused /\ [Next]_vars
      => NeverRefused' /\ Ruled(metrics)'
  <2> SUFFICES ASSUME Typed, Queue, Untold, Ruled(metrics), NeverRefused, [Next]_vars
               PROVE  /\ arm' # "any" => metrics'.proposals_rejected = 0
                      /\ Ruled(metrics')
    BY DEF NeverRefused, Ruled
  <2>1. arm' = arm
    BY DEF Next, vars, NextDay, Propose, Drive, SubmitMoot, SubmitRefused, AttemptSucceeds,
           AttemptFails, ContactConverts, ContactIgnored, Submitting, finalise
  <2>2. arm # "any" => ~SubmitRefused
    BY VerdictIsAllowed DEF SubmitRefused
  <2> QED
    BY <2>1, <2>2, RuledStep DEF NeverRefused
<1> QED
  BY <1>1, <1>2, InitCases, NextCases, InitTyped, NextTyped, NextQueue, NextUntold, InitRuled,
     PTL DEF Spec

-----------------------------------------------------------------------------
LEMMA CellReads ==
    ASSUME SoundLadder, NEW c, spends_execution(Cell(c))
    PROVE  \E i \in Candidates(Key(c)) :
              /\ Rules[i].confidence >= ModerateThreshold
              /\ Rules[i].class \in {"INFRASTRUCTURE", "LIQUIDITY"}
<1> DEFINE key == Key(c)
           reading == classify(key)
           S == Candidates(key)
           i == Min(S)
<1>1. ModerateThreshold \in Nat /\ HighThreshold \in Nat /\ ModerateThreshold <= HighThreshold
  BY DEF SoundLadder, load_classifier
<1>2. lookup(reading.failure_class, reading.band) = "SCHEDULE_AT"
  BY DEF Cell, spends_execution
<1>3. reading.band # "LOW"
  BY <1>2 DEF lookup
<1>4. S # {}
  <2>1. ASSUME S = {}
        PROVE  reading.band = "LOW"
    <3>1. reading.band = band_for(FallbackConfidence)
      BY <2>1 DEF classify, _fallback
    <3>2. ~(FallbackConfidence >= HighThreshold) /\ ~(FallbackConfidence >= ModerateThreshold)
      BY <1>1 DEF SoundLadder
    <3> QED
      BY <3>1, <3>2 DEF band_for
  <2> QED
    BY <1>3, <2>1
<1>5. i \in S
  <2>1. S \subseteq Nat
    BY ClassifierAssumption DEF Candidates
  <2> HIDE DEF S
  <2> QED
    BY <1>4, <2>1, LeastOf
<1>6. i \in DOMAIN Rules
  BY <1>5 DEF Candidates
<1>7. reading = _from_rule(Rules[i], key)
  BY <1>4 DEF classify
<1> DEFINE rule == Rules[i]
<1>8. rule.class \in FailureClass /\ rule.confidence \in Nat
  BY <1>6 DEF SoundLadder, load_classifier, _parse_rules, Confidence
<1>9. reading.band = band_for(rule.confidence)
      /\ reading.failure_class = IF band_for(rule.confidence) = "LOW" THEN safest_class
                                                                    ELSE rule.class
  BY <1>7 DEF _from_rule
<1> HIDE DEF reading, S, i
<1>10. rule.confidence >= ModerateThreshold
  <2>1. band_for(rule.confidence) # "LOW"
    BY <1>3, <1>9
  <2>2. rule.confidence >= HighThreshold \/ rule.confidence >= ModerateThreshold
    BY <2>1 DEF band_for
  <2> HIDE DEF rule
  <2> QED
    BY <1>1, <1>8, <2>2
<1>11. rule.class \in {"INFRASTRUCTURE", "LIQUIDITY"}
  <2>1. lookup(rule.class, reading.band) = "SCHEDULE_AT"
    BY <1>2, <1>3, <1>9
  <2> HIDE DEF rule
  <2> QED
    BY <1>3, <1>8, <2>1 DEF lookup, FailureClass
<1> QED
  BY <1>5, <1>10, <1>11 DEF S, key

Entitled ==
    arm \notin {"A", "B", "any"} =>
        \A c \in Cases : case[c].attempts_used > 1 => spends_execution(Cell(c))

LEMMA NextEntitled == CasesOK /\ Typed /\ Queue /\ Entitled /\ [Next]_vars => Entitled'
<1> SUFFICES ASSUME CasesOK, Typed, Queue, Entitled, [Next]_vars,
                    arm' \notin {"A", "B", "any"}, NEW c \in Cases,
                    case'[c].attempts_used > 1
             PROVE  spends_execution(Cell(c)')
  BY DEF Entitled, spends_execution
<1>1. UNCHANGED <<arm, failure>>
  BY DEF Next, vars, NextDay, Propose, Drive, SubmitMoot, SubmitRefused, AttemptSucceeds,
         AttemptFails, ContactConverts, ContactIgnored, Submitting, finalise
<1>2. Cell(c)' = Cell(c)
  BY <1>1 DEF Cell, Key, view
<1>3. arm \notin {"A", "B", "any"} /\ (case[c].attempts_used > 1 => spends_execution(Cell(c)))
  BY <1>1 DEF Entitled
<1>4. case[c].attempts_used \in Nat
  BY DEF Typed, CaseTyped
<1>5. MayExecute(c) => spends_execution(Cell(c))
  BY <1>3 DEF MayExecute
<1>6. CASE Driven(c)
  <2>1. PICK ps \in propose(c) :
            case'[c].attempts_used = case[c].attempts_used + OfKind(ps, "EXECUTION")
    BY <1>6 DEF Driven
  <2>2. day # 0
    BY <1>6 DEF Driven, Typed
  <2>3. Offer(c, ps)
    BY <1>3, <2>2, OffersOfAnArm
  <2>4. OfKind(ps, "EXECUTION") # 0 => MayExecute(c)
    BY <2>3, KindsOfOffer
  <2>5. OfKind(ps, "EXECUTION") = 0 => case'[c].attempts_used = case[c].attempts_used
    BY <1>4, <2>1
  <2> QED
    BY <1>2, <1>3, <1>5, <2>4, <2>5
<1>7. CASE c = shown /\ Submitting("EXECUTION")
  <2>1. proposals \in Seq(Proposal) /\ proposals # <<>> /\ p.kind = "EXECUTION"
    BY <1>7 DEF Typed, Submitting
  <2>2. 1 \in DOMAIN proposals /\ p = proposals[1]
    BY <2>1 DEF p
  <2>3. MayExecute(c)
    BY <1>3, <1>7, <2>1, <2>2 DEF Queue, Queued
  <2> QED
    BY <1>2, <1>5, <2>3
<1>8. CASE case'[c].attempts_used = case[c].attempts_used
  BY <1>2, <1>3, <1>8
<1>9. \/ Driven(c)
      \/ c = shown /\ Submitting("EXECUTION")
      \/ case'[c].attempts_used = case[c].attempts_used
  BY EffectOfStep DEF Effect, Halted, ContactMade, Kept, Fields
<1> QED
  BY <1>6, <1>7, <1>8, <1>9

(* The allocator spends an execution of the capped four only where some    *)
(* rule reads the failure, with more than LOW confidence, as one that a    *)
(* retry can cure; for every table of rules that load_classifier accepts   *)
(* (classifier.py, allocator/arm_c.py).                                    *)
THEOREM SpendsOnReadingOnly ==
    ASSUME SoundLadder
    PROVE  Spec => []SpendsOnlyOnReading
<1>1. Init => Queue /\ Entitled
  <2> SUFFICES ASSUME Init
               PROVE  Queue /\ Entitled
    OBVIOUS
  <2>1. proposals = <<>> /\ \A c \in Cases : case[c].attempts_used = 1
    BY DEF Init, NewCase
  <2> QED
    BY <2>1 DEF Queue, Queued, Entitled
<1>2. Entitled => SpendsOnlyOnReading
  BY CellReads DEF Entitled, SpendsOnlyOnReading, Key
<1> QED
  BY <1>1, <1>2, InitCases, NextCases, InitTyped, NextTyped, NextQueue, NextEntitled, PTL
     DEF Spec
-----------------------------------------------------------------------------
Budgeted == \A c \in Cases : Spent(case[c])

LEMMA NextBudgeted ==
    ASSUME Affordable
    PROVE  CasesOK /\ Typed /\ Budgeted /\ [Next]_vars => Budgeted'
<1> SUFFICES ASSUME CasesOK, Typed, Budgeted, [Next]_vars, NEW c \in Cases
             PROVE  Spent(case'[c])
  BY DEF Budgeted
<1> DEFINE s == case[c]
           t == case'[c]
<1>1. Spent(s) /\ AttemptCap \in Nat /\ ContactBudget \in Nat /\ MaxContacts \in Nat
  BY CalendarAssumption, GuardAssumption, ArmsAssumption DEF Budgeted
<1>2. CASE t.attempts_used = s.attempts_used /\ t.contacts_used = s.contacts_used
  BY <1>1, <1>2 DEF Spent
<1>3. CASE Driven(c)
  <2>1. PICK ps \in propose(c) : /\ t.attempts_used = s.attempts_used + OfKind(ps, "EXECUTION")
                                 /\ t.contacts_used = s.contacts_used + OfKind(ps, "CONTACT")
    BY <1>3 DEF Driven
  <2>2. day # 0 /\ arm # "any"
    BY <1>3 DEF Driven, Typed
  <2>3. Offer(c, ps)
    BY <2>2, OffersOfAnArm
  <2>4. /\ OfKind(ps, "EXECUTION") \in {0, 1} /\ OfKind(ps, "CONTACT") \in {0, 1}
        /\ OfKind(ps, "EXECUTION") # 0 => s.attempts_used < AttemptCap
        /\ OfKind(ps, "CONTACT") # 0 => s.contacts_used = 0 \/ s.contacts_used < MaxContacts
    BY <2>3, KindsOfOffer DEF MayExecute, MayContact
  <2>5. MaxContacts <= ContactBudget /\ 1 <= ContactBudget
    BY DEF Affordable
  <2> HIDE DEF s, t
  <2>6. t.attempts_used \in Nat /\ t.attempts_used <= AttemptCap
    BY <1>1, <2>1, <2>4 DEF Spent
  <2>7. t.contacts_used \in Nat /\ t.contacts_used <= ContactBudget
    BY <1>1, <2>1, <2>4, <2>5 DEF Spent
  <2>8. Spent(t)
    BY <2>6, <2>7 DEF Spent
  <2> QED
    BY <2>8 DEF t
<1>4. CASE c = shown /\ Submitting("EXECUTION") /\ Executed(s, t, p.execute_at)
  <2>1. ~(s.attempts_used >= AttemptCap)
    BY <1>4, AdmittedExecution
  <2>2. t.attempts_used = s.attempts_used + 1 /\ t.contacts_used = s.contacts_used
    BY <1>4 DEF Executed, Kept
  <2> HIDE DEF s, t
  <2>3. Spent(t)
    BY <1>1, <2>1, <2>2 DEF Spent
  <2> QED
    BY <2>3 DEF t
<1>5. CASE c = shown /\ Submitting("CONTACT") /\ ContactMade(s, t, p.execute_at)
  <2>1. ~(s.contacts_used >= ContactBudget)
    BY <1>5, AdmittedContact
  <2>2. t.contacts_used = s.contacts_used + 1 /\ t.attempts_used = s.attempts_used
    BY <1>5 DEF ContactMade, Kept
  <2> HIDE DEF s, t
  <2>3. Spent(t)
    BY <1>1, <2>1, <2>2 DEF Spent
  <2> QED
    BY <2>3 DEF t
<1>6. CASE Halted(c) \/ t = s
  BY <1>2, <1>6 DEF Halted, Kept, Fields
<1> QED
  BY <1>3, <1>4, <1>5, <1>6, EffectOfStep DEF Effect

-----------------------------------------------------------------------------
Counted(m) == Ruled(m) /\ \A f \in Tallies : m[f] \in Nat

LEMMA CountedEntries ==
    ASSUME NEW m, Counted(m), ContactCost \in [FailureClass -> Nat],
           shown \in Cases, true_class \in FailureClass
    PROVE  /\ Counted(record_attempt(m)) /\ Counted(record_contact(m)) /\ Counted(recovered(m))
           /\ Counted([m EXCEPT !.moot = @ + 1])
           /\ Counted([m EXCEPT !.proposals_rejected = @ + 1])
<1> DEFINE cost == ContactCost[true_class]
<1>1. on_terminal \in Nat /\ Amount \in Nat /\ cost \in Nat
  BY SimulatorAssumption DEF on_terminal
<1>2. m = [f \in Tallies |-> m[f]] /\ \A f \in Tallies : m[f] \in Nat
  BY DEF Counted, Ruled
<1>3. record_contact(m) = [m EXCEPT !.contacts_sent = @ + 1,
                                    !.terminal_contacts_sent = @ + on_terminal,
                                    !.contact_cost = @ + cost]
  BY DEF record_contact
<1> HIDE DEF cost
<1>4. Counted(record_attempt(m))
  <2> DEFINE q == record_attempt(m)
  <2>1. /\ q.attempts_spent = m.attempts_spent + 1
        /\ q.terminal_attempts_wasted = m.terminal_attempts_wasted + on_terminal
        /\ \A f \in Tallies \ {"attempts_spent", "terminal_attempts_wasted"} : q[f] = m[f]
    BY <1>2 DEF record_attempt, Tallies
  <2>2. m.attempts_spent \in Nat /\ m.terminal_attempts_wasted \in Nat /\ Ruled(m)
    BY <1>2 DEF Tallies, Ruled
  <2>3. Ruled(q)
    BY <2>2, RuledEntries
  <2> HIDE DEF q
  <2>4. q.attempts_spent \in Nat /\ q.terminal_attempts_wasted \in Nat
    BY <1>1, <2>1, <2>2
  <2>5. Counted(q)
    BY <1>2, <2>1, <2>3, <2>4 DEF Counted
  <2> QED
    BY <2>5 DEF q
<1>5. Counted(record_contact(m))
  <2> DEFINE q == record_contact(m)
  <2>1. /\ q.contacts_sent = m.contacts_sent + 1
        /\ q.terminal_contacts_sent = m.terminal_contacts_sent + on_terminal
        /\ q.contact_cost = m.contact_cost + cost
        /\ \A f \in Tallies \ {"contacts_sent", "terminal_contacts_sent", "contact_cost"} :
              q[f] = m[f]
    BY <1>2, <1>3 DEF Tallies
  <2>2. /\ m.contacts_sent \in Nat /\ m.terminal_contacts_sent \in Nat
        /\ m.contact_cost \in Nat /\ Ruled(m)
    BY <1>2 DEF Tallies, Ruled
  <2>3. Ruled(q)
    BY <2>2, RuledEntries
  <2> HIDE DEF q
  <2>4. q.contacts_sent \in Nat /\ q.terminal_contacts_sent \in Nat /\ q.contact_cost \in Nat
    BY <1>1, <2>1, <2>2
  <2>5. Counted(q)
    BY <1>2, <2>1, <2>3, <2>4 DEF Counted
  <2> QED
    BY <2>5 DEF q
<1>6. Counted(recovered(m))
  <2> DEFINE q == recovered(m)
  <2>1. /\ q.money_recovered = m.money_recovered + Amount
        /\ q.cases_recovered = m.cases_recovered + 1
        /\ \A f \in Tallies \ {"money_recovered", "cases_recovered"} : q[f] = m[f]
    BY <1>2 DEF recovered, Tallies
  <2>2. m.money_recovered \in Nat /\ m.cases_recovered \in Nat /\ Ruled(m)
    BY <1>2 DEF Tallies, Ruled
  <2>3. Ruled(q)
    BY <2>2, RuledEntries
  <2> HIDE DEF q
  <2>4. q.money_recovered \in Nat /\ q.cases_recovered \in Nat
    BY <1>1, <2>1, <2>2
  <2>5. Counted(q)
    BY <1>2, <2>1, <2>3, <2>4 DEF Counted
  <2> QED
    BY <2>5 DEF q
<1>7. /\ Counted([m EXCEPT !.moot = @ + 1])
      /\ Counted([m EXCEPT !.proposals_rejected = @ + 1])
  BY <1>2 DEF Counted, Ruled, Tallies
<1> QED
  BY <1>4, <1>5, <1>6, <1>7

LEMMA CountedBooks ==
    ASSUME Counted(metrics), IsFiniteSet(Cases)
    PROVE  Counted(Books)
<1> DEFINE A == Cardinality(Cases)
           B == Amount * Cardinality(Cases)
           C == Count({"revoked"})
           D == Count({"open", "halted"})
           E == Count({"open", "halted", "recovered"})
<1>1. A \in Nat
  BY FS_CardinalityType
<1>2. B \in Nat
  <2>1. Amount \in Nat
    BY SimulatorAssumption
  <2>2. \A a, b \in Nat : a * b \in Nat
    OBVIOUS
  <2> QED
    BY <1>1, <2>1, <2>2
<1>3. \A outcomes : Count(outcomes) \in Nat
  <2> SUFFICES ASSUME NEW outcomes
               PROVE  Count(outcomes) \in Nat
    OBVIOUS
  <2> DEFINE S == {c \in Cases : case[c].outcome \in outcomes}
  <2>1. S \subseteq Cases
    OBVIOUS
  <2> HIDE DEF S
  <2>2. IsFiniteSet(S)
    BY <2>1, FS_Subset
  <2>3. Cardinality(S) \in Nat
    BY <2>2, FS_CardinalityType
  <2> QED
    BY <2>3 DEF Count, S
<1>4. C \in Nat /\ D \in Nat /\ E \in Nat
  BY <1>3
<1>5. Books = [metrics EXCEPT !.cases = A, !.money_at_risk = B, !.revoked = C, !.halted = D,
                              !.preserved = E]
  BY DEF Books
<1>6. metrics = [f \in Tallies |-> metrics[f]] /\ \A f \in Tallies : metrics[f] \in Nat
  BY DEF Counted, Ruled
<1> HIDE DEF A, B, C, D, E
<1> QED
  BY <1>1, <1>2, <1>4, <1>5, <1>6 DEF Counted, Ruled, Tallies

LEMMA NextCounted ==
    ASSUME ContactCost \in [FailureClass -> Nat], IsFiniteSet(Cases)
    PROVE  Typed /\ Counted(metrics) /\ [Next]_vars => Counted(metrics)'
<1> SUFFICES ASSUME Typed, Counted(metrics), [Next]_vars
             PROVE  Counted(metrics')
  BY DEF Counted, Ruled
<1>1. CASE UNCHANGED metrics
  BY <1>1
<1>2. ASSUME proposals # <<>>
      PROVE  shown \in Cases /\ true_class \in FailureClass
  BY <1>2 DEF Typed, Failures, true_class
<1>3. ASSUME proposals # <<>>, NEW m, Counted(m)
      PROVE  /\ Counted(record_attempt(m)) /\ Counted(record_contact(m)) /\ Counted(recovered(m))
             /\ Counted([m EXCEPT !.moot = @ + 1])
             /\ Counted([m EXCEPT !.proposals_rejected = @ + 1])
  BY <1>2, <1>3, CountedEntries
<1>4. CASE SubmitMoot \/ SubmitRefused
  <2>1. proposals # <<>>
    BY <1>4 DEF SubmitMoot, SubmitRefused
  <2> QED
    BY <1>3, <1>4, <2>1 DEF SubmitMoot, SubmitRefused
<1>5. CASE AttemptSucceeds \/ AttemptFails \/ ContactConverts \/ ContactIgnored
  <2>1. proposals # <<>>
    BY <1>5 DEF AttemptSucceeds, AttemptFails, ContactConverts, ContactIgnored, Submitting
  <2>2. metrics' \in {record_attempt(metrics), recovered(record_attempt(metrics)),
                      record_contact(metrics), recovered(record_contact(metrics))}
    BY <1>5 DEF AttemptSucceeds, AttemptFails, ContactConverts, ContactIgnored
  <2>3. Counted(record_attempt(metrics)) /\ Counted(record_contact(metrics))
    BY <1>3, <2>1
  <2>4. Counted(recovered(record_attempt(metrics))) /\ Counted(recovered(record_contact(metrics)))
    BY <1>3, <2>1, <2>3
  <2> QED
    BY <2>2, <2>3, <2>4
<1>6. CASE finalise
  BY <1>6, CountedBooks DEF finalise
<1>7. CASE NextDay \/ \E c \in Cases : Propose(c) \/ Drive(c)
  BY <1>1, <1>7 DEF NextDay, Propose, Drive
<1> QED
  BY <1>1, <1>4, <1>5, <1>6, <1>7 DEF Next, vars

(* Every case, every tally and every waiting proposal is what its type     *)
(* says, and no arm gets a case past the cap or the contact budget, in the *)
(* environment, which asks the guard, and in the contract's harness, which *)
(* does not (environment.py, contract.py).                                 *)
THEOREM TypeCorrectness ==
    ASSUME Affordable, ContactCost \in [FailureClass -> Nat], IsFiniteSet(Cases)
    PROVE  Spec => []TypeOK
<1>1. Init => Budgeted /\ Counted(metrics)
  <2> SUFFICES ASSUME Init
               PROVE  Budgeted /\ Counted(metrics)
    OBVIOUS
  <2>1. \A c \in Cases : case[c].attempts_used = 1 /\ case[c].contacts_used = 0
    BY DEF Init, NewCase
  <2>2. Budgeted
    BY <2>1, CalendarAssumption, GuardAssumption DEF Budgeted, Spent
  <2>3. Counted(metrics)
    BY DEF Init, NoMetrics, Counted, Ruled, Tallies
  <2> QED
    BY <2>2, <2>3
<1>2. CasesOK /\ Typed /\ Budgeted /\ Counted(metrics) => TypeOK
  <2> SUFFICES ASSUME CasesOK, Typed, Budgeted, Counted(metrics)
               PROVE  TypeOK
    OBVIOUS
  <2>1. ASSUME NEW c \in Cases
        PROVE  case[c] \in CaseState
    <3> DEFINE s == case[c]
    <3>1. s = [f \in Fields |-> s[f]]
      BY DEF CasesOK, CaseOK, Shaped
    <3>2. CaseTyped(s) /\ Spent(s)
      BY DEF Typed, Budgeted
    <3>3. AttemptCap \in Nat /\ ContactBudget \in Nat
      BY CalendarAssumption, GuardAssumption
    <3>4. s.attempts_used \in Cap /\ s.contacts_used \in 0..ContactBudget
      <4> HIDE DEF s
      <4> QED
        BY <3>2, <3>3 DEF CaseTyped, Spent, Cap
    <3>5. s.history \in Seq({"recovered_via_attempt", "recovered_via_link", "attempt_failed",
                             "contact_ignored", "mandate_revoked"} \X Nat)
      BY <3>2 DEF CaseTyped, Histories, Happening
    <3> HIDE DEF s
    <3>6. s \in CaseState
      BY <3>1, <3>2, <3>4, <3>5 DEF CaseState, Fields, CaseTyped, Moment
    <3> QED
      BY <3>6 DEF s
  <2>2. case \in [Cases -> CaseState]
    BY <2>1 DEF CasesOK
  <2>3. DOMAIN metrics = DOMAIN NoMetrics /\ \A f \in DOMAIN metrics : metrics[f] \in Nat
    <3>1. DOMAIN metrics = Tallies
      BY DEF Counted, Ruled
    <3>2. DOMAIN NoMetrics = Tallies
      BY DEF NoMetrics, Tallies
    <3> QED
      BY <3>1, <3>2 DEF Counted
  <2> QED
    BY <2>2, <2>3 DEF Typed, TypeOK, Proposal
<1> QED
  BY <1>1, <1>2, InitCases, NextCases, InitTyped, NextTyped, NextBudgeted, NextCounted, PTL
     DEF Spec
-----------------------------------------------------------------------------
(* One more in one summand is one more in the sum.                         *)
LEMMA SumGrows ==
    ASSUME NEW S, NEW f \in [S -> Nat], IsFiniteSet(Units(f)), NEW c \in S,
           NEW g \in [S -> Nat], g[c] = f[c] + 1, \A d \in S : d # c => g[d] = f[d]
    PROVE  IsFiniteSet(Units(g)) /\ Sum(g) = Sum(f) + 1
<1> DEFINE n == f[c] + 1
           new == <<c, n>>
<1>1. f[c] \in Nat /\ n \in Nat
  OBVIOUS
<1>2. /\ g \in [S -> Nat] /\ g[c] = n
      /\ \A d \in S : d # c => g[d] = f[d]
  OBVIOUS
<1>3. /\ \A u : u \in Units(f) <=> \E d \in S : u \in {d} \X (1..f[d])
      /\ \A u : u \in Units(g) <=> \E d \in S : u \in {d} \X (1..g[d])
  BY <1>2 DEF Units
<1>4. 1..n = (1..f[c]) \cup {n} /\ n \notin 1..f[c]
  BY <1>1
<1> HIDE DEF n
<1>5. Units(g) = Units(f) \cup {new}
  <2>1. ASSUME NEW u \in Units(g)
        PROVE  u \in Units(f) \cup {new}
    <3>1. PICK d \in S : u \in {d} \X (1..g[d])
      BY <1>3, <2>1
    <3>2. CASE d # c
      BY <1>2, <1>3, <3>1, <3>2
    <3>3. CASE d = c
      <4>1. PICK k \in 1..n : u = <<c, k>>
        BY <1>2, <3>1, <3>3
      <4>2. k \in 1..f[c] \/ k = n
        BY <1>4
      <4>3. k \in 1..f[c] => u \in {c} \X (1..f[c])
        BY <4>1
      <4> QED
        BY <1>3, <4>1, <4>2, <4>3
    <3> QED
      BY <3>2, <3>3
  <2>2. ASSUME NEW u \in Units(f)
        PROVE  u \in Units(g)
    <3>1. PICK d \in S : u \in {d} \X (1..f[d])
      BY <1>3, <2>2
    <3>2. 1..f[d] \subseteq 1..g[d]
      BY <1>2, <1>4
    <3>3. u \in {d} \X (1..g[d])
      BY <3>1, <3>2
    <3> QED
      BY <1>3, <3>3
  <2>3. new \in Units(g)
    <3>1. new \in {c} \X (1..g[c])
      BY <1>2, <1>4
    <3> QED
      BY <1>3, <3>1
  <2> QED
    BY <2>1, <2>2, <2>3
<1>6. new \notin Units(f)
  <2> SUFFICES ASSUME new \in Units(f)
               PROVE  FALSE
    OBVIOUS
  <2>1. PICK d \in S : new \in {d} \X (1..f[d])
    BY <1>3
  <2>2. d = c /\ n \in 1..f[c]
    BY <2>1
  <2> QED
    BY <1>4, <2>2
<1> HIDE DEF new
<1>7. IsFiniteSet(Units(g)) /\ Cardinality(Units(g)) = Cardinality(Units(f)) + 1
  <2> DEFINE U == Units(f)
             V == Units(g)
  <2>1. IsFiniteSet(U) /\ V = U \cup {new} /\ new \notin U
    BY <1>5, <1>6
  <2> HIDE DEF U, V
  <2>2. IsFiniteSet(V) /\ Cardinality(V) = Cardinality(U) + 1
    BY <2>1, FS_AddElement
  <2> QED
    BY <2>2 DEF U, V
<1> QED
  BY <1>2, <1>7 DEF Sum

(* What a settlement makes of the case that is shown: its counters, and     *)
(* whether the money came.                                                 *)
Tried(s, t)     == t.attempts_used = s.attempts_used + 1 /\ t.contacts_used = s.contacts_used
Approached(s, t) == t.contacts_used = s.contacts_used + 1 /\ t.attempts_used = s.attempts_used

LEMMA AttemptEffect ==
    ASSUME CasesOK, shown \in Cases
    PROVE  /\ AttemptSucceeds =>
                 \E t : /\ case' = [case EXCEPT ![shown] = t]
                        /\ Tried(case[shown], t) /\ t.outcome = "recovered"
           /\ AttemptFails =>
                 \E t : /\ case' = [case EXCEPT ![shown] = t]
                        /\ Tried(case[shown], t) /\ t.outcome # "recovered"
<1> DEFINE s == case[shown]
<1>1. Shaped(s) /\ (Submitting("EXECUTION") => s.outcome = "open")
  BY DEF CasesOK, CaseOK, Submitting, is_open
<1>2. ASSUME NEW what, NEW l, l = Logged(Attempted(s), what)
      PROVE  Shaped(l) /\ Tried(s, l) /\ l.outcome = s.outcome
  <2>1. /\ Shaped(l) /\ l.attempts_used = s.attempts_used + 1
        /\ Kept(s, l, Fields \ {"history", "attempts_used"})
    BY <1>1, <1>2, LoggedExecution
  <2> QED
    BY <2>1 DEF Kept, Fields, Tried
<1>3. ASSUME AttemptSucceeds
      PROVE  \E t : /\ case' = [case EXCEPT ![shown] = t]
                    /\ Tried(s, t) /\ t.outcome = "recovered"
  <2> DEFINE l == Logged(Attempted(s), "recovered_via_attempt")
             t == [l EXCEPT !.outcome = "recovered"]
  <2>1. case' = [case EXCEPT ![shown] = t]
    BY <1>3 DEF AttemptSucceeds, _recover
  <2>2. Shaped(l) /\ Tried(s, l)
    BY <1>2
  <2> HIDE DEF l, s
  <2>3. Tried(s, t) /\ t.outcome = "recovered"
    BY <2>2 DEF Shaped, Tried, Fields
  <2> QED
    BY <2>1, <2>3
<1>4. ASSUME AttemptFails
      PROVE  \E t : /\ case' = [case EXCEPT ![shown] = t]
                    /\ Tried(s, t) /\ t.outcome # "recovered"
  <2> DEFINE l == Logged(Attempted(s), "attempt_failed")
  <2>0. PICK hours \in PendingHours : \E t \in _notify(l) :
            case' = [case EXCEPT ![shown] = [t EXCEPT !.attempt_pending_until = ResolvedAt(hours),
                                                      !.last_attempt_resolved_at = ResolvedAt(hours)]]
    BY <1>4, Zenon DEF AttemptFails
  <2> DEFINE at == ResolvedAt(hours)
  <2>1. PICK t \in _notify(l) :
            case' = [case EXCEPT ![shown] = [t EXCEPT !.attempt_pending_until = at,
                                                      !.last_attempt_resolved_at = at]]
    BY <2>0
  <2> DEFINE w == [t EXCEPT !.attempt_pending_until = at, !.last_attempt_resolved_at = at]
  <2>2. Shaped(l) /\ Tried(s, l) /\ l.outcome = "open"
    BY <1>1, <1>2, <1>4 DEF AttemptFails
  <2> HIDE DEF l, at, s
  <2>3. Shaped(t) /\ Tried(s, t) /\ t.outcome # "recovered"
    BY <2>2, NotifiedEffect DEF Kept, Fields, Tried
  <2>4. Tried(s, w) /\ w.outcome # "recovered"
    BY <2>3 DEF Shaped, Tried, Fields
  <2> QED
    BY <2>1, <2>4
<1> QED
  BY <1>3, <1>4

LEMMA ContactEffect ==
    ASSUME CasesOK, shown \in Cases
    PROVE  /\ ContactConverts =>
                 \E t : /\ case' = [case EXCEPT ![shown] = t]
                        /\ Approached(case[shown], t) /\ t.outcome = "recovered"
           /\ ContactIgnored =>
                 \E t : /\ case' = [case EXCEPT ![shown] = t]
                        /\ Approached(case[shown], t) /\ t.outcome # "recovered"
<1> DEFINE s == case[shown]
<1>1. Shaped(s) /\ (Submitting("CONTACT") => s.outcome = "open")
  BY DEF CasesOK, CaseOK, Submitting, is_open
<1>2. ASSUME NEW what, NEW l, l = Logged(Contacted(s), what)
      PROVE  Shaped(l) /\ Approached(s, l) /\ l.outcome = s.outcome
  <2>1. /\ Shaped(l) /\ l.contacts_used = s.contacts_used + 1
        /\ Kept(s, l, Fields \ {"history", "last_contact_at", "contacts_used"})
    BY <1>1, <1>2, LoggedContact
  <2> QED
    BY <2>1 DEF Kept, Fields, Approached
<1>3. ASSUME ContactConverts
      PROVE  \E t : /\ case' = [case EXCEPT ![shown] = t]
                    /\ Approached(s, t) /\ t.outcome = "recovered"
  <2> DEFINE l == Logged(Contacted(s), "recovered_via_link")
             t == [l EXCEPT !.outcome = "recovered"]
  <2>1. case' = [case EXCEPT ![shown] = t]
    BY <1>3 DEF ContactConverts, _recover
  <2>2. Shaped(l) /\ Approached(s, l)
    BY <1>2
  <2> HIDE DEF l, s
  <2>3. Approached(s, t) /\ t.outcome = "recovered"
    BY <2>2 DEF Shaped, Approached, Fields
  <2> QED
    BY <2>1, <2>3
<1>4. ASSUME ContactIgnored
      PROVE  \E t : /\ case' = [case EXCEPT ![shown] = t]
                    /\ Approached(s, t) /\ t.outcome # "recovered"
  <2> DEFINE l == Logged(Contacted(s), "contact_ignored")
  <2>1. PICK t \in _notify(l) : case' = [case EXCEPT ![shown] = t]
    BY <1>4 DEF ContactIgnored
  <2>2. Shaped(l) /\ Approached(s, l) /\ l.outcome = "open"
    BY <1>1, <1>2, <1>4 DEF ContactIgnored
  <2> HIDE DEF l, s
  <2>3. Approached(s, t) /\ t.outcome # "recovered"
    BY <2>2, NotifiedEffect DEF Kept, Fields, Approached
  <2> QED
    BY <2>1, <2>3
<1> QED
  BY <1>3, <1>4
-----------------------------------------------------------------------------
(* What the environment's books say of its cases.  Once they are closed    *)
(* nothing is left to do.                                                  *)
Balanced ==
    /\ IsFiniteSet(Units(Retries)) /\ metrics.attempts_spent = Sum(Retries)
    /\ IsFiniteSet(Units(Messages)) /\ metrics.contacts_sent = Sum(Messages)
    /\ metrics.cases_recovered = Count({"recovered"})
    /\ metrics.money_recovered = Amount * metrics.cases_recovered
    /\ metrics.cases > 0 =>
          /\ Idle /\ day = HorizonDays
          /\ metrics.preserved \in Nat /\ metrics.halted \in Nat
          /\ metrics.cases_recovered \in Nat
          /\ metrics.preserved + metrics.revoked = metrics.cases
          /\ metrics.preserved - metrics.halted = metrics.cases_recovered

(* A case that was open counts once more if the money came, and the other  *)
(* counts of recovered cases stay as they are.                             *)
LEMMA RecoveredCount ==
    ASSUME CasesOK, IsFiniteSet(Cases), shown \in Cases, is_open(shown),
           NEW t, case' = [case EXCEPT ![shown] = t]
    PROVE  Count({"recovered"})' =
              IF t.outcome = "recovered" THEN Count({"recovered"}) + 1 ELSE Count({"recovered"})
<1> DEFINE R == {c \in Cases : case[c].outcome = "recovered"}
           Q == {c \in Cases : case'[c].outcome = "recovered"}
<1>1. Count({"recovered"}) = Cardinality(R) /\ Count({"recovered"})' = Cardinality(Q)
  BY DEF Count
<1>2. \A c \in Cases : case'[c] = IF c = shown THEN t ELSE case[c]
  BY OthersKept
<1>3. shown \notin R /\ R \subseteq Cases
  BY DEF is_open
<1>4. Q = IF t.outcome = "recovered" THEN R \cup {shown} ELSE R
  BY <1>2, <1>3
<1> HIDE DEF R, Q
<1>5. IsFiniteSet(R)
  BY <1>3, FS_Subset
<1>6. Cardinality(R \cup {shown}) = Cardinality(R) + 1
  BY <1>3, <1>5, FS_AddElement
<1> QED
  BY <1>1, <1>4, <1>6

(* Outcomes that differ are counted apart.                                 *)
LEMMA CountsApart ==
    ASSUME IsFiniteSet(Cases), NEW A, NEW B, A \cap B = {}
    PROVE  /\ Count(A) \in Nat /\ Count(B) \in Nat
           /\ Count(A \cup B) = Count(A) + Count(B)
<1> DEFINE Of(X) == {c \in Cases : case[c].outcome \in X}
           S == Of(A)
           T == Of(B)
           U == Of(A \cup B)
<1>1. S \subseteq Cases /\ T \subseteq Cases /\ U = S \cup T /\ S \cap T = {}
  OBVIOUS
<1>2. Count(A) = Cardinality(S) /\ Count(B) = Cardinality(T) /\ Count(A \cup B) = Cardinality(U)
  BY DEF Count
<1> HIDE DEF Of, S, T, U
<1>3. IsFiniteSet(S) /\ IsFiniteSet(T)
  BY <1>1, FS_Subset
<1>4. Cardinality(S) \in Nat /\ Cardinality(T) \in Nat /\ Cardinality(S \cap T) = 0
  BY <1>1, <1>3, FS_CardinalityType, FS_EmptySet
<1>5. Cardinality(U) = Cardinality(S) + Cardinality(T) - Cardinality(S \cap T)
  BY <1>1, <1>3, FS_Union
<1> QED
  BY <1>2, <1>4, <1>5

LEMMA Distributes == \A a, n \in Nat : a * (n + 1) = a * n + a
OBVIOUS

(* The counters of a case, summed, move only where the case does.          *)
LEMMA TriedOnce ==
    ASSUME CasesOK, Typed, shown \in Cases,
           NEW t, case' = [case EXCEPT ![shown] = t], Tried(case[shown], t),
           IsFiniteSet(Units(Retries))
    PROVE  /\ IsFiniteSet(Units(Retries')) /\ Sum(Retries') = Sum(Retries) + 1
           /\ Messages' = Messages
<1>1. \A c \in Cases : case[c].attempts_used \in Nat \ {0} /\ case[c].contacts_used \in Nat
  BY DEF Typed, CaseTyped
<1>2. \A c \in Cases : case'[c] = IF c = shown THEN t ELSE case[c]
  BY OthersKept
<1>3. Retries \in [Cases -> Nat]
  BY <1>1 DEF Retries
<1>4. /\ Retries' \in [Cases -> Nat] /\ Retries'[shown] = Retries[shown] + 1
      /\ \A d \in Cases : d # shown => Retries'[d] = Retries[d]
  BY <1>1, <1>2 DEF Retries, Tried
<1>5. Messages' = Messages
  BY <1>2 DEF Messages, Tried
<1>6. IsFiniteSet(Units(Retries')) /\ Sum(Retries') = Sum(Retries) + 1
  <2>1. PICK f : f = Retries
    OBVIOUS
  <2>2. PICK g : g = Retries'
    OBVIOUS
  <2>3. PICK c : c = shown
    OBVIOUS
  <2>4. /\ f \in [Cases -> Nat] /\ IsFiniteSet(Units(f)) /\ c \in Cases
        /\ g \in [Cases -> Nat] /\ g[c] = f[c] + 1
        /\ \A d \in Cases : d # c => g[d] = f[d]
    BY <1>3, <1>4, <2>1, <2>2, <2>3
  <2>5. IsFiniteSet(Units(g)) /\ Sum(g) = Sum(f) + 1
    BY <2>4, SumGrows
  <2> QED
    BY <2>1, <2>2, <2>5
<1> QED
  BY <1>5, <1>6

LEMMA ApproachedOnce ==
    ASSUME CasesOK, Typed, shown \in Cases,
           NEW t, case' = [case EXCEPT ![shown] = t], Approached(case[shown], t),
           IsFiniteSet(Units(Messages))
    PROVE  /\ IsFiniteSet(Units(Messages')) /\ Sum(Messages') = Sum(Messages) + 1
           /\ Retries' = Retries
<1>1. \A c \in Cases : case[c].attempts_used \in Nat \ {0} /\ case[c].contacts_used \in Nat
  BY DEF Typed, CaseTyped
<1>2. \A c \in Cases : case'[c] = IF c = shown THEN t ELSE case[c]
  BY OthersKept
<1>3. Messages \in [Cases -> Nat]
  BY <1>1 DEF Messages
<1>4. /\ Messages' \in [Cases -> Nat] /\ Messages'[shown] = Messages[shown] + 1
      /\ \A d \in Cases : d # shown => Messages'[d] = Messages[d]
  BY <1>1, <1>2 DEF Messages, Approached
<1>5. Retries' = Retries
  BY <1>2 DEF Retries, Approached
<1>6. IsFiniteSet(Units(Messages')) /\ Sum(Messages') = Sum(Messages) + 1
  <2>1. PICK f : f = Messages
    OBVIOUS
  <2>2. PICK g : g = Messages'
    OBVIOUS
  <2>3. PICK c : c = shown
    OBVIOUS
  <2>4. /\ f \in [Cases -> Nat] /\ IsFiniteSet(Units(f)) /\ c \in Cases
        /\ g \in [Cases -> Nat] /\ g[c] = f[c] + 1
        /\ \A d \in Cases : d # c => g[d] = f[d]
    BY <1>3, <1>4, <2>1, <2>2, <2>3
  <2>5. IsFiniteSet(Units(g)) /\ Sum(g) = Sum(f) + 1
    BY <2>4, SumGrows
  <2> QED
    BY <2>1, <2>2, <2>5
<1> QED
  BY <1>5, <1>6

(* What the entries in the books add up to.                                *)
LEMMA Columns ==
    ASSUME NEW m, Ruled(m)
    PROVE  /\ LET q == record_attempt(m)
              IN  /\ q.attempts_spent = m.attempts_spent + 1
                  /\ q.contacts_sent = m.contacts_sent /\ q.cases = m.cases
                  /\ q.cases_recovered = m.cases_recovered
                  /\ q.money_recovered = m.money_recovered
           /\ LET q == record_contact(m)
              IN  /\ q.contacts_sent = m.contacts_sent + 1
                  /\ q.attempts_spent = m.attempts_spent /\ q.cases = m.cases
                  /\ q.cases_recovered = m.cases_recovered
                  /\ q.money_recovered = m.money_recovered
           /\ LET q == recovered(m)
              IN  /\ q.cases_recovered = m.cases_recovered + 1
                  /\ q.money_recovered = m.money_recovered + Amount
                  /\ q.attempts_spent = m.attempts_spent
                  /\ q.contacts_sent = m.contacts_sent /\ q.cases = m.cases
<1> DEFINE cost == ContactCost[true_class]
<1>1. m = [f \in Tallies |-> m[f]]
  BY DEF Ruled
<1>2. record_contact(m) = [m EXCEPT !.contacts_sent = @ + 1,
                                    !.terminal_contacts_sent = @ + on_terminal,
                                    !.contact_cost = @ + cost]
  BY DEF record_contact
<1> HIDE DEF cost
<1> QED
  BY <1>1, <1>2 DEF record_attempt, recovered, Tallies

LEMMA BooksOfAttempt ==
    ASSUME CasesOK, Typed, Ruled(metrics), Balanced, IsFiniteSet(Cases), proposals # <<>>,
           AttemptSucceeds \/ AttemptFails
    PROVE  Balanced'
<1> DEFINE R == Count({"recovered"})
<1>1. shown \in Cases /\ ~(metrics.cases > 0) /\ is_open(shown)
  BY DEF Typed, Balanced, Idle, AttemptSucceeds, AttemptFails, Submitting
<1>2. R \in Nat /\ Amount \in Nat
  <2>1. {"recovered"} \cap {} = {}
    OBVIOUS
  <2>2. R \in Nat
    BY <2>1, CountsApart
  <2> QED
    BY <2>2, SimulatorAssumption
<1>3. metrics.cases_recovered = R /\ metrics.money_recovered = Amount * R
  BY DEF Balanced
<1>4. CASE AttemptSucceeds
  <2>1. PICK t : /\ case' = [case EXCEPT ![shown] = t]
                 /\ Tried(case[shown], t) /\ t.outcome = "recovered"
    BY <1>1, <1>4, AttemptEffect
  <2>2. /\ IsFiniteSet(Units(Retries')) /\ Sum(Retries') = Sum(Retries) + 1
        /\ Messages' = Messages
    BY <1>1, <2>1, TriedOnce DEF Balanced
  <2>3. Count({"recovered"})' = R + 1
    BY <1>1, <2>1, RecoveredCount
  <2> DEFINE m == record_attempt(metrics)
  <2>4. /\ Ruled(m) /\ m.attempts_spent = metrics.attempts_spent + 1
        /\ m.contacts_sent = metrics.contacts_sent /\ m.cases = metrics.cases
        /\ m.cases_recovered = R /\ m.money_recovered = Amount * R
    BY <1>3, Columns, RuledEntries
  <2>5. metrics' = recovered(m)
    BY <1>4 DEF AttemptSucceeds
  <2> HIDE DEF m, R
  <2>6. /\ metrics'.attempts_spent = metrics.attempts_spent + 1
        /\ metrics'.contacts_sent = metrics.contacts_sent /\ metrics'.cases = metrics.cases
        /\ metrics'.cases_recovered = R + 1 /\ metrics'.money_recovered = Amount * R + Amount
    BY <2>4, <2>5, Columns
  <2>7. Amount * R + Amount = Amount * (R + 1)
    BY <1>2, Distributes
  <2> QED
    BY <1>1, <2>2, <2>3, <2>6, <2>7 DEF Balanced
<1>5. CASE AttemptFails
  <2>1. PICK t : /\ case' = [case EXCEPT ![shown] = t]
                 /\ Tried(case[shown], t) /\ t.outcome # "recovered"
    BY <1>1, <1>5, AttemptEffect
  <2>2. /\ IsFiniteSet(Units(Retries')) /\ Sum(Retries') = Sum(Retries) + 1
        /\ Messages' = Messages
    BY <1>1, <2>1, TriedOnce DEF Balanced
  <2>3. Count({"recovered"})' = R
    BY <1>1, <2>1, RecoveredCount
  <2>4. metrics' = record_attempt(metrics)
    BY <1>5 DEF AttemptFails
  <2> HIDE DEF R
  <2>5. /\ metrics'.attempts_spent = metrics.attempts_spent + 1
        /\ metrics'.contacts_sent = metrics.contacts_sent /\ metrics'.cases = metrics.cases
        /\ metrics'.cases_recovered = R /\ metrics'.money_recovered = Amount * R
    BY <1>3, <2>4, Columns
  <2> QED
    BY <1>1, <2>2, <2>3, <2>5 DEF Balanced
<1> QED
  BY <1>4, <1>5

LEMMA BooksOfContact ==
    ASSUME CasesOK, Typed, Ruled(metrics), Balanced, IsFiniteSet(Cases), proposals # <<>>,
           ContactConverts \/ ContactIgnored
    PROVE  Balanced'
<1> DEFINE R == Count({"recovered"})
<1>1. shown \in Cases /\ ~(metrics.cases > 0) /\ is_open(shown)
  BY DEF Typed, Balanced, Idle, ContactConverts, ContactIgnored, Submitting
<1>2. R \in Nat /\ Amount \in Nat
  <2>1. {"recovered"} \cap {} = {}
    OBVIOUS
  <2>2. R \in Nat
    BY <2>1, CountsApart
  <2> QED
    BY <2>2, SimulatorAssumption
<1>3. metrics.cases_recovered = R /\ metrics.money_recovered = Amount * R
  BY DEF Balanced
<1>4. CASE ContactConverts
  <2>1. PICK t : /\ case' = [case EXCEPT ![shown] = t]
                 /\ Approached(case[shown], t) /\ t.outcome = "recovered"
    BY <1>1, <1>4, ContactEffect
  <2>2. /\ IsFiniteSet(Units(Messages')) /\ Sum(Messages') = Sum(Messages) + 1
        /\ Retries' = Retries
    BY <1>1, <2>1, ApproachedOnce DEF Balanced
  <2>3. Count({"recovered"})' = R + 1
    BY <1>1, <2>1, RecoveredCount
  <2> DEFINE m == record_contact(metrics)
  <2>4. /\ Ruled(m) /\ m.contacts_sent = metrics.contacts_sent + 1
        /\ m.attempts_spent = metrics.attempts_spent /\ m.cases = metrics.cases
        /\ m.cases_recovered = R /\ m.money_recovered = Amount * R
    BY <1>3, Columns, RuledEntries
  <2>5. metrics' = recovered(m)
    BY <1>4 DEF ContactConverts
  <2> HIDE DEF m, R
  <2>6. /\ metrics'.contacts_sent = metrics.contacts_sent + 1
        /\ metrics'.attempts_spent = metrics.attempts_spent /\ metrics'.cases = metrics.cases
        /\ metrics'.cases_recovered = R + 1 /\ metrics'.money_recovered = Amount * R + Amount
    BY <2>4, <2>5, Columns
  <2>7. Amount * R + Amount = Amount * (R + 1)
    BY <1>2, Distributes
  <2> QED
    BY <1>1, <2>2, <2>3, <2>6, <2>7 DEF Balanced
<1>5. CASE ContactIgnored
  <2>1. PICK t : /\ case' = [case EXCEPT ![shown] = t]
                 /\ Approached(case[shown], t) /\ t.outcome # "recovered"
    BY <1>1, <1>5, ContactEffect
  <2>2. /\ IsFiniteSet(Units(Messages')) /\ Sum(Messages') = Sum(Messages) + 1
        /\ Retries' = Retries
    BY <1>1, <2>1, ApproachedOnce DEF Balanced
  <2>3. Count({"recovered"})' = R
    BY <1>1, <2>1, RecoveredCount
  <2>4. metrics' = record_contact(metrics)
    BY <1>5 DEF ContactIgnored
  <2> HIDE DEF R
  <2>5. /\ metrics'.contacts_sent = metrics.contacts_sent + 1
        /\ metrics'.attempts_spent = metrics.attempts_spent /\ metrics'.cases = metrics.cases
        /\ metrics'.cases_recovered = R /\ metrics'.money_recovered = Amount * R
    BY <1>3, <2>4, Columns
  <2> QED
    BY <1>1, <2>2, <2>3, <2>5 DEF Balanced
<1> QED
  BY <1>4, <1>5

(* Closing the books: every case is in one of the two columns, and what is *)
(* preserved was halted or recovered.                                      *)
LEMMA BooksClosed ==
    ASSUME CasesOK, Typed, Ruled(metrics), Balanced, IsFiniteSet(Cases), finalise
    PROVE  Balanced'
<1> DEFINE kept    == Count({"open", "halted", "recovered"})
           lost    == Count({"revoked"})
           held    == Count({"open", "halted"})
           R       == Count({"recovered"})
           all     == Cardinality(Cases)
           at_risk == Amount * Cardinality(Cases)
<1>1. /\ lost \in Nat /\ held \in Nat /\ R \in Nat
      /\ kept = held + R /\ Count(Outcome) = kept + lost
  <2>1. /\ {"open", "halted", "recovered"} = {"open", "halted"} \cup {"recovered"}
        /\ Outcome = {"open", "halted", "recovered"} \cup {"revoked"}
        /\ {"open", "halted"} \cap {"recovered"} = {}
        /\ {"open", "halted", "recovered"} \cap {"revoked"} = {}
    BY DEF Outcome
  <2>2. held \in Nat /\ R \in Nat /\ kept = held + R
    BY <2>1, CountsApart
  <2>3. lost \in Nat /\ Count(Outcome) = kept + lost
    BY <2>1, CountsApart
  <2> QED
    BY <2>2, <2>3
<1>2. Count(Outcome) = all
  <2>1. \A c \in Cases : case[c].outcome \in Outcome
    BY DEF Typed, CaseTyped
  <2>2. {c \in Cases : case[c].outcome \in Outcome} = Cases
    BY <2>1
  <2> QED
    BY <2>2 DEF Count
<1>3. /\ metrics' = Books /\ Idle' /\ day' = HorizonDays
      /\ \A c \in Cases : /\ case'[c].attempts_used = case[c].attempts_used
                          /\ case'[c].contacts_used = case[c].contacts_used
                          /\ case'[c].outcome = "recovered" <=> case[c].outcome = "recovered"
  <2>1. metrics' = Books /\ Idle' /\ day' = HorizonDays
    BY DEF finalise, Idle
  <2>2. \A c \in Cases : case'[c] = case[c] \/
            (is_open(c) /\ case'[c] = [case[c] EXCEPT !.outcome = "halted"])
    BY DEF finalise
  <2>3. \A c \in Cases : Shaped(case[c])
    BY DEF CasesOK, CaseOK
  <2>4. ASSUME NEW c \in Cases, is_open(c), case'[c] = [case[c] EXCEPT !.outcome = "halted"]
        PROVE  /\ case'[c].attempts_used = case[c].attempts_used
               /\ case'[c].contacts_used = case[c].contacts_used
               /\ case'[c].outcome = "halted" /\ case[c].outcome = "open"
    BY <2>3, <2>4 DEF Shaped, Fields, is_open
  <2> QED
    BY <2>1, <2>2, <2>4
<1>4. Retries' = Retries /\ Messages' = Messages
  BY <1>3 DEF Retries, Messages
<1>5. Count({"recovered"})' = R
  <2>1. {c \in Cases : case'[c].outcome \in {"recovered"}}
        = {c \in Cases : case[c].outcome \in {"recovered"}}
    BY <1>3
  <2> QED
    BY <2>1 DEF Count
<1>6. Books = [metrics EXCEPT !.cases = all, !.money_at_risk = at_risk, !.revoked = lost,
                              !.halted = held, !.preserved = kept]
  BY DEF Books
<1>7. metrics = [f \in Tallies |-> metrics[f]]
  BY DEF Ruled
<1> HIDE DEF kept, lost, held, all, at_risk
<1>8. /\ metrics'.cases = all /\ metrics'.revoked = lost /\ metrics'.halted = held
      /\ metrics'.preserved = kept
      /\ \A f \in {"attempts_spent", "contacts_sent", "cases_recovered", "money_recovered"} :
            metrics'[f] = metrics[f]
  BY <1>3, <1>6, <1>7 DEF Tallies
<1>9. metrics.cases_recovered = R
  BY DEF Balanced
<1> HIDE DEF R
<1>10. /\ metrics'.preserved + metrics'.revoked = metrics'.cases
       /\ metrics'.preserved - metrics'.halted = metrics'.cases_recovered
       /\ metrics'.preserved \in Nat /\ metrics'.halted \in Nat /\ metrics'.cases_recovered \in Nat
  BY <1>1, <1>2, <1>8, <1>9
<1> QED
  BY <1>3, <1>4, <1>5, <1>8, <1>9, <1>10 DEF Balanced

LEMMA NextBalanced ==
    ASSUME IsFiniteSet(Cases)
    PROVE  /\ CasesOK /\ Typed /\ Ruled(metrics) /\ (driver = "environment" => Balanced)
           /\ [Next]_vars
           => (driver = "environment" => Balanced)'
<1> SUFFICES ASSUME CasesOK, Typed, Ruled(metrics), driver = "environment" => Balanced,
                    [Next]_vars, driver' = "environment"
             PROVE  Balanced'
  OBVIOUS
<1>1. driver = "environment" /\ Balanced
  BY DEF Next, vars, NextDay, Propose, Drive, SubmitMoot, SubmitRefused, AttemptSucceeds,
         AttemptFails, ContactConverts, ContactIgnored, Submitting, finalise
<1>2. CASE UNCHANGED vars
  BY <1>1, <1>2 DEF vars, Balanced, Retries, Messages, Count, Idle
<1>3. CASE NextDay \/ \E c \in Cases : Propose(c) \/ Drive(c)
  <2>1. ~(metrics.cases > 0) /\ UNCHANGED <<metrics, case>>
    BY <1>1, <1>3 DEF Balanced, Idle, NextDay, Propose, Drive, Typed
  <2> QED
    BY <1>1, <2>1 DEF Balanced, Retries, Messages, Count
<1>4. CASE SubmitMoot \/ SubmitRefused
  <2>1. ~(metrics.cases > 0) /\ UNCHANGED case
    BY <1>1, <1>4 DEF Balanced, Idle, SubmitMoot, SubmitRefused
  <2>2. \A f \in Tallies \ {"moot", "proposals_rejected"} : metrics'[f] = metrics[f]
    BY <1>4 DEF Ruled, Tallies, SubmitMoot, SubmitRefused
  <2>3. /\ metrics'.cases = metrics.cases /\ metrics'.attempts_spent = metrics.attempts_spent
        /\ metrics'.contacts_sent = metrics.contacts_sent
        /\ metrics'.cases_recovered = metrics.cases_recovered
        /\ metrics'.money_recovered = metrics.money_recovered
    BY <2>2 DEF Tallies
  <2> QED
    BY <1>1, <2>1, <2>3 DEF Balanced, Retries, Messages, Count
<1>5. CASE AttemptSucceeds \/ AttemptFails
  BY <1>1, <1>5, BooksOfAttempt DEF AttemptSucceeds, AttemptFails, Submitting
<1>6. CASE ContactConverts \/ ContactIgnored
  BY <1>1, <1>6, BooksOfContact DEF ContactConverts, ContactIgnored, Submitting
<1>7. CASE finalise
  BY <1>1, <1>7, BooksClosed
<1> QED
  BY <1>2, <1>3, <1>4, <1>5, <1>6, <1>7 DEF Next

LEMMA InitBalanced ==
    ASSUME IsFiniteSet(Cases)
    PROVE  Init => Balanced
<1> SUFFICES ASSUME Init
             PROVE  Balanced
  OBVIOUS
<1>1. \A c \in Cases : /\ case[c].attempts_used = 1 /\ case[c].contacts_used = 0
                       /\ case[c].outcome = "open"
  BY DEF Init, NewCase
<1>2. Units(Retries) = {} /\ Units(Messages) = {}
  <2>1. /\ DOMAIN Retries = Cases /\ DOMAIN Messages = Cases
        /\ \A c \in Cases : Retries[c] = 0 /\ Messages[c] = 0
    BY <1>1 DEF Retries, Messages
  <2>2. 1..0 = {}
    OBVIOUS
  <2> QED
    BY <2>1, <2>2 DEF Units
<1>3. Sum(Retries) = 0 /\ Sum(Messages) = 0
  BY <1>2, FS_EmptySet DEF Sum
<1>4. Count({"recovered"}) = 0
  <2>1. {c \in Cases : case[c].outcome \in {"recovered"}} = {}
    BY <1>1
  <2> QED
    BY <2>1, FS_EmptySet DEF Count
<1>5. /\ metrics.attempts_spent = 0 /\ metrics.contacts_sent = 0 /\ metrics.cases = 0
      /\ metrics.cases_recovered = 0 /\ metrics.money_recovered = 0
  BY DEF Init, NoMetrics
<1>6. Amount * 0 = 0
  <2>1. \A n \in Nat : n * 0 = 0
    OBVIOUS
  <2> QED
    BY <2>1, SimulatorAssumption
<1> QED
  BY <1>2, <1>3, <1>4, <1>5, <1>6, FS_EmptySet DEF Balanced

LEMMA AlwaysBalanced ==
    ASSUME IsFiniteSet(Cases)
    PROVE  Spec => [](driver = "environment" => Balanced)
<1>1. Init => (driver = "environment" => Balanced)
  BY InitBalanced
<1>2. CasesOK /\ Ruled(metrics) /\ [Next]_vars => Ruled(metrics)'
  BY RuledStep DEF Ruled
<1> QED
  BY <1>1, <1>2, NextBalanced, InitCases, NextCases, InitTyped, NextTyped, InitRuled, PTL
     DEF Spec

(* The arm's report adds up: what it spent, sent and recovered is what its *)
(* cases were charged, told and paid, and at the end every mandate is kept *)
(* or revoked and the kept ones are the halted and the recovered           *)
(* (metrics.py; environment.py, finalise).                                 *)
THEOREM BooksAddUp ==
    ASSUME IsFiniteSet(Cases)
    PROVE  Spec => []BooksBalance
<1>1. (driver = "environment" => Balanced) => BooksBalance
  BY DEF Balanced, BooksBalance
<1> QED
  BY <1>1, AlwaysBalanced, PTL

(* The lifetimes that horizon.py puts on a finished run; what it counts    *)
(* does not depend on what a month is worth.                               *)
Lifetimes == INSTANCE Horizon WITH monthly_value <- 0

(* "Degenerate where the basis collapses into the cycle-recovery term"     *)
(* (horizon.py, SurvivalBasis): on the books of every finished run, of any *)
(* arm on any number of cases, the basis "working" counts the recovered    *)
(* cases and no others, so that its amount is the money of the cycle; and  *)
(* "not_revoked" counts the halted ones besides.                           *)
THEOREM WorkingIsTheCycle ==
    ASSUME IsFiniteSet(Cases)
    PROVE  Spec => [](driver = "environment" /\ metrics.cases > 0 =>
                        /\ Lifetimes!count("working", metrics) = Count({"recovered"})
                        /\ Amount * Lifetimes!count("working", metrics) = metrics.money_recovered
                        /\ Lifetimes!count("not_revoked", metrics)
                              = Count({"recovered"}) + metrics.halted)
<1> DEFINE Same == /\ Lifetimes!count("working", metrics) = Count({"recovered"})
                   /\ Amount * Lifetimes!count("working", metrics) = metrics.money_recovered
                   /\ Lifetimes!count("not_revoked", metrics)
                         = Count({"recovered"}) + metrics.halted
<1>1. ASSUME driver = "environment" => Balanced, driver = "environment", metrics.cases > 0
      PROVE  Same
  <2>1. /\ metrics.preserved \in Nat /\ metrics.halted \in Nat
        /\ metrics.cases_recovered \in Nat
        /\ metrics.preserved - metrics.halted = metrics.cases_recovered
        /\ metrics.cases_recovered = Count({"recovered"})
        /\ metrics.money_recovered = Amount * metrics.cases_recovered
    BY <1>1 DEF Balanced
  <2>2. Lifetimes!count("working", metrics) = metrics.cases_recovered
    BY <2>1 DEF Lifetimes!count
  <2>3. Lifetimes!count("not_revoked", metrics) = metrics.cases_recovered + metrics.halted
    BY <2>1 DEF Lifetimes!count
  <2> QED
    BY <2>1, <2>2, <2>3
<1>2. (driver = "environment" => Balanced) =>
         (driver = "environment" /\ metrics.cases > 0 => Same)
  BY <1>1
<1> QED
  BY <1>2, AlwaysBalanced, PTL
-----------------------------------------------------------------------------
(* The search of a morning that is free answers with its first moment.     *)
LEMMA FreeMorning ==
    ASSUME FundingInReach, NEW d \in Nat
    PROVE  /\ next_compliant_slot(start_of(d)) = start_of(d) /\ date(start_of(d)) = d
           /\ ~past_upi_completion_deadline(start_of(d))
<1> DEFINE t == start_of(d)
<1>1. t = d * 2880 + 60 /\ t \in Nat /\ start_of(0) = 60
  BY DEF start_of, combine, Day, Minute
<1>2. t \div 2880 = d /\ t % 2880 = 60 /\ 60 % 2880 = 60 /\ t % 2 = 0
  BY <1>1
<1>3. clock(t) = clock(start_of(0)) /\ clock(t) = 60 /\ date(t) = d
  BY <1>1, <1>2 DEF clock, date, Day
<1>4. ~is_peak(t)
  BY <1>3 DEF is_peak, FundingInReach
<1>5. ~past_upi_completion_deadline(t)
  BY <1>3, CalendarAssumption DEF past_upi_completion_deadline, FundingInReach, Minute, MinuteOfDay
<1>6. truncated(t) = t
  BY <1>1, <1>2 DEF truncated, Minute
<1> HIDE DEF t
<1>7. next_compliant_slot(t) = t
  <2> DEFINE S == {k \in 0..95 : ~is_peak(t + k * StepMinutes * Minute)}
  <2>1. t + 0 * StepMinutes * Minute = t
    BY <1>1 DEF StepMinutes, Minute, t
  <2>2. 0 \in S /\ \A k \in S : k \in Nat /\ 0 <= k
    BY <1>4, <2>1
  <2> HIDE DEF S
  <2>3. Min(S) \in S /\ \A k \in S : Min(S) <= k
    <3>1. \E x \in S : \A y \in S : x <= y
      BY <2>2
    <3> QED
      BY <3>1, Zenon DEF Min
  <2>4. Min(S) = 0
    BY <2>2, <2>3
  <2>5. next_compliant_slot(t) = t + StepMinutes * Minute * Min(S)
    BY <1>6, Zenon DEF next_compliant_slot, S
  <2> QED
    BY <1>1, <2>4, <2>5 DEF StepMinutes, Minute, t
<1> QED
  BY <1>3, <1>5, <1>7 DEF t

(* An allocator that looks for a slot on a day past every lead finds it on *)
(* that day, or none.                                                      *)
LEMMA SlotOnTheDay ==
    ASSUME FundingInReach, NEW t, NEW q \in Nat, t = combine(q, DECISION_TIME),
           NEW r \in SimulatedRails, NEW d \in Nat, q + LiquidityMinOffset <= d
    PROVE  compliant_slot(t, d, r, PDN_MARGIN_MINUTES) \in {start_of(d), None}
<1> DEFINE e == earliest_permitted(t, r, PDN_MARGIN_MINUTES)
           s == start_of(d)
           lead == LeadHours[r]
<1>1. lead \in Nat /\ LiquidityMinOffset \in Nat
  BY SimulatorAssumption, CalendarAssumption, ArmsAssumption
<1>2. earliest_permitted(combine(0, DECISION_TIME), r, PDN_MARGIN_MINUTES)
      <= start_of(LiquidityMinOffset)
  BY DEF FundingInReach
<1> HIDE DEF lead
<1>3. 120 + lead * 120 + 30 <= LiquidityMinOffset * 2880 + 60
  BY <1>1, <1>2 DEF earliest_permitted, combine, start_of, DECISION_TIME, PDN_MARGIN_MINUTES,
                    Day, Hour, Minute, lead
<1>4. e = q * 2880 + 120 + lead * 120 + 30 /\ s = d * 2880 + 60
  BY <1>1 DEF earliest_permitted, combine, start_of, DECISION_TIME, PDN_MARGIN_MINUTES,
              Day, Hour, Minute, lead
<1>5. e \in Int /\ s \in Int /\ e <= s
  BY <1>1, <1>3, <1>4
<1>6. floor_of(t, d, r, PDN_MARGIN_MINUTES) = s
  <2>1. floor_of(t, d, r, PDN_MARGIN_MINUTES) = Max({s, e})
    BY DEF floor_of
  <2> HIDE DEF s, e
  <2>2. Max({s, e}) \in {s, e} /\ Max({s, e}) >= s /\ Max({s, e}) >= e
    BY <1>5, GreaterOf
  <2> QED
    BY <1>5, <2>1, <2>2
<1>7. next_compliant_slot(s) = s /\ ~past_upi_completion_deadline(s)
  BY FreeMorning
<1>8. check_attempt(t, s, 0, r) # "past_upi_completion_deadline"
  BY <1>7 DEF check_attempt
<1> HIDE DEF s
<1>9. compliant_slot(t, d, r, PDN_MARGIN_MINUTES)
      = IF check_attempt(t, s, 0, r) = "permitted" THEN s ELSE None
  BY <1>6, <1>7, <1>8, Zenon DEF compliant_slot
<1> QED
  BY <1>9 DEF s

(* The next funding day is one, unless none is near enough.                *)
LEMMA NextFundingDay ==
    ASSUME NEW d \in Nat
    PROVE  /\ next_funding_day(d) \in Nat /\ next_funding_day(d) >= d
           /\ \/ day_of_month(next_funding_day(d)) \in FundingDays
              \/ \A k \in 0..MaxWaitDays : day_of_month(d + k) \notin FundingDays
<1> DEFINE reachable == {e \in d..(d + MaxWaitDays) : day_of_month(e) \in FundingDays}
<1>0. MaxWaitDays \in Nat
  BY ArmsAssumption
<1>1. CASE reachable = {}
  <2>1. next_funding_day(d) = d
    BY <1>1 DEF next_funding_day
  <2>2. \A k \in 0..MaxWaitDays : d + k \in d..(d + MaxWaitDays)
    BY <1>0
  <2> QED
    BY <1>1, <2>1, <2>2
<1>2. CASE reachable # {}
  <2>1. next_funding_day(d) = Min(reachable)
    BY <1>2 DEF next_funding_day
  <2>2. reachable \subseteq Nat /\ \A e \in reachable : e >= d /\ day_of_month(e) \in FundingDays
    BY <1>0
  <2> HIDE DEF reachable
  <2>3. Min(reachable) \in reachable
    BY <1>2, <2>2, LeastOf
  <2> QED
    BY <2>1, <2>2, <2>3
<1> QED
  BY <1>1, <1>2
-----------------------------------------------------------------------------
(* The moment x is on a funding day, or no funding day is near enough.     *)
Funded(x) ==
    \/ day_of_month(date(x)) \in FundingDays
    \/ \A k \in 0..MaxWaitDays : day_of_month(date(now) + LiquidityMinOffset + k) \notin FundingDays

Allocates == arm \notin {"A", "B", "any"}

ShortOfFunds(c) == classify(Key(c)).failure_class = "LIQUIDITY"

Patient(ps, c) ==
    \A i \in DOMAIN ps :
        ps[i].kind = "EXECUTION" /\ ShortOfFunds(c) => Funded(ps[i].execute_at)

LEMMA PlanIsPatient ==
    ASSUME FundingInReach, Typed, NEW c \in Cases, day # 0, Allocates, NEW ps \in propose(c)
    PROVE  Patient(ps, c)
<1> DEFINE v == view(c)
           reading == classify(Key(c))
           target == _target_day(now, reading)
           slot == compliant_slot(now, target, v.rail, PDN_MARGIN_MINUTES)
           answer == plan(rail_policy(arm), execution_counter, v, now)
           q == start + day - 1
<1>1. q \in Nat /\ now = combine(q, DECISION_TIME) /\ date(now) = q
  <2>1. start \in Nat /\ day \in Nat
    <3>1. day \in 0..HorizonDays /\ HorizonDays \in Nat
      BY SimulatorAssumption DEF Typed
    <3> QED
      BY <3>1, NowIsMoment
  <2>2. q \in Nat /\ now = combine(q, DECISION_TIME)
    BY <2>1 DEF now
  <2> HIDE DEF q
  <2>3. (q * 2880 + 120) \div 2880 = q
    BY <2>2
  <2> QED
    BY <2>2, <2>3 DEF date, combine, Day, Minute, DECISION_TIME
<1>2. v.rail \in SimulatedRails
  <2>1. PICK d \in StartDays : failure[c] \in Failures(d)
    BY DEF Typed
  <2> QED
    BY <2>1 DEF Failures, view
<1>3. ps = answer.proposals
  BY DEF propose, Allocates
<1>4. SUFFICES ASSUME ShortOfFunds(c), NEW i \in DOMAIN ps, ps[i].kind = "EXECUTION"
               PROVE  Funded(ps[i].execute_at)
  BY DEF Patient
<1>5. /\ target \in Nat /\ target >= q + LiquidityMinOffset
      /\ \/ day_of_month(target) \in FundingDays
         \/ \A k \in 0..MaxWaitDays :
               day_of_month(q + LiquidityMinOffset + k) \notin FundingDays
  <2>1. target = next_funding_day(q + LiquidityMinOffset)
    BY <1>1, <1>4 DEF _target_day, ShortOfFunds
  <2>2. q + LiquidityMinOffset \in Nat
    BY <1>1, ArmsAssumption
  <2> HIDE DEF q, target
  <2> QED
    BY <2>1, <2>2, NextFundingDay
<1> HIDE DEF q, target, reading
<1>6. slot \in {start_of(target), None}
  <2> HIDE DEF v
  <2>1. q + LiquidityMinOffset <= target
    BY <1>1, <1>5, ArmsAssumption
  <2>2. PICK t : t = now
    OBVIOUS
  <2>3. PICK r : r = v.rail
    OBVIOUS
  <2>4. PICK d : d = target
    OBVIOUS
  <2>5. PICK n : n = q
    OBVIOUS
  <2>6. compliant_slot(t, d, r, PDN_MARGIN_MINUTES) \in {start_of(d), None}
    BY <1>1, <1>2, <1>5, <2>1, <2>2, <2>3, <2>4, <2>5, SlotOnTheDay
  <2> QED
    BY <2>2, <2>3, <2>4, <2>6
<1>7. date(start_of(target)) = target
  <2>1. PICK d : d = target
    OBVIOUS
  <2> QED
    BY <1>5, <2>1, FreeMorning
<1>8. Funded(start_of(target))
  BY <1>1, <1>5, <1>7 DEF Funded
<1>9. \/ answer.proposals = <<>>
      \/ slot # None /\ answer.proposals = <<Attempt(slot)>>
      \/ answer.proposals = <<Contact(now + Hour)>>
  <2>1. answer = IF adjusts_cell(rail_policy(arm), v, reading.failure_class)
                 THEN Plan("SURRENDER", <<>>) ELSE
                 IF spends_execution(Cell(c))
                 THEN _plan_execution(execution_counter, v, now, reading)
                 ELSE _plan_contact(v, now, Cell(c))
    BY DEF plan, Cell, Key, reading
  <2>2. _plan_execution(execution_counter, v, now, reading) =
            IF executions_used(execution_counter, v) >= AttemptCap THEN Plan("SURRENDER", <<>>) ELSE
            IF ~may_attempt(v) \/ slot = None THEN Plan("HOLD", <<>>) ELSE
            Plan("SCHEDULE_AT", <<Attempt(slot)>>)
    BY DEF _plan_execution, target
  <2>3. _plan_contact(v, now, Cell(c)) =
            IF v.contacts_used >= MaxContacts THEN Plan("SURRENDER", <<>>)
            ELSE Plan(Cell(c), <<Contact(now + Hour)>>)
    BY DEF _plan_contact
  <2>4. \A a, s : Plan(a, s).proposals = s
    BY DEF Plan
  <2> HIDE DEF answer, slot, v
  <2> QED
    BY <2>1, <2>2, <2>3, <2>4
<1> HIDE DEF answer, slot
<1>10. ps[i] = Attempt(slot) /\ slot # None
  <2>1. Contact(now + Hour).kind # "EXECUTION"
    BY DEF Contact
  <2>2. i = 1 /\ ps # <<>>
    BY <1>3, <1>9
  <2> QED
    BY <1>3, <1>4, <1>9, <2>1, <2>2
<1>11. ps[i].execute_at = start_of(target)
  BY <1>6, <1>10 DEF Attempt
<1> QED
  BY <1>8, <1>11

Patience == Allocates => Patient(proposals, shown)

LEMMA NextPatient ==
    ASSUME FundingInReach
    PROVE  Typed /\ Patience /\ [Next]_vars => Patience'
<1> SUFFICES ASSUME Typed, Patience, [Next]_vars
             PROVE  Patience'
  OBVIOUS
<1>1. UNCHANGED <<arm, failure>>
  BY DEF Next, vars, NextDay, Propose, Drive, SubmitMoot, SubmitRefused, AttemptSucceeds,
         AttemptFails, ContactConverts, ContactIgnored, Submitting, finalise
<1>2. Allocates' = Allocates /\ \A c : ShortOfFunds(c)' = ShortOfFunds(c)
  BY <1>1 DEF Allocates, ShortOfFunds, Key, view
<1>3. ASSUME day' = day
      PROVE  \A x : Funded(x)' = Funded(x)
  <2>1. now' = now
    BY <1>1, <1>3, SameMoment
  <2> QED
    BY <2>1 DEF Funded
<1>4. CASE proposals' = <<>>
  BY <1>4 DEF Patience, Patient
<1>5. ASSUME NEW c \in Cases, Propose(c)
      PROVE  Patience'
  <2>1. c \in left /\ proposals' \in propose(c) /\ shown' = c /\ day' = day
    BY <1>5 DEF Propose
  <2>2. day # 0
    BY <2>1 DEF Typed
  <2>3. Allocates => Patient(proposals', c)
    BY <2>1, <2>2, PlanIsPatient
  <2> QED
    BY <1>2, <1>3, <2>1, <2>3 DEF Patience, Patient
<1>6. CASE SubmitMoot \/ SubmitRefused \/ AttemptSucceeds \/ AttemptFails
           \/ ContactConverts \/ ContactIgnored
  <2>1. /\ proposals # <<>> /\ proposals' = Tail(proposals) /\ shown' = shown /\ day' = day
    BY <1>6 DEF SubmitMoot, SubmitRefused, AttemptSucceeds, AttemptFails, ContactConverts,
                ContactIgnored, Submitting
  <2>2. proposals \in Seq(Proposal)
    BY DEF Typed
  <2>3. \A i \in DOMAIN proposals' : i + 1 \in DOMAIN proposals /\ proposals'[i] = proposals[i + 1]
    BY <2>1, <2>2
  <2> QED
    BY <1>2, <1>3, <2>1, <2>3 DEF Patience, Patient
<1>7. CASE NextDay \/ finalise
  BY <1>4, <1>7 DEF NextDay, finalise, Idle
<1>8. ASSUME NEW c \in Cases, Drive(c)
      PROVE  Patience'
  BY <1>4, <1>8 DEF Drive, Typed
<1>9. CASE UNCHANGED vars
  BY <1>2, <1>3, <1>9 DEF vars, Patience, Patient
<1> QED
  BY <1>5, <1>6, <1>7, <1>8, <1>9 DEF Next

(* An execution of the allocator on an account without money is on a       *)
(* funding day whenever one is near enough, for every calendar, lead and   *)
(* table with which a slot can be had on the day it is sought for          *)
(* (allocator/arm_c.py, _target_day; allocator/scheduling.py).             *)
THEOREM FundingIsAwaited ==
    ASSUME FundingInReach
    PROVE  Spec => WaitsForFunding
<1> DEFINE Waited(c) ==
               /\ arm \notin {"A", "B", "any"} /\ driver = "environment"
               /\ case'[c].attempts_used > case[c].attempts_used
               /\ classify(normalize_entity(view(c).observed)).failure_class = "LIQUIDITY"
               => \/ day_of_month(date(p.execute_at)) \in FundingDays
                  \/ \A d \in 0..MaxWaitDays :
                         day_of_month(date(now) + LiquidityMinOffset + d) \notin FundingDays
           Step == \A c \in Cases : Waited(c)
<1>1. Init => Patience
  BY DEF Init, Patience, Patient
<1>2. CasesOK /\ Typed /\ Patience /\ [Next]_vars => Step
  <2> SUFFICES ASSUME CasesOK, Typed, Patience, [Next]_vars, NEW c \in Cases,
                      Allocates, driver = "environment",
                      case'[c].attempts_used > case[c].attempts_used, ShortOfFunds(c)
               PROVE  Funded(p.execute_at)
    BY DEF Allocates, ShortOfFunds, Funded, Key
  <2>1. c = shown /\ Submitting("EXECUTION")
    <3>1. \/ Driven(c)
          \/ c = shown /\ Submitting("EXECUTION")
          \/ case'[c].attempts_used = case[c].attempts_used
      BY EffectOfStep DEF Effect, Halted, ContactMade, Kept, Fields
    <3>2. case[c].attempts_used \in Nat
      BY DEF Typed, CaseTyped
    <3>3. case'[c].attempts_used # case[c].attempts_used
      BY <3>2
    <3> QED
      BY <3>1, <3>3 DEF Driven
  <2>2. 1 \in DOMAIN proposals /\ p = proposals[1] /\ p.kind = "EXECUTION"
    BY <2>1 DEF Submitting, p, Typed
  <2> QED
    BY <2>1, <2>2 DEF Patience, Patient
<1>3. Spec => [][Step]_vars
  BY <1>1, <1>2, InitCases, NextCases, InitTyped, NextTyped, NextPatient, PTL DEF Spec
<1> QED
  BY <1>3 DEF WaitsForFunding
=============================================================================
