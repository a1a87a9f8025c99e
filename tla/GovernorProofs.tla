--------------------------- MODULE GovernorProofs ---------------------------
(***************************************************************************)
(* Theorems about Governor, for any issuers and keys, any window and any   *)
(* ceilings.                                                               *)
(*                                                                         *)
(* The promise is about the admissions of the last window, which the code  *)
(* counts in a queue that it trims from the head, by the clock of whoever  *)
(* calls: with an outcome reported late, by an earlier one.  Hence two     *)
(* invariants.  Recorded: for every age, the queue trimmed to that age is  *)
(* as long as the log has entries of at most that age, which a trim by an  *)
(* earlier clock does not disturb (TrimAgain).  Drifting: an outcome is    *)
(* older than those before it by no more than outcomes are reported late.  *)
(***************************************************************************)
EXTENDS Governor, FiniteSetTheorems, WellFoundedInduction, TLAPS

LEMMA LeastOf ==
    ASSUME NEW S, S \subseteq Nat, S # {}
    PROVE  Min(S) \in S /\ \A y \in S : Min(S) <= y
<1>1. PICK x \in S : \A y \in S : ~(<<y, x>> \in OpToRel(<, Nat))
  BY NatLessThanWellFounded, WFMin, Zenon
<1>2. \A y \in S : ~(y < x)
  BY <1>1 DEF OpToRel
<1>3. \A y \in S : x <= y
  BY <1>2
<1> QED
  BY <1>3 DEF Min

(* What has been trimmed to age at + Window starts at entry m.             *)
Starts(q, at, m) ==
    /\ m \in 1..Len(q) + 1
    /\ \A k \in 1..m - 1 : ~(q[k].age <= at + Window)
    /\ m <= Len(q) => q[m].age <= at + Window

LEMMA TrimStarts ==
    ASSUME NEW T, NEW q \in Seq(T), NEW at
    PROVE  \E m : Starts(q, at, m)
<1> DEFINE kept == {k \in DOMAIN q : q[k].age <= at + Window}
<1>1. CASE kept = {}
  <2>1. Starts(q, at, Len(q) + 1)
    BY <1>1 DEF Starts
  <2> QED
    BY <2>1
<1>2. CASE kept # {}
  <2>1. kept \subseteq Nat
    OBVIOUS
  <2> HIDE DEF kept
  <2>2. Min(kept) \in kept /\ \A y \in kept : Min(kept) <= y
    BY <1>2, <2>1, LeastOf
  <2> DEFINE least == Min(kept)
  <2> HIDE DEF least
  <2>3. least \in 1..Len(q) /\ q[least].age <= at + Window
    BY <2>2 DEF kept, least
  <2>4. \A k \in 1..least - 1 : k \in kept => least <= k
    BY <2>2 DEF least
  <2>5. \A k \in 1..least - 1 : ~(q[k].age <= at + Window)
    BY <2>3, <2>4 DEF kept
  <2>6. Starts(q, at, least)
    BY <2>3, <2>5 DEF Starts
  <2> QED
    BY <2>6
<1> QED
  BY <1>1, <1>2

LEMMA TrimIs ==
    ASSUME NEW T, NEW q \in Seq(T), NEW at, NEW m, Starts(q, at, m)
    PROVE  trim(q, at) = SubSeq(q, m, Len(q))
<1> DEFINE kept == {k \in DOMAIN q : q[k].age <= at + Window}
<1>0. kept \subseteq Nat /\ m \in Nat /\ Len(q) \in Nat
  BY DEF Starts
<1>1. CASE m = Len(q) + 1
  <2>1. kept = {}
    BY <1>1 DEF Starts
  <2>2. trim(q, at) = <<>>
    BY <2>1 DEF trim
  <2> QED
    BY <1>1, <2>2
<1>2. CASE m # Len(q) + 1
  <2>1. m \in kept /\ \A k \in kept : m <= k
    BY <1>2 DEF Starts
  <2>2. trim(q, at) = SubSeq(q, Min(kept), Len(q))
    BY <2>1 DEF trim
  <2> HIDE DEF kept
  <2>3. Min(kept) \in kept /\ \A y \in kept : Min(kept) <= y
    BY <1>0, <2>1, LeastOf
  <2>4. Min(kept) <= m /\ m <= Min(kept) /\ Min(kept) \in Nat
    BY <1>0, <2>1, <2>3
  <2>5. Min(kept) = m
    BY <1>0, <2>4
  <2> QED
    BY <2>2, <2>5
<1> QED
  BY <1>1, <1>2

(* A trim keeps the type of the queue and never lengthens it.              *)
LEMMA TrimType ==
    ASSUME NEW T, NEW q \in Seq(T), NEW at
    PROVE  trim(q, at) \in Seq(T) /\ Len(trim(q, at)) <= Len(q)
<1>1. PICK m : Starts(q, at, m)
  BY TrimStarts
<1>2. trim(q, at) = SubSeq(q, m, Len(q))
  BY <1>1, TrimIs
<1> QED
  BY <1>1, <1>2 DEF Starts

(* A trim by an earlier clock leaves a later one what it would have found. *)
LEMMA TrimAgain ==
    ASSUME NEW T, NEW q \in Seq(T), NEW at \in Int, NEW early \in Int, at <= early,
           \A k \in DOMAIN q : q[k].age \in Int
    PROVE  trim(trim(q, early), at) = trim(q, at)
<1>1. PICK m : Starts(q, early, m)
  BY TrimStarts
<1>2. PICK n : Starts(q, at, n)
  BY TrimStarts
<1> DEFINE s == SubSeq(q, m, Len(q))
<1>3. trim(q, early) = s /\ trim(q, at) = SubSeq(q, n, Len(q))
  BY <1>1, <1>2, TrimIs
<1>4. m <= n /\ m \in Nat /\ n \in Nat /\ m >= 1
  BY <1>1, <1>2, GovernorAssumption DEF Starts
<1>5. /\ s \in Seq(T) /\ Len(s) = Len(q) - m + 1
      /\ \A k \in 1..Len(s) : s[k] = q[k + m - 1]
  BY <1>1 DEF Starts
<1>6. Starts(s, at, n - m + 1)
  <2>1. n - m + 1 \in 1..Len(s) + 1
    BY <1>2, <1>4, <1>5 DEF Starts
  <2>2. \A k \in 1..(n - m + 1) - 1 : ~(s[k].age <= at + Window)
    BY <1>2, <1>4, <1>5 DEF Starts
  <2>3. n - m + 1 <= Len(s) => s[n - m + 1].age <= at + Window
    BY <1>2, <1>4, <1>5, <2>1 DEF Starts
  <2> QED
    BY <1>4, <2>1, <2>2, <2>3 DEF Starts
<1> HIDE DEF s
<1>7. trim(s, at) = SubSeq(s, n - m + 1, Len(s))
  BY <1>5, <1>6, TrimIs
<1>8. SubSeq(s, n - m + 1, Len(s)) = SubSeq(q, n, Len(q))
  BY <1>2, <1>4, <1>5 DEF s, Starts
<1> QED
  BY <1>3, <1>7, <1>8
(* A new entry that is young enough for a trim lengthens what it leaves.   *)
LEMMA TrimAppend ==
    ASSUME NEW T, NEW q \in Seq(T), NEW at \in Int, NEW e \in T, e.age <= at + Window
    PROVE  Len(trim(Append(q, e), at)) = Len(trim(q, at)) + 1
<1>1. PICK m : Starts(q, at, m)
  BY TrimStarts
<1> DEFINE s == Append(q, e)
<1>2. /\ s \in Seq(T) /\ Len(s) = Len(q) + 1 /\ s[Len(q) + 1] = e
      /\ \A k \in 1..Len(q) : s[k] = q[k]
  OBVIOUS
<1> HIDE DEF s
<1>3. Starts(s, at, m)
  <2>1. m \in 1..Len(s) + 1
    BY <1>1, <1>2 DEF Starts
  <2>2. \A k \in 1..m - 1 : ~(s[k].age <= at + Window)
    BY <1>1, <1>2 DEF Starts
  <2>3. m <= Len(s) => s[m].age <= at + Window
    BY <1>1, <1>2 DEF Starts
  <2> QED
    BY <2>1, <2>2, <2>3 DEF Starts
<1>4. trim(s, at) = SubSeq(s, m, Len(s)) /\ trim(q, at) = SubSeq(q, m, Len(q))
  BY <1>1, <1>2, <1>3, TrimIs
<1>5. m \in Nat /\ m >= 1 /\ m <= Len(q) + 1
  BY <1>1 DEF Starts
<1>6. Len(SubSeq(s, m, Len(s))) = Len(s) - m + 1 /\ Len(SubSeq(q, m, Len(q))) = Len(q) - m + 1
  BY <1>2, <1>5
<1> QED
  BY <1>2, <1>4, <1>5, <1>6 DEF s

Admission == [age : Age]
Outcome == [age : Age, failed : BOOLEAN]

LEMMA OlderType ==
    ASSUME NEW T \in {Admission, Outcome}, NEW q \in Seq(T)
    PROVE  /\ Older(q) \in Seq(T) /\ Len(Older(q)) = Len(q)
           /\ \A k \in 1..Len(q) : /\ q[k].age \in Age
                                   /\ Older(q)[k].age = IF q[k].age < Old THEN q[k].age + 1 ELSE Old
<1>1. Old \in Nat
  BY GovernorAssumption DEF Old
<1>2. \A x \in Age : (IF x < Old THEN x + 1 ELSE Old) \in Age
  BY <1>1 DEF Age
<1>3. \A e \in T : /\ e.age \in Age
                   /\ [e EXCEPT !.age = IF e.age < Old THEN e.age + 1 ELSE Old] \in T
  BY <1>2 DEF Admission, Outcome
<1>4. \A k \in 1..Len(q) : q[k] \in T
  OBVIOUS
<1>5. DOMAIN q = 1..Len(q)
  OBVIOUS
<1>6. Older(q) \in [1..Len(q) -> T]
  BY <1>3, <1>4, <1>5 DEF Older
<1>7. Older(q) \in Seq(T) /\ Len(Older(q)) = Len(q)
  BY <1>6
<1>8. \A k \in 1..Len(q) : Older(q)[k].age = IF q[k].age < Old THEN q[k].age + 1 ELSE Old
  BY <1>4, <1>5 DEF Older, Admission, Outcome
<1> QED
  BY <1>3, <1>4, <1>7, <1>8

(* What an hour leaves within an age is what was within the age before.    *)
LEMMA TrimOlder ==
    ASSUME NEW q \in Seq(Admission), NEW at \in Int, at + Window < Old
    PROVE  Len(trim(Older(q), at)) = Len(trim(q, at - 1))
<1>1. PICK m : Starts(q, at - 1, m)
  BY TrimStarts
<1>2. /\ Older(q) \in Seq(Admission) /\ Len(Older(q)) = Len(q)
      /\ \A k \in 1..Len(q) : /\ q[k].age \in Age
                              /\ Older(q)[k].age = IF q[k].age < Old THEN q[k].age + 1 ELSE Old
  BY OlderType
<1>3. Old \in Nat /\ Window \in Nat
  BY GovernorAssumption DEF Old
<1>4. \A k \in 1..Len(q) : Older(q)[k].age <= at + Window <=> q[k].age <= at - 1 + Window
  BY <1>2, <1>3 DEF Age
<1>5. Starts(Older(q), at, m)
  BY <1>1, <1>2, <1>4 DEF Starts
<1>6. /\ trim(Older(q), at) = SubSeq(Older(q), m, Len(q))
      /\ trim(q, at - 1) = SubSeq(q, m, Len(q))
  BY <1>1, <1>2, <1>5, TrimIs
<1>7. m \in Nat /\ m >= 1 /\ m <= Len(q) + 1
  BY <1>1 DEF Starts
<1> QED
  BY <1>2, <1>6, <1>7

(* No entry is younger than one of this hour.                              *)
LEMMA TrimBelowZero ==
    ASSUME NEW q \in Seq(Admission), NEW at \in Int, at + Window < 0
    PROVE  Len(trim(q, at)) = 0
<1>1. \A k \in DOMAIN q : q[k].age \in Nat
  <2>1. \A e \in Admission : e.age \in Nat
    BY GovernorAssumption DEF Admission, Age, Old
  <2>2. \A k \in DOMAIN q : q[k] \in Admission
    OBVIOUS
  <2> QED
    BY <2>1, <2>2
<1>2. \A k \in DOMAIN q : ~(q[k].age <= at + Window)
  BY <1>1, GovernorAssumption
<1> DEFINE kept == {k \in DOMAIN q : q[k].age <= at + Window}
<1>3. kept = {}
  BY <1>2
<1>4. trim(q, at) = <<>>
  BY <1>3 DEF trim
<1> QED
  BY <1>4

(* No outcome is older than one before it by more than outcomes are late.  *)
Drifts(q) == \A j, k \in 1..Len(q) : j <= k => q[k].age <= q[j].age + MaxLate

LEMMA TrimDrifts ==
    ASSUME NEW T, NEW q \in Seq(T), NEW at, Drifts(q)
    PROVE  Drifts(trim(q, at))
<1>1. PICK m : Starts(q, at, m)
  BY TrimStarts
<1>2. trim(q, at) = SubSeq(q, m, Len(q))
  BY <1>1, TrimIs
<1> DEFINE s == SubSeq(q, m, Len(q))
<1>3. /\ m \in Nat /\ m >= 1 /\ Len(s) = Len(q) - m + 1
      /\ \A k \in 1..Len(s) : s[k] = q[k + m - 1]
  BY <1>1 DEF Starts
<1> HIDE DEF s
<1>4. Drifts(s)
  BY <1>3 DEF Drifts
<1> QED
  BY <1>2, <1>4 DEF s

LEMMA AppendDrifts ==
    ASSUME NEW q \in Seq(Outcome), NEW late \in 0..MaxLate, NEW failed, Drifts(q)
    PROVE  Drifts(Append(q, [age |-> late, failed |-> failed]))
<1>1. \A k \in 1..Len(q) : q[k].age \in Nat
  <2>1. \A e \in Outcome : e.age \in Nat
    BY GovernorAssumption DEF Outcome, Age, Old
  <2>2. \A k \in 1..Len(q) : q[k] \in Outcome
    OBVIOUS
  <2> QED
    BY <2>1, <2>2
<1>2. MaxLate \in Nat
  BY GovernorAssumption
<1> DEFINE s == Append(q, [age |-> late, failed |-> failed])
<1>3. /\ Len(s) = Len(q) + 1 /\ s[Len(q) + 1].age = late
      /\ \A k \in 1..Len(q) : s[k] = q[k]
  OBVIOUS
<1> HIDE DEF s
<1>4. Drifts(s)
  BY <1>1, <1>2, <1>3 DEF Drifts
<1> QED
  BY <1>4 DEF s

LEMMA OlderDrifts ==
    ASSUME NEW q \in Seq(Outcome), Drifts(q)
    PROVE  Drifts(Older(q))
<1>1. /\ Len(Older(q)) = Len(q)
      /\ \A k \in 1..Len(q) : /\ q[k].age \in Age
                              /\ Older(q)[k].age = IF q[k].age < Old THEN q[k].age + 1 ELSE Old
  BY OlderType
<1>2. MaxLate \in Nat /\ Old \in Nat
  BY GovernorAssumption DEF Old
<1>3. \A x, y \in Age : x <= y + MaxLate =>
         (IF x < Old THEN x + 1 ELSE Old) <= (IF y < Old THEN y + 1 ELSE Old) + MaxLate
  BY <1>2 DEF Age
<1> QED
  BY <1>1, <1>3 DEF Drifts
-----------------------------------------------------------------------------
Entry == [age : 0..Window, nth : Nat]

(* The entries of a log that are at most `age` hours old.                  *)
Within(entries, age) == {e \in entries : e.age <= age}

(* A log is finite, and an admission of this hour can be told from another *)
(* by how many the log held before it.                                     *)
Logged(entries) ==
    /\ entries \in SUBSET Entry /\ IsFiniteSet(entries)
    /\ \A e \in entries : e.age = 0 => e.nth < Cardinality(entries)

(* Queue and log tell the same, for every age within the window.           *)
Tells(queue, entries) ==
    \A age \in 0..Window : Len(trim(queue, age - Window)) = Cardinality(Within(entries, age))

Shape ==
    /\ observations \in [Issuers -> Seq(Outcome)]
    /\ admitted \in [Issuers -> Seq(Admission)]
    /\ \A i \in Issuers : Len(admitted[i]) <= BaseCeiling
    /\ downtime \in [Issuers \cup Methods -> Severity \cup {NoNotice}]
    /\ reported \in 0..MaxReports

Recorded == /\ log \in [Issuers -> SUBSET Entry]
            /\ \A i \in Issuers : Logged(log[i]) /\ Tells(admitted[i], log[i])

Drifting == \A i \in Issuers : Drifts(observations[i])

Inv == Shape /\ Recorded /\ Drifting

LEMMA TrimTells ==
    ASSUME NEW q \in Seq(Admission), NEW early \in Nat, NEW entries, Tells(q, entries)
    PROVE  Tells(trim(q, early), entries)
<1>1. \A k \in DOMAIN q : q[k].age \in Int
  <2>1. \A e \in Admission : e.age \in Int
    BY GovernorAssumption DEF Admission, Age, Old
  <2>2. \A k \in DOMAIN q : q[k] \in Admission
    OBVIOUS
  <2> QED
    BY <2>1, <2>2
<1>2. ASSUME NEW age \in 0..Window
      PROVE  trim(trim(q, early), age - Window) = trim(q, age - Window)
  <2>1. age - Window \in Int /\ age - Window <= early
    BY GovernorAssumption
  <2> QED
    BY <1>1, <2>1, TrimAgain
<1> QED
  BY <1>2 DEF Tells

(* What the queue counts is what the log holds.                            *)
LEMMA TellsAll ==
    ASSUME NEW q, NEW entries, Logged(entries), Tells(q, entries)
    PROVE  Len(trim(q, 0)) = Cardinality(entries) /\ Cardinality(entries) \in Nat
<1>1. Window \in 0..Window /\ Window - Window = 0
  BY GovernorAssumption
<1>2. Within(entries, Window) = entries
  BY GovernorAssumption DEF Within, Logged, Entry
<1>3. Len(trim(q, 0)) = Cardinality(Within(entries, Window))
  BY <1>1 DEF Tells
<1> QED
  BY <1>2, <1>3, FS_CardinalityType DEF Logged

LEMMA AdmissionTells ==
    ASSUME NEW q \in Seq(Admission), NEW entries, Logged(entries), Tells(q, entries)
    PROVE  LET more == entries \cup {[age |-> 0, nth |-> Cardinality(entries)]}
           IN  /\ Logged(more)
               /\ Tells(Append(q, [age |-> 0]), more)
               /\ Cardinality(more) = Cardinality(entries) + 1
<1> DEFINE e == [age |-> 0, nth |-> Cardinality(entries)]
           more == entries \cup {e}
<1>1. Cardinality(entries) \in Nat /\ IsFiniteSet(entries)
  BY FS_CardinalityType DEF Logged
<1>2. e \in Entry /\ e.age = 0 /\ e.nth = Cardinality(entries) /\ e \notin entries
  BY <1>1, GovernorAssumption DEF Logged, Entry
<1> HIDE DEF e
<1>3. IsFiniteSet(more) /\ Cardinality(more) = Cardinality(entries) + 1
  BY <1>1, <1>2, FS_AddElement
<1>4. Logged(more)
  <2>1. more \in SUBSET Entry
    BY <1>2 DEF Logged
  <2>2. ASSUME NEW x \in more, x.age = 0
        PROVE  x.nth < Cardinality(more)
    <3>1. CASE x = e
      BY <1>1, <1>2, <1>3, <3>1
    <3>2. CASE x \in entries
      <4>1. x.nth \in Nat /\ x.nth < Cardinality(entries)
        BY <2>2, <3>2 DEF Logged, Entry
      <4> QED
        BY <1>1, <1>3, <4>1
    <3> QED
      BY <3>1, <3>2
  <2> QED
    BY <1>3, <2>1, <2>2 DEF Logged
<1>5. ASSUME NEW age \in 0..Window
      PROVE  Len(trim(Append(q, [age |-> 0]), age - Window)) = Cardinality(Within(more, age))
  <2>1. Within(more, age) = Within(entries, age) \cup {e}
    BY <1>2 DEF Within
  <2>2. Within(entries, age) \in SUBSET entries /\ e \notin Within(entries, age)
    BY <1>2 DEF Within
  <2>3. IsFiniteSet(Within(entries, age))
    BY <1>1, <2>2, FS_Subset
  <2>4. Cardinality(Within(more, age)) = Cardinality(Within(entries, age)) + 1
    BY <2>1, <2>2, <2>3, FS_AddElement
  <2>5. /\ [age |-> 0] \in Admission /\ [age |-> 0].age = 0
        /\ age - Window \in Int /\ 0 <= age - Window + Window
    BY GovernorAssumption DEF Admission, Age, Old
  <2>6. Len(trim(Append(q, [age |-> 0]), age - Window)) = Len(trim(q, age - Window)) + 1
    BY <2>5, TrimAppend
  <2> QED
    BY <2>4, <2>6 DEF Tells
<1> QED
  BY <1>3, <1>4, <1>5 DEF Tells, e

(* Entries keep their number as they age.                                  *)
LEMMA AgeingCounts ==
    ASSUME NEW entries, Logged(entries), NEW age \in 0..Window
    PROVE  /\ IsFiniteSet(Within(Remembered(entries), age))
           /\ Cardinality(Within(Remembered(entries), age)) = Cardinality(Within(entries, age - 1))
<1> DEFINE S == Within(entries, age - 1)
           T == Within(Remembered(entries), age)
<1>1. \A e \in entries : /\ e.age \in 0..Window /\ e.nth \in Nat
                         /\ e = [age |-> e.age, nth |-> e.nth]
                         /\ [e EXCEPT !.age = @ + 1] = [age |-> e.age + 1, nth |-> e.nth]
  BY DEF Logged, Entry
<1>2. IsFiniteSet(S)
  <2>1. S \in SUBSET entries
    BY DEF Within
  <2> QED
    BY <2>1, FS_Subset DEF Logged
<1>3. \A e \in S : e \in entries /\ e.age \in 0..Window - 1 /\ e.age <= age - 1
  <2>1. \A e \in S : e \in entries /\ e.age <= age - 1
    BY DEF Within
  <2>2. \A e \in entries : e.age \in 0..Window
    BY <1>1
  <2> HIDE DEF S
  <2> QED
    BY <2>1, <2>2, GovernorAssumption
<1>4. \A t : t \in T <=> \E s \in S : t = [age |-> s.age + 1, nth |-> s.nth]
  <2>1. ASSUME NEW s \in S
        PROVE  [age |-> s.age + 1, nth |-> s.nth] \in T
    <3>1. s \in entries /\ s.age < Window /\ s.age + 1 <= age
      BY <1>3, GovernorAssumption
    <3>2. [age |-> s.age + 1, nth |-> s.nth] \in Remembered(entries)
      BY <1>1, <3>1 DEF Remembered
    <3> QED
      BY <3>1, <3>2 DEF Within
  <2>2. ASSUME NEW t \in T
        PROVE  \E s \in S : t = [age |-> s.age + 1, nth |-> s.nth]
    <3>1. PICK s \in entries : t = [s EXCEPT !.age = @ + 1]
      BY DEF Within, Remembered
    <3>2. t = [age |-> s.age + 1, nth |-> s.nth]
      BY <1>1, <3>1
    <3>3. t.age <= age
      BY DEF Within
    <3>4. s.age + 1 <= age /\ s.age \in 0..Window
      BY <1>1, <3>2, <3>3
    <3>5. s \in S
      BY <3>4 DEF Within
    <3> QED
      BY <3>2, <3>5
  <2> QED
    BY <2>1, <2>2
<1>5. \A a, b \in S : a.age + 1 = b.age + 1 /\ a.nth = b.nth => a = b
  <2>1. ASSUME NEW a \in S, NEW b \in S, a.age + 1 = b.age + 1, a.nth = b.nth
        PROVE  a = b
    <3>1. a.age = b.age
      BY <1>3, <2>1
    <3> QED
      BY <1>1, <1>3, <2>1, <3>1
  <2> QED
    BY <2>1
<1> HIDE DEF S, T
<1> DEFINE f == [s \in S |-> [age |-> s.age + 1, nth |-> s.nth]]
<1>6. /\ f \in [S -> T]
      /\ \A a, b \in S : f[a] = f[b] => a = b
      /\ \A t \in T : \E s \in S : f[s] = t
  <2>1. f \in [S -> T] /\ \A t \in T : \E s \in S : f[s] = t
    BY <1>4
  <2>2. \A a, b \in S : f[a] = f[b] => a.age + 1 = b.age + 1 /\ a.nth = b.nth
    OBVIOUS
  <2> QED
    BY <1>5, <2>1, <2>2
<1> HIDE DEF f
<1>7. ExistsBijection(S, T)
  BY <1>6 DEF ExistsBijection, Bijection, Injection, Surjection, IsInjective
<1>8. IsFiniteSet(T) /\ Cardinality(T) = Cardinality(S)
  BY <1>2, <1>7, FS_Bijection
<1> QED
  BY <1>8 DEF S, T
LEMMA HourTells ==
    ASSUME NEW q \in Seq(Admission), NEW entries, Logged(entries), Tells(q, entries)
    PROVE  Logged(Remembered(entries)) /\ Tells(Older(q), Remembered(entries))
<1>1. /\ Window \in 0..Window /\ Old \in Nat /\ Window < Old
  BY GovernorAssumption DEF Old
<1>2. \A t \in Remembered(entries) : t \in Entry /\ t.age # 0
  <2>1. ASSUME NEW t \in Remembered(entries)
        PROVE  t \in Entry /\ t.age # 0
    <3>1. PICK e \in entries : e.age < Window /\ t = [e EXCEPT !.age = @ + 1]
      BY DEF Remembered
    <3>2. e \in [age : 0..Window, nth : Nat]
      BY DEF Logged, Entry
    <3>3. t = [age |-> e.age + 1, nth |-> e.nth] /\ e.age \in 0..Window /\ e.nth \in Nat
      BY <3>1, <3>2
    <3>4. e.age + 1 \in 0..Window /\ e.age + 1 # 0
      BY <3>1, <3>3, GovernorAssumption
    <3> QED
      BY <3>3, <3>4 DEF Entry
  <2> QED
    BY <2>1
<1>3. IsFiniteSet(Remembered(entries))
  <2>1. Within(Remembered(entries), Window) = Remembered(entries)
    BY <1>2 DEF Within, Entry
  <2> QED
    BY <1>1, <2>1, AgeingCounts
<1>4. ASSUME NEW age \in 0..Window
      PROVE  Len(trim(Older(q), age - Window)) = Cardinality(Within(Remembered(entries), age))
  <2>1. /\ age - Window \in Int /\ age - Window + Window < Old
        /\ age - Window - 1 \in Int /\ age - Window - 1 = (age - 1) - Window
    BY <1>1, GovernorAssumption
  <2>2. Len(trim(Older(q), age - Window)) = Len(trim(q, age - Window - 1))
    BY <2>1, TrimOlder
  <2>3. Cardinality(Within(Remembered(entries), age)) = Cardinality(Within(entries, age - 1))
    BY AgeingCounts
  <2>4. CASE age = 0
    <3>1. Within(entries, age - 1) = {}
      BY <2>4 DEF Within, Logged, Entry
    <3>2. Len(trim(q, age - Window - 1)) = 0
      BY <2>1, <2>4, TrimBelowZero, GovernorAssumption
    <3> QED
      BY <2>2, <2>3, <3>1, <3>2, FS_EmptySet
  <2>5. CASE age # 0
    <3>1. age - 1 \in 0..Window
      BY <2>5, GovernorAssumption
    <3> QED
      BY <2>1, <2>2, <2>3, <3>1 DEF Tells
  <2> QED
    BY <2>4, <2>5
<1> QED
  BY <1>2, <1>3, <1>4 DEF Logged, Tells
-----------------------------------------------------------------------------
LEMMA StateKnown == ASSUME NEW i PROVE state_of(i) \in IssuerState
BY DEF state_of, downtime_state, IssuerState

LEMMA CeilingBounded ==
    ASSUME NEW i
    PROVE  ceiling_for(i) \in Nat /\ ceiling_for(i) <= BaseCeiling
<1>1. ceiling[state_of(i)] \in {BaseCeiling, StrainedCeiling, DegradedCeiling}
  BY StateKnown DEF ceiling, IssuerState
<1> QED
  BY <1>1, GovernorAssumption DEF ceiling_for

LEMMA InitInv == Init => Inv
<1> SUFFICES ASSUME Init PROVE Inv
  OBVIOUS
<1>1. Shape
  BY GovernorAssumption DEF Init, Shape
<1>2. Drifting
  BY DEF Init, Drifting, Drifts
<1>3. Logged({})
  BY FS_EmptySet DEF Logged
<1>4. Tells(<<>>, {})
  <2>1. ASSUME NEW age \in 0..Window
        PROVE  Len(trim(<<>>, age - Window)) = Cardinality(Within({}, age))
    <3>1. trim(<<>>, age - Window) = <<>>
      BY DEF trim
    <3>2. Within({}, age) = {}
      BY DEF Within
    <3> QED
      BY <3>1, <3>2, FS_EmptySet
  <2> QED
    BY <2>1 DEF Tells
<1> QED
  BY <1>1, <1>2, <1>3, <1>4 DEF Init, Inv, Recorded

(* What a step does to the two queues and the log of an issuer.            *)
Reading(i) ==
    /\ admitted'[i] = admitted[i] \/ \E early \in Nat : admitted'[i] = trim(admitted[i], early)
    /\ log'[i] = log[i]

Admitting(i) ==
    /\ used(i) < ceiling_for(i)
    /\ admitted'[i] = Append(trim(admitted[i], 0), [age |-> 0])
    /\ log'[i] = log[i] \cup {[age |-> 0, nth |-> Cardinality(log[i])]}

Ageing(i) == admitted'[i] = Older(admitted[i]) /\ log'[i] = Remembered(log[i])

Observing(i) ==
    \/ observations'[i] = observations[i]
    \/ observations'[i] = trim(observations[i], 0)
    \/ \E late \in 0..MaxLate, failed \in BOOLEAN :
          observations'[i] = trim(Append(observations[i], [age |-> late, failed |-> failed]), late)
    \/ observations'[i] = Older(observations[i])

LEMMA StepOfIssuer ==
    ASSUME Inv, [Next]_vars, NEW i \in Issuers
    PROVE  (Reading(i) \/ Admitting(i) \/ Ageing(i)) /\ Observing(i)
<1> USE DEF Inv, Shape, Recorded, Reading, Admitting, Ageing, Observing
<1>1. ASSUME NEW j \in Issuers, NEW late \in 0..MaxLate, NEW failed \in BOOLEAN,
             observe(j, late, failed)
      PROVE  (Reading(i) \/ Admitting(i) \/ Ageing(i)) /\ Observing(i)
  <2>1. late \in Nat
    BY GovernorAssumption
  <2> QED
    BY <1>1, <2>1 DEF observe
<1>2. ASSUME NEW key \in Issuers \cup Methods, observe_downtime(key) \/ Resolve(key)
      PROVE  (Reading(i) \/ Admitting(i) \/ Ageing(i)) /\ Observing(i)
  BY <1>2 DEF observe_downtime, Resolve
<1>3. CASE snapshot
  BY <1>3 DEF snapshot
<1>4. ASSUME NEW j \in Issuers, AdmitNothing(j)
      PROVE  (Reading(i) \/ Admitting(i) \/ Ageing(i)) /\ Observing(i)
  BY <1>4 DEF AdmitNothing, TrimBoth
<1>5. ASSUME NEW j \in Issuers, Admit(j)
      PROVE  (Reading(i) \/ Admitting(i) \/ Ageing(i)) /\ Observing(i)
  <2>1. CASE i = j
    BY <1>5, <2>1 DEF Admit, MayAdmit
  <2>2. CASE i # j
    BY <1>5, <2>2 DEF Admit
  <2> QED
    BY <2>1, <2>2
<1>6. CASE Tick
  BY <1>6 DEF Tick
<1>7. CASE UNCHANGED vars
  BY <1>7 DEF vars
<1> QED
  BY <1>1, <1>2, <1>3, <1>4, <1>5, <1>6, <1>7 DEF Next
(* The tables keep an entry for each issuer and key.                       *)
LEMMA TablesStand ==
    ASSUME Inv, [Next]_vars
    PROVE  /\ observations' = [i \in Issuers |-> observations'[i]]
           /\ admitted' = [i \in Issuers |-> admitted'[i]]
           /\ log' = [i \in Issuers |-> log'[i]]
           /\ downtime' \in [Issuers \cup Methods -> Severity \cup {NoNotice}]
           /\ reported' \in 0..MaxReports
<1> USE DEF Inv, Shape, Recorded
<1>1. ASSUME NEW j \in Issuers, NEW late \in 0..MaxLate, NEW failed \in BOOLEAN,
             observe(j, late, failed)
      PROVE  reported' \in 0..MaxReports
  BY <1>1, GovernorAssumption DEF observe
<1>2. /\ observations' = [i \in Issuers |-> observations'[i]]
      /\ admitted' = [i \in Issuers |-> admitted'[i]]
      /\ log' = [i \in Issuers |-> log'[i]]
  BY DEF Next, observe, observe_downtime, Resolve, snapshot, AdmitNothing, TrimBoth, Admit,
         Tick, vars
<1>3. downtime' \in [Issuers \cup Methods -> Severity \cup {NoNotice}]
  BY DEF Next, observe, observe_downtime, Resolve, snapshot, AdmitNothing, Admit, Tick, vars
<1>4. reported' \in 0..MaxReports
  BY <1>1 DEF Next, observe_downtime, Resolve, snapshot, AdmitNothing, Admit, Tick, vars
<1> QED
  BY <1>2, <1>3, <1>4

LEMMA ShapePreserved ==
    ASSUME Inv, [Next]_vars
    PROVE  Shape'
<1>1. ASSUME NEW i \in Issuers
      PROVE  observations'[i] \in Seq(Outcome)
  <2>1. observations[i] \in Seq(Outcome)
    BY DEF Inv, Shape
  <2>2. ASSUME NEW late \in 0..MaxLate, NEW failed \in BOOLEAN
        PROVE  trim(Append(observations[i], [age |-> late, failed |-> failed]), late)
                 \in Seq(Outcome)
    <3>1. [age |-> late, failed |-> failed] \in Outcome
      BY GovernorAssumption DEF Outcome, Age, Old
    <3>2. Append(observations[i], [age |-> late, failed |-> failed]) \in Seq(Outcome)
      BY <2>1, <3>1
    <3> QED
      BY <3>2, TrimType
  <2>3. Older(observations[i]) \in Seq(Outcome) /\ trim(observations[i], 0) \in Seq(Outcome)
    BY <2>1, OlderType, TrimType
  <2>4. Observing(i)
    BY StepOfIssuer
  <2> QED
    BY <2>1, <2>2, <2>3, <2>4 DEF Observing
<1>2. ASSUME NEW i \in Issuers
      PROVE  admitted'[i] \in Seq(Admission) /\ Len(admitted'[i]) <= BaseCeiling
  <2>1. admitted[i] \in Seq(Admission) /\ Len(admitted[i]) <= BaseCeiling
    BY DEF Inv, Shape
  <2>2. ASSUME NEW at
        PROVE  /\ trim(admitted[i], at) \in Seq(Admission)
               /\ Len(trim(admitted[i], at)) <= Len(admitted[i])
    BY <2>1, TrimType
  <2>3. BaseCeiling \in Nat
    BY GovernorAssumption
  <2>4. CASE Reading(i)
    BY <2>1, <2>2, <2>3, <2>4 DEF Reading
  <2>5. CASE Admitting(i)
    <3>1. used(i) \in Nat /\ used(i) < BaseCeiling
      BY <2>2, <2>3, <2>5, CeilingBounded DEF Admitting, used
    <3>2. [age |-> 0] \in Admission
      BY GovernorAssumption DEF Admission, Age, Old
    <3> QED
      BY <2>2, <2>3, <2>5, <3>1, <3>2 DEF Admitting, used
  <2>6. CASE Ageing(i)
    BY <2>1, <2>6, OlderType DEF Ageing
  <2> QED
    BY <2>4, <2>5, <2>6, StepOfIssuer
<1> QED
  BY <1>1, <1>2, TablesStand DEF Shape

LEMMA RecordedPreserved ==
    ASSUME Inv, [Next]_vars
    PROVE  Recorded'
<1>1. ASSUME NEW i \in Issuers
      PROVE  Logged(log'[i]) /\ Tells(admitted'[i], log'[i])
  <2>1. admitted[i] \in Seq(Admission) /\ Logged(log[i]) /\ Tells(admitted[i], log[i])
    BY DEF Inv, Shape, Recorded
  <2>2. CASE Reading(i)
    BY <2>1, <2>2, TrimTells DEF Reading
  <2>3. CASE Admitting(i)
    <3>1. trim(admitted[i], 0) \in Seq(Admission) /\ Tells(trim(admitted[i], 0), log[i])
      BY <2>1, TrimType, TrimTells
    <3> QED
      BY <2>1, <2>3, <3>1, AdmissionTells DEF Admitting
  <2>4. CASE Ageing(i)
    BY <2>1, <2>4, HourTells DEF Ageing
  <2> QED
    BY <2>2, <2>3, <2>4, StepOfIssuer
<1>2. \A i \in Issuers : log'[i] \in SUBSET Entry
  BY <1>1 DEF Logged
<1> QED
  BY <1>1, <1>2, TablesStand DEF Recorded

LEMMA DriftingPreserved ==
    ASSUME Inv, [Next]_vars
    PROVE  Drifting'
<1>1. ASSUME NEW i \in Issuers
      PROVE  Drifts(observations'[i])
  <2>1. observations[i] \in Seq(Outcome) /\ Drifts(observations[i])
    BY DEF Inv, Shape, Drifting
  <2>2. ASSUME NEW late \in 0..MaxLate, NEW failed \in BOOLEAN
        PROVE  Drifts(trim(Append(observations[i], [age |-> late, failed |-> failed]), late))
    <3>1. [age |-> late, failed |-> failed] \in Outcome
      BY GovernorAssumption DEF Outcome, Age, Old
    <3>2. Drifts(Append(observations[i], [age |-> late, failed |-> failed]))
      BY <2>1, AppendDrifts
    <3>3. Append(observations[i], [age |-> late, failed |-> failed]) \in Seq(Outcome)
      BY <2>1, <3>1
    <3> QED
      BY <3>2, <3>3, TrimDrifts
  <2>3. Drifts(Older(observations[i])) /\ Drifts(trim(observations[i], 0))
    BY <2>1, OlderDrifts, TrimDrifts
  <2>4. Observing(i)
    BY StepOfIssuer
  <2> QED
    BY <2>1, <2>2, <2>3, <2>4 DEF Observing
<1> QED
  BY <1>1 DEF Drifting

LEMMA Invariance == Spec => []Inv
<1>1. ASSUME Inv, [Next]_vars PROVE Inv'
  BY <1>1, ShapePreserved, RecordedPreserved, DriftingPreserved DEF Inv
<1> QED
  BY <1>1, InitInv, PTL DEF Spec
-----------------------------------------------------------------------------
(* Queues and notices are well formed, and the admissions kept of an issuer*)
(* never exceed the base ceiling, trimmed or not (governor.py,             *)
(* _IssuerWindow).                                                         *)
THEOREM TypeCorrectness == Spec => []TypeOK
<1>1. Inv => TypeOK
  BY DEF Inv, Shape, Recorded, TypeOK, Admission, Outcome, Entry
<1> QED
  BY <1>1, Invariance, PTL

(* The queue that late outcomes trim by an earlier clock counts the        *)
(* admissions of the last window, not one less and not one more, for any   *)
(* window, any lateness and any order of calls (governor.py, trim, admit). *)
THEOREM CountIsExact == Spec => []CountsEveryAdmission
<1>1. Inv => CountsEveryAdmission
  BY TellsAll DEF Inv, Recorded, CountsEveryAdmission, used
<1> QED
  BY <1>1, Invariance, PTL

(* A late outcome outlives the window by no more than it was late, though  *)
(* nothing but the head of the queue is ever looked at (governor.py, trim).*)
THEOREM EvidenceAges == Spec => []EvidenceIsRecent
<1>1. Inv => EvidenceIsRecent
  <2> SUFFICES ASSUME Inv, NEW i \in Issuers,
                      NEW k \in DOMAIN trim(observations[i], 0)
               PROVE  trim(observations[i], 0)[k].age <= Window + MaxLate
    BY DEF EvidenceIsRecent
  <2> DEFINE q == observations[i]
  <2>1. q \in Seq(Outcome) /\ Drifts(q)
    BY DEF Inv, Shape, Drifting
  <2>0. k \in DOMAIN trim(q, 0)
    OBVIOUS
  <2> SUFFICES trim(q, 0)[k].age <= Window + MaxLate
    OBVIOUS
  <2> HIDE DEF q
  <2>2. PICK m : Starts(q, 0, m)
    BY <2>1, TrimStarts
  <2>3. trim(q, 0) = SubSeq(q, m, Len(q))
    BY <2>1, <2>2, TrimIs
  <2>4. k \in 1..Len(q) - m + 1 /\ trim(q, 0)[k] = q[k + m - 1]
    BY <2>0, <2>1, <2>2, <2>3 DEF Starts
  <2>5. m \in 1..Len(q) /\ q[m].age <= Window
    BY <2>1, <2>2, <2>4, GovernorAssumption DEF Starts
  <2>6. q[k + m - 1].age <= q[m].age + MaxLate
    BY <2>1, <2>4, <2>5 DEF Drifts
  <2>7. \A j \in 1..Len(q) : q[j].age \in Nat
    <3>1. \A e \in Outcome : e.age \in Nat
      BY GovernorAssumption DEF Outcome, Age, Old
    <3> QED
      BY <2>1, <3>1
  <2> QED
    <3>1. k + m - 1 \in 1..Len(q)
      BY <2>1, <2>4, <2>5
    <3>2. q[k + m - 1].age \in Nat /\ q[m].age \in Nat
      BY <2>5, <2>7, <3>1
    <3>3. \A x, y \in Nat : x <= y + MaxLate /\ y <= Window => x <= Window + MaxLate
      BY GovernorAssumption
    <3>4. q[k + m - 1].age <= Window + MaxLate
      BY <2>5, <2>6, <3>2, <3>3
    <3> QED
      BY <2>4, <3>4
<1> QED
  BY <1>1, Invariance, PTL

(* The ceiling holds of the admissions there were, for any window, any     *)
(* ceilings and thresholds, and whatever notices come, go or get lost: no  *)
(* admission takes the last window past what the issuer's condition allows *)
(* at that moment (governor.py, admit).                                    *)
THEOREM CeilingIsHonoured == Spec => CeilingHonoured
<1>1. ASSUME Inv, [Next]_vars PROVE AdmitsBelowCeiling
  <2> SUFFICES ASSUME NEW i \in Issuers, Cardinality(log'[i]) > Cardinality(log[i])
               PROVE  /\ Cardinality(log'[i]) <= ceiling_for(i)
                      /\ downtime[i] = "high" => Cardinality(log'[i]) <= DegradedCeiling
    BY DEF AdmitsBelowCeiling
  <2> USE <1>1
  <2>1. admitted[i] \in Seq(Admission) /\ Logged(log[i]) /\ Tells(admitted[i], log[i])
    BY DEF Inv, Shape, Recorded
  <2>2. used(i) = Cardinality(log[i]) /\ Cardinality(log[i]) \in Nat
    BY <2>1, TellsAll DEF used
  <2>3. ~Reading(i)
    BY <2>2 DEF Reading
  <2>4. ~Ageing(i)
    <3>1. Within(Remembered(log[i]), Window) = Remembered(log[i])
      BY <2>1, HourTells DEF Logged, Within, Entry
    <3>2. Window \in 0..Window
      BY GovernorAssumption
    <3>3. Cardinality(Remembered(log[i])) = Cardinality(Within(log[i], Window - 1))
      BY <2>1, <3>1, <3>2, AgeingCounts
    <3>4. Within(log[i], Window - 1) \in SUBSET log[i] /\ IsFiniteSet(log[i])
      BY <2>1 DEF Within, Logged
    <3>5. Cardinality(Within(log[i], Window - 1)) <= Cardinality(log[i])
      BY <3>4, FS_Subset
    <3>6. Cardinality(Within(log[i], Window - 1)) \in Nat
      BY <3>4, FS_Subset, FS_CardinalityType
    <3> QED
      BY <2>2, <3>3, <3>5, <3>6 DEF Ageing
  <2>5. Admitting(i)
    BY <2>3, <2>4, StepOfIssuer
  <2>6. Cardinality(log'[i]) = Cardinality(log[i]) + 1
    BY <2>1, <2>5, AdmissionTells DEF Admitting
  <2>7. Cardinality(log'[i]) <= ceiling_for(i)
    BY <2>2, <2>5, <2>6, CeilingBounded DEF Admitting
  <2>8. downtime[i] = "high" => ceiling_for(i) = DegradedCeiling
    BY GovernorAssumption DEF ceiling_for, ceiling, state_of, downtime_state, Severity
  <2> QED
    BY <2>7, <2>8
<1> QED
  BY <1>1, Invariance, PTL DEF Spec, CeilingHonoured
=============================================================================
