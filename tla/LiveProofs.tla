----------------------------- MODULE LiveProofs -----------------------------
(***************************************************************************)
(* From a failed payment to what is done about it: what the rules answer,  *)
(* what a contact may and may not be changed by, and what the live path    *)
(* keeps of the allocator; for every table of rules that load_classifier   *)
(* accepts, every snapshot, text, answer of the model and reading of the   *)
(* clock.                                                                  *)
(***************************************************************************)
EXTENDS Live, TLAPS

(* The table of rules.                                                     *)

(* Precedence is the set of fields a rule names: two rules share it only   *)
(* when they name the same fields.                                         *)
LEMMA PrecedenceNamesFields ==
    ASSUME NEW i \in DOMAIN Rules, NEW j \in DOMAIN Rules,
           precedence(Rules[i]) = precedence(Rules[j])
    PROVE  DOMAIN Rules[i].match = DOMAIN Rules[j].match
<1>1. /\ DOMAIN Rules[i].match \subseteq KEY_FIELDS
      /\ DOMAIN Rules[j].match \subseteq KEY_FIELDS
  BY ClassifierAssumption
<1>2. \A f \in KEY_FIELDS : /\ names(Rules[i], f) \in {0, 1} /\ names(Rules[j], f) \in {0, 1}
                            /\ names(Rules[i], f) = 1 <=> f \in DOMAIN Rules[i].match
                            /\ names(Rules[j], f) = 1 <=> f \in DOMAIN Rules[j].match
  BY DEF names
<1>3. \A a, b, c, d, p, q, r, s \in {0, 1} :
         8 * a + 4 * b + 2 * c + d = 8 * p + 4 * q + 2 * r + s
           => a = p /\ b = q /\ c = r /\ d = s
  OBVIOUS
<1>4. \A f \in KEY_FIELDS : names(Rules[i], f) = names(Rules[j], f)
  <2>1. /\ "reason" \in KEY_FIELDS /\ "step" \in KEY_FIELDS
        /\ "source" \in KEY_FIELDS /\ "method" \in KEY_FIELDS
        /\ \A f \in KEY_FIELDS : f \in {"reason", "step", "source", "method"}
    BY DEF KEY_FIELDS
  <2>2. /\ names(Rules[i], "reason") = names(Rules[j], "reason")
        /\ names(Rules[i], "step") = names(Rules[j], "step")
        /\ names(Rules[i], "source") = names(Rules[j], "source")
        /\ names(Rules[i], "method") = names(Rules[j], "method")
    BY <1>2, <1>3, <2>1 DEF precedence
  <2> QED
    BY <2>1, <2>2
<1>5. \A f \in KEY_FIELDS : f \in DOMAIN Rules[i].match <=> f \in DOMAIN Rules[j].match
  BY <1>2, <1>4
<1> QED
  BY <1>1, <1>5

(* Any two rules that could answer for a key agree on class and confidence,*)
(* so which of them the sort puts first, and the order in which the rows   *)
(* were written, decides nothing about the money (classifier.py:107-119,   *)
(* _reject_ambiguous).                                                     *)
THEOREM AnswerIsUnambiguous ==
    ASSUME NEW key, ~_reject_ambiguous,
           NEW i \in Candidates(key), NEW j \in Candidates(key)
    PROVE  outcome(Rules[i]) = outcome(Rules[j])
<1>1. /\ i \in DOMAIN Rules /\ j \in DOMAIN Rules
      /\ matches(Rules[i], key) /\ matches(Rules[j], key)
      /\ precedence(Rules[i]) <= precedence(Rules[j])
      /\ precedence(Rules[j]) <= precedence(Rules[i])
  BY DEF Candidates
<1>2. precedence(Rules[i]) = precedence(Rules[j])
  <2>1. \A k \in DOMAIN Rules : precedence(Rules[k]) \in Nat
    BY DEF precedence, names
  <2> QED
    BY <1>1, <2>1
<1>3. conflicts_with(Rules[i], Rules[j]) /\ conflicts_with(Rules[j], Rules[i])
  BY <1>1, <1>2 DEF conflicts_with, matches
<1>4. i \in Int /\ j \in Int
  BY <1>1, ClassifierAssumption
<1>5. CASE i < j
  BY <1>1, <1>3, <1>5 DEF _reject_ambiguous
<1>6. CASE j < i
  BY <1>1, <1>3, <1>6 DEF _reject_ambiguous
<1> QED
  BY <1>4, <1>5, <1>6

(* And any two of them name the same fields with the same values: a key is *)
(* answered by one reading of the failure, not by a choice of readings.    *)
THEOREM CandidatesAreOneRule ==
    ASSUME NEW key, NEW i \in Candidates(key), NEW j \in Candidates(key)
    PROVE  /\ DOMAIN Rules[i].match = DOMAIN Rules[j].match
           /\ \A f \in DOMAIN Rules[i].match : Rules[i].match[f] = Rules[j].match[f]
<1>1. /\ i \in DOMAIN Rules /\ j \in DOMAIN Rules
      /\ matches(Rules[i], key) /\ matches(Rules[j], key)
      /\ precedence(Rules[i]) <= precedence(Rules[j])
      /\ precedence(Rules[j]) <= precedence(Rules[i])
  BY DEF Candidates
<1>2. precedence(Rules[i]) = precedence(Rules[j])
  <2>1. \A k \in DOMAIN Rules : precedence(Rules[k]) \in Nat
    BY DEF precedence, names
  <2> QED
    BY <1>1, <2>1
<1>3. DOMAIN Rules[i].match = DOMAIN Rules[j].match
  BY <1>1, <1>2, PrecedenceNamesFields
<1> QED
  BY <1>1, <1>3 DEF matches
-----------------------------------------------------------------------------
(* Enrichment and the contact.                                             *)

Reading ==
    [failure_class : FailureClass, band : ConfidenceBand, mapped : BOOLEAN,
     cause_family : {Absent} \cup {families[m] : m \in DOMAIN families},
     source_undocumented : BOOLEAN]

(* C13's promise: whatever the text and the model say, a refined reading   *)
(* is looked up to the same cell, spends what it spent and may exclude what*)
(* it might; only the family differs, and only on a LOW reading that had   *)
(* none (enrich.py, refine).                                               *)
THEOREM RefineChangesContentOnly ==
    ASSUME NEW reading \in Reading, NEW observations
    PROVE  LET refined == refine(reading, observations)
           IN  /\ refined = [reading EXCEPT !.cause_family = refined.cause_family]
               /\ lookup(refined.failure_class, refined.band)
                    = lookup(reading.failure_class, reading.band)
               /\ may_exclude_instrument(refined) <=> may_exclude_instrument(reading)
               /\ refined # reading => reading.band = "LOW" /\ reading.cause_family = Absent
<1> DEFINE chosen == CHOOSE f \in mapped_families(observations.markers) : TRUE
<1>1. CASE refine(reading, observations) = reading
  <2>1. reading = [reading EXCEPT !.cause_family = reading.cause_family]
    BY DEF Reading
  <2> QED
    BY <1>1, <2>1
<1>2. CASE refine(reading, observations) # reading
  <2>1. /\ refine(reading, observations) = [reading EXCEPT !.cause_family = chosen]
        /\ reading.band = "LOW" /\ reading.cause_family = Absent
    BY <1>2 DEF refine
  <2> HIDE DEF chosen
  <2>2. LET refined == [reading EXCEPT !.cause_family = chosen]
        IN  /\ refined.failure_class = reading.failure_class /\ refined.band = reading.band
            /\ refined.cause_family = chosen
    BY DEF Reading
  <2> QED
    BY <2>1, <2>2 DEF may_exclude_instrument
<1> QED
  BY <1>1, <1>2

(* The parse that was committed is the parse that is read: once the model  *)
(* has answered, the same text yields the same markers, with the network or*)
(* without and whatever the model would say now (enrich.py, observe).      *)
THEOREM CachedAnswerRepeats ==
    ASSUME NEW file, NEW allowed \in BOOLEAN, NEW answer,
           NEW again \in BOOLEAN, NEW other,
           observe(file, allowed, answer).source \in {"model", "cache"},
           Readable(write_cache(file, allowed, answer))
    PROVE  observe(write_cache(file, allowed, answer), again, other).markers
             = observe(file, allowed, answer).markers
<1>1. CASE Readable(file)
  BY <1>1 DEF write_cache, observe
<1>2. CASE ~Readable(file)
  <2>1. observe(file, allowed, answer) = Observations(answer \cap MARKERS, "model")
    BY <1>2 DEF observe, call_model, Observations
  <2>2. write_cache(file, allowed, answer) = answer \cap MARKERS
    BY <1>2, <2>1 DEF write_cache, Observations
  <2>3. observe(answer \cap MARKERS, again, other) = read_cache(answer \cap MARKERS)
    BY <2>2 DEF observe
  <2> QED
    BY <2>1, <2>2, <2>3 DEF read_cache, Observations
<1> QED
  BY <1>1, <1>2

(* A page built with the order of the graph never leaves the customer      *)
(* without a method; it hides the failed one only on a HIGH reading of     *)
(* TERMINAL, and then shows exactly the legal targets of a migration       *)
(* (rail_actions.py, build_shaping).                                       *)
THEOREM ShapingLeavesAWay ==
    ASSUME NEW reading, NEW rail \in Methods
    PROVE  LET shaping == build_shaping(reading, rail, default_order(rail))
           IN  /\ Payable(shaping) # {}
               /\ shaping.excluded # {} =>
                     /\ reading.band = "HIGH" /\ reading.failure_class = "TERMINAL"
                     /\ \A m \in Methods : m \in Payable(shaping) <=> migration_offer(rail, m)
<1>1. /\ migration_targets(rail) # {} /\ rail \notin migration_targets(rail)
      /\ \A m \in Methods : m \in migration_targets(rail) <=> migration_offer(rail, m)
  BY DEF migration_targets, migration_offer, MIGRATION_GRAPH, Methods
<1>2. default_order(rail) \ {rail} = migration_targets(rail)
  BY <1>1 DEF default_order
<1>3. Methods # {}
  BY DEF Methods
<1>4. CASE may_exclude_instrument(reading) /\ degraded(reading.failure_class)
  BY <1>1, <1>2, <1>4 DEF build_shaping, Payable, may_exclude_instrument, degraded
<1>5. CASE ~(may_exclude_instrument(reading) /\ degraded(reading.failure_class))
  BY <1>3, <1>5 DEF build_shaping, Payable
<1> QED
  BY <1>4, <1>5

(* The argument preferred_order is not held to that: an order that names   *)
(* the failed method alone leaves a page on which nothing can be paid.     *)
THEOREM OrderMayStrand ==
    ASSUME NEW reading, NEW rail \in Methods,
           reading.band = "HIGH", reading.failure_class = "TERMINAL"
    PROVE  Payable(build_shaping(reading, rail, {rail})) = {}
BY DEF build_shaping, Payable, may_exclude_instrument, degraded

(* Arm C and the page judge exclusion apart (rail_actions.py:32-34 warns   *)
(* of "two places that could disagree").  Over the cells that contact, they*)
(* disagree on exactly one: the HIGH reading of ATTENTION, for which the   *)
(* arm says exclude and the page removes nothing.                          *)
THEOREM ShapingsDisagreeOnAttention ==
    ASSUME NEW reading \in Reading, NEW rail \in Methods, NEW order,
           ~spends_execution(lookup(reading.failure_class, reading.band))
    PROVE  build_shaping(reading, rail, order).action # _shaping(reading)
             <=> reading.band = "HIGH" /\ reading.failure_class = "ATTENTION"
<1>1. build_shaping(reading, rail, order).action =
        IF may_exclude_instrument(reading) /\ degraded(reading.failure_class)
        THEN "EXCLUDE_INSTRUMENT" ELSE "REORDER_RAILS"
  BY DEF build_shaping
<1>2. reading.failure_class \in FailureClass /\ reading.band \in ConfidenceBand
  BY DEF Reading
<1>3. CASE reading.failure_class \in {"INFRASTRUCTURE", "LIQUIDITY"}
  <2>1. reading.band = "LOW"
    BY <1>3 DEF lookup, spends_execution
  <2> QED
    BY <1>1, <1>3, <2>1 DEF may_exclude_instrument, degraded, _shaping
<1>4. CASE reading.failure_class = "ATTENTION"
  BY <1>1, <1>4 DEF may_exclude_instrument, degraded, _shaping
<1>5. CASE reading.failure_class = "TERMINAL"
  BY <1>1, <1>5 DEF may_exclude_instrument, degraded, _shaping
<1> QED
  BY <1>2, <1>3, <1>4, <1>5 DEF FailureClass

(* What free text finds never makes the message a card change, dead        *)
(* instrument or not: a refined reading is LOW, its contact is the generic *)
(* link, and the only families that change its words are about funds or    *)
(* the customer's UPI application (messaging.py, draft_message).           *)
THEOREM RefinedWordsStayGeneric ==
    ASSUME NEW reading \in Reading, NEW observations,
           refine(reading, observations) # reading
    PROVE  LET refined == refine(reading, observations)
               kind == contact_kind(refined.failure_class, refined.band)
           IN  /\ kind = GENERIC_LINK
               /\ draft_message(refined, kind) \in
                      {<<GENERIC_LINK>>, <<GENERIC_LINK, "funding">>,
                       <<GENERIC_LINK, "funds_committed">>, <<GENERIC_LINK, "psp_capability">>}
<1> DEFINE refined == refine(reading, observations)
<1>1. refined.band = "LOW"
  <2>1. reading.band = "LOW"
    BY DEF refine
  <2>2. \A f : [reading EXCEPT !.cause_family = f].band = reading.band
    BY DEF Reading
  <2> QED
    BY <2>1, <2>2 DEF refine
<1>2. contact_kind(refined.failure_class, refined.band) = GENERIC_LINK
  BY <1>1 DEF contact_kind, GENERIC_LINK
<1>3. ASSUME NEW family
      PROVE  <<GENERIC_LINK, family>> \in _REFINED =>
                 family \in {"funding", "funds_committed", "psp_capability"}
  BY DEF _REFINED, GENERIC_LINK, CARD_CHANGE, DIFFERENT_CHANNEL
<1> HIDE DEF refined
<1>4. draft_message(refined, GENERIC_LINK) \in
          {<<GENERIC_LINK>>, <<GENERIC_LINK, "funding">>,
           <<GENERIC_LINK, "funds_committed">>, <<GENERIC_LINK, "psp_capability">>}
  BY <1>3 DEF draft_message, _BASE
<1> QED
  BY <1>2, <1>4 DEF refined
-----------------------------------------------------------------------------
(* The live path.                                                          *)

Cell(snapshot) == LET reading == _classify(snapshot)
                  IN  lookup(reading.failure_class, reading.band)

(* The worker refines what the classifier said, but its class and its band *)
(* are the classifier's own.                                               *)
LEMMA RefinedOnly ==
    ASSUME NEW snapshot
    PROVE  LET reading == classify(normalize_entity(snapshot))
           IN  /\ _classify(snapshot).failure_class = reading.failure_class
               /\ _classify(snapshot).band = reading.band
<1> DEFINE reading == classify(normalize_entity(snapshot))
           seen == observe(snapshot.file, FALSE, NoAnswer)
           chosen == CHOOSE f \in mapped_families(seen.markers) : TRUE
<1>1. _classify(snapshot) \in {reading, [reading EXCEPT !.cause_family = chosen]}
  BY DEF _classify, refine
<1>2. \/ \E rule, key : reading = _from_rule(rule, key)
      \/ \E key : reading = _fallback(key)
  BY DEF classify
<1>3. /\ [reading EXCEPT !.cause_family = chosen].failure_class = reading.failure_class
      /\ [reading EXCEPT !.cause_family = chosen].band = reading.band
  <2> HIDE DEF reading, chosen
  <2>1. CASE \E rule, key : reading = _from_rule(rule, key)
    BY <2>1 DEF _from_rule
  <2>2. CASE \E key : reading = _fallback(key)
    BY <2>2 DEF _fallback
  <2> QED
    BY <1>2, <2>1, <2>2
<1> QED
  BY <1>1, <1>3

(* "The two agree by construction" (wiring.py:126): what is decided is the *)
(* cell of the reading that the trail records, unless the cap, the contact *)
(* limit or the calendar stops it.                                         *)
THEOREM DecidesOnTheRecordedReading ==
    ASSUME NEW snapshot, NEW n, NEW t
    PROVE  decide(snapshot, n, t) \in {Cell(snapshot), "HOLD", "SURRENDER"}
<1> DEFINE view == case_view_from_snapshot(snapshot, n)
           reading == classify(normalize_entity(snapshot))
           cell == lookup(reading.failure_class, reading.band)
<1>1. cell = Cell(snapshot)
  BY RefinedOnly DEF Cell
<1>2. view.observed = snapshot
  BY DEF case_view_from_snapshot
<1>3. decide(snapshot, n, t) =
        (IF spends_execution(cell)
         THEN _plan_execution("SystemInitiatedOnly", view, t, reading)
         ELSE _plan_contact(view, t, cell)).action
  BY <1>2, Zenon DEF decide, plan_at, plan, adjusts_cell
<1> HIDE DEF view, reading, cell
<1>4. CASE spends_execution(cell)
  <2>1. _plan_execution("SystemInitiatedOnly", view, t, reading).action
          \in {"SCHEDULE_AT", "HOLD", "SURRENDER"}
    BY DEF _plan_execution, Plan
  <2> QED
    BY <1>1, <1>3, <1>4, <2>1 DEF spends_execution
<1>5. CASE ~spends_execution(cell)
  <2>1. _plan_contact(view, t, cell).action \in {cell, "SURRENDER"}
    BY DEF _plan_contact, Plan
  <2> QED
    BY <1>1, <1>3, <1>5, <2>1 DEF spends_execution
<1> QED
  BY <1>4, <1>5

(* The slot hook plans anew (wiring.py:95-109), by a later clock.  What it *)
(* finds belongs to the decision all the same: a slot only where the first *)
(* plan scheduled or held, and none only if the calendar has none.         *)
THEOREM SlotBelongsToDecision ==
    ASSUME NEW snapshot, NEW n, NEW t, NEW later
    PROVE  /\ execution_slot(snapshot, n, later) # None =>
                 decide(snapshot, n, t) \in {"SCHEDULE_AT", "HOLD"}
           /\ decide(snapshot, n, t) = "SCHEDULE_AT" =>
                 decide(snapshot, n, later) \in {"SCHEDULE_AT", "HOLD"}
<1> DEFINE view == case_view_from_snapshot(snapshot, n)
           reading == classify(normalize_entity(snapshot))
           cell == lookup(reading.failure_class, reading.band)
           planned(at) == IF spends_execution(cell)
                          THEN _plan_execution("SystemInitiatedOnly", view, at, reading)
                          ELSE _plan_contact(view, at, cell)
<1>1. view.observed = snapshot /\ view.attempts_used = n
  BY DEF case_view_from_snapshot
<1>2. plan_at(snapshot, n, t) = planned(t) /\ plan_at(snapshot, n, later) = planned(later)
  BY <1>1, Zenon DEF plan_at, plan, adjusts_cell
<1> HIDE DEF view, reading, cell
<1>3. CASE spends_execution(cell)
  <2>1. CASE n >= AttemptCap
    <3>1. /\ planned(t) = Plan("SURRENDER", <<>>)
          /\ planned(later) = Plan("SURRENDER", <<>>)
      BY <1>1, <1>3, <2>1 DEF _plan_execution, executions_used
    <3> QED
      BY <1>2, <3>1 DEF decide, execution_slot, Plan
  <2>2. CASE ~(n >= AttemptCap)
    <3>1. /\ planned(t).action \in {"HOLD", "SCHEDULE_AT"}
          /\ planned(later).action \in {"HOLD", "SCHEDULE_AT"}
      BY <1>1, <1>3, <2>2 DEF _plan_execution, executions_used, Plan
    <3> QED
      BY <1>2, <3>1 DEF decide
  <2> QED
    BY <2>1, <2>2
<1>4. CASE ~spends_execution(cell)
  <2>1. /\ planned(t).action # "SCHEDULE_AT"
        /\ \/ planned(later).proposals = <<>>
           \/ \E at : planned(later).proposals = <<Contact(at)>>
    BY <1>4 DEF _plan_contact, Plan, spends_execution
  <2>2. planned(later).proposals # <<>> => planned(later).proposals[1].kind # "EXECUTION"
    <3>1. ASSUME NEW at, planned(later).proposals = <<Contact(at)>>
          PROVE  planned(later).proposals[1].kind = "CONTACT"
      <4> HIDE DEF planned
      <4> QED
        BY <3>1 DEF Contact
    <3> QED
      BY <2>1, <3>1
  <2>3. execution_slot(snapshot, n, later) = None
    BY <1>2, <2>2 DEF execution_slot
  <2> QED
    BY <1>2, <2>1, <2>3 DEF decide
<1> QED
  BY <1>3, <1>4

(* The guard has nothing to count with on this path (worker.py:400-412): a *)
(* contact is admitted however many went before it and however lately.     *)
(* wiring.py:22-25 says that the guard still enforces the budget.          *)
THEOREM ContactsAreNeverRefused ==
    ASSUME NEW snapshot, NEW n, NEW t, NEW action, action # "SCHEDULE_AT", ContactBudget # 0
    PROVE  check(request(snapshot, n, action, t)) = "allowed"
<1> DEFINE r == request(snapshot, n, action, t)
<1>1. /\ r.kind = "CONTACT" /\ r.settled = FALSE /\ r.has_order = TRUE
      /\ r.order_expires_at = None /\ r.execute_at = None
      /\ r.contacts_seen = 0 /\ r.last_contact_at = None
  BY DEF request, OBLIGATION_KIND
<1> HIDE DEF r
<1>2. _order(r) = "allowed"
  BY <1>1 DEF _order
<1>3. _contact(r) = "allowed"
  BY <1>1, GuardAssumption DEF _contact
<1>4. check(r) = "allowed"
  BY <1>1, <1>2, <1>3 DEF check
<1> QED
  BY <1>4 DEF r

(* A payment whose reading in the trail is LOW never costs an execution,   *)
(* whatever the text added to it.                                          *)
LowSpendsNothing ==
    \A d \in decisions : d.reading.band = "LOW" => d.action # "SCHEDULE_AT"

(* The decision in work is on its own reading.                             *)
JobOnItsReading ==
    job # None /\ job.reading.band = "LOW" => job.action # "SCHEDULE_AT"

THEOREM LowReadingsSpendNothing == Spec => []LowSpendsNothing
<1>1. Init => LowSpendsNothing /\ JobOnItsReading
  BY DEF Init, LowSpendsNothing, JobOnItsReading
<1>2. LowSpendsNothing /\ JobOnItsReading /\ [Next]_vars
        => (LowSpendsNothing /\ JobOnItsReading)'
  <2> SUFFICES ASSUME LowSpendsNothing, JobOnItsReading, [Next]_vars
               PROVE  (LowSpendsNothing /\ JobOnItsReading)'
    OBVIOUS
  <2>1. ASSUME NEW p \in Payments, NEW snapshot \in Snapshots, Decide(p, snapshot)
        PROVE  (LowSpendsNothing /\ JobOnItsReading)'
    <3>1. PICK n : /\ job'.reading = _classify(snapshot)
                   /\ job'.action = decide(snapshot, n, now)
      BY <2>1 DEF Decide
    <3>2. _classify(snapshot).band = "LOW" => Cell(snapshot) = "RECOVERY_LINK"
      BY DEF Cell, lookup
    <3>3. JobOnItsReading'
      BY <3>1, <3>2, DecidesOnTheRecordedReading DEF JobOnItsReading
    <3> QED
      BY <2>1, <3>3 DEF Decide, LowSpendsNothing
  <2>2. CASE Record
    BY <2>2 DEF Record, LowSpendsNothing, JobOnItsReading
  <2>3. CASE GuardBlocks
    BY <2>3 DEF GuardBlocks, LowSpendsNothing, JobOnItsReading
  <2>4. CASE Tick
    BY <2>4 DEF Tick, LowSpendsNothing, JobOnItsReading
  <2>5. CASE UNCHANGED vars
    BY <2>5 DEF vars, LowSpendsNothing, JobOnItsReading
  <2> QED
    BY <2>1, <2>2, <2>3, <2>4, <2>5 DEF Next
<1> QED
  BY <1>1, <1>2, PTL DEF Spec
=============================================================================
