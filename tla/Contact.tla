------------------------------- MODULE Contact -------------------------------
(***************************************************************************)
(* What a contact carries (recovery/enrich.py, rail_actions.py,            *)
(* messaging.py): the markers that free text adds to a reading, the        *)
(* checkout page that the customer opens and the template of the message.  *)
(* The order in which methods are promoted is layout; a page is the set of *)
(* the methods it names.                                                   *)
(***************************************************************************)
EXTENDS Arms

CONSTANTS
    MARKERS,        \* what the model may say of a text
    families        \* enrichment.families: [markers -> cause families]
-----------------------------------------------------------------------------
(* enrich.py.  The file that the cache holds for a text is NoFile, NotJson *)
(* or the set of strings it lists; the model answers with such a set or    *)
(* with nothing, on any failure.                                           *)
NoFile == "no file"
NotJson == "not json"
NoAnswer == "no answer"

Observations(markers, source) == [markers |-> markers, source |-> source]

Readable(file) == file \notin {NoFile, NotJson}

read_cache(file) == Observations(file \cap MARKERS, "cache")

call_model(answer) ==
    IF answer = NoAnswer THEN Observations({}, "unavailable") ELSE
    IF answer \cap MARKERS = {} THEN Observations({}, "malformed") ELSE
    Observations(answer \cap MARKERS, "model")

(* Cache first, the network only when allowed; the file that is left.      *)
observe(file, allow_network, answer) ==
    IF Readable(file) THEN read_cache(file) ELSE
    IF ~allow_network THEN Observations({}, "unavailable") ELSE call_model(answer)

write_cache(file, allow_network, answer) ==
    IF ~Readable(file) /\ observe(file, allow_network, answer).source = "model"
    THEN observe(file, allow_network, answer).markers ELSE file

mapped_families(markers) == {families[m] : m \in markers \cap DOMAIN families}

(* The band must be LOW, no family authored, and exactly one mapped.       *)
refine(reading, observations) ==
    LET mapped == mapped_families(observations.markers)
    IN  IF reading.band = "LOW" /\ reading.cause_family = Absent /\ \E f \in mapped : mapped = {f}
        THEN [reading EXCEPT !.cause_family = CHOOSE f \in mapped : TRUE]
        ELSE reading
-----------------------------------------------------------------------------
(* rail_actions.py.                                                        *)
Methods == {"card", "upi", "emandate"}

MIGRATION_GRAPH == [rail \in Methods |-> IF rail = "card" THEN Methods ELSE {"card"}]

migration_targets(rail) == MIGRATION_GRAPH[rail] \ {rail}

migration_offer(rail, target) == target \in MIGRATION_GRAPH[rail] /\ target # rail

default_order(rail) == migration_targets(rail) \cup {rail}

degraded(class) == class = "TERMINAL"

build_shaping(reading, rail, order) ==
    IF may_exclude_instrument(reading) /\ degraded(reading.failure_class)
    THEN [action |-> "EXCLUDE_INSTRUMENT", excluded |-> {rail}, promoted |-> order \ {rail}]
    ELSE [action |-> "REORDER_RAILS", excluded |-> {}, promoted |-> order]

(* _blocks_for: the default blocks are hidden when something is excluded.  *)
Payable(shaping) ==
    IF shaping.excluded # {} THEN shaping.promoted ELSE Methods

(* What arm C writes on its proposal (arm_c.py).                           *)
_shaping(reading) ==
    IF may_exclude_instrument(reading) THEN "EXCLUDE_INSTRUMENT" ELSE "REORDER_RAILS"
-----------------------------------------------------------------------------
(* messaging.py: the templates, by contact kind and cause family.          *)
GENERIC_LINK == "recovery_link"
CARD_CHANGE == "card_change_offer"
DIFFERENT_CHANNEL == "recovery_link_alternate_channel"

_BASE == {GENERIC_LINK, CARD_CHANGE, DIFFERENT_CHANNEL}

_REFINED ==
    {<<CARD_CHANGE, "instrument">>, <<CARD_CHANGE, "merchant_configuration">>,
     <<GENERIC_LINK, "funding">>, <<GENERIC_LINK, "funds_committed">>,
     <<GENERIC_LINK, "psp_capability">>, <<DIFFERENT_CHANNEL, "acknowledgement">>}

draft_message(reading, kind) ==
    IF <<kind, reading.cause_family>> \in _REFINED THEN <<kind, reading.cause_family>> ELSE
    IF kind \in _BASE THEN <<kind>> ELSE <<GENERIC_LINK>>
=============================================================================
