--------------------------- MODULE AuthoredConfig ---------------------------
(***************************************************************************)
(* The authored configuration, shared by the instances that read it:       *)
(* config/default.yaml, the rules of config/classifier.yaml that a key of  *)
(* EMISSIONS can meet, and EMISSIONS itself.                               *)
(***************************************************************************)
EXTENDS Arms, TLC

ConfigPeaks == {<<600, 780>>, <<1020, 1290>>}
Lead == [r \in Rails |-> IF r = "card" THEN 36 ELSE 25]
Funding == {1, 2, 3, 28, 29, 30, 31}

Rule(m, c, f) == [match |-> m, class |-> c, confidence |-> f, family |-> Absent,
                  deliberate |-> f < 60]
Full(m, so, st, re) == [method |-> m, source |-> so, step |-> st, reason |-> re]

AuthoredRules == <<
    Rule([method |-> "upi", step |-> "payment_authentication"], "ATTENTION", 90),
    Rule([method |-> "upi", step |-> "payment_initiation"], "INFRASTRUCTURE", 88),
    Rule([method |-> "upi", source |-> "customer_psp", step |-> "payment_debit_response"],
         "LIQUIDITY", 92),
    Rule([method |-> "card", source |-> "issuer_bank", reason |-> "payment_expired_card"],
         "TERMINAL", 99),
    Rule(Full("upi", "beneficiary_bank", "payment_debit_response", "mandate_revoked"),
         "TERMINAL", 45),
    Rule(Full("emandate", "bank", "payment_debit_response", "mandate_revoked"), "TERMINAL", 45),
    Rule(Full("card", "customer", "payment_authentication", "payment_ux_canceled"),
         "ATTENTION", 45),
    Rule(Full("emandate", "customer", "payment_authentication", "payment_ux_canceled"),
         "ATTENTION", 45),
    Rule(Full("card", "gateway", "payment_initiation", "gateway_technical_error"),
         "INFRASTRUCTURE", 50),
    Rule(Full("emandate", "gateway", "payment_initiation", "gateway_technical_error"),
         "INFRASTRUCTURE", 50),
    Rule(Full("card", "issuer_bank", "payment_authorization", "insufficient_funds"),
         "LIQUIDITY", 93),
    Rule(Full("emandate", "bank", "payment_debit_response", "insufficient_funds"),
         "LIQUIDITY", 93) >>

Row(i, l, a, t) == ("INFRASTRUCTURE" :> i) @@ ("LIQUIDITY" :> l) @@ ("ATTENTION" :> a)
                      @@ ("TERMINAL" :> t)
Costs == Row(Row(0, 1, 1, 3), Row(1, 0, 1, 3), Row(3, 3, 0, 3), Row(10, 10, 4, 0))
PerContact == Row(2, 2, 1, 6)

Emitted(m, broke, ending) ==
    Row(Full(m, "gateway", "payment_initiation", "gateway_technical_error"), broke,
        Full(m, "customer", "payment_authentication", "payment_ux_canceled"), ending)

AuthoredEmissions ==
    "upi" :> Emitted("upi",
        Full("upi", "customer_psp", "payment_debit_response", "insufficient_funds"),
        Full("upi", "beneficiary_bank", "payment_debit_response", "mandate_revoked")) @@
    "card" :> Emitted("card",
        Full("card", "issuer_bank", "payment_authorization", "insufficient_funds"),
        Full("card", "issuer_bank", "payment_authorization", "payment_expired_card")) @@
    "emandate" :> Emitted("emandate",
        Full("emandate", "bank", "payment_debit_response", "insufficient_funds"),
        Full("emandate", "bank", "payment_debit_response", "mandate_revoked"))

Steps == "upi" :> {"payment_initiation", "payment_authentication", "payment_debit_response"} @@
         "card" :> {"payment_initiation", "payment_authentication", "payment_authorization"} @@
         "emandate" :> {"payment_initiation", "payment_authentication", "payment_debit_response"}
NoSpace == [m \in {} |-> {}]

ASSUME AuthoredTableLoads == load_classifier
ASSUME LowIsTerminal == safest_class = "TERMINAL"
=============================================================================
