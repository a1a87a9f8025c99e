---------------------------- MODULE MCEventCore ----------------------------
(***************************************************************************)
(* Small instances of EventCore.                                           *)
(*   Race    two workers, two payments of one order, an event for each     *)
(*   Deploy  two workers of different policy versions, one payment, a      *)
(*           payload without a payment id, and a delivery that is filtered *)
(***************************************************************************)
EXTENDS EventCore, TLC

CONSTANTS e1, e2, e3, p1, p2, o1, w1, w2, v1, v2

Accepted   == [e \in Events |-> "payment.failed"]
OneOrder   == [p \in Payments |-> o1]
NoOrders   == [p \in Payments |-> NoOrder]
OneVersion == [w \in Workers |-> v1]

OnePayment == [e \in Events |-> p1]
AllAtOne   == [e \in Events |-> 1]

RacePayment  == e1 :> p1 @@ e2 :> p2
RaceTime     == e1 :> 1 @@ e2 :> 2
RaceSymmetry == Permutations(Workers)

DeployKind    == [e \in Events |-> IF e = e3 THEN "filtered" ELSE "payment.failed"]
DeployPayment == e1 :> p1 @@ e2 :> NoPayment @@ e3 :> p1
DeployTime    == e1 :> 1 @@ e2 :> 2 @@ e3 :> 1
DeployVersion == w1 :> v1 @@ w2 :> v2
=============================================================================
