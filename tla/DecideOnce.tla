----------------------------- MODULE DecideOnce -----------------------------
(***************************************************************************)
(* What the event core promises, without saying how: every payment gets a  *)
(* position on its attempt chain, once; and under each policy version it   *)
(* gets at most one decision, taken at that position and never rewritten.  *)
(* store.py keeps the promise with chain_attempts and the decisions table; *)
(* EventCore shows that webhooks, workers, crashes and reclaims respect it.*)
(***************************************************************************)
EXTENDS Integers

CONSTANTS
    Payments,     \* payments the gateway knows
    Versions,     \* policy versions a worker may run
    Actions,      \* what a decision may say
    ChainOf(_)    \* the attempt chain a payment belongs to

VARIABLES
    attempt_n,    \* [Payments -> Nat]: position on the chain, 0 before the first sight
    decisions     \* the rulings made so far

ledgerVars == <<attempt_n, decisions>>

(* A ruling: the columns of the decisions table a property tells apart.    *)
Ruling == [payment: Payments, version: Versions, attempt_n: Nat \ {0}, action: Actions]

OnChain(p) == {q \in Payments : ChainOf(q) = ChainOf(p)}

Init ==
    /\ attempt_n = [p \in Payments |-> 0]
    /\ decisions = {}

(* A payment seen for the first time takes the next position of its chain. *)
Enrol(p) ==
    /\ attempt_n[p] = 0
    /\ \E k \in {attempt_n[q] + 1 : q \in OnChain(p)} :
          /\ \A q \in OnChain(p) : attempt_n[q] < k
          /\ attempt_n' = [attempt_n EXCEPT ![p] = k]
    /\ UNCHANGED decisions

(* One ruling per payment and policy version, at the payment's position.   *)
Rule(p, v, a) ==
    /\ attempt_n[p] # 0
    /\ \A d \in decisions : ~(d.payment = p /\ d.version = v)
    /\ decisions' = decisions \cup
          {[payment |-> p, version |-> v, attempt_n |-> attempt_n[p], action |-> a]}
    /\ UNCHANGED attempt_n

Next ==
    \E p \in Payments :
        \/ Enrol(p)
        \/ \E v \in Versions, a \in Actions : Rule(p, v, a)

Spec == Init /\ [][Next]_ledgerVars
=============================================================================
