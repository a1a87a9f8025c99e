---------------------------- MODULE HorizonProofs ----------------------------
(***************************************************************************)
(* The verdict "overtakes at so many months" against the values it stands  *)
(* for, for all arms, months and values.                                   *)
(***************************************************************************)
EXTENDS Horizon, TLAPS

(* What the difference in mandates is worth after L months.                *)
gain(c, i, L) == preserved_gap(c, i) * (monthly_value * L)

Compared(c, i, L) ==
    /\ value_paise(c, L) - value_paise(i, L) = gain(c, i, L) - cycle_gap(c, i)
    /\ value_paise(c, L) \in Int /\ value_paise(i, L) \in Int
    /\ preserved_gap(c, i) \in Int /\ cycle_gap(c, i) \in Int
    /\ gain(c, i, L) \in Int
    /\ preserved_gap(c, i) >= 0 => gain(c, i, L) >= 0
    /\ preserved_gap(c, i) <= 0 => gain(c, i, L) <= 0

LEMMA Difference ==
    ASSUME NEW c \in ArmBooks, NEW i \in ArmBooks, NEW L \in Nat, monthly_value \in Nat
    PROVE  Compared(c, i, L)
<1>1. monthly_value * L \in Nat
  OBVIOUS
<1>2. c.cycle \in Nat /\ c.preserved \in Nat /\ i.cycle \in Nat /\ i.preserved \in Nat
  BY DEF ArmBooks
<1>3. \A a, b, u, p, q \in Nat :
        /\ (a + p * u) - (b + q * u) = (p - q) * u - (b - a)
        /\ a + p * u \in Int /\ b + q * u \in Int
  OBVIOUS
<1>4. \A p \in Int, u \in Nat :
        p * u \in Int /\ (p >= 0 => p * u >= 0) /\ (p <= 0 => p * u <= 0)
  OBVIOUS
<1>5. preserved_gap(c, i) \in Int /\ cycle_gap(c, i) \in Int
  BY <1>2 DEF preserved_gap, cycle_gap
<1>6. /\ value_paise(c, L) - value_paise(i, L) = gain(c, i, L) - cycle_gap(c, i)
      /\ value_paise(c, L) \in Int /\ value_paise(i, L) \in Int
  <2> DEFINE u == monthly_value * L
  <2>1. u \in Nat
    BY <1>1
  <2> HIDE DEF u
  <2>2. (c.cycle + c.preserved * u) - (i.cycle + i.preserved * u)
          = (c.preserved - i.preserved) * u - (i.cycle - c.cycle)
    BY <2>1, <1>2, <1>3
  <2>3. c.cycle + c.preserved * u \in Int /\ i.cycle + i.preserved * u \in Int
    BY <2>1, <1>2, <1>3
  <2> QED
    BY <2>2, <2>3 DEF u, value_paise, gain, preserved_gap, cycle_gap
<1>7. /\ gain(c, i, L) \in Int
      /\ preserved_gap(c, i) >= 0 => gain(c, i, L) >= 0
      /\ preserved_gap(c, i) <= 0 => gain(c, i, L) <= 0
  BY <1>1, <1>4, <1>5 DEF gain
<1> QED
  BY <1>5, <1>6, <1>7 DEF Compared

(* Already ahead is ahead at every horizon.                                *)
THEOREM AheadAtEveryHorizon ==
    ASSUME NEW c \in ArmBooks, NEW i \in ArmBooks, monthly_value \in Nat, already_ahead(c, i)
    PROVE  \A L \in Nat : value_paise(c, L) >= value_paise(i, L)
<1> TAKE L \in Nat
<1>0. Compared(c, i, L)
  BY Difference
<1>1. cycle_gap(c, i) <= 0 /\ preserved_gap(c, i) >= 0
  BY DEF already_ahead
<1> QED
  BY <1>1, <1>0 DEF Compared

(* The number of months is exact: from there on, and not a month before,   *)
(* the challenger is worth at least as much.                               *)
THEOREM CrossoverIsExact ==
    ASSUME NEW c \in ArmBooks, NEW i \in ArmBooks, monthly_value \in Nat \ {0},
           ~already_ahead(c, i), ~never(c, i)
    PROVE  \A L \in Nat : wins_against(c, i, L) <=> value_paise(c, L) >= value_paise(i, L)
<1> TAKE L \in Nat
<1>0. Compared(c, i, L)
  BY Difference
<1>1. \A p \in Int, v \in Nat : L * (p * v) = p * (v * L)
  OBVIOUS
<1>2. preserved_gap(c, i) \in Int /\ monthly_value \in Nat /\ monthly_value > 0
  BY <1>0 DEF Compared
<1>3. L * (preserved_gap(c, i) * monthly_value) = gain(c, i, L)
  BY <1>1, <1>2 DEF gain
<1>4. wins_against(c, i, L) <=> cycle_gap(c, i) <= gain(c, i, L)
  BY <1>2, <1>3 DEF wins_against, _crossover_months
<1> QED
  BY <1>2, <1>4, <1>0 DEF Compared

(* A challenger that recovers less and preserves no more is behind at every*)
(* horizon, as horizon.py:199 says of the verdict "never".                 *)
THEOREM NeverWhenBehind ==
    ASSUME NEW c \in ArmBooks, NEW i \in ArmBooks, monthly_value \in Nat,
           never(c, i), cycle_gap(c, i) > 0
    PROVE  \A L \in Nat : value_paise(c, L) < value_paise(i, L)
<1> TAKE L \in Nat
<1>0. Compared(c, i, L)
  BY Difference
<1>1. preserved_gap(c, i) <= 0
  BY DEF never
<1> QED
  BY <1>1, <1>0 DEF Compared

(* But "never" is also the verdict on a challenger that recovers more and  *)
(* preserves fewer mandates, which is ahead until the mandates it lost have*)
(* made up for the money: the case that horizon.py:92-93 leaves out, and   *)
(* wins_against counts as lost at every horizon.                           *)
THEOREM NeverThoughAhead ==
    ASSUME NEW c \in ArmBooks, NEW i \in ArmBooks, monthly_value \in Nat,
           cycle_gap(c, i) < 0, preserved_gap(c, i) < 0
    PROVE  /\ never(c, i)
           /\ value_paise(c, 0) > value_paise(i, 0)
           /\ \A L \in Nat :
                 /\ ~wins_against(c, i, L)
                 /\ value_paise(c, L) >= value_paise(i, L) <=> gain(i, c, L) <= cycle_gap(i, c)
<1>0. Compared(c, i, 0)
  BY Difference
<1>1. preserved_gap(c, i) \in Int /\ cycle_gap(c, i) \in Int
  BY <1>0 DEF Compared
<1>2. never(c, i) /\ ~already_ahead(c, i)
  BY <1>1 DEF never, already_ahead
<1>3. value_paise(c, 0) > value_paise(i, 0)
  <2>1. \A p \in Int : p * (monthly_value * 0) = 0
    OBVIOUS
  <2>2. gain(c, i, 0) = 0
    BY <1>1, <2>1 DEF gain
  <2> QED
    BY <2>2, <1>0 DEF Compared
<1>4. ASSUME NEW L \in Nat
      PROVE  value_paise(c, L) >= value_paise(i, L) <=> gain(i, c, L) <= cycle_gap(i, c)
  <2>0. Compared(i, c, L)
    BY Difference
  <2>1. value_paise(i, L) - value_paise(c, L) = gain(i, c, L) - cycle_gap(i, c)
    BY <2>0 DEF Compared
  <2>2. /\ value_paise(c, L) \in Int /\ value_paise(i, L) \in Int
        /\ gain(i, c, L) \in Int /\ cycle_gap(i, c) \in Int
    BY <2>0 DEF Compared
  <2> QED
    BY <2>1, <2>2
<1> QED
  BY <1>2, <1>3, <1>4 DEF wins_against
=============================================================================
