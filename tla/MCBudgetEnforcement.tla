------------------------ MODULE MCBudgetEnforcement -------------------------
(* Instances of BudgetEnforcement for TLC. *)
EXTENDS BudgetEnforcement, TLC

CONSTANTS e1, e2, e3, x1, x2, daily, monthly

\* One event is small enough that its loss is within the 5 % tolerance.
CostsEven == [e \in Event |-> 4]
CostsUneven == [e \in Event |-> IF e = e1 THEN 40 ELSE 2]

OneProxy == [e \in Event |-> x1]
TwoProxies == [e \in Event |-> IF e = e1 THEN x1 ELSE x2]

\* A daily period is its day; all modelled days are in one month.
StartDay == [p \in Period |-> [d \in Day |-> IF p = daily THEN d ELSE 1]]

HardEight == [p \in Period |-> [amount |-> 8, hard |-> TRUE]]
HardFour == [p \in Period |-> [amount |-> 4, hard |-> TRUE]]
HardForty == [p \in Period |-> [amount |-> 40, hard |-> TRUE]]

\* Requests of the same proxy and the same cost are interchangeable.
SymmetryOne == Permutations(Event)
=============================================================================
