------------------------------ MODULE MCFraud -------------------------------
(* Small instances of Fraud: amounts and counters on both sides of every threshold,
   with the thresholds of settings.py scaled down for the amounts. *)
EXTENDS Fraud, TLC

AmountBands == {1, 10, 50}
CounterBands == {-1, 2, 3, 5}
Sequels == Permutations(Transactions)
=============================================================================
