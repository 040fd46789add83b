-------------------------- MODULE MCSpendingOperation --------------------------
(* Small instances of SpendingOperation for TLC.  Tabs, operation ids and   *)
(* payments are interchangeable in it.                                      *)
EXTENDS SpendingOperation, TLC

Symmetry == Permutations(Tabs) \cup Permutations(Ops) \cup Permutations(Payments)
===============================================================================
