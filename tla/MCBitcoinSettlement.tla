-------------------------- MODULE MCBitcoinSettlement --------------------------
(* Small instances of BitcoinSettlement for TLC.  Tabs and operation ids    *)
(* are interchangeable in it.                                               *)
EXTENDS BitcoinSettlement, TLC

Symmetry == Permutations(Tabs) \cup Permutations(Ops)
===============================================================================
