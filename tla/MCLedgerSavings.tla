---------------------------- MODULE MCLedgerSavings ----------------------------
(* A small instance of LedgerSavings for TLC: two pages and two payments   *)
(* that spend a coin each.                                                 *)
EXTENDS LedgerSavings, TLC

CONSTANTS p1, p2, k1, k2, c1, c2, d1, d2

MCInputs == (c1 :> {k1}) @@ (c2 :> {k2})
MCDraft == (c1 :> d1) @@ (c2 :> d2)
MCDoes == (p1 :> {"review", "hardware", "observe"})
              @@ (p2 :> {"approve", "reopen"})
===============================================================================
