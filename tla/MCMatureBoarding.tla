---------------------------- MODULE MCMatureBoarding ----------------------------
(* A small instance of MatureBoarding for TLC.                             *)
EXTENDS MatureBoarding, TLC

CONSTANTS k1, k2, s1, s2, s3, x1

(* Each deposit has a sweep of its own, s3 and s2; s1 and the rival spend  *)
(* both.                                                                   *)
MCInputs ==
    [t \in Sweeps \cup Rivals |->
        CASE t = s2 -> {k2} [] t = s3 -> {k1} [] OTHER -> {k1, k2}]
===============================================================================
