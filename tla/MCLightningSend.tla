---------------------------- MODULE MCLightningSend ----------------------------
(* Small instances of LightningSend for TLC.  The pages are alike, which    *)
(* only an instance without a liveness property may use.                    *)
EXTENDS LightningSend, TLC

Symmetry == Permutations(Pages)
===============================================================================
