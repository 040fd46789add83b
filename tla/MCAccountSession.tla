-------------------------- MODULE MCAccountSession --------------------------
(* AccountSession with the vaults as model values. *)
EXTENDS AccountSession, TLC

CONSTANTS v1, v2

=============================================================================
