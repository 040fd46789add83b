-------------------------- MODULE MCLightningReceive --------------------------
(* Small instances of LightningReceive for TLC. *)
EXTENDS LightningReceive
===============================================================================
