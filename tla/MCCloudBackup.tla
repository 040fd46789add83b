----------------------------- MODULE MCCloudBackup -----------------------------
(* Small instances of CloudBackup for TLC.  The devices, the tabs of each   *)
(* one and the records are interchangeable in it.                           *)
EXTENDS CloudBackup, TLC

Symmetry ==
    Permutations(Devices) \cup Permutations(Records) \cup Permutations(Tabs)
===============================================================================
