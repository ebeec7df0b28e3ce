------------------------------ MODULE MCMasterLock ------------------------------
(* Instances of MasterLock for TLC.                                        *)
EXTENDS MasterLock
================================================================================
