-------------------------------- MODULE MCMaster --------------------------------
(* Instances of Master for TLC: the slices are model values.                *)
EXTENDS Master

CONSTANTS a, b
================================================================================
