-------------------------- MODULE MCServerMemory --------------------------
(***************************************************************************)
(* ServerMemory with the default thresholds of WatermarkConfig, and with   *)
(* the largest and the smallest one documented for the slab.               *)
(***************************************************************************)
EXTENDS ServerMemory

MCConfigs ==
    {[hash_table |-> 80, extent_region |-> 85, slab_region |-> t] : t \in {0, 85, 100}}
=============================================================================
