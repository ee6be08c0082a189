---------------------------- MODULE MCEpochStats ----------------------------
(* The epoch collector on epochs of two batches of two blocks. *)
EXTENDS EpochStats
=============================================================================
