---------------------------- MODULE MCCycleCarry ----------------------------
(***************************************************************************)
(* The windows of MCCycleClose with the history that CarryChain keeps.     *)
(***************************************************************************)
EXTENDS MCCycleClose, CycleCarry
=============================================================================
