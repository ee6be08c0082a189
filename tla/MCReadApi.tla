----------------------------- MODULE MCReadApi -----------------------------
(***************************************************************************)
(* The read API beside a scheduler that closes the windows of MCCycleClose *)
(* and can fail or stop once.                                              *)
(***************************************************************************)
EXTENDS MCCycleClose, ReadApi

MCPoolApi == {DataOf(w) : w \in {Skimmed, Unseen}}
=============================================================================
