----------------------------- MODULE MCSnapshot -----------------------------
(* Snapshot polls of a small pool around the start of an epoch. *)
EXTENDS EpochStart, TLC

CONSTANTS A, B, C
Symmetric == Permutations(Addrs)
=============================================================================
