--------------------------- MODULE MCRestakeBatch ---------------------------
(* The batch scan over every short table of rows. *)
EXTENDS RestakeBatch
=============================================================================
