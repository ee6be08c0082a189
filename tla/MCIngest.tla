------------------------------ MODULE MCIngest ------------------------------
(***************************************************************************)
(* Ingest on a short history.  Which blocks hold rewards is fixed, so that *)
(* holes between rewards and restakes inside them both occur.              *)
(***************************************************************************)
EXTENDS Ingest

OddRewards ==
    [b \in 1..MaxBlock |-> IF b % 2 = 1 THEN {"reward"}
                          ELSE IF b % 4 = 0 THEN {"other"} ELSE {"restake"}]

AnyKind == [b \in 1..MaxBlock |-> {"reward", "restake", "other"}]
=============================================================================
