--------------------------- MODULE MCWorkScheduler ---------------------------
(***************************************************************************)
(* Values for the constants of WorkScheduler: one item may be attempted    *)
(* twice, one has no limit.                                                *)
(***************************************************************************)
EXTENDS WorkScheduler

CONSTANTS w1, w2, w3

MCAttempts == [i \in Ids |-> IF i = w2 THEN 0 ELSE 2]
=============================================================================
