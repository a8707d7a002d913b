--------------------------- MODULE MCCommandChannel ---------------------------
(***************************************************************************)
(* Instances of CommandChannel.                                            *)
(***************************************************************************)
EXTENDS CommandChannel

CONSTANTS q1, q2
=============================================================================
