----------------------------- MODULE MCEngineLoop -----------------------------
(***************************************************************************)
(* Instances of EngineLoop: a Metalink pair m, p and plain downloads d, e. *)
(***************************************************************************)
EXTENDS EngineLoop

CONSTANTS d, e, m, p

MCMetadataOf == [g \in Gids |-> IF g = p THEN m ELSE NoGid]
QueueD == <<d>>
QueueMP == <<m, p>>
=============================================================================
