---------------------------- MODULE MCSessionSave ----------------------------
(* SessionSave for TLC: a is queued at the start, b as well or added.      *)
EXTENDS SessionSave

CONSTANTS a, b

NoMetadata == [g \in Gids |-> NoGid]
Queued(queue, paused, may, ops, saves, failures) ==
    [queue |-> queue, paused |-> paused,
     budget |-> [may |-> may, ops |-> ops, saves |-> saves, failures |-> failures]]
ClientsOnly == Queued(<<a>>, {}, OpNames, 2, 0, 0)
FailingSave == Queued(<<a>>, {}, OpNames, 1, 0, 1)
TwoSavers == Queued(<<a>>, {}, {}, 0, 1, 1)
PauseDuringSave == Queued(<<a>>, {}, {"Pause"}, 1, 1, 0)
FillDuringSave == Queued(<<a, b>>, {a}, {}, 0, 1, 0)
Mixed == {ClientsOnly, FailingSave, TwoSavers, PauseDuringSave, FillDuringSave}
=============================================================================
