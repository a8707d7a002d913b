------------------------ MODULE MCConcurrentDownload ------------------------
(***************************************************************************)
(* Instances of ConcurrentDownload: any two events, on a preallocated      *)
(* output and on a partial output found without a control file; any event  *)
(* without --continue; three refusals, which spend the retries of a piece  *)
(* while its work item has some left; a disk that takes no checkpoint      *)
(* before the gaps are filled.                                             *)
(***************************************************************************)
EXTENDS ConcurrentDownload

MCOptions ==
    {[continue |-> TRUE, prealloc |-> TRUE, found |-> 0, runs |-> 2, max |-> 2, events |-> Kinds],
     [continue |-> TRUE, prealloc |-> FALSE, found |-> 1, runs |-> 2, max |-> 2, events |-> Kinds],
     [continue |-> FALSE, prealloc |-> FALSE, found |-> 0, runs |-> 2, max |-> 1, events |-> Kinds],
     [continue |-> TRUE, prealloc |-> FALSE, found |-> 0, runs |-> 1, max |-> 3,
      events |-> {"tooLarge", "missing", "save", "sync"}],
     [continue |-> TRUE, prealloc |-> FALSE, found |-> 0, runs |-> 1, max |-> 4,
      events |-> {"range416", "save", "gap", "halt"}]}
=============================================================================
