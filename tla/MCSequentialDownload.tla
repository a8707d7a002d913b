------------------------ MODULE MCSequentialDownload ------------------------
(***************************************************************************)
(* Instances of SequentialDownload.                                        *)
(***************************************************************************)
EXTENDS SequentialDownload
=============================================================================
