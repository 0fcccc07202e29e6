---------------------------- MODULE MCScanQueue ----------------------------
(***************************************************************************)
(* ScanQueue with two workers, two job rows and one request at a time.     *)
(***************************************************************************)
EXTENDS ScanQueue
=============================================================================
