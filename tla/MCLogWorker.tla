---------------------------- MODULE MCLogWorker ----------------------------
(* Small instances of LogWorker for TLC. *)
EXTENDS LogWorker

CONSTANTS l1, l2
=============================================================================
