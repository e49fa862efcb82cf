----------------------------- MODULE MCKvCache -----------------------------
(***************************************************************************)
(* Instances of KvCache for TLC.                                           *)
(***************************************************************************)
EXTENDS KvCache
BackOne == {-1}
=============================================================================
