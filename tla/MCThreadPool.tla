---------------------------- MODULE MCThreadPool ----------------------------
(* A small instance of ThreadPool for TLC. *)
EXTENDS ThreadPool

\* A matrix multiplication, a node to skip, and a plain operation that reads it.
SmallGraph == <<"mulmat", "empty", "plain">>
=============================================================================
