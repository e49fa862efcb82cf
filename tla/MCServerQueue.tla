--------------------------- MODULE MCServerQueue ---------------------------
(* Instances of ServerQueue for TLC: three requests, one or two slots.     *)
EXTENDS ServerQueue, TLC

CONSTANTS c1, c2, c3

TwoAndSlots       == c1 :> "COMPLETION" @@ c2 :> "COMPLETION" @@ c3 :> "SLOT_GET"
TwoAndMetrics     == c1 :> "COMPLETION" @@ c2 :> "COMPLETION" @@ c3 :> "METRICS"
CompletionSymmetry == Permutations({c1, c2})
=============================================================================
