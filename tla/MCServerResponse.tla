-------------------------- MODULE MCServerResponse --------------------------
(* Instances of ServerResponse for TLC.                                    *)
EXTENDS ServerResponse, TLC

CONSTANTS r1, r2, t1, t2, t3

TwoAndOne == r1 :> {t1, t2} @@ r2 :> {t3}
=============================================================================
