-------------------------- MODULE MCServerModels --------------------------
(* Small instances of ServerModels for TLC. *)
EXTENDS ServerModels, TLC

CONSTANTS a, b, c, r1, r2, r3, r4

\* Two requests share a model, beside the load and unload routes.
SharedWants == r1 :> b @@ r2 :> b @@ r3 :> a @@ r4 :> a
SharedKind  == r1 :> "proxy" @@ r2 :> "proxy" @@ r3 :> "load" @@ r4 :> "unload"

\* Two requests want two models.
ApartWants == r1 :> b @@ r2 :> c
ApartKind  == r1 :> "proxy" @@ r2 :> "proxy"
=============================================================================
