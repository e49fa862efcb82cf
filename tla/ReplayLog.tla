----------------------------- MODULE ReplayLog -----------------------------
(***************************************************************************)
(* What the resumable stream promises: every generation is an append-only  *)
(* log, sealed once and for all; a reader receives consecutive bytes of    *)
(* one log, each once and in order.  Byte i of a log is the number i.      *)
(***************************************************************************)
EXTENDS Integers, Sequences

CONSTANTS Logs, Readers

VARIABLES size, sealed,   \* the length of each log; whether it still grows
          got             \* what each reader has received

ReplayInit ==
    /\ size = [s \in Logs |-> 0]
    /\ sealed = [s \in Logs |-> FALSE]
    /\ got = [r \in Readers |-> <<>>]

Write(s) ==
    /\ ~sealed[s]
    /\ size'[s] \in Nat /\ size'[s] > size[s]
    /\ size' = [size EXCEPT ![s] = size'[s]]
    /\ UNCHANGED <<sealed, got>>

Seal(s) ==
    /\ ~sealed[s]
    /\ sealed' = [sealed EXCEPT ![s] = TRUE]
    /\ UNCHANGED <<size, got>>

\* What the reader receives continues what it has, up to a byte that is written.
Deliver(r) ==
    /\ \E s \in Logs : \E a \in 1 .. size[s], b \in 1 .. size[s] :
          /\ a <= b
          /\ got[r] # <<>> => a = got[r][Len(got[r])] + 1
          /\ got' = [got EXCEPT ![r] = @ \o [i \in 1 .. b - a + 1 |-> a + i - 1]]
    /\ UNCHANGED <<size, sealed>>

ReplayNext ==
    \/ \E s \in Logs : Write(s) \/ Seal(s)
    \/ \E r \in Readers : Deliver(r)

ReplaySpec == ReplayInit /\ [][ReplayNext]_<<size, sealed, got>>
=============================================================================
