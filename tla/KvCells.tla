------------------------------ MODULE KvCells ------------------------------
(***************************************************************************)
(* The meta data of the cells of one stream of the KV cache: the class     *)
(* llama_kv_cells of src/src/llama-kv-cells.h.                             *)
(*                                                                         *)
(* A value of the class is the record                                      *)
(*                                                                         *)
(*   pos[i]         the position held by cell i, -1 when it is empty       *)
(*   shift[i]       the shifts of pos[i] since the last reset_shift()      *)
(*   seq[i]         the sequences that occupy cell i                       *)
(*   used           the indices of the used cells                          *)
(*   seq_pos[s][p]  how many cells hold position p for sequence s (the     *)
(*                  entry of the map is absent when the count is 0)        *)
(*   has_shift      whether a shift is pending                             *)
(*                                                                         *)
(* and each method that changes the object is an operator from a record to *)
(* the record it leaves.  "used" and "seq_pos" are redundant: they index   *)
(* pos and seq, and are kept up to date by hand in every method.           *)
(* Consistent says that they agree, and a C++ assertion on the way of a    *)
(* method is a precondition of its theorem in KvProofs.  The 2D            *)
(* positions of vision models (ext) are left out: no decision reads them.  *)
(***************************************************************************)
EXTENDS Integers, FiniteSets

CONSTANTS
    Size,    \* number of cells
    MaxPos,  \* the largest position a cell is given
    Seqs     \* the sequence ids

ASSUME KvCellsAssumption ==
    /\ Size \in Nat \ {0}
    /\ MaxPos \in Nat
    /\ Seqs \subseteq Nat /\ IsFiniteSet(Seqs)

Cells == 0 .. Size - 1
Positions == 0 .. MaxPos

KvCellsType ==
    [pos : [Cells -> Positions \cup {-1}],
     shift : [Cells -> Int],
     seq : [Cells -> SUBSET Seqs],
     used : SUBSET Cells,
     seq_pos : [Seqs -> [Positions -> Nat]],
     has_shift : BOOLEAN]

(***************************************************************************)
(* Reading the cells                                                       *)
(***************************************************************************)
is_empty(c, i) == c.pos[i] = -1
pos_in(c, i, p0, p1) == c.pos[i] >= p0 /\ c.pos[i] < p1

Present(c, s) == {p \in Positions : c.seq_pos[s][p] # 0}
Least(P) == CHOOSE p \in P : \A q \in P : p <= q
Greatest(P) == CHOOSE p \in P : \A q \in P : q <= p

\* The first and the last key of the map seq_pos[s], -1 when it is empty.
seq_pos_min(c, s) == LET P == Present(c, s) IN IF P = {} THEN -1 ELSE Least(P)
seq_pos_max(c, s) == LET P == Present(c, s) IN IF P = {} THEN -1 ELSE Greatest(P)

(***************************************************************************)
(* What the two indices must say                                           *)
(***************************************************************************)
Holders(c, s, p) == {i \in Cells : c.pos[i] = p /\ s \in c.seq[i]}

Consistent(c) ==
    /\ c \in KvCellsType
    /\ c.used = {i \in Cells : c.pos[i] # -1}
    /\ \A i \in Cells : c.pos[i] = -1 => c.seq[i] = {} /\ c.shift[i] = 0
    /\ \A s \in Seqs, p \in Positions :
           c.seq_pos[s][p] = Cardinality(Holders(c, s, p))

(***************************************************************************)
(* The helpers on seq_pos                                                  *)
(***************************************************************************)
seq_pos_dec(c, s, p) == [c EXCEPT !.seq_pos[s][p] = @ - 1]
seq_pos_inc(c, s, p) == [c EXCEPT !.seq_pos[s][p] = @ + 1]

\* The counts after cell i is taken out of (d = -1) or put into (d = 1) them.
Recount(c, i, d) ==
    [s \in Seqs |-> [p \in Positions |->
        IF s \in c.seq[i] /\ p = c.pos[i]
        THEN c.seq_pos[s][p] + d ELSE c.seq_pos[s][p]]]

seq_pos_rm(c, i) == [c EXCEPT !.seq_pos = Recount(c, i, -1)]
seq_pos_add(c, i) == [c EXCEPT !.seq_pos = Recount(c, i, 1)]

(***************************************************************************)
(* The methods                                                             *)
(***************************************************************************)
Empty ==
    [pos |-> [i \in Cells |-> -1], shift |-> [i \in Cells |-> 0],
     seq |-> [i \in Cells |-> {}], used |-> {},
     seq_pos |-> [s \in Seqs |-> [p \in Positions |-> 0]],
     has_shift |-> FALSE]

\* Mutant: only the flag is reset.
reset_shiftFlag(c) == [c EXCEPT !.has_shift = FALSE]

reset_shift(c) == [c EXCEPT !.has_shift = FALSE, !.shift = [i \in Cells |-> 0]]

\* What rm(), seq_rm(), seq_keep() and pos_add() do to a cell that has lost
\* its last sequence or its position.
Free(c, i) ==
    [c EXCEPT !.pos[i] = -1, !.shift[i] = 0, !.seq[i] = {}, !.used = @ \ {i}]

rm(c, i) == Free(seq_pos_rm(c, i), i)

seq_rm(c, i, s) ==
    LET d == seq_pos_dec([c EXCEPT !.seq[i] = @ \ {s}], s, c.pos[i])
    IN  IF d.seq[i] = {} THEN Free(d, i) ELSE d

\* Mutant: the counts are taken back after the other sequences are gone.
seq_keepLate(c, i, s) ==
    IF s \in c.seq[i]
    THEN seq_pos_inc(seq_pos_rm([c EXCEPT !.seq[i] = {s}], i), s, c.pos[i])
    ELSE IF c.seq[i] # {} THEN rm(c, i) ELSE c

seq_keep(c, i, s) ==
    IF s \in c.seq[i]
    THEN seq_pos_inc([seq_pos_rm(c, i) EXCEPT !.seq[i] = {s}], s, c.pos[i])
    ELSE IF c.seq[i] # {} THEN rm(c, i) ELSE c

seq_add(c, i, s) == seq_pos_inc([c EXCEPT !.seq[i] = @ \cup {s}], s, c.pos[i])

pos_set(c, i, p) == [c EXCEPT !.pos[i] = p, !.used = @ \cup {i}]

pos_add(c, i, d) ==
    LET r == seq_pos_rm(c, i)
        m == [r EXCEPT !.pos[i] = @ + d, !.shift[i] = @ + d, !.has_shift = TRUE]
    IN  IF m.pos[i] < 0 THEN Free(m, i) ELSE seq_pos_add(m, i)

\* The signs are the code's: the shift gets p_old - pos, the opposite of what
\* was added to the position.
pos_div(c, i, d) ==
    LET p == c.pos[i] \div d
        r == seq_pos_rm(c, i)
    IN  seq_pos_add([r EXCEPT !.pos[i] = p, !.shift[i] = @ + (c.pos[i] - p),
                              !.has_shift = TRUE], i)

\* One round of set(idxs, other): cell i gets the saved position and
\* sequences (cp() does not save shifts, and set() does not touch them).
set(c, i, p, S) ==
    LET r == IF c.pos[i] # -1 THEN seq_pos_rm(c, i) ELSE c
        u == IF c.pos[i] = -1 /\ p # -1 THEN r.used \cup {i}
             ELSE IF c.pos[i] # -1 /\ p = -1 THEN r.used \ {i} ELSE r.used
        w == [r EXCEPT !.pos[i] = p, !.seq[i] = S, !.used = u]
    IN  IF p # -1 THEN seq_pos_add(w, i) ELSE w
=============================================================================
