----------------------------- MODULE KvProofs ------------------------------
(***************************************************************************)
(* The meta data of the KV cache stay consistent under every call, and the *)
(* keys stay at the positions that the meta data give them, for any number *)
(* of cells, positions and sequences (CellsAgree, KeysAreRight).           *)
(*                                                                         *)
(* First, each method of llama_kv_cells keeps the set of used cells and    *)
(* the position counts consistent with the cells, whenever the assertions  *)
(* at its head hold.  All of them rest on OneCell: if a method changes one *)
(* cell, and each count by what the cell stops and starts to contribute to *)
(* it, then the counts are again the cardinalities that they stand for.    *)
(*                                                                         *)
(* The calls of llama_kv_cache are loops over cells, sequences, tokens,    *)
(* parts and micro batches, written as folds.  A fold is the value at M of *)
(* a function g on the subsets of M with an equation Eq(g).  Every lemma   *)
(* about a loop (its name ends in Loop) is proved in the same way: a step  *)
(* takes what holds of the part before (P[r \ {x}]) to what holds of the   *)
(* part r (<1>2), so that a function with the equation exists (FoldRuns,   *)
(* <1>5), the fold is one such function (<1>6), and what holds of the base *)
(* arrives at M (FoldKeeps, <1>8).  Where the values on the way matter     *)
(* (TryRun, CopyRun), the lemma gives them as a function s on 0 .. n.      *)
(*                                                                         *)
(* A stream is Sound when it is consistent, its used cells belong to its   *)
(* own sequences, and a pending shift is announced.  GoodStates are the    *)
(* states whose streams are sound, StillStates those where, after the      *)
(* update that decode begins with, no shift is pending either: prepare()   *)
(* puts cells back with set(), which is consistent only without shifts.    *)
(*                                                                         *)
(* The keys are Rooted when, after the pending stream copies, each one is  *)
(* at the position of its cell before the shift.                           *)
(***************************************************************************)
EXTENDS KvCache, FiniteSetTheorems, SequenceTheorems, WellFoundedInduction, TLAPS

(***************************************************************************)
(* Folds                                                                   *)
(***************************************************************************)
\* A set of subsets of M that is closed under adding elements in this way holds M.
LEMMA Grows ==
    ASSUME NEW M, IsFiniteSet(M), NEW T,
           \A r \in SUBSET M : (\A q \in SUBSET r : q # r => q \in T) => r \in T
    PROVE  M \in T
<1> SUFFICES ASSUME M \notin T PROVE FALSE
    OBVIOUS
<1> DEFINE U == {r \in SUBSET M : r \notin T}
           R == StrictSubsetOrdering(M)
<1>1. U \subseteq FiniteSubsetsOf(M) /\ U # {}
    BY FS_Subset DEF FiniteSubsetsOf
<1>2. IsWellFoundedOn(R, FiniteSubsetsOf(M))
    BY FS_StrictSubsetOrderingWellFounded
<1>3. PICK r \in U : \A q \in U : ~(<<q, r>> \in R)
    <2> HIDE DEF U, R
    <2> QED BY <1>1, <1>2, WFMin
<1>4. \A q \in SUBSET r : q # r => q \in T
    <2> SUFFICES ASSUME NEW q \in SUBSET r, q # r, q \notin T PROVE FALSE
        OBVIOUS
    <2>1. q \in U /\ <<q, r>> \in (SUBSET M) \X (SUBSET M)
        OBVIOUS
    <2>2. <<q, r>> \in R
        BY <2>1 DEF StrictSubsetOrdering
    <2> QED BY <2>1, <2>2, <1>3
<1> QED BY <1>3, <1>4

LEMMA Counting ==
    ASSUME NEW T, 0 \in T, \A n \in Nat : n \in T => n + 1 \in T, NEW n \in Nat
    PROVE  n \in T
<1> SUFFICES ASSUME n \notin T PROVE FALSE
    OBVIOUS
<1> DEFINE U == {k \in Nat : k \notin T}
           R == OpToRel(<, Nat)
<1>1. U \subseteq Nat /\ U # {}
    OBVIOUS
<1>2. IsWellFoundedOn(R, Nat)
    BY NatLessThanWellFounded
<1>3. PICK k \in U : \A j \in U : ~(<<j, k>> \in R)
    <2> HIDE DEF U, R
    <2> QED BY <1>1, <1>2, WFMin
<1>4. k \in Nat /\ k # 0 /\ k - 1 \in Nat
    <2>1. k \in Nat /\ k \notin T
        BY <1>3
    <2>2. k # 0
        BY <2>1
    <2> QED BY <2>1, <2>2
<1>5. <<k - 1, k>> \in R
    BY <1>4 DEF OpToRel
<1>6. k - 1 \in T
    BY <1>3, <1>4, <1>5
<1>7. k \in T
    BY <1>4, <1>6
<1> QED BY <1>3, <1>7

\* The values of a fold, for every part of M: what is chosen from a part is added last.
Folded(h, M, ch, base, step) ==
    h = [r \in SUBSET M |-> IF r = {} THEN base ELSE step[r][h[r \ {ch[r]}]]]

Chooses(ch, M) == \A r \in SUBSET M : r # {} => ch[r] \in r

LEMMA FoldExists ==
    ASSUME NEW M, IsFiniteSet(M), NEW ch, Chooses(ch, M), NEW base, NEW step
    PROVE  \E h : Folded(h, M, ch, base, step)
<1> DEFINE Upto(n) == {r \in SUBSET M : Cardinality(r) <= n}
           Next1(h) == [r \in SUBSET M |-> IF r = {} THEN base ELSE step[r][h[r \ {ch[r]}]]]
           OK(h, n) == \A r \in SUBSET M : Cardinality(r) <= n => h[r] = Next1(h)[r]
           T == {n \in Nat : \E h : OK(h, n)}
<1>1. \A r \in SUBSET M : Cardinality(r) \in Nat /\ (Cardinality(r) = 0 <=> r = {})
    BY FS_Subset, FS_CardinalityType, FS_EmptySet
<1>2. \A r \in SUBSET M : r # {} => /\ r \ {ch[r]} \in SUBSET M
                                    /\ Cardinality(r \ {ch[r]}) = Cardinality(r) - 1
    BY FS_Subset, FS_RemoveElement DEF Chooses
<1>3. 0 \in T
    <2>1. OK([r \in SUBSET M |-> base], 0)
        BY <1>1
    <2> QED BY <2>1
<1>4. ASSUME NEW n \in Nat, n \in T
      PROVE  n + 1 \in T
    <2>1. PICK h : OK(h, n)
        BY <1>4
    <2>2. PICK g : g = Next1(h)
        OBVIOUS
    <2>3. ASSUME NEW r \in SUBSET M, Cardinality(r) <= n + 1
          PROVE  g[r] = Next1(g)[r]
        <3>1. CASE r = {}
            BY <2>2, <3>1
        <3>2. CASE r # {}
            <4>1. Cardinality(r \ {ch[r]}) <= n
                <5>1. PICK a \in Nat, b \in Nat :
                         a = Cardinality(r) /\ b = Cardinality(r \ {ch[r]}) /\ b = a - 1
                    BY <1>1, <1>2, <3>2
                <5> QED BY <2>3, <5>1
            <4>2. PICK q \in SUBSET M : q = r \ {ch[r]} /\ Cardinality(q) <= n
                BY <1>2, <3>2, <4>1
            <4>3. h[q] = g[q]
                BY <2>1, <2>2, <4>2
            <4>4. g[r] = step[r][h[q]] /\ Next1(g)[r] = step[r][g[q]]
                BY <2>2, <3>2, <4>2
            <4> QED BY <4>3, <4>4
        <3> QED BY <3>1, <3>2
    <2>4. OK(g, n + 1)
        <3> HIDE DEF Next1
        <3> QED BY <2>3
    <2>5. n + 1 \in Nat
        OBVIOUS
    <2> HIDE DEF OK
    <2> QED BY <2>4, <2>5
<1>5. Cardinality(M) \in T
    <2>1. Cardinality(M) \in Nat
        BY FS_CardinalityType
    <2> HIDE DEF T
    <2> QED BY <1>3, <1>4, <2>1, Counting
<1>6. PICK h : OK(h, Cardinality(M))
    BY <1>5
<1>7. \A r \in SUBSET M : h[r] = Next1(h)[r]
    BY <1>1, <1>6, FS_Subset
<1>8. PICK g : g = Next1(h)
    OBVIOUS
<1>9. \A r \in SUBSET M : r # {} => g[r \ {ch[r]}] = h[r \ {ch[r]}]
    BY <1>2, <1>7, <1>8
<1>10. Next1(g) = Next1(h)
    BY <1>9
<1> QED BY <1>8, <1>10 DEF Folded

\* What holds of a fold: of its base, and from each part to the next.
LEMMA FoldKeeps ==
    ASSUME NEW M, IsFiniteSet(M), NEW ch, Chooses(ch, M), NEW h, NEW P,
           h[{}] \in P[{}],
           \A r \in SUBSET M : r # {} /\ h[r \ {ch[r]}] \in P[r \ {ch[r]}] => h[r] \in P[r]
    PROVE  h[M] \in P[M]
<1> DEFINE T == {r \in SUBSET M : h[r] \in P[r]}
<1>1. ASSUME NEW r \in SUBSET M, \A q \in SUBSET r : q # r => q \in T
      PROVE  r \in T
    <2>1. CASE r # {}
        <3>1. r \ {ch[r]} \in SUBSET r /\ r \ {ch[r]} # r
            BY <2>1 DEF Chooses
        <3> QED BY <1>1, <2>1, <3>1
    <2> QED BY <2>1
<1>2. M \in T
    <2> HIDE DEF T
    <2> QED BY <1>1, Grows
<1> QED BY <1>2

\* Both, for a step that is known on the values that the fold takes.
LEMMA FoldRuns ==
    ASSUME NEW M, IsFiniteSet(M), NEW ch, Chooses(ch, M), NEW P, NEW base, base \in P[{}],
           NEW step, \A r \in SUBSET M : r # {} => \A d \in P[r \ {ch[r]}] : step[r][d] \in P[r]
    PROVE  \E h : Folded(h, M, ch, base, step) /\ \A r \in SUBSET M : h[r] \in P[r]
<1>1. PICK h : Folded(h, M, ch, base, step)
    BY FoldExists
<1>2. h[{}] = base /\ \A r \in SUBSET M : r # {} => h[r] = step[r][h[r \ {ch[r]}]]
    BY <1>1 DEF Folded
<1>3. \A r \in SUBSET M : r # {} /\ h[r \ {ch[r]}] \in P[r \ {ch[r]}] => h[r] \in P[r]
    BY <1>2
<1>4. ASSUME NEW m \in SUBSET M
      PROVE  h[m] \in P[m]
    <2>1. IsFiniteSet(m) /\ Chooses(ch, m)
        BY FS_Subset DEF Chooses
    <2>2. \A r \in SUBSET m : r # {} /\ h[r \ {ch[r]}] \in P[r \ {ch[r]}] => h[r] \in P[r]
        BY <1>3
    <2> QED BY <1>2, <2>1, <2>2, FoldKeeps
<1> QED BY <1>1, <1>4

(***************************************************************************)
(* The methods of llama_kv_cells                                            *)
(***************************************************************************)
\* What cell i contributes to the count of position p of sequence s.
Share(c, i, s, p) == IF s \in c.seq[i] /\ c.pos[i] = p THEN 1 ELSE 0

\* A value of the class whose counts and positions may be wrong.
LooseType ==
    [pos : [Cells -> Int], shift : [Cells -> Int],
     seq : [Cells -> SUBSET Seqs], used : SUBSET Cells,
     seq_pos : [Seqs -> [Positions -> Int]], has_shift : BOOLEAN]

\* A record with the fields of the class, each of its type.
HasFields(d) ==
    /\ DOMAIN d = {"pos", "shift", "seq", "used", "seq_pos", "has_shift"}
    /\ d = [x \in DOMAIN d |-> d[x]]

LEMMA FieldTypes ==
    ASSUME NEW d, HasFields(d),
           d.pos \in [Cells -> Int], d.shift \in [Cells -> Int],
           d.seq \in [Cells -> SUBSET Seqs], d.used \subseteq Cells,
           d.seq_pos \in [Seqs -> [Positions -> Int]], d.has_shift \in BOOLEAN
    PROVE  d \in LooseType
BY DEF LooseType, HasFields

LEMMA CellsFinite == IsFiniteSet(Cells)
BY FS_Interval, KvCellsAssumption DEF Cells

LEMMA HoldersFinite ==
    ASSUME NEW c, NEW s, NEW p
    PROVE  IsFiniteSet(Holders(c, s, p)) /\ Cardinality(Holders(c, s, p)) \in Nat
<1>1. Holders(c, s, p) \subseteq Cells
    BY DEF Holders
<1> QED BY <1>1, CellsFinite, FS_Subset, FS_CardinalityType

\* The count without cell i, and with it.
LEMMA WithoutCell ==
    ASSUME NEW c, NEW i \in Cells, NEW s, NEW p
    PROVE  /\ Cardinality(Holders(c, s, p)) =
              Cardinality(Holders(c, s, p) \ {i}) + Share(c, i, s, p)
           /\ Cardinality(Holders(c, s, p) \ {i}) \in Nat
<1> DEFINE H == Holders(c, s, p)
<1>1. IsFiniteSet(H) /\ Cardinality(H) \in Nat
    BY HoldersFinite
<1>2. IsFiniteSet(H \ {i}) /\ Cardinality(H \ {i}) \in Nat
    BY <1>1, FS_RemoveElement, FS_CardinalityType
<1>3. Cardinality(H \ {i}) = IF i \in H THEN Cardinality(H) - 1 ELSE Cardinality(H)
    BY <1>1, FS_RemoveElement
<1>4. i \in H <=> s \in c.seq[i] /\ c.pos[i] = p
    BY DEF Holders
<1>5. Share(c, i, s, p) = IF i \in H THEN 1 ELSE 0
    BY <1>4 DEF Share
<1> HIDE DEF H
<1>6. Cardinality(H) = Cardinality(H \ {i}) + Share(c, i, s, p)
    BY <1>1, <1>3, <1>5
<1> QED BY <1>2, <1>6 DEF H

\* A change of cell i, and of the counts by what cell i contributed and
\* contributes, keeps the cells consistent.
LEMMA OneCell ==
    ASSUME NEW c, Consistent(c), NEW d \in LooseType, NEW i \in Cells,
           \A j \in Cells : j # i => /\ d.pos[j] = c.pos[j] /\ d.seq[j] = c.seq[j]
                                     /\ d.shift[j] = c.shift[j]
                                     /\ j \in d.used <=> j \in c.used,
           i \in d.used <=> d.pos[i] # -1,
           d.pos[i] \in Positions \cup {-1},
           d.pos[i] = -1 => d.seq[i] = {} /\ d.shift[i] = 0,
           \A s \in Seqs, p \in Positions :
               d.seq_pos[s][p] = (c.seq_pos[s][p] - Share(c, i, s, p)) + Share(d, i, s, p)
    PROVE  Consistent(d)
<1>1. ASSUME NEW s \in Seqs, NEW p \in Positions
      PROVE  /\ d.seq_pos[s][p] = Cardinality(Holders(d, s, p))
             /\ d.seq_pos[s][p] \in Nat
    <2> DEFINE R == Cardinality(Holders(c, s, p) \ {i})
               x == Share(c, i, s, p)
               y == Share(d, i, s, p)
    <2>1. Holders(d, s, p) \ {i} = Holders(c, s, p) \ {i}
        BY DEF Holders
    <2>2. Cardinality(Holders(c, s, p)) = R + x /\ R \in Nat
        BY WithoutCell
    <2>3. Cardinality(Holders(d, s, p)) = R + y
        BY <2>1, WithoutCell
    <2>4. c.seq_pos[s][p] = Cardinality(Holders(c, s, p))
        BY DEF Consistent
    <2>5. d.seq_pos[s][p] = (c.seq_pos[s][p] - x) + y
        OBVIOUS
    <2>6. x \in Nat /\ y \in Nat
        BY DEF Share
    <2> HIDE DEF R, x, y
    <2> QED BY <2>2, <2>3, <2>4, <2>5, <2>6
<1>2. d.seq_pos \in [Seqs -> [Positions -> Nat]]
    <2>1. d.seq_pos \in [Seqs -> [Positions -> Int]]
        BY DEF LooseType
    <2> QED BY <1>1, <2>1
<1>3. d \in KvCellsType
    <2>1. \A j \in Cells : d.pos[j] \in Positions \cup {-1}
        BY DEF Consistent, KvCellsType
    <2>2. d.pos \in [Cells -> Positions \cup {-1}]
        BY <2>1 DEF LooseType
    <2> QED BY <1>2, <2>2 DEF KvCellsType, LooseType
<1>4. d.used = {j \in Cells : d.pos[j] # -1}
    <2>1. d.used \subseteq Cells
        BY DEF LooseType
    <2>2. \A j \in Cells : j \in c.used <=> c.pos[j] # -1
        BY DEF Consistent
    <2> QED BY <2>1, <2>2
<1>5. \A j \in Cells : d.pos[j] = -1 => d.seq[j] = {} /\ d.shift[j] = 0
    BY DEF Consistent
<1> QED BY <1>1, <1>3, <1>4, <1>5 DEF Consistent

LEMMA Loosen ==
    ASSUME NEW c, Consistent(c)
    PROVE  c \in LooseType
<1>1. Positions \cup {-1} \subseteq Int
    BY KvCellsAssumption DEF Positions
<1>2. c \in KvCellsType /\ c.pos \in [Cells -> Int]
    BY <1>1 DEF Consistent, KvCellsType
<1> QED BY <1>2 DEF KvCellsType, LooseType

(***************************************************************************)
(* What the helpers on seq_pos do                                          *)
(***************************************************************************)
LEMMA RecountRemoves ==
    ASSUME NEW c \in LooseType, NEW i \in Cells
    PROVE  /\ Recount(c, i, -1) \in [Seqs -> [Positions -> Int]]
           /\ \A s \in Seqs, p \in Positions :
                  Recount(c, i, -1)[s][p] = c.seq_pos[s][p] - Share(c, i, s, p)
<1>1. \A s \in Seqs, p \in Positions : c.seq_pos[s][p] \in Int
    BY DEF LooseType
<1> QED BY <1>1 DEF Recount, Share

LEMMA RecountAdds ==
    ASSUME NEW c \in LooseType, NEW i \in Cells
    PROVE  /\ Recount(c, i, 1) \in [Seqs -> [Positions -> Int]]
           /\ \A s \in Seqs, p \in Positions :
                  Recount(c, i, 1)[s][p] = c.seq_pos[s][p] + Share(c, i, s, p)
<1>1. \A s \in Seqs, p \in Positions : c.seq_pos[s][p] \in Int
    BY DEF LooseType
<1> QED BY <1>1 DEF Recount, Share

LEMMA RemovedType ==
    ASSUME NEW c \in LooseType, NEW i \in Cells
    PROVE  /\ seq_pos_rm(c, i) \in LooseType
           /\ seq_pos_rm(c, i).pos = c.pos /\ seq_pos_rm(c, i).shift = c.shift
           /\ seq_pos_rm(c, i).seq = c.seq /\ seq_pos_rm(c, i).used = c.used
           /\ seq_pos_rm(c, i).seq_pos = Recount(c, i, -1)
BY RecountRemoves DEF seq_pos_rm, LooseType

LEMMA AddedType ==
    ASSUME NEW c \in LooseType, NEW i \in Cells
    PROVE  /\ seq_pos_add(c, i) \in LooseType
           /\ seq_pos_add(c, i).pos = c.pos /\ seq_pos_add(c, i).shift = c.shift
           /\ seq_pos_add(c, i).seq = c.seq /\ seq_pos_add(c, i).used = c.used
           /\ seq_pos_add(c, i).seq_pos = Recount(c, i, 1)
BY RecountAdds DEF seq_pos_add, LooseType

LEMMA FreedType ==
    ASSUME NEW c \in LooseType, NEW i \in Cells
    PROVE  /\ Free(c, i) \in LooseType
           /\ Free(c, i).pos = [c.pos EXCEPT ![i] = -1]
           /\ Free(c, i).shift = [c.shift EXCEPT ![i] = 0]
           /\ Free(c, i).seq = [c.seq EXCEPT ![i] = {}]
           /\ Free(c, i).used = c.used \ {i}
           /\ Free(c, i).seq_pos = c.seq_pos
<1> DEFINE d == Free(c, i)
<1>1. d.pos = [c.pos EXCEPT ![i] = -1]
    BY DEF Free, LooseType
<1>2. d.shift = [c.shift EXCEPT ![i] = 0]
    BY DEF Free, LooseType
<1>3. d.seq = [c.seq EXCEPT ![i] = {}]
    BY DEF Free, LooseType
<1>4. d.used = c.used \ {i} /\ d.seq_pos = c.seq_pos
    BY DEF Free, LooseType
<1>5. HasFields(d) /\ d.has_shift \in BOOLEAN
    BY DEF Free, LooseType, HasFields
<1> HIDE DEF d
<1>6. d.pos \in [Cells -> Int] /\ d.shift \in [Cells -> Int]
    BY <1>1, <1>2 DEF LooseType
<1>7. d.seq \in [Cells -> SUBSET Seqs] /\ d.used \subseteq Cells
    BY <1>3, <1>4 DEF LooseType
<1>8. d.seq_pos \in [Seqs -> [Positions -> Int]]
    BY <1>4 DEF LooseType
<1>9. d \in LooseType
    BY <1>5, <1>6, <1>7, <1>8, FieldTypes
<1> QED BY <1>1, <1>2, <1>3, <1>4, <1>9 DEF d

\* A freed cell contributes nothing.
LEMMA FreedShare ==
    ASSUME NEW c \in LooseType, NEW i \in Cells, NEW s, NEW p
    PROVE  Share(Free(c, i), i, s, p) = 0
<1>1. Free(c, i).seq = [c.seq EXCEPT ![i] = {}]
    BY FreedType
<1>2. c.seq \in [Cells -> SUBSET Seqs]
    BY DEF LooseType
<1>3. s \notin Free(c, i).seq[i]
    BY <1>1, <1>2
<1> QED BY <1>3 DEF Share

(***************************************************************************)
(* The methods                                                             *)
(***************************************************************************)
\* reset() and resize() leave consistent cells.
THEOREM EmptyConsistent == Consistent(Empty)
<1>1. Empty \in KvCellsType
    BY DEF Empty, KvCellsType
<1>2. \A s \in Seqs, p \in Positions : Holders(Empty, s, p) = {}
    BY DEF Holders, Empty
<1>3. \A s \in Seqs, p \in Positions : Empty.seq_pos[s][p] = Cardinality(Holders(Empty, s, p))
    BY <1>2, FS_EmptySet DEF Empty
<1> QED BY <1>1, <1>3 DEF Consistent, Empty

\* Forgetting the shifts touches neither the positions nor the counts.
THEOREM ResetShiftConsistent ==
    ASSUME NEW c, Consistent(c)
    PROVE  Consistent(reset_shift(c))
<1> DEFINE d == reset_shift(c)
<1>1. c \in KvCellsType
    BY DEF Consistent
<1>2. HasFields(d) /\ d.has_shift \in BOOLEAN
    BY <1>1 DEF reset_shift, KvCellsType, HasFields
<1>3. d.pos = c.pos /\ d.seq = c.seq
    BY <1>1 DEF reset_shift, KvCellsType
<1>4. d.used = c.used /\ d.seq_pos = c.seq_pos
    BY <1>1 DEF reset_shift, KvCellsType
<1>5. d.shift = [i \in Cells |-> 0]
    BY <1>1 DEF reset_shift, KvCellsType
<1>6. \A s, p : Holders(d, s, p) = Holders(c, s, p)
    BY <1>3 DEF Holders
<1> HIDE DEF d
<1>7. \A i \in Cells : d.pos[i] = -1 => d.seq[i] = {} /\ d.shift[i] = 0
    BY <1>3, <1>5 DEF Consistent
<1>8. \A s \in Seqs, p \in Positions : d.seq_pos[s][p] = Cardinality(Holders(d, s, p))
    BY <1>4, <1>6 DEF Consistent
<1>9. d \in KvCellsType
    BY <1>1, <1>2, <1>3, <1>4, <1>5 DEF KvCellsType, HasFields
<1>10. d.used = {i \in Cells : d.pos[i] # -1}
    BY <1>3, <1>4 DEF Consistent
<1>11. Consistent(d)
    BY <1>7, <1>8, <1>9, <1>10 DEF Consistent
<1> QED BY <1>11 DEF d

\* Taking a cell out of the counts and freeing it, whatever else was done to it.
LEMMA FreedCell ==
    ASSUME NEW c, Consistent(c), NEW m \in LooseType, NEW i \in Cells,
           \A j \in Cells : j # i => /\ m.pos[j] = c.pos[j] /\ m.seq[j] = c.seq[j]
                                     /\ m.shift[j] = c.shift[j]
                                     /\ j \in m.used <=> j \in c.used,
           \A s \in Seqs, p \in Positions :
               m.seq_pos[s][p] = c.seq_pos[s][p] - Share(c, i, s, p)
    PROVE  Consistent(Free(m, i))
<1> DEFINE d == Free(m, i)
<1>1. /\ d \in LooseType
      /\ d.pos = [m.pos EXCEPT ![i] = -1] /\ d.shift = [m.shift EXCEPT ![i] = 0]
      /\ d.seq = [m.seq EXCEPT ![i] = {}] /\ d.used = m.used \ {i}
      /\ d.seq_pos = m.seq_pos
    BY FreedType
<1>2. \A s \in Seqs, p \in Positions : Share(d, i, s, p) = 0
    BY FreedShare
<1> HIDE DEF d
<1>3. \A s \in Seqs, p \in Positions :
          d.seq_pos[s][p] = (c.seq_pos[s][p] - Share(c, i, s, p)) + Share(d, i, s, p)
    <2> TAKE s \in Seqs, p \in Positions
    <2>1. c.seq_pos[s][p] \in Int /\ Share(c, i, s, p) \in Int
        BY Loosen DEF LooseType, Share
    <2> QED BY <1>1, <1>2, <2>1
<1>4. \A j \in Cells : j # i => /\ d.pos[j] = c.pos[j] /\ d.seq[j] = c.seq[j]
                                /\ d.shift[j] = c.shift[j]
                                /\ j \in d.used <=> j \in c.used
    BY <1>1 DEF LooseType
<1>5. /\ i \in d.used <=> d.pos[i] # -1
      /\ d.pos[i] \in Positions \cup {-1}
      /\ d.pos[i] = -1 => d.seq[i] = {} /\ d.shift[i] = 0
    BY <1>1 DEF LooseType
<1>6. d \in LooseType
    BY <1>1
<1>7. Consistent(d)
    BY <1>3, <1>4, <1>5, <1>6, OneCell
<1> QED BY <1>7 DEF d

\* rm() of a used cell.
THEOREM RmConsistent ==
    ASSUME NEW c, Consistent(c), NEW i \in Cells
    PROVE  Consistent(rm(c, i))
<1> DEFINE r == seq_pos_rm(c, i)
<1>1. c \in LooseType
    BY Loosen
<1>2. r \in LooseType /\ r.pos = c.pos /\ r.shift = c.shift /\ r.seq = c.seq
      /\ r.used = c.used /\ r.seq_pos = Recount(c, i, -1)
    BY <1>1, RemovedType
<1> HIDE DEF r
<1>3. \A s \in Seqs, p \in Positions :
          r.seq_pos[s][p] = c.seq_pos[s][p] - Share(c, i, s, p)
    BY <1>1, <1>2, RecountRemoves
<1>4. Consistent(Free(r, i))
    BY <1>2, <1>3, FreedCell
<1> QED BY <1>4 DEF rm, r

\* Taking a cell out of the counts, changing it and putting it back.
LEMMA ChangedCell ==
    ASSUME NEW c, Consistent(c), NEW m \in LooseType, NEW i \in Cells,
           \A j \in Cells : j # i => /\ m.pos[j] = c.pos[j] /\ m.seq[j] = c.seq[j]
                                     /\ m.shift[j] = c.shift[j]
                                     /\ j \in m.used <=> j \in c.used,
           i \in m.used <=> m.pos[i] # -1, m.pos[i] \in Positions \cup {-1},
           m.pos[i] = -1 => m.seq[i] = {} /\ m.shift[i] = 0,
           m.seq_pos = Recount(c, i, -1)
    PROVE  Consistent(seq_pos_add(m, i))
<1> DEFINE d == seq_pos_add(m, i)
<1>1. c \in LooseType
    BY Loosen
<1>2. d \in LooseType /\ d.pos = m.pos /\ d.shift = m.shift /\ d.seq = m.seq
      /\ d.used = m.used /\ d.seq_pos = Recount(m, i, 1)
    BY AddedType
<1> HIDE DEF d
<1>3. \A s \in Seqs, p \in Positions :
          d.seq_pos[s][p] = (c.seq_pos[s][p] - Share(c, i, s, p)) + Share(d, i, s, p)
    <2> TAKE s \in Seqs, p \in Positions
    <2>1. d.seq_pos[s][p] = m.seq_pos[s][p] + Share(m, i, s, p)
        BY <1>2, RecountAdds
    <2>2. m.seq_pos[s][p] = c.seq_pos[s][p] - Share(c, i, s, p)
        BY <1>1, RecountRemoves
    <2>3. Share(m, i, s, p) = Share(d, i, s, p)
        BY <1>2 DEF Share
    <2> QED BY <2>1, <2>2, <2>3
<1>4. Consistent(d)
    BY <1>2, <1>3, OneCell
<1> QED BY <1>4 DEF d

LEMMA Incremented ==
    ASSUME NEW c \in LooseType, NEW s \in Seqs, NEW p \in Positions
    PROVE  /\ seq_pos_inc(c, s, p) \in LooseType
           /\ seq_pos_inc(c, s, p).pos = c.pos /\ seq_pos_inc(c, s, p).shift = c.shift
           /\ seq_pos_inc(c, s, p).seq = c.seq /\ seq_pos_inc(c, s, p).used = c.used
           /\ \A t \in Seqs, q \in Positions : seq_pos_inc(c, s, p).seq_pos[t][q] =
                  c.seq_pos[t][q] + (IF t = s /\ q = p THEN 1 ELSE 0)
<1> DEFINE d == seq_pos_inc(c, s, p)
<1>1. d.pos = c.pos /\ d.shift = c.shift
    BY DEF seq_pos_inc, LooseType
<1>2. d.seq = c.seq /\ d.used = c.used
    BY DEF seq_pos_inc, LooseType
<1>3. d.seq_pos = [c.seq_pos EXCEPT ![s][p] = @ + 1]
    BY DEF seq_pos_inc, LooseType
<1>4. \A t \in Seqs, q \in Positions : c.seq_pos[t][q] \in Int
    BY DEF LooseType
<1>5. c.seq_pos \in [Seqs -> [Positions -> Int]]
    BY DEF LooseType
<1>6. \A t \in Seqs, q \in Positions : d.seq_pos[t][q] =
          c.seq_pos[t][q] + (IF t = s /\ q = p THEN 1 ELSE 0)
    BY <1>3, <1>4, <1>5
<1>7. HasFields(d) /\ d.has_shift \in BOOLEAN
    BY DEF seq_pos_inc, LooseType, HasFields
<1> HIDE DEF d
<1>8. d.seq_pos \in [Seqs -> [Positions -> Int]]
    BY <1>3, <1>4, <1>5
<1>9. /\ d.pos \in [Cells -> Int] /\ d.shift \in [Cells -> Int]
      /\ d.seq \in [Cells -> SUBSET Seqs] /\ d.used \subseteq Cells
    BY <1>1, <1>2 DEF LooseType
<1>10. d \in LooseType
    BY <1>7, <1>8, <1>9, FieldTypes
<1> QED BY <1>1, <1>2, <1>6, <1>10 DEF d

LEMMA Decremented ==
    ASSUME NEW c \in LooseType, NEW s \in Seqs, NEW p \in Positions
    PROVE  /\ seq_pos_dec(c, s, p) \in LooseType
           /\ seq_pos_dec(c, s, p).pos = c.pos /\ seq_pos_dec(c, s, p).shift = c.shift
           /\ seq_pos_dec(c, s, p).seq = c.seq /\ seq_pos_dec(c, s, p).used = c.used
           /\ \A t \in Seqs, q \in Positions : seq_pos_dec(c, s, p).seq_pos[t][q] =
                  c.seq_pos[t][q] - (IF t = s /\ q = p THEN 1 ELSE 0)
<1> DEFINE d == seq_pos_dec(c, s, p)
<1>1. d.pos = c.pos /\ d.shift = c.shift
    BY DEF seq_pos_dec, LooseType
<1>2. d.seq = c.seq /\ d.used = c.used
    BY DEF seq_pos_dec, LooseType
<1>3. d.seq_pos = [c.seq_pos EXCEPT ![s][p] = @ - 1]
    BY DEF seq_pos_dec, LooseType
<1>4. \A t \in Seqs, q \in Positions : c.seq_pos[t][q] \in Int
    BY DEF LooseType
<1>5. c.seq_pos \in [Seqs -> [Positions -> Int]]
    BY DEF LooseType
<1>6. \A t \in Seqs, q \in Positions : d.seq_pos[t][q] =
          c.seq_pos[t][q] - (IF t = s /\ q = p THEN 1 ELSE 0)
    BY <1>3, <1>4, <1>5
<1>7. HasFields(d) /\ d.has_shift \in BOOLEAN
    BY DEF seq_pos_dec, LooseType, HasFields
<1> HIDE DEF d
<1>8. d.seq_pos \in [Seqs -> [Positions -> Int]]
    BY <1>3, <1>4, <1>5
<1>9. /\ d.pos \in [Cells -> Int] /\ d.shift \in [Cells -> Int]
      /\ d.seq \in [Cells -> SUBSET Seqs] /\ d.used \subseteq Cells
    BY <1>1, <1>2 DEF LooseType
<1>10. d \in LooseType
    BY <1>7, <1>8, <1>9, FieldTypes
<1> QED BY <1>1, <1>2, <1>6, <1>10 DEF d

\* seq_add() of a used cell that the sequence does not occupy.
THEOREM SeqAddConsistent ==
    ASSUME NEW c, Consistent(c), NEW i \in Cells, c.pos[i] # -1,
           NEW s \in Seqs, s \notin c.seq[i]
    PROVE  Consistent(seq_add(c, i, s))
<1> DEFINE m == [c EXCEPT !.seq[i] = @ \cup {s}]
           d == seq_pos_inc(m, s, c.pos[i])
<1>1. c \in LooseType /\ c.pos[i] \in Positions
    BY Loosen DEF Consistent, KvCellsType
<1>2. m.pos = c.pos /\ m.shift = c.shift /\ m.used = c.used /\ m.seq_pos = c.seq_pos
    BY <1>1 DEF LooseType
<1>3. m.seq = [c.seq EXCEPT ![i] = @ \cup {s}]
    BY <1>1 DEF LooseType
<1>4. m \in LooseType
    BY <1>1 DEF LooseType
<1> HIDE DEF m
<1>5. d \in LooseType /\ d.pos = c.pos /\ d.shift = c.shift /\ d.seq = m.seq
      /\ d.used = c.used
    <2>1. c.pos[i] \in Positions
        BY <1>1
    <2>2. d \in LooseType /\ d.pos = m.pos /\ d.shift = m.shift /\ d.seq = m.seq
          /\ d.used = m.used
        BY <1>4, <2>1, Incremented
    <2> HIDE DEF d
    <2> QED BY <1>2, <2>2
<1>6. \A t \in Seqs, q \in Positions : d.seq_pos[t][q] =
          c.seq_pos[t][q] + (IF t = s /\ q = c.pos[i] THEN 1 ELSE 0)
    <2>1. \A t \in Seqs, q \in Positions : d.seq_pos[t][q] =
              m.seq_pos[t][q] + (IF t = s /\ q = c.pos[i] THEN 1 ELSE 0)
        <3>1. c.pos[i] \in Positions
            BY <1>1
        <3> QED BY <1>4, <3>1, Incremented
    <2> HIDE DEF d
    <2> QED BY <1>2, <2>1
<1> HIDE DEF d
<1>7. \A t \in Seqs, q \in Positions :
          d.seq_pos[t][q] = (c.seq_pos[t][q] - Share(c, i, t, q)) + Share(d, i, t, q)
    <2> TAKE t \in Seqs, q \in Positions
    <2>1. Share(d, i, t, q) = Share(c, i, t, q) + (IF t = s /\ q = c.pos[i] THEN 1 ELSE 0)
        BY <1>1, <1>3, <1>5 DEF Share, LooseType
    <2>2. c.seq_pos[t][q] \in Int /\ Share(c, i, t, q) \in Int
        BY <1>1 DEF LooseType, Share
    <2> QED BY <2>1, <2>2, <1>6
<1>8. \A j \in Cells : j # i => d.seq[j] = c.seq[j]
    BY <1>1, <1>3, <1>5 DEF LooseType
<1>9. (i \in d.used <=> d.pos[i] # -1) /\ d.pos[i] # -1 /\ d.pos[i] \in Positions \cup {-1}
    BY <1>1, <1>5 DEF Consistent
<1>10. Consistent(d)
    BY <1>5, <1>7, <1>8, <1>9, OneCell
<1> QED BY <1>10 DEF seq_add, d, m

\* seq_rm() of a sequence that occupies the cell, the last one or not.
THEOREM SeqRmConsistent ==
    ASSUME NEW c, Consistent(c), NEW i \in Cells, NEW s \in Seqs, s \in c.seq[i]
    PROVE  Consistent(seq_rm(c, i, s))
<1> DEFINE m == [c EXCEPT !.seq[i] = @ \ {s}]
           d == seq_pos_dec(m, s, c.pos[i])
<1>1. c \in LooseType /\ c.pos[i] # -1 /\ c.pos[i] \in Positions
    BY Loosen DEF Consistent, KvCellsType
<1>2. m.pos = c.pos /\ m.shift = c.shift /\ m.used = c.used /\ m.seq_pos = c.seq_pos
    BY <1>1 DEF LooseType
<1>3. m.seq = [c.seq EXCEPT ![i] = @ \ {s}]
    BY <1>1 DEF LooseType
<1>4. m \in LooseType
    BY <1>1 DEF LooseType
<1> HIDE DEF m
<1>5. d \in LooseType /\ d.pos = c.pos /\ d.shift = c.shift /\ d.seq = m.seq
      /\ d.used = c.used
    BY <1>1, <1>2, <1>4, Decremented
<1>6. \A t \in Seqs, q \in Positions : d.seq_pos[t][q] =
          c.seq_pos[t][q] - (IF t = s /\ q = c.pos[i] THEN 1 ELSE 0)
    <2>1. \A t \in Seqs, q \in Positions : d.seq_pos[t][q] =
              m.seq_pos[t][q] - (IF t = s /\ q = c.pos[i] THEN 1 ELSE 0)
        BY <1>1, <1>4, Decremented
    <2> HIDE DEF d
    <2> QED BY <1>2, <2>1
<1> HIDE DEF d
<1>7. \A t \in Seqs, q \in Positions :
          d.seq_pos[t][q] = (c.seq_pos[t][q] - Share(c, i, t, q)) + Share(d, i, t, q)
    <2> TAKE t \in Seqs, q \in Positions
    <2>1. Share(c, i, t, q) = Share(d, i, t, q) + (IF t = s /\ q = c.pos[i] THEN 1 ELSE 0)
        BY <1>1, <1>3, <1>5 DEF Share, LooseType
    <2>2. c.seq_pos[t][q] \in Int /\ Share(d, i, t, q) \in Int
        BY <1>1 DEF LooseType, Share
    <2> QED BY <2>1, <2>2, <1>6
<1>8. \A j \in Cells : j # i => d.seq[j] = c.seq[j]
    BY <1>1, <1>3, <1>5 DEF LooseType
<1>9. i \in d.used <=> d.pos[i] # -1
    BY <1>5 DEF Consistent
<1>10. Consistent(d)
    BY <1>1, <1>5, <1>7, <1>8, <1>9, OneCell
<1>11. ASSUME d.seq[i] = {}
       PROVE  Consistent(Free(d, i))
    <2>1. \A t \in Seqs, q \in Positions :
              d.seq_pos[t][q] = d.seq_pos[t][q] - Share(d, i, t, q)
        <3>1. \A t \in Seqs, q \in Positions : Share(d, i, t, q) = 0
            BY <1>11 DEF Share
        <3> QED BY <1>5, <3>1 DEF LooseType
    <2> QED BY <1>5, <1>10, <2>1, FreedCell
<1> QED BY <1>10, <1>11 DEF seq_rm, d, m

\* seq_keep() of any cell: the others leave it, or it is freed, or it was empty.
THEOREM SeqKeepConsistent ==
    ASSUME NEW c, Consistent(c), NEW i \in Cells, NEW s \in Seqs
    PROVE  Consistent(seq_keep(c, i, s))
<1>1. ASSUME s \in c.seq[i]
      PROVE  Consistent(seq_pos_inc([seq_pos_rm(c, i) EXCEPT !.seq[i] = {s}], s, c.pos[i]))
    <2> DEFINE r == seq_pos_rm(c, i)
               m == [r EXCEPT !.seq[i] = {s}]
               d == seq_pos_inc(m, s, c.pos[i])
    <2>1. c \in LooseType /\ c.pos[i] # -1 /\ c.pos[i] \in Positions
        BY <1>1, Loosen DEF Consistent, KvCellsType
    <2>2. r \in LooseType /\ r.pos = c.pos /\ r.shift = c.shift /\ r.seq = c.seq
          /\ r.used = c.used /\ r.seq_pos = Recount(c, i, -1)
        BY <2>1, RemovedType
    <2> HIDE DEF r
    <2>3. m.pos = c.pos /\ m.shift = c.shift /\ m.used = c.used
          /\ m.seq_pos = Recount(c, i, -1)
        BY <2>2 DEF LooseType
    <2>4. m.seq = [c.seq EXCEPT ![i] = {s}]
        BY <2>2 DEF LooseType
    <2>5. m \in LooseType
        BY <2>2 DEF LooseType
    <2> HIDE DEF m
    <2>6. d \in LooseType /\ d.pos = c.pos /\ d.shift = c.shift /\ d.seq = m.seq
          /\ d.used = c.used
        <3>1. c.pos[i] \in Positions
            BY <2>1
        <3>2. d \in LooseType /\ d.pos = m.pos /\ d.shift = m.shift /\ d.seq = m.seq
              /\ d.used = m.used
            BY <2>5, <3>1, Incremented
        <3> HIDE DEF d
        <3> QED BY <2>3, <3>2
    <2>7. \A t \in Seqs, q \in Positions : d.seq_pos[t][q] =
              m.seq_pos[t][q] + (IF t = s /\ q = c.pos[i] THEN 1 ELSE 0)
        <3>1. c.pos[i] \in Positions
            BY <2>1
        <3> QED BY <2>5, <3>1, Incremented
    <2> HIDE DEF d
    <2>8. \A t \in Seqs, q \in Positions :
              d.seq_pos[t][q] = (c.seq_pos[t][q] - Share(c, i, t, q)) + Share(d, i, t, q)
        <3> TAKE t \in Seqs, q \in Positions
        <3>1. Share(d, i, t, q) = IF t = s /\ q = c.pos[i] THEN 1 ELSE 0
            BY <2>1, <2>4, <2>6 DEF Share, LooseType
        <3>2. m.seq_pos[t][q] = c.seq_pos[t][q] - Share(c, i, t, q)
            BY <2>1, <2>3, RecountRemoves
        <3> QED BY <3>1, <3>2, <2>7
    <2>9. \A j \in Cells : j # i => d.seq[j] = c.seq[j]
        BY <2>1, <2>4, <2>6 DEF LooseType
    <2>10. i \in d.used <=> d.pos[i] # -1
        BY <2>6 DEF Consistent
    <2>11. Consistent(d)
        BY <2>1, <2>6, <2>8, <2>9, <2>10, OneCell
    <2> QED BY <2>11 DEF d, m, r
<1> QED BY <1>1, RmConsistent DEF seq_keep

\* pos_set() of an empty cell: it is used, but by no sequence yet.
THEOREM PosSetConsistent ==
    ASSUME NEW c, Consistent(c), NEW i \in Cells, c.pos[i] = -1, NEW p \in Positions
    PROVE  Consistent(pos_set(c, i, p))
<1> DEFINE d == pos_set(c, i, p)
<1>1. c \in LooseType /\ c.seq[i] = {}
    BY Loosen DEF Consistent
<1>2. d.pos = [c.pos EXCEPT ![i] = p] /\ d.used = c.used \cup {i}
    BY <1>1 DEF pos_set, LooseType
<1>3. d.shift = c.shift /\ d.seq = c.seq /\ d.seq_pos = c.seq_pos
    BY <1>1 DEF pos_set, LooseType
<1>4. d \in LooseType
    <2>1. HasFields(d) /\ d.has_shift \in BOOLEAN
        BY <1>1 DEF pos_set, LooseType, HasFields
    <2>2. p \in Int
        BY KvCellsAssumption DEF Positions
    <2> HIDE DEF d
    <2>3. d.pos \in [Cells -> Int] /\ d.used \subseteq Cells
        BY <1>1, <1>2, <2>2 DEF LooseType
    <2>4. d.shift \in [Cells -> Int] /\ d.seq \in [Cells -> SUBSET Seqs]
          /\ d.seq_pos \in [Seqs -> [Positions -> Int]]
        BY <1>1, <1>3 DEF LooseType
    <2> QED BY <2>1, <2>3, <2>4, FieldTypes
<1> HIDE DEF d
<1>5. \A t \in Seqs, q \in Positions : Share(c, i, t, q) = 0 /\ Share(d, i, t, q) = 0
    BY <1>1, <1>3 DEF Share
<1>6. \A t \in Seqs, q \in Positions :
          d.seq_pos[t][q] = (c.seq_pos[t][q] - Share(c, i, t, q)) + Share(d, i, t, q)
    BY <1>1, <1>3, <1>5 DEF LooseType
<1>7. \A j \in Cells : j # i => d.pos[j] = c.pos[j] /\ (j \in d.used <=> j \in c.used)
    BY <1>1, <1>2 DEF LooseType
<1>8. i \in d.used /\ d.pos[i] # -1 /\ d.pos[i] \in Positions \cup {-1}
    BY <1>1, <1>2, KvCellsAssumption DEF LooseType, Positions
<1>9. Consistent(d)
    BY <1>3, <1>4, <1>6, <1>7, <1>8, OneCell
<1> QED BY <1>9 DEF d

\* pos_add() of a used cell, also when the position falls below zero.
THEOREM PosAddConsistent ==
    ASSUME NEW c, Consistent(c), NEW i \in Cells, c.pos[i] # -1,
           NEW d \in Int, c.pos[i] + d <= MaxPos
    PROVE  Consistent(pos_add(c, i, d))
<1> DEFINE r == seq_pos_rm(c, i)
           m == [r EXCEPT !.pos[i] = @ + d, !.shift[i] = @ + d, !.has_shift = TRUE]
<1>1. c \in LooseType /\ c.pos[i] \in Positions
    BY Loosen DEF Consistent, KvCellsType
<1>2. r \in LooseType /\ r.pos = c.pos /\ r.shift = c.shift /\ r.seq = c.seq
      /\ r.used = c.used /\ r.seq_pos = Recount(c, i, -1)
    BY <1>1, RemovedType
<1>3. i \in c.used
    BY DEF Consistent
<1> HIDE DEF r
<1>4. m.pos = [c.pos EXCEPT ![i] = @ + d]
    BY <1>2 DEF LooseType
<1>5. m.shift = [c.shift EXCEPT ![i] = @ + d]
    BY <1>2 DEF LooseType
<1>6. m.seq = c.seq /\ m.used = c.used /\ m.seq_pos = Recount(c, i, -1)
    BY <1>2 DEF LooseType
<1>7. m.pos[i] = c.pos[i] + d
    BY <1>1, <1>4 DEF LooseType
<1>8. m \in LooseType
    <2>1. HasFields(m) /\ m.has_shift \in BOOLEAN
        BY <1>2 DEF LooseType, HasFields
    <2>2. m.pos \in [Cells -> Int] /\ m.shift \in [Cells -> Int]
        <3>1. c.pos \in [Cells -> Int] /\ c.shift \in [Cells -> Int]
            BY <1>1 DEF LooseType
        <3> HIDE DEF m
        <3> QED BY <1>4, <1>5, <3>1
    <2>3. m.seq \in [Cells -> SUBSET Seqs] /\ m.used \subseteq Cells
        BY <1>1, <1>6 DEF LooseType
    <2>4. m.seq_pos \in [Seqs -> [Positions -> Int]]
        BY <1>1, <1>6, RecountRemoves
    <2> HIDE DEF m
    <2> QED BY <2>1, <2>2, <2>3, <2>4, FieldTypes
<1>9. \A j \in Cells : j # i => m.pos[j] = c.pos[j] /\ m.shift[j] = c.shift[j]
    BY <1>1, <1>4, <1>5 DEF LooseType
<1> HIDE DEF m
<1>10. CASE m.pos[i] < 0
    <2>1. \A s \in Seqs, p \in Positions :
              m.seq_pos[s][p] = c.seq_pos[s][p] - Share(c, i, s, p)
        BY <1>1, <1>6, RecountRemoves
    <2>2. Consistent(Free(m, i))
        BY <1>6, <1>8, <1>9, <2>1, FreedCell
    <2> QED BY <1>10, <2>2 DEF pos_add, m, r
<1>11. CASE ~(m.pos[i] < 0)
    <2>1. m.pos[i] \in Positions \cup {-1} /\ m.pos[i] # -1 /\ i \in m.used
        BY <1>1, <1>3, <1>6, <1>7, <1>11, KvCellsAssumption DEF Positions
    <2>2. Consistent(seq_pos_add(m, i))
        BY <1>6, <1>8, <1>9, <2>1, ChangedCell
    <2> QED BY <1>11, <2>2 DEF pos_add, m, r
<1> QED BY <1>10, <1>11

\* pos_div() of a used cell.
THEOREM PosDivConsistent ==
    ASSUME NEW c, Consistent(c), NEW i \in Cells, c.pos[i] # -1,
           NEW d \in Nat \ {0}
    PROVE  Consistent(pos_div(c, i, d))
<1> DEFINE p == c.pos[i] \div d
           r == seq_pos_rm(c, i)
           m == [r EXCEPT !.pos[i] = p, !.shift[i] = @ + (c.pos[i] - p), !.has_shift = TRUE]
<1>1. c \in LooseType /\ c.pos[i] \in Positions
    BY Loosen DEF Consistent, KvCellsType
<1>2. r \in LooseType /\ r.pos = c.pos /\ r.shift = c.shift /\ r.seq = c.seq
      /\ r.used = c.used /\ r.seq_pos = Recount(c, i, -1)
    BY <1>1, RemovedType
<1>3. i \in c.used
    BY DEF Consistent
<1>4. p \in Positions
    <2>1. \A a, b \in Nat : b # 0 => a \div b \in Nat /\ a \div b <= a
        BY Z3
    <2>2. c.pos[i] \in Nat /\ c.pos[i] <= MaxPos /\ MaxPos \in Nat
        BY <1>1, KvCellsAssumption DEF Positions
    <2> QED BY <2>1, <2>2 DEF Positions
<1> HIDE DEF r, p
<1>5. m.pos = [c.pos EXCEPT ![i] = p]
    BY <1>2 DEF LooseType
<1>6. m.shift = [c.shift EXCEPT ![i] = @ + (c.pos[i] - p)]
    BY <1>2 DEF LooseType
<1>7. m.seq = c.seq /\ m.used = c.used /\ m.seq_pos = Recount(c, i, -1)
    BY <1>2 DEF LooseType
<1>8. m \in LooseType
    <2>1. HasFields(m) /\ m.has_shift \in BOOLEAN
        BY <1>2 DEF LooseType, HasFields
    <2>2. p \in Int /\ c.pos[i] - p \in Int
        BY <1>1, <1>4, KvCellsAssumption DEF Positions
    <2>3. m.pos \in [Cells -> Int] /\ m.shift \in [Cells -> Int]
        <3>1. c.pos \in [Cells -> Int] /\ c.shift \in [Cells -> Int]
            BY <1>1 DEF LooseType
        <3> HIDE DEF m
        <3> QED BY <1>5, <1>6, <2>2, <3>1
    <2>4. m.seq \in [Cells -> SUBSET Seqs] /\ m.used \subseteq Cells
        BY <1>1, <1>7 DEF LooseType
    <2>5. m.seq_pos \in [Seqs -> [Positions -> Int]]
        BY <1>1, <1>7, RecountRemoves
    <2> HIDE DEF m
    <2> QED BY <2>1, <2>3, <2>4, <2>5, FieldTypes
<1>9. \A j \in Cells : j # i => m.pos[j] = c.pos[j] /\ m.shift[j] = c.shift[j]
    BY <1>1, <1>5, <1>6 DEF LooseType
<1>10. m.pos[i] # -1 /\ i \in m.used /\ m.pos[i] \in Positions \cup {-1}
    BY <1>1, <1>3, <1>4, <1>5, <1>7, KvCellsAssumption DEF Positions, LooseType
<1> HIDE DEF m
<1>11. Consistent(seq_pos_add(m, i))
    BY <1>7, <1>8, <1>9, <1>10, ChangedCell
<1> QED BY <1>11 DEF pos_div, m, r, p

\* set() of one cell to what cp() saved of it; the shift must be zero, as the
\* code asserts.
THEOREM SetConsistent ==
    ASSUME NEW c, Consistent(c), NEW i \in Cells, c.shift[i] = 0,
           NEW p \in Positions \cup {-1}, NEW S \in SUBSET Seqs, p = -1 => S = {}
    PROVE  Consistent(set(c, i, p, S))
<1> DEFINE r == IF c.pos[i] # -1 THEN seq_pos_rm(c, i) ELSE c
           u == IF c.pos[i] = -1 /\ p # -1 THEN r.used \cup {i}
                ELSE IF c.pos[i] # -1 /\ p = -1 THEN r.used \ {i} ELSE r.used
           w == [r EXCEPT !.pos[i] = p, !.seq[i] = S, !.used = u]
           d == IF p # -1 THEN seq_pos_add(w, i) ELSE w
<1>1. c \in LooseType /\ (c.pos[i] = -1 => c.seq[i] = {}) /\ (i \in c.used <=> c.pos[i] # -1)
    BY Loosen DEF Consistent
<1>2. r \in LooseType /\ r.pos = c.pos /\ r.shift = c.shift /\ r.seq = c.seq
      /\ r.used = c.used
    BY <1>1, RemovedType
<1>3. \A t \in Seqs, q \in Positions : r.seq_pos[t][q] = c.seq_pos[t][q] - Share(c, i, t, q)
    <2> TAKE t \in Seqs, q \in Positions
    <2>1. CASE c.pos[i] # -1
        BY <1>1, <2>1, RemovedType, RecountRemoves
    <2>2. CASE c.pos[i] = -1
        <3>1. Share(c, i, t, q) = 0 /\ r = c
            BY <1>1, <2>2 DEF Share
        <3> QED BY <1>1, <3>1 DEF LooseType
    <2> QED BY <2>1, <2>2
<1>4. u \subseteq Cells /\ (i \in u <=> p # -1)
      /\ \A j \in Cells : j # i => (j \in u <=> j \in c.used)
    BY <1>1, <1>2 DEF LooseType
<1> HIDE DEF r, u
<1>5. w.pos = [c.pos EXCEPT ![i] = p] /\ w.seq = [c.seq EXCEPT ![i] = S]
    BY <1>2 DEF LooseType
<1>6. w.shift = c.shift /\ w.used = u /\ w.seq_pos = r.seq_pos
    BY <1>2 DEF LooseType
<1>7. w \in LooseType
    <2>1. HasFields(w) /\ w.has_shift \in BOOLEAN
        BY <1>2 DEF LooseType, HasFields
    <2>2. p \in Int
        BY KvCellsAssumption DEF Positions
    <2>3. w.pos \in [Cells -> Int] /\ w.seq \in [Cells -> SUBSET Seqs]
        <3>1. c.pos \in [Cells -> Int] /\ c.seq \in [Cells -> SUBSET Seqs]
            BY <1>1 DEF LooseType
        <3> HIDE DEF w
        <3> QED BY <1>5, <2>2, <3>1
    <2>4. w.shift \in [Cells -> Int] /\ w.used \subseteq Cells
          /\ w.seq_pos \in [Seqs -> [Positions -> Int]]
        BY <1>1, <1>2, <1>4, <1>6 DEF LooseType
    <2> HIDE DEF w
    <2> QED BY <2>1, <2>3, <2>4, FieldTypes
<1>8. w.pos[i] = p /\ w.seq[i] = S
      /\ \A j \in Cells : j # i => w.pos[j] = c.pos[j] /\ w.seq[j] = c.seq[j]
    BY <1>1, <1>5 DEF LooseType
<1> HIDE DEF w
<1>9. d \in LooseType /\ d.pos = w.pos /\ d.shift = w.shift /\ d.seq = w.seq
      /\ d.used = w.used
    BY <1>7, AddedType
<1>10. \A t \in Seqs, q \in Positions :
           d.seq_pos[t][q] = (c.seq_pos[t][q] - Share(c, i, t, q)) + Share(d, i, t, q)
    <2> TAKE t \in Seqs, q \in Positions
    <2>1. CASE p # -1
        <3>1. d.seq_pos[t][q] = w.seq_pos[t][q] + Share(w, i, t, q)
            BY <1>7, <2>1, AddedType, RecountAdds
        <3>2. Share(w, i, t, q) = Share(d, i, t, q)
            BY <1>9 DEF Share
        <3> QED BY <1>3, <1>6, <3>1, <3>2
    <2>2. CASE p = -1
        <3>1. Share(d, i, t, q) = 0
            BY <1>8, <1>9, <2>2 DEF Share
        <3>2. c.seq_pos[t][q] \in Int /\ Share(c, i, t, q) \in Int
            BY <1>1 DEF LooseType, Share
        <3>3. d.seq_pos[t][q] = c.seq_pos[t][q] - Share(c, i, t, q)
            BY <1>3, <1>6, <2>2
        <3> QED BY <3>1, <3>2, <3>3
    <2> QED BY <2>1, <2>2
<1> HIDE DEF d
<1>11. Consistent(d)
    BY <1>4, <1>6, <1>8, <1>9, <1>10, OneCell
<1> QED BY <1>11 DEF set, d, w, u, r

\* The keys of the map seq_pos[s] are the positions that sequence s holds, so
\* that seq_pos_min() and seq_pos_max() give its first and its last position.
THEOREM PresentPositions ==
    ASSUME NEW c, Consistent(c), NEW s \in Seqs
    PROVE  Present(c, s) = {c.pos[i] : i \in {j \in Cells : s \in c.seq[j]}}
<1>1. ASSUME NEW p \in Positions
      PROVE  c.seq_pos[s][p] # 0 <=> \E i \in Cells : c.pos[i] = p /\ s \in c.seq[i]
    <2>1. c.seq_pos[s][p] = Cardinality(Holders(c, s, p))
        BY DEF Consistent
    <2>2. Cardinality(Holders(c, s, p)) = 0 <=> Holders(c, s, p) = {}
        BY HoldersFinite, FS_EmptySet
    <2> QED BY <2>1, <2>2 DEF Holders
<1>2. \A i \in Cells : s \in c.seq[i] => c.pos[i] \in Positions
    BY DEF Consistent, KvCellsType
<1> QED BY <1>1, <1>2 DEF Present

-----------------------------------------------------------------------------
(***************************************************************************)
(* What each method does to the cells                                      *)
(***************************************************************************)
Cell(c, i) == <<c.pos[i], c.shift[i], c.seq[i]>>
Gone == <<-1, 0, {}>>
Alone(c, d, i) == \A j \in Cells \ {i} : Cell(d, j) = Cell(c, j)

LEMMA FreeEffect ==
    ASSUME NEW c \in LooseType, NEW i \in Cells
    PROVE  /\ Alone(c, Free(c, i), i) /\ Cell(Free(c, i), i) = Gone
           /\ Free(c, i).has_shift = c.has_shift
<1>1. Free(c, i).has_shift = c.has_shift
    BY DEF Free, LooseType
<1>2. /\ Free(c, i).pos = [c.pos EXCEPT ![i] = -1]
      /\ Free(c, i).shift = [c.shift EXCEPT ![i] = 0]
      /\ Free(c, i).seq = [c.seq EXCEPT ![i] = {}]
    BY FreedType
<1>3. c.pos \in [Cells -> Int] /\ c.shift \in [Cells -> Int] /\ c.seq \in [Cells -> SUBSET Seqs]
    BY DEF LooseType
<1> QED BY <1>1, <1>2, <1>3 DEF Alone, Cell, Gone

LEMMA RmEffect ==
    ASSUME NEW c \in LooseType, NEW i \in Cells
    PROVE  /\ Alone(c, rm(c, i), i) /\ Cell(rm(c, i), i) = Gone
           /\ rm(c, i).has_shift = c.has_shift
<1> DEFINE r == seq_pos_rm(c, i)
<1>1. r \in LooseType /\ r.pos = c.pos /\ r.shift = c.shift /\ r.seq = c.seq
    BY RemovedType
<1>2. r.has_shift = c.has_shift
    BY DEF seq_pos_rm, LooseType
<1> HIDE DEF r
<1>3. Alone(r, Free(r, i), i) /\ Cell(Free(r, i), i) = Gone /\ Free(r, i).has_shift = r.has_shift
    BY <1>1, FreeEffect
<1>4. Alone(c, Free(r, i), i)
    BY <1>1, <1>3 DEF Alone, Cell
<1> QED BY <1>2, <1>3, <1>4 DEF rm, r

LEMMA SeqRmEffect ==
    ASSUME NEW c \in LooseType, NEW i \in Cells, NEW s \in Seqs, c.pos[i] \in Positions
    PROVE  /\ Alone(c, seq_rm(c, i, s), i)
           /\ Cell(seq_rm(c, i, s), i) = IF c.seq[i] \ {s} = {} THEN Gone
                                         ELSE <<c.pos[i], c.shift[i], c.seq[i] \ {s}>>
           /\ seq_rm(c, i, s).has_shift = c.has_shift
<1> DEFINE m == [c EXCEPT !.seq[i] = @ \ {s}]
           d == seq_pos_dec(m, s, c.pos[i])
<1>1. m \in LooseType /\ m.pos = c.pos /\ m.shift = c.shift /\ m.has_shift = c.has_shift
    BY DEF LooseType
<1>2. m.seq = [c.seq EXCEPT ![i] = @ \ {s}]
    BY DEF LooseType
<1> HIDE DEF m
<1>3. d \in LooseType /\ d.pos = c.pos /\ d.shift = c.shift /\ d.seq = m.seq
    BY <1>1, Decremented
<1>4. d.has_shift = c.has_shift
    BY <1>1 DEF seq_pos_dec, LooseType
<1> HIDE DEF d
<1>5. d.seq[i] = c.seq[i] \ {s} /\ \A j \in Cells \ {i} : d.seq[j] = c.seq[j]
    BY <1>2, <1>3 DEF LooseType
<1>6. Alone(c, d, i) /\ Cell(d, i) = <<c.pos[i], c.shift[i], c.seq[i] \ {s}>>
    BY <1>3, <1>5 DEF Alone, Cell
<1>7. Alone(d, Free(d, i), i) /\ Cell(Free(d, i), i) = Gone /\ Free(d, i).has_shift = d.has_shift
    BY <1>3, FreeEffect
<1>8. Alone(c, Free(d, i), i)
    BY <1>6, <1>7 DEF Alone
<1>9. seq_rm(c, i, s) = IF d.seq[i] = {} THEN Free(d, i) ELSE d
    BY DEF seq_rm, d, m
<1> QED BY <1>4, <1>5, <1>6, <1>7, <1>8, <1>9

LEMMA SeqAddEffect ==
    ASSUME NEW c \in LooseType, NEW i \in Cells, NEW s \in Seqs, c.pos[i] \in Positions
    PROVE  /\ Alone(c, seq_add(c, i, s), i)
           /\ Cell(seq_add(c, i, s), i) = <<c.pos[i], c.shift[i], c.seq[i] \cup {s}>>
           /\ seq_add(c, i, s).has_shift = c.has_shift
<1> DEFINE m == [c EXCEPT !.seq[i] = @ \cup {s}]
           d == seq_pos_inc(m, s, c.pos[i])
<1>1. m \in LooseType /\ m.pos = c.pos /\ m.shift = c.shift /\ m.has_shift = c.has_shift
    BY DEF LooseType
<1>2. m.seq = [c.seq EXCEPT ![i] = @ \cup {s}]
    BY DEF LooseType
<1> HIDE DEF m
<1>3. d \in LooseType /\ d.pos = c.pos /\ d.shift = c.shift /\ d.seq = m.seq
    BY <1>1, Incremented
<1>4. d.has_shift = c.has_shift
    BY <1>1 DEF seq_pos_inc, LooseType
<1> HIDE DEF d
<1>5. d.seq[i] = c.seq[i] \cup {s} /\ \A j \in Cells \ {i} : d.seq[j] = c.seq[j]
    BY <1>2, <1>3 DEF LooseType
<1>6. Alone(c, d, i) /\ Cell(d, i) = <<c.pos[i], c.shift[i], c.seq[i] \cup {s}>>
    BY <1>3, <1>5 DEF Alone, Cell
<1> QED BY <1>4, <1>6 DEF seq_add, d, m

LEMMA SeqKeepEffect ==
    ASSUME NEW c \in LooseType, NEW i \in Cells, NEW s \in Seqs,
           s \in c.seq[i] => c.pos[i] \in Positions
    PROVE  /\ Alone(c, seq_keep(c, i, s), i)
           /\ Cell(seq_keep(c, i, s), i) = IF s \in c.seq[i] THEN <<c.pos[i], c.shift[i], {s}>>
                                           ELSE IF c.seq[i] # {} THEN Gone ELSE Cell(c, i)
           /\ seq_keep(c, i, s).has_shift = c.has_shift
<1>1. CASE s \in c.seq[i]
    <2> DEFINE r == seq_pos_rm(c, i)
               m == [r EXCEPT !.seq[i] = {s}]
               d == seq_pos_inc(m, s, c.pos[i])
    <2>1. r \in LooseType /\ r.pos = c.pos /\ r.shift = c.shift /\ r.seq = c.seq
        BY RemovedType
    <2>2. r.has_shift = c.has_shift
        BY DEF seq_pos_rm, LooseType
    <2> HIDE DEF r
    <2>3. m \in LooseType /\ m.pos = c.pos /\ m.shift = c.shift /\ m.has_shift = c.has_shift
        BY <2>1, <2>2 DEF LooseType
    <2>4. m.seq = [c.seq EXCEPT ![i] = {s}]
        BY <2>1 DEF LooseType
    <2> HIDE DEF m
    <2>5. d \in LooseType /\ d.pos = c.pos /\ d.shift = c.shift /\ d.seq = m.seq
        BY <1>1, <2>3, Incremented
    <2>6. d.has_shift = c.has_shift
        BY <2>3 DEF seq_pos_inc, LooseType
    <2> HIDE DEF d
    <2>7. d.seq[i] = {s} /\ \A j \in Cells \ {i} : d.seq[j] = c.seq[j]
        BY <2>4, <2>5 DEF LooseType
    <2>8. Alone(c, d, i) /\ Cell(d, i) = <<c.pos[i], c.shift[i], {s}>>
        BY <2>5, <2>7 DEF Alone, Cell
    <2>9. seq_keep(c, i, s) = d
        BY <1>1 DEF seq_keep, d, m, r
    <2> QED BY <1>1, <2>6, <2>8, <2>9
<1>2. CASE s \notin c.seq[i]
    BY <1>2, RmEffect DEF seq_keep, Alone
<1> QED BY <1>1, <1>2

LEMMA PosSetEffect ==
    ASSUME NEW c \in LooseType, NEW i \in Cells, NEW p
    PROVE  /\ Alone(c, pos_set(c, i, p), i)
           /\ Cell(pos_set(c, i, p), i) = <<p, c.shift[i], c.seq[i]>>
           /\ pos_set(c, i, p).has_shift = c.has_shift
<1>1. /\ pos_set(c, i, p).pos = [c.pos EXCEPT ![i] = p]
      /\ pos_set(c, i, p).shift = c.shift /\ pos_set(c, i, p).seq = c.seq
      /\ pos_set(c, i, p).has_shift = c.has_shift
    BY DEF pos_set, LooseType
<1>2. c.pos \in [Cells -> Int]
    BY DEF LooseType
<1> QED BY <1>1, <1>2 DEF Alone, Cell

LEMMA PosAddEffect ==
    ASSUME NEW c \in LooseType, NEW i \in Cells, NEW d \in Int
    PROVE  /\ Alone(c, pos_add(c, i, d), i)
           /\ Cell(pos_add(c, i, d), i) = IF c.pos[i] + d < 0 THEN Gone
                                          ELSE <<c.pos[i] + d, c.shift[i] + d, c.seq[i]>>
           /\ pos_add(c, i, d).has_shift
<1> DEFINE r == seq_pos_rm(c, i)
           m == [r EXCEPT !.pos[i] = @ + d, !.shift[i] = @ + d, !.has_shift = TRUE]
<1>1. r \in LooseType /\ r.pos = c.pos /\ r.shift = c.shift /\ r.seq = c.seq
    BY RemovedType
<1> HIDE DEF r
<1>2. /\ m.pos = [c.pos EXCEPT ![i] = @ + d] /\ m.shift = [c.shift EXCEPT ![i] = @ + d]
      /\ m.seq = c.seq /\ m.has_shift
    BY <1>1 DEF LooseType
<1>3. m \in LooseType
    <2>1. HasFields(m) /\ m.has_shift \in BOOLEAN
        BY <1>1 DEF LooseType, HasFields
    <2>2. m.used = r.used /\ m.seq_pos = r.seq_pos
        BY <1>1 DEF LooseType
    <2> HIDE DEF m
    <2>3. m.pos \in [Cells -> Int] /\ m.shift \in [Cells -> Int]
        <3>1. c.pos \in [Cells -> Int] /\ c.shift \in [Cells -> Int]
            BY DEF LooseType
        <3> QED BY <1>2, <3>1
    <2>4. m.seq \in [Cells -> SUBSET Seqs] /\ m.used \subseteq Cells
          /\ m.seq_pos \in [Seqs -> [Positions -> Int]]
        BY <1>1, <1>2, <2>2 DEF LooseType
    <2> QED BY <2>1, <2>3, <2>4, FieldTypes
<1> HIDE DEF m
<1>4. c.pos \in [Cells -> Int] /\ c.shift \in [Cells -> Int]
    BY DEF LooseType
<1>5. m.pos[i] = c.pos[i] + d /\ m.shift[i] = c.shift[i] + d
      /\ \A j \in Cells \ {i} : m.pos[j] = c.pos[j] /\ m.shift[j] = c.shift[j]
    BY <1>2, <1>4
<1>6. Alone(c, m, i) /\ Cell(m, i) = <<c.pos[i] + d, c.shift[i] + d, c.seq[i]>>
    BY <1>2, <1>5 DEF Alone, Cell
<1>7. Alone(m, Free(m, i), i) /\ Cell(Free(m, i), i) = Gone /\ Free(m, i).has_shift = m.has_shift
    BY <1>3, FreeEffect
<1>8. Alone(c, Free(m, i), i)
    BY <1>6, <1>7 DEF Alone
<1>9. LET a == seq_pos_add(m, i) IN
      a.pos = m.pos /\ a.shift = m.shift /\ a.seq = m.seq /\ a.has_shift = m.has_shift
    <2>1. seq_pos_add(m, i).has_shift = m.has_shift
        BY <1>3 DEF seq_pos_add, LooseType
    <2> QED BY <1>3, <2>1, AddedType
<1>10. Alone(c, seq_pos_add(m, i), i) /\ Cell(seq_pos_add(m, i), i) = Cell(m, i)
    BY <1>6, <1>9 DEF Alone, Cell
<1>11. pos_add(c, i, d) = IF m.pos[i] < 0 THEN Free(m, i) ELSE seq_pos_add(m, i)
    BY DEF pos_add, m, r
<1> QED BY <1>2, <1>5, <1>6, <1>7, <1>8, <1>9, <1>10, <1>11

LEMMA PosDivEffect ==
    ASSUME NEW c \in LooseType, NEW i \in Cells, NEW d, c.pos[i] \div d \in Int
    PROVE  /\ Alone(c, pos_div(c, i, d), i)
           /\ Cell(pos_div(c, i, d), i) =
                  <<c.pos[i] \div d, c.shift[i] + (c.pos[i] - c.pos[i] \div d), c.seq[i]>>
           /\ pos_div(c, i, d).has_shift
<1> DEFINE p == c.pos[i] \div d
           r == seq_pos_rm(c, i)
           m == [r EXCEPT !.pos[i] = p, !.shift[i] = @ + (c.pos[i] - p), !.has_shift = TRUE]
<1>1. r \in LooseType /\ r.pos = c.pos /\ r.shift = c.shift /\ r.seq = c.seq
    BY RemovedType
<1> HIDE DEF r
<1>2. p \in Int
    OBVIOUS
<1> HIDE DEF p
<1>3. /\ m.pos = [c.pos EXCEPT ![i] = p] /\ m.shift = [c.shift EXCEPT ![i] = @ + (c.pos[i] - p)]
      /\ m.seq = c.seq /\ m.has_shift
    BY <1>1 DEF LooseType
<1>4. c.pos \in [Cells -> Int] /\ c.shift \in [Cells -> Int]
    BY DEF LooseType
<1>5. m \in LooseType
    <2>1. HasFields(m) /\ m.has_shift \in BOOLEAN
        BY <1>1 DEF LooseType, HasFields
    <2>2. m.used = r.used /\ m.seq_pos = r.seq_pos
        BY <1>1 DEF LooseType
    <2> HIDE DEF m
    <2>3. m.pos \in [Cells -> Int] /\ m.shift \in [Cells -> Int]
        BY <1>2, <1>3, <1>4
    <2>4. m.seq \in [Cells -> SUBSET Seqs] /\ m.used \subseteq Cells
          /\ m.seq_pos \in [Seqs -> [Positions -> Int]]
        BY <1>1, <1>3, <2>2 DEF LooseType
    <2> QED BY <2>1, <2>3, <2>4, FieldTypes
<1> HIDE DEF m
<1>6. m.pos[i] = p /\ m.shift[i] = c.shift[i] + (c.pos[i] - p)
      /\ \A j \in Cells \ {i} : m.pos[j] = c.pos[j] /\ m.shift[j] = c.shift[j]
    BY <1>3, <1>4
<1>7. Alone(c, m, i) /\ Cell(m, i) = <<p, c.shift[i] + (c.pos[i] - p), c.seq[i]>>
    BY <1>3, <1>6 DEF Alone, Cell
<1>8. LET a == seq_pos_add(m, i) IN
      a.pos = m.pos /\ a.shift = m.shift /\ a.seq = m.seq /\ a.has_shift = m.has_shift
    <2>1. seq_pos_add(m, i).has_shift = m.has_shift
        BY <1>5 DEF seq_pos_add, LooseType
    <2> QED BY <1>5, <2>1, AddedType
<1>9. /\ Alone(c, seq_pos_add(m, i), i) /\ Cell(seq_pos_add(m, i), i) = Cell(m, i)
      /\ seq_pos_add(m, i).has_shift
    BY <1>3, <1>7, <1>8 DEF Alone, Cell
<1> QED BY <1>7, <1>9 DEF pos_div, m, r, p

LEMMA SetEffect ==
    ASSUME NEW c \in LooseType, NEW i \in Cells, NEW p \in Int, NEW S \in SUBSET Seqs
    PROVE  /\ Alone(c, set(c, i, p, S), i)
           /\ Cell(set(c, i, p, S), i) = <<p, c.shift[i], S>>
           /\ set(c, i, p, S).has_shift = c.has_shift
<1> DEFINE r == IF c.pos[i] # -1 THEN seq_pos_rm(c, i) ELSE c
           u == IF c.pos[i] = -1 /\ p # -1 THEN r.used \cup {i}
                ELSE IF c.pos[i] # -1 /\ p = -1 THEN r.used \ {i} ELSE r.used
           w == [r EXCEPT !.pos[i] = p, !.seq[i] = S, !.used = u]
<1>1. r \in LooseType /\ r.pos = c.pos /\ r.shift = c.shift /\ r.seq = c.seq
      /\ r.has_shift = c.has_shift
    <2>1. seq_pos_rm(c, i).has_shift = c.has_shift
        BY DEF seq_pos_rm, LooseType
    <2> QED BY <2>1, RemovedType
<1>2. u \subseteq Cells
    BY <1>1 DEF LooseType
<1> HIDE DEF r, u
<1>3. /\ w.pos = [c.pos EXCEPT ![i] = p] /\ w.shift = c.shift
      /\ w.seq = [c.seq EXCEPT ![i] = S] /\ w.has_shift = c.has_shift
    BY <1>1 DEF LooseType
<1>4. c.pos \in [Cells -> Int] /\ c.shift \in [Cells -> Int] /\ c.seq \in [Cells -> SUBSET Seqs]
    BY DEF LooseType
<1>5. w \in LooseType
    <2>1. HasFields(w) /\ w.has_shift \in BOOLEAN
        BY <1>1 DEF LooseType, HasFields
    <2>2. w.used = u /\ w.seq_pos = r.seq_pos
        BY <1>1 DEF LooseType
    <2> HIDE DEF w
    <2>3. w.pos \in [Cells -> Int] /\ w.seq \in [Cells -> SUBSET Seqs]
        BY <1>3, <1>4
    <2>4. w.shift \in [Cells -> Int] /\ w.used \subseteq Cells
          /\ w.seq_pos \in [Seqs -> [Positions -> Int]]
        BY <1>1, <1>2, <1>3, <1>4, <2>2 DEF LooseType
    <2> QED BY <2>1, <2>3, <2>4, FieldTypes
<1> HIDE DEF w
<1>6. w.pos[i] = p /\ w.seq[i] = S
      /\ \A j \in Cells \ {i} : w.pos[j] = c.pos[j] /\ w.seq[j] = c.seq[j]
    BY <1>3, <1>4
<1>7. Alone(c, w, i) /\ Cell(w, i) = <<p, c.shift[i], S>>
    BY <1>3, <1>6 DEF Alone, Cell
<1>8. LET a == seq_pos_add(w, i) IN
      a.pos = w.pos /\ a.shift = w.shift /\ a.seq = w.seq /\ a.has_shift = w.has_shift
    <2>1. seq_pos_add(w, i).has_shift = w.has_shift
        BY <1>5 DEF seq_pos_add, LooseType
    <2> QED BY <1>5, <2>1, AddedType
<1>9. /\ Alone(c, seq_pos_add(w, i), i) /\ Cell(seq_pos_add(w, i), i) = Cell(w, i)
      /\ seq_pos_add(w, i).has_shift = c.has_shift
    BY <1>3, <1>7, <1>8 DEF Alone, Cell
<1>10. set(c, i, p, S) = IF p # -1 THEN seq_pos_add(w, i) ELSE w
    BY DEF set, w, u, r
<1> QED BY <1>3, <1>7, <1>9, <1>10

-----------------------------------------------------------------------------
(***************************************************************************)
(* Sound cells: those of a stream between two calls                        *)
(***************************************************************************)
\* Used cells belong to sequences of the set S, and to at least one; a shift
\* is announced.
Sound(c, S) ==
    /\ Consistent(c)
    /\ \A i \in Cells : /\ c.seq[i] \subseteq S
                        /\ c.pos[i] # -1 => c.seq[i] # {}
                        /\ c.shift[i] # 0 => c.has_shift

\* No shift is pending.
Still(c) == \A i \in Cells : c.shift[i] = 0

\* A cell that may be left by a method, if shifts are announced or not (h).
FineCell(x, S, h) == x[3] \subseteq S /\ (x[1] # -1 => x[3] # {}) /\ (x[2] # 0 => h)

LEMMA SoundStep ==
    ASSUME NEW c, NEW S, Sound(c, S), NEW d, Consistent(d), NEW i \in Cells,
           Alone(c, d, i), c.has_shift => d.has_shift, FineCell(Cell(d, i), S, d.has_shift)
    PROVE  Sound(d, S)
<1>1. ASSUME NEW j \in Cells
      PROVE  FineCell(Cell(d, j), S, d.has_shift)
    <2>1. CASE j = i
        BY <2>1
    <2>2. CASE j # i
        <3>1. Cell(d, j) = Cell(c, j)
            BY <2>2 DEF Alone
        <3>2. FineCell(Cell(c, j), S, d.has_shift)
            BY DEF Sound, FineCell, Cell
        <3> QED BY <3>1, <3>2
    <2> QED BY <2>1, <2>2
<1> QED BY <1>1 DEF Sound, FineCell, Cell

LEMMA EmptySound ==
    ASSUME NEW S
    PROVE  Sound(Empty, S) /\ Still(Empty)
BY EmptyConsistent DEF Sound, Still, Empty

-----------------------------------------------------------------------------
(***************************************************************************)
(* Loops over cells.  T[i] is what becomes of cell i.                      *)
(***************************************************************************)
\* The cells of r are done.
Loop(c, T, M) ==
    [r \in SUBSET M |->
        {d \in KvCellsType :
            /\ Consistent(d)
            /\ c.has_shift => d.has_shift
            /\ \A i \in r : Cell(d, i) = T[i] /\ (T[i][2] # 0 => d.has_shift)
            /\ \A i \in Cells \ r : Cell(d, i) = Cell(c, i)}]

LEMMA LoopStarts ==
    ASSUME NEW c, Consistent(c), NEW T, NEW M
    PROVE  c \in Loop(c, T, M)[{}]
BY DEF Loop, Consistent

LEMMA LoopStep ==
    ASSUME NEW c, NEW T, NEW M \in SUBSET Cells, NEW r \in SUBSET M, NEW x \in r,
           NEW d \in Loop(c, T, M)[r \ {x}], NEW e, Consistent(e), Alone(d, e, x),
           Cell(e, x) = T[x], d.has_shift => e.has_shift, T[x][2] # 0 => e.has_shift
    PROVE  e \in Loop(c, T, M)[r]
<1>1. r \ {x} \in SUBSET M
    OBVIOUS
<1>2. /\ c.has_shift => d.has_shift
      /\ \A i \in r \ {x} : Cell(d, i) = T[i] /\ (T[i][2] # 0 => d.has_shift)
      /\ \A i \in Cells \ (r \ {x}) : Cell(d, i) = Cell(c, i)
    BY <1>1 DEF Loop
<1>3. \A i \in Cells \ {x} : Cell(e, i) = Cell(d, i)
    BY DEF Alone
<1>4. \A i \in r : Cell(e, i) = T[i] /\ (T[i][2] # 0 => e.has_shift)
    BY <1>2, <1>3
<1>5. \A i \in Cells \ r : Cell(e, i) = Cell(c, i)
    BY <1>2, <1>3
<1> QED BY <1>2, <1>4, <1>5 DEF Loop, Consistent

\* A cell that is not done is as it was.
Ahead(c, T, M, r, x, d) ==
    M \in SUBSET Cells /\ r \in SUBSET M /\ x \in r /\ d \in Loop(c, T, M)[r \ {x}]

LEMMA LoopAhead ==
    ASSUME NEW c, NEW T, NEW M, NEW r, NEW x, NEW d, Ahead(c, T, M, r, x, d)
    PROVE  /\ Consistent(d) /\ d \in LooseType /\ (c.has_shift => d.has_shift) /\ x \in Cells
           /\ d.pos[x] = c.pos[x] /\ d.shift[x] = c.shift[x] /\ d.seq[x] = c.seq[x]
<1>1. r \ {x} \in SUBSET M /\ x \in Cells /\ d \in Loop(c, T, M)[r \ {x}]
    BY DEF Ahead
<1>2. Consistent(d) /\ (c.has_shift => d.has_shift) /\ Cell(d, x) = Cell(c, x)
    BY <1>1 DEF Loop
<1> QED BY <1>1, <1>2, Loosen DEF Cell

LEMMA LoopSound ==
    ASSUME NEW c, NEW S, Sound(c, S), NEW T, NEW M \in SUBSET Cells, NEW d \in Loop(c, T, M)[M],
           \A i \in M : T[i][3] \subseteq S /\ (T[i][1] # -1 => T[i][3] # {})
    PROVE  Sound(d, S)
<1>1. /\ Consistent(d) /\ (c.has_shift => d.has_shift)
      /\ \A i \in M : Cell(d, i) = T[i] /\ (T[i][2] # 0 => d.has_shift)
      /\ \A i \in Cells \ M : Cell(d, i) = Cell(c, i)
    BY DEF Loop
<1>2. ASSUME NEW i \in Cells
      PROVE  d.seq[i] \subseteq S /\ (d.pos[i] # -1 => d.seq[i] # {}) /\ (d.shift[i] # 0 => d.has_shift)
    <2>1. CASE i \in M
        <3>1. T[i] = Cell(d, i) /\ (T[i][2] # 0 => d.has_shift)
            BY <1>1, <2>1
        <3> QED BY <2>1, <3>1 DEF Cell
    <2>2. CASE i \notin M
        <3>1. d.pos[i] = c.pos[i] /\ d.shift[i] = c.shift[i] /\ d.seq[i] = c.seq[i]
            BY <1>1, <2>2 DEF Cell
        <3> QED BY <1>1, <3>1 DEF Sound
    <2> QED BY <2>1, <2>2
<1> QED BY <1>1, <1>2 DEF Sound

\* A used cell of d was used in c, and stands where it did before the shifts.
CellsBased(c, d) ==
    \A i \in Cells : d.pos[i] # -1 => /\ c.pos[i] # -1
                                      /\ d.pos[i] - d.shift[i] = c.pos[i] - c.shift[i]

LEMMA LoopBased ==
    ASSUME NEW c, NEW T, NEW M \in SUBSET Cells, NEW d \in Loop(c, T, M)[M],
           \A i \in M : T[i][1] # -1 => c.pos[i] # -1 /\ T[i][1] - T[i][2] = c.pos[i] - c.shift[i]
    PROVE  CellsBased(c, d)
<1>1. ASSUME NEW i \in Cells, d.pos[i] # -1
      PROVE  c.pos[i] # -1 /\ d.pos[i] - d.shift[i] = c.pos[i] - c.shift[i]
    <2>1. CASE i \in M
        <3>1. T[i] = Cell(d, i)
            BY <2>1 DEF Loop
        <3>2. T[i][1] = d.pos[i] /\ T[i][2] = d.shift[i]
            BY <3>1 DEF Cell
        <3>3. c.pos[i] # -1 /\ T[i][1] - T[i][2] = c.pos[i] - c.shift[i]
            BY <1>1, <2>1, <3>2
        <3> QED BY <3>2, <3>3
    <2>2. CASE i \notin M
        <3>1. Cell(d, i) = Cell(c, i)
            BY <2>2 DEF Loop
        <3>2. d.pos[i] = c.pos[i] /\ d.shift[i] = c.shift[i]
            BY <3>1 DEF Cell
        <3> QED BY <1>1, <3>2
    <2> QED BY <2>1, <2>2
<1> QED BY <1>1 DEF CellsBased

Chosen(M) == [r \in SUBSET M |-> CHOOSE x \in r : TRUE]

LEMMA ChosenChooses ==
    ASSUME NEW M
    PROVE  Chooses(Chosen(M), M) /\ \A r \in SUBSET M : Chosen(M)[r] = CHOOSE x \in r : TRUE
BY DEF Chooses, Chosen

\* seq_rm()
RmCells(c, s) == [i \in Cells |-> IF c.seq[i] \ {s} = {} THEN Gone
                                  ELSE <<c.pos[i], c.shift[i], c.seq[i] \ {s}>>]

\* The loop of seq_rm().
LEMMA SeqRmLoop ==
    ASSUME NEW c, NEW S, Sound(c, S), NEW s \in Seqs, NEW M \in SUBSET Cells,
           \A i \in M : s \in c.seq[i]
    PROVE  ForCells(LAMBDA d, i : seq_rm(d, i, s), c, M) \in Loop(c, RmCells(c, s), M)[M]
<1> DEFINE P == Loop(c, RmCells(c, s), M)
           ch == Chosen(M)
           step == [r \in SUBSET M |-> [d \in P[r \ {ch[r]}] |-> seq_rm(d, ch[r], s)]]
           Eq(g) == g = [r \in SUBSET M |-> IF r = {} THEN c
                            ELSE seq_rm(g[r \ {CHOOSE x \in r : TRUE}], CHOOSE x \in r : TRUE, s)]
<1>0. \A r \in SUBSET M : ch[r] = CHOOSE x \in r : TRUE
    BY ChosenChooses
<1>1. IsFiniteSet(M) /\ Chooses(ch, M)
    BY CellsFinite, FS_Subset, ChosenChooses
<1>2. ASSUME NEW r \in SUBSET M, NEW x \in r, NEW d \in P[r \ {x}]
      PROVE  seq_rm(d, x, s) \in P[r]
    <2>0. Ahead(c, RmCells(c, s), M, r, x, d)
        BY DEF Ahead
    <2>1. /\ Consistent(d) /\ d \in LooseType /\ (c.has_shift => d.has_shift) /\ x \in Cells
          /\ d.pos[x] = c.pos[x] /\ d.shift[x] = c.shift[x] /\ d.seq[x] = c.seq[x]
        BY <2>0, LoopAhead
    <2>2. s \in d.seq[x] /\ d.pos[x] \in Positions
        BY <2>1 DEF Consistent, KvCellsType
    <2>3. Consistent(seq_rm(d, x, s))
        BY <2>1, <2>2, SeqRmConsistent
    <2>4. /\ Alone(d, seq_rm(d, x, s), x) /\ seq_rm(d, x, s).has_shift = d.has_shift
          /\ Cell(seq_rm(d, x, s), x) = RmCells(c, s)[x]
        BY <2>1, <2>2, SeqRmEffect DEF RmCells
    <2>5. RmCells(c, s)[x][2] # 0 => d.has_shift
        BY <2>1 DEF RmCells, Gone, Sound
    <2> HIDE DEF P
    <2> QED BY <2>3, <2>4, <2>5, LoopStep DEF P
<1>3. c \in P[{}]
    BY LoopStarts DEF Sound
<1> HIDE DEF P, ch
<1>4. PICK h : Folded(h, M, ch, c, step) /\ \A r \in SUBSET M : h[r] \in P[r]
    <2>1. \A r \in SUBSET M : r # {} => \A d \in P[r \ {ch[r]}] : step[r][d] \in P[r]
        BY <1>1, <1>2 DEF Chooses
    <2> HIDE DEF step
    <2> QED BY <1>1, <1>3, <2>1, FoldRuns
<1>5. Eq(h)
    <2>1. \A r \in SUBSET M : r # {} =>
              step[r][h[r \ {ch[r]}]] = seq_rm(h[r \ {ch[r]}], ch[r], s)
        BY <1>4
    <2>2. \A r \in SUBSET M : r # {} =>
              step[r][h[r \ {ch[r]}]] =
                  seq_rm(h[r \ {CHOOSE x \in r : TRUE}], CHOOSE x \in r : TRUE, s)
        BY <1>0, <2>1
    <2> HIDE DEF step
    <2> QED BY <1>4, <2>2 DEF Folded
<1>6. PICK g : Eq(g) /\ ForCells(LAMBDA d, i : seq_rm(d, i, s), c, M) = g[M]
    <2>1. ForCells(LAMBDA d, i : seq_rm(d, i, s), c, M) = (CHOOSE g : Eq(g))[M]
        BY Zenon DEF ForCells, FoldSet, MapThenFoldSet
    <2> HIDE DEF Eq
    <2> QED BY <1>5, <2>1
<1>7. \A r \in SUBSET M : r # {} /\ g[r \ {ch[r]}] \in P[r \ {ch[r]}] => g[r] \in P[r]
    <2> SUFFICES ASSUME NEW r \in SUBSET M, r # {}, g[r \ {ch[r]}] \in P[r \ {ch[r]}]
                 PROVE  g[r] \in P[r]
        OBVIOUS
    <2>1. ch[r] \in r
        BY <1>1 DEF Chooses
    <2>2. g[r] = seq_rm(g[r \ {ch[r]}], ch[r], s)
        BY <1>0, <1>6
    <2> HIDE DEF Eq
    <2> QED BY <1>2, <2>1, <2>2
<1>8. g[M] \in P[M]
    <2>1. g[{}] \in P[{}]
        BY <1>3, <1>6
    <2> HIDE DEF Eq
    <2> QED BY <1>1, <1>7, <2>1, FoldKeeps
<1> QED BY <1>6, <1>8 DEF P

\* The loop of seq_rm() over the cells of all sequences.
LEMMA RmLoop ==
    ASSUME NEW c, NEW S, Sound(c, S), NEW M \in SUBSET Cells
    PROVE  ForCells(LAMBDA d, i : rm(d, i), c, M) \in Loop(c, [i \in Cells |-> Gone], M)[M]
<1> DEFINE P == Loop(c, [i \in Cells |-> Gone], M)
           ch == Chosen(M)
           step == [r \in SUBSET M |-> [d \in P[r \ {ch[r]}] |-> rm(d, ch[r])]]
           Eq(g) == g = [r \in SUBSET M |-> IF r = {} THEN c
                            ELSE rm(g[r \ {CHOOSE x \in r : TRUE}], CHOOSE x \in r : TRUE)]
<1>0. \A r \in SUBSET M : ch[r] = CHOOSE x \in r : TRUE
    BY ChosenChooses
<1>1. IsFiniteSet(M) /\ Chooses(ch, M)
    BY CellsFinite, FS_Subset, ChosenChooses
<1>2. ASSUME NEW r \in SUBSET M, NEW x \in r, NEW d \in P[r \ {x}]
      PROVE  rm(d, x) \in P[r]
    <2>0. Ahead(c, [i \in Cells |-> Gone], M, r, x, d)
        BY DEF Ahead
    <2>1. /\ Consistent(d) /\ d \in LooseType /\ (c.has_shift => d.has_shift) /\ x \in Cells
          /\ d.pos[x] = c.pos[x] /\ d.shift[x] = c.shift[x] /\ d.seq[x] = c.seq[x]
        BY <2>0, LoopAhead
    <2>2. Consistent(rm(d, x))
        BY <2>1, RmConsistent
    <2>3. /\ Alone(d, rm(d, x), x) /\ rm(d, x).has_shift = d.has_shift
          /\ Cell(rm(d, x), x) = [i \in Cells |-> Gone][x]
        BY <2>1, RmEffect
    <2>4. [i \in Cells |-> Gone][x][2] = 0
        BY <2>1 DEF Gone
    <2> HIDE DEF P
    <2> QED BY <2>2, <2>3, <2>4, LoopStep DEF P
<1>3. c \in P[{}]
    BY LoopStarts DEF Sound
<1> HIDE DEF P, ch
<1>4. PICK h : Folded(h, M, ch, c, step) /\ \A r \in SUBSET M : h[r] \in P[r]
    <2>1. \A r \in SUBSET M : r # {} => \A d \in P[r \ {ch[r]}] : step[r][d] \in P[r]
        BY <1>1, <1>2 DEF Chooses
    <2> HIDE DEF step
    <2> QED BY <1>1, <1>3, <2>1, FoldRuns
<1>5. Eq(h)
    <2>1. \A r \in SUBSET M : r # {} =>
              step[r][h[r \ {ch[r]}]] = rm(h[r \ {ch[r]}], ch[r])
        BY <1>4
    <2>2. \A r \in SUBSET M : r # {} =>
              step[r][h[r \ {ch[r]}]] =
                  rm(h[r \ {CHOOSE x \in r : TRUE}], CHOOSE x \in r : TRUE)
        BY <1>0, <2>1
    <2> HIDE DEF step
    <2> QED BY <1>4, <2>2 DEF Folded
<1>6. PICK g : Eq(g) /\ ForCells(LAMBDA d, i : rm(d, i), c, M) = g[M]
    <2>1. ForCells(LAMBDA d, i : rm(d, i), c, M) = (CHOOSE g : Eq(g))[M]
        BY Zenon DEF ForCells, FoldSet, MapThenFoldSet
    <2> HIDE DEF Eq
    <2> QED BY <1>5, <2>1
<1>7. \A r \in SUBSET M : r # {} /\ g[r \ {ch[r]}] \in P[r \ {ch[r]}] => g[r] \in P[r]
    <2> SUFFICES ASSUME NEW r \in SUBSET M, r # {}, g[r \ {ch[r]}] \in P[r \ {ch[r]}]
                 PROVE  g[r] \in P[r]
        OBVIOUS
    <2>1. ch[r] \in r
        BY <1>1 DEF Chooses
    <2>2. g[r] = rm(g[r \ {ch[r]}], ch[r])
        BY <1>0, <1>6
    <2> HIDE DEF Eq
    <2> QED BY <1>2, <2>1, <2>2
<1>8. g[M] \in P[M]
    <2>1. g[{}] \in P[{}]
        BY <1>3, <1>6
    <2> HIDE DEF Eq
    <2> QED BY <1>1, <1>7, <2>1, FoldKeeps
<1> QED BY <1>6, <1>8 DEF P

SharedCells(c, s) == [i \in Cells |-> <<c.pos[i], c.shift[i], c.seq[i] \cup {s}>>]

\* The loop of seq_cp() within a stream.
LEMMA SeqAddLoop ==
    ASSUME NEW c, NEW S, Sound(c, S), NEW s \in Seqs, NEW M \in SUBSET Cells,
           \A i \in M : c.pos[i] # -1 /\ s \notin c.seq[i]
    PROVE  ForCells(LAMBDA d, i : seq_add(d, i, s), c, M) \in Loop(c, SharedCells(c, s), M)[M]
<1> DEFINE P == Loop(c, SharedCells(c, s), M)
           ch == Chosen(M)
           step == [r \in SUBSET M |-> [d \in P[r \ {ch[r]}] |-> seq_add(d, ch[r], s)]]
           Eq(g) == g = [r \in SUBSET M |-> IF r = {} THEN c
                            ELSE seq_add(g[r \ {CHOOSE x \in r : TRUE}], CHOOSE x \in r : TRUE, s)]
<1>0. \A r \in SUBSET M : ch[r] = CHOOSE x \in r : TRUE
    BY ChosenChooses
<1>1. IsFiniteSet(M) /\ Chooses(ch, M)
    BY CellsFinite, FS_Subset, ChosenChooses
<1>2. ASSUME NEW r \in SUBSET M, NEW x \in r, NEW d \in P[r \ {x}]
      PROVE  seq_add(d, x, s) \in P[r]
    <2>0. Ahead(c, SharedCells(c, s), M, r, x, d)
        BY DEF Ahead
    <2>1. /\ Consistent(d) /\ d \in LooseType /\ (c.has_shift => d.has_shift) /\ x \in Cells
          /\ d.pos[x] = c.pos[x] /\ d.shift[x] = c.shift[x] /\ d.seq[x] = c.seq[x]
        BY <2>0, LoopAhead
    <2>2. s \notin d.seq[x] /\ d.pos[x] # -1 /\ d.pos[x] \in Positions
        BY <2>1 DEF Consistent, KvCellsType
    <2>3. Consistent(seq_add(d, x, s))
        BY <2>1, <2>2, SeqAddConsistent
    <2>4. /\ Alone(d, seq_add(d, x, s), x) /\ seq_add(d, x, s).has_shift = d.has_shift
          /\ Cell(seq_add(d, x, s), x) = SharedCells(c, s)[x]
        BY <2>1, <2>2, SeqAddEffect DEF SharedCells
    <2>5. SharedCells(c, s)[x][2] # 0 => d.has_shift
        BY <2>1 DEF SharedCells, Sound
    <2> HIDE DEF P
    <2> QED BY <2>3, <2>4, <2>5, LoopStep DEF P
<1>3. c \in P[{}]
    BY LoopStarts DEF Sound
<1> HIDE DEF P, ch
<1>4. PICK h : Folded(h, M, ch, c, step) /\ \A r \in SUBSET M : h[r] \in P[r]
    <2>1. \A r \in SUBSET M : r # {} => \A d \in P[r \ {ch[r]}] : step[r][d] \in P[r]
        BY <1>1, <1>2 DEF Chooses
    <2> HIDE DEF step
    <2> QED BY <1>1, <1>3, <2>1, FoldRuns
<1>5. Eq(h)
    <2>1. \A r \in SUBSET M : r # {} =>
              step[r][h[r \ {ch[r]}]] = seq_add(h[r \ {ch[r]}], ch[r], s)
        BY <1>4
    <2>2. \A r \in SUBSET M : r # {} =>
              step[r][h[r \ {ch[r]}]] =
                  seq_add(h[r \ {CHOOSE x \in r : TRUE}], CHOOSE x \in r : TRUE, s)
        BY <1>0, <2>1
    <2> HIDE DEF step
    <2> QED BY <1>4, <2>2 DEF Folded
<1>6. PICK g : Eq(g) /\ ForCells(LAMBDA d, i : seq_add(d, i, s), c, M) = g[M]
    <2>1. ForCells(LAMBDA d, i : seq_add(d, i, s), c, M) = (CHOOSE g : Eq(g))[M]
        BY Zenon DEF ForCells, FoldSet, MapThenFoldSet
    <2> HIDE DEF Eq
    <2> QED BY <1>5, <2>1
<1>7. \A r \in SUBSET M : r # {} /\ g[r \ {ch[r]}] \in P[r \ {ch[r]}] => g[r] \in P[r]
    <2> SUFFICES ASSUME NEW r \in SUBSET M, r # {}, g[r \ {ch[r]}] \in P[r \ {ch[r]}]
                 PROVE  g[r] \in P[r]
        OBVIOUS
    <2>1. ch[r] \in r
        BY <1>1 DEF Chooses
    <2>2. g[r] = seq_add(g[r \ {ch[r]}], ch[r], s)
        BY <1>0, <1>6
    <2> HIDE DEF Eq
    <2> QED BY <1>2, <2>1, <2>2
<1>8. g[M] \in P[M]
    <2>1. g[{}] \in P[{}]
        BY <1>3, <1>6
    <2> HIDE DEF Eq
    <2> QED BY <1>1, <1>7, <2>1, FoldKeeps
<1> QED BY <1>6, <1>8 DEF P

KeptCells(c, s) == [i \in Cells |-> IF s \in c.seq[i] THEN <<c.pos[i], c.shift[i], {s}>>
                                    ELSE IF c.seq[i] # {} THEN Gone ELSE Cell(c, i)]

\* The loop of seq_keep().
LEMMA SeqKeepLoop ==
    ASSUME NEW c, NEW S, Sound(c, S), NEW s \in Seqs, NEW M \in SUBSET Cells
    PROVE  ForCells(LAMBDA d, i : seq_keep(d, i, s), c, M) \in Loop(c, KeptCells(c, s), M)[M]
<1> DEFINE P == Loop(c, KeptCells(c, s), M)
           ch == Chosen(M)
           step == [r \in SUBSET M |-> [d \in P[r \ {ch[r]}] |-> seq_keep(d, ch[r], s)]]
           Eq(g) == g = [r \in SUBSET M |-> IF r = {} THEN c
                            ELSE seq_keep(g[r \ {CHOOSE x \in r : TRUE}], CHOOSE x \in r : TRUE, s)]
<1>0. \A r \in SUBSET M : ch[r] = CHOOSE x \in r : TRUE
    BY ChosenChooses
<1>1. IsFiniteSet(M) /\ Chooses(ch, M)
    BY CellsFinite, FS_Subset, ChosenChooses
<1>2. ASSUME NEW r \in SUBSET M, NEW x \in r, NEW d \in P[r \ {x}]
      PROVE  seq_keep(d, x, s) \in P[r]
    <2>0. Ahead(c, KeptCells(c, s), M, r, x, d)
        BY DEF Ahead
    <2>1. /\ Consistent(d) /\ d \in LooseType /\ (c.has_shift => d.has_shift) /\ x \in Cells
          /\ d.pos[x] = c.pos[x] /\ d.shift[x] = c.shift[x] /\ d.seq[x] = c.seq[x]
        BY <2>0, LoopAhead
    <2>2. s \in d.seq[x] => d.pos[x] \in Positions
        BY <2>1 DEF Consistent, KvCellsType
    <2>3. Consistent(seq_keep(d, x, s))
        BY <2>1, SeqKeepConsistent
    <2>4. /\ Alone(d, seq_keep(d, x, s), x) /\ seq_keep(d, x, s).has_shift = d.has_shift
          /\ Cell(seq_keep(d, x, s), x) = KeptCells(c, s)[x]
        BY <2>1, <2>2, SeqKeepEffect DEF KeptCells, Cell
    <2>5. KeptCells(c, s)[x][2] # 0 => d.has_shift
        BY <2>1 DEF KeptCells, Gone, Sound, Cell
    <2> HIDE DEF P
    <2> QED BY <2>3, <2>4, <2>5, LoopStep DEF P
<1>3. c \in P[{}]
    BY LoopStarts DEF Sound
<1> HIDE DEF P, ch
<1>4. PICK h : Folded(h, M, ch, c, step) /\ \A r \in SUBSET M : h[r] \in P[r]
    <2>1. \A r \in SUBSET M : r # {} => \A d \in P[r \ {ch[r]}] : step[r][d] \in P[r]
        BY <1>1, <1>2 DEF Chooses
    <2> HIDE DEF step
    <2> QED BY <1>1, <1>3, <2>1, FoldRuns
<1>5. Eq(h)
    <2>1. \A r \in SUBSET M : r # {} =>
              step[r][h[r \ {ch[r]}]] = seq_keep(h[r \ {ch[r]}], ch[r], s)
        BY <1>4
    <2>2. \A r \in SUBSET M : r # {} =>
              step[r][h[r \ {ch[r]}]] =
                  seq_keep(h[r \ {CHOOSE x \in r : TRUE}], CHOOSE x \in r : TRUE, s)
        BY <1>0, <2>1
    <2> HIDE DEF step
    <2> QED BY <1>4, <2>2 DEF Folded
<1>6. PICK g : Eq(g) /\ ForCells(LAMBDA d, i : seq_keep(d, i, s), c, M) = g[M]
    <2>1. ForCells(LAMBDA d, i : seq_keep(d, i, s), c, M) = (CHOOSE g : Eq(g))[M]
        BY Zenon DEF ForCells, FoldSet, MapThenFoldSet
    <2> HIDE DEF Eq
    <2> QED BY <1>5, <2>1
<1>7. \A r \in SUBSET M : r # {} /\ g[r \ {ch[r]}] \in P[r \ {ch[r]}] => g[r] \in P[r]
    <2> SUFFICES ASSUME NEW r \in SUBSET M, r # {}, g[r \ {ch[r]}] \in P[r \ {ch[r]}]
                 PROVE  g[r] \in P[r]
        OBVIOUS
    <2>1. ch[r] \in r
        BY <1>1 DEF Chooses
    <2>2. g[r] = seq_keep(g[r \ {ch[r]}], ch[r], s)
        BY <1>0, <1>6
    <2> HIDE DEF Eq
    <2> QED BY <1>2, <2>1, <2>2
<1>8. g[M] \in P[M]
    <2>1. g[{}] \in P[{}]
        BY <1>3, <1>6
    <2> HIDE DEF Eq
    <2> QED BY <1>1, <1>7, <2>1, FoldKeeps
<1> QED BY <1>6, <1>8 DEF P

MovedCells(c, k) == [i \in Cells |-> IF c.pos[i] + k < 0 THEN Gone
                                     ELSE <<c.pos[i] + k, c.shift[i] + k, c.seq[i]>>]

\* The loop of seq_add() of the cache.
LEMMA PosAddLoop ==
    ASSUME NEW c, NEW S, Sound(c, S), NEW k \in Int, NEW M \in SUBSET Cells,
           \A i \in M : c.pos[i] # -1 /\ c.pos[i] + k <= MaxPos
    PROVE  ForCells(LAMBDA d, i : pos_add(d, i, k), c, M) \in Loop(c, MovedCells(c, k), M)[M]
<1> DEFINE P == Loop(c, MovedCells(c, k), M)
           ch == Chosen(M)
           step == [r \in SUBSET M |-> [d \in P[r \ {ch[r]}] |-> pos_add(d, ch[r], k)]]
           Eq(g) == g = [r \in SUBSET M |-> IF r = {} THEN c
                            ELSE pos_add(g[r \ {CHOOSE x \in r : TRUE}], CHOOSE x \in r : TRUE, k)]
<1>0. \A r \in SUBSET M : ch[r] = CHOOSE x \in r : TRUE
    BY ChosenChooses
<1>1. IsFiniteSet(M) /\ Chooses(ch, M)
    BY CellsFinite, FS_Subset, ChosenChooses
<1>2. ASSUME NEW r \in SUBSET M, NEW x \in r, NEW d \in P[r \ {x}]
      PROVE  pos_add(d, x, k) \in P[r]
    <2>0. Ahead(c, MovedCells(c, k), M, r, x, d)
        BY DEF Ahead
    <2>1. /\ Consistent(d) /\ d \in LooseType /\ (c.has_shift => d.has_shift) /\ x \in Cells
          /\ d.pos[x] = c.pos[x] /\ d.shift[x] = c.shift[x] /\ d.seq[x] = c.seq[x]
        BY <2>0, LoopAhead
    <2>2. d.pos[x] # -1 /\ d.pos[x] + k <= MaxPos
        BY <2>1
    <2>3. Consistent(pos_add(d, x, k))
        BY <2>1, <2>2, PosAddConsistent
    <2>4. /\ Alone(d, pos_add(d, x, k), x) /\ pos_add(d, x, k).has_shift
          /\ Cell(pos_add(d, x, k), x) = MovedCells(c, k)[x]
        BY <2>1, PosAddEffect DEF MovedCells
    <2> HIDE DEF P
    <2> QED BY <2>3, <2>4, LoopStep DEF P
<1>3. c \in P[{}]
    BY LoopStarts DEF Sound
<1> HIDE DEF P, ch
<1>4. PICK h : Folded(h, M, ch, c, step) /\ \A r \in SUBSET M : h[r] \in P[r]
    <2>1. \A r \in SUBSET M : r # {} => \A d \in P[r \ {ch[r]}] : step[r][d] \in P[r]
        BY <1>1, <1>2 DEF Chooses
    <2> HIDE DEF step
    <2> QED BY <1>1, <1>3, <2>1, FoldRuns
<1>5. Eq(h)
    <2>1. \A r \in SUBSET M : r # {} =>
              step[r][h[r \ {ch[r]}]] = pos_add(h[r \ {ch[r]}], ch[r], k)
        BY <1>4
    <2>2. \A r \in SUBSET M : r # {} =>
              step[r][h[r \ {ch[r]}]] =
                  pos_add(h[r \ {CHOOSE x \in r : TRUE}], CHOOSE x \in r : TRUE, k)
        BY <1>0, <2>1
    <2> HIDE DEF step
    <2> QED BY <1>4, <2>2 DEF Folded
<1>6. PICK g : Eq(g) /\ ForCells(LAMBDA d, i : pos_add(d, i, k), c, M) = g[M]
    <2>1. ForCells(LAMBDA d, i : pos_add(d, i, k), c, M) = (CHOOSE g : Eq(g))[M]
        BY Zenon DEF ForCells, FoldSet, MapThenFoldSet
    <2> HIDE DEF Eq
    <2> QED BY <1>5, <2>1
<1>7. \A r \in SUBSET M : r # {} /\ g[r \ {ch[r]}] \in P[r \ {ch[r]}] => g[r] \in P[r]
    <2> SUFFICES ASSUME NEW r \in SUBSET M, r # {}, g[r \ {ch[r]}] \in P[r \ {ch[r]}]
                 PROVE  g[r] \in P[r]
        OBVIOUS
    <2>1. ch[r] \in r
        BY <1>1 DEF Chooses
    <2>2. g[r] = pos_add(g[r \ {ch[r]}], ch[r], k)
        BY <1>0, <1>6
    <2> HIDE DEF Eq
    <2> QED BY <1>2, <2>1, <2>2
<1>8. g[M] \in P[M]
    <2>1. g[{}] \in P[{}]
        BY <1>3, <1>6
    <2> HIDE DEF Eq
    <2> QED BY <1>1, <1>7, <2>1, FoldKeeps
<1> QED BY <1>6, <1>8 DEF P

DividedCells(c, k) == [i \in Cells |-> <<c.pos[i] \div k, c.shift[i] + (c.pos[i] - c.pos[i] \div k),
                                         c.seq[i]>>]

\* The loop of seq_div() of the cache.
LEMMA PosDivLoop ==
    ASSUME NEW c, NEW S, Sound(c, S), NEW k \in Nat \ {0}, NEW M \in SUBSET Cells,
           \A i \in M : c.pos[i] # -1
    PROVE  ForCells(LAMBDA d, i : pos_div(d, i, k), c, M) \in Loop(c, DividedCells(c, k), M)[M]
<1> DEFINE P == Loop(c, DividedCells(c, k), M)
           ch == Chosen(M)
           step == [r \in SUBSET M |-> [d \in P[r \ {ch[r]}] |-> pos_div(d, ch[r], k)]]
           Eq(g) == g = [r \in SUBSET M |-> IF r = {} THEN c
                            ELSE pos_div(g[r \ {CHOOSE x \in r : TRUE}], CHOOSE x \in r : TRUE, k)]
<1>0. \A r \in SUBSET M : ch[r] = CHOOSE x \in r : TRUE
    BY ChosenChooses
<1>1. IsFiniteSet(M) /\ Chooses(ch, M)
    BY CellsFinite, FS_Subset, ChosenChooses
<1>2. ASSUME NEW r \in SUBSET M, NEW x \in r, NEW d \in P[r \ {x}]
      PROVE  pos_div(d, x, k) \in P[r]
    <2>0. Ahead(c, DividedCells(c, k), M, r, x, d)
        BY DEF Ahead
    <2>1. /\ Consistent(d) /\ d \in LooseType /\ (c.has_shift => d.has_shift) /\ x \in Cells
          /\ d.pos[x] = c.pos[x] /\ d.shift[x] = c.shift[x] /\ d.seq[x] = c.seq[x]
        BY <2>0, LoopAhead
    <2>2. d.pos[x] # -1 /\ d.pos[x] \div k \in Int
        <3>1. \A a, b \in Nat : b # 0 => a \div b \in Int
            BY Z3
        <3>2. d.pos[x] # -1 /\ d.pos[x] \in Nat
            BY <2>1, KvCellsAssumption DEF Consistent, KvCellsType, Positions
        <3> QED BY <3>1, <3>2
    <2>3. Consistent(pos_div(d, x, k))
        BY <2>1, <2>2, PosDivConsistent
    <2>4. /\ Alone(d, pos_div(d, x, k), x) /\ pos_div(d, x, k).has_shift
          /\ Cell(pos_div(d, x, k), x) = <<d.pos[x] \div k, d.shift[x] + (d.pos[x] - d.pos[x] \div k), d.seq[x]>>
        BY <2>1, <2>2, PosDivEffect
    <2>5. Cell(pos_div(d, x, k), x) = DividedCells(c, k)[x]
        BY <2>1, <2>4 DEF DividedCells
    <2> HIDE DEF P
    <2> QED BY <2>3, <2>4, <2>5, LoopStep DEF P
<1>3. c \in P[{}]
    BY LoopStarts DEF Sound
<1> HIDE DEF P, ch
<1>4. PICK h : Folded(h, M, ch, c, step) /\ \A r \in SUBSET M : h[r] \in P[r]
    <2>1. \A r \in SUBSET M : r # {} => \A d \in P[r \ {ch[r]}] : step[r][d] \in P[r]
        BY <1>1, <1>2 DEF Chooses
    <2> HIDE DEF step
    <2> QED BY <1>1, <1>3, <2>1, FoldRuns
<1>5. Eq(h)
    <2>1. \A r \in SUBSET M : r # {} =>
              step[r][h[r \ {ch[r]}]] = pos_div(h[r \ {ch[r]}], ch[r], k)
        BY <1>4
    <2>2. \A r \in SUBSET M : r # {} =>
              step[r][h[r \ {ch[r]}]] =
                  pos_div(h[r \ {CHOOSE x \in r : TRUE}], CHOOSE x \in r : TRUE, k)
        BY <1>0, <2>1
    <2> HIDE DEF step
    <2> QED BY <1>4, <2>2 DEF Folded
<1>6. PICK g : Eq(g) /\ ForCells(LAMBDA d, i : pos_div(d, i, k), c, M) = g[M]
    <2>1. ForCells(LAMBDA d, i : pos_div(d, i, k), c, M) = (CHOOSE g : Eq(g))[M]
        BY Zenon DEF ForCells, FoldSet, MapThenFoldSet
    <2> HIDE DEF Eq
    <2> QED BY <1>5, <2>1
<1>7. \A r \in SUBSET M : r # {} /\ g[r \ {ch[r]}] \in P[r \ {ch[r]}] => g[r] \in P[r]
    <2> SUFFICES ASSUME NEW r \in SUBSET M, r # {}, g[r \ {ch[r]}] \in P[r \ {ch[r]}]
                 PROVE  g[r] \in P[r]
        OBVIOUS
    <2>1. ch[r] \in r
        BY <1>1 DEF Chooses
    <2>2. g[r] = pos_div(g[r \ {ch[r]}], ch[r], k)
        BY <1>0, <1>6
    <2> HIDE DEF Eq
    <2> QED BY <1>2, <2>1, <2>2
<1>8. g[M] \in P[M]
    <2>1. g[{}] \in P[{}]
        BY <1>3, <1>6
    <2> HIDE DEF Eq
    <2> QED BY <1>1, <1>7, <2>1, FoldKeeps
<1> QED BY <1>6, <1>8 DEF P

\* A cell of the other stream: same position, same shift.
CopiedCells(f, s) == [i \in Cells |-> <<f.pos[i], f.shift[i], {s}>>]

LEMMA CopyCellEffect ==
    ASSUME NEW d, Consistent(d), NEW i \in Cells, Cell(d, i) = Gone, NEW s \in Seqs,
           NEW f, Consistent(f), f.pos[i] # -1, f.pos[i] - f.shift[i] \in Positions
    PROVE  /\ Consistent(CopyCell(d, i, f, s)) /\ Alone(d, CopyCell(d, i, f, s), i)
           /\ Cell(CopyCell(d, i, f, s), i) = CopiedCells(f, s)[i]
           /\ d.has_shift => CopyCell(d, i, f, s).has_shift
           /\ f.shift[i] # 0 => CopyCell(d, i, f, s).has_shift
<1> DEFINE k == f.shift[i]
           e == pos_set(d, i, f.pos[i] - k)
           g == seq_add(e, i, s)
<1>1. f.pos[i] \in Positions /\ k \in Int /\ d \in LooseType
      /\ d.pos[i] = -1 /\ d.shift[i] = 0 /\ d.seq[i] = {}
    BY Loosen DEF Consistent, KvCellsType, Cell, Gone
<1>2. PICK p \in Positions : p = f.pos[i] - k
    OBVIOUS
<1>3. Consistent(e) /\ Alone(d, e, i) /\ Cell(e, i) = <<p, 0, {}>> /\ e.has_shift = d.has_shift
    BY <1>1, <1>2, PosSetConsistent, PosSetEffect
<1> HIDE DEF e
<1>4. p # -1 /\ f.pos[i] <= MaxPos /\ f.pos[i] >= 0 /\ f.pos[i] = p + k /\ p \in Int
    BY <1>1, <1>2, KvCellsAssumption DEF Positions
<1>5. e \in LooseType /\ e.pos[i] = p /\ e.shift[i] = 0 /\ e.seq[i] = {}
    BY <1>3, Loosen DEF Cell
<1>6. Consistent(g)
    BY <1>3, <1>4, <1>5, SeqAddConsistent
<1>7. Alone(e, g, i) /\ Cell(g, i) = <<p, 0, {s}>> /\ g.has_shift = e.has_shift
    BY <1>4, <1>5, SeqAddEffect
<1> HIDE DEF g
<1>8. g \in LooseType /\ g.pos[i] = p /\ g.shift[i] = 0 /\ g.seq[i] = {s}
    BY <1>6, <1>7, Loosen DEF Cell
<1>9. Alone(d, g, i)
    BY <1>3, <1>7 DEF Alone
<1> HIDE DEF k
<1>10. CASE k = 0
    <2>1. CopyCell(d, i, f, s) = g
        BY <1>10 DEF CopyCell, k, e, g
    <2>2. Cell(g, i) = CopiedCells(f, s)[i]
        BY <1>4, <1>7, <1>10 DEF CopiedCells, k
    <2> QED BY <1>3, <1>6, <1>7, <1>9, <1>10, <2>1, <2>2 DEF k
<1>11. CASE k # 0
    <2>1. CopyCell(d, i, f, s) = pos_add(g, i, k)
        BY <1>11 DEF CopyCell, k, e, g
    <2>2. Consistent(pos_add(g, i, k))
        BY <1>1, <1>4, <1>6, <1>8, PosAddConsistent
    <2>3. /\ Alone(g, pos_add(g, i, k), i) /\ pos_add(g, i, k).has_shift
          /\ Cell(pos_add(g, i, k), i) = <<p + k, 0 + k, {s}>>
        <3>1. p + k >= 0 /\ k \in Int
            BY <1>1, <1>4
        <3> HIDE DEF CopiedCells
        <3>2. PICK y \in Cells : y = i
            OBVIOUS
        <3>3. /\ Alone(g, pos_add(g, y, k), y) /\ pos_add(g, y, k).has_shift
              /\ Cell(pos_add(g, y, k), y) = IF g.pos[y] + k < 0 THEN Gone
                                              ELSE <<g.pos[y] + k, g.shift[y] + k, g.seq[y]>>
            BY <1>8, <3>1, PosAddEffect
        <3>4. ~(p + k < 0)
            BY <1>4, <3>1
        <3> QED BY <1>8, <3>2, <3>3, <3>4
    <2>4. Alone(d, pos_add(g, i, k), i)
        BY <1>9, <2>3 DEF Alone
    <2>5. Cell(pos_add(g, i, k), i) = CopiedCells(f, s)[i]
        BY <1>1, <1>4, <2>3 DEF CopiedCells, k
    <2> QED BY <2>1, <2>2, <2>3, <2>4, <2>5
<1> QED BY <1>10, <1>11

\* The loop of seq_cp() across streams, into a stream that is empty.
LEMMA CopyLoop ==
    ASSUME NEW c, NEW f, Consistent(f), NEW S, c = Empty, NEW s \in Seqs, NEW M \in SUBSET Cells,
           \A i \in M : f.pos[i] # -1 /\ f.pos[i] - f.shift[i] \in Positions
    PROVE  ForCells(LAMBDA d, i : CopyCell(d, i, f, s), c, M) \in Loop(c, CopiedCells(f, s), M)[M]
<1> DEFINE P == Loop(c, CopiedCells(f, s), M)
           ch == Chosen(M)
           step == [r \in SUBSET M |-> [d \in P[r \ {ch[r]}] |-> CopyCell(d, ch[r], f, s)]]
           Eq(g) == g = [r \in SUBSET M |-> IF r = {} THEN c
                            ELSE CopyCell(g[r \ {CHOOSE x \in r : TRUE}], CHOOSE x \in r : TRUE, f, s)]
<1>0. \A r \in SUBSET M : ch[r] = CHOOSE x \in r : TRUE
    BY ChosenChooses
<1>1. IsFiniteSet(M) /\ Chooses(ch, M)
    BY CellsFinite, FS_Subset, ChosenChooses
<1>2. ASSUME NEW r \in SUBSET M, NEW x \in r, NEW d \in P[r \ {x}]
      PROVE  CopyCell(d, x, f, s) \in P[r]
    <2>0. Ahead(c, CopiedCells(f, s), M, r, x, d)
        BY DEF Ahead
    <2>1. /\ Consistent(d) /\ d \in LooseType /\ (c.has_shift => d.has_shift) /\ x \in Cells
          /\ d.pos[x] = c.pos[x] /\ d.shift[x] = c.shift[x] /\ d.seq[x] = c.seq[x]
        BY <2>0, LoopAhead
    <2>2. Cell(d, x) = Gone
        BY <2>1 DEF Cell, Gone, Empty
    <2>3. /\ Consistent(CopyCell(d, x, f, s)) /\ Alone(d, CopyCell(d, x, f, s), x)
          /\ Cell(CopyCell(d, x, f, s), x) = CopiedCells(f, s)[x]
          /\ d.has_shift => CopyCell(d, x, f, s).has_shift
          /\ f.shift[x] # 0 => CopyCell(d, x, f, s).has_shift
        BY <2>1, <2>2, CopyCellEffect
    <2>4. CopiedCells(f, s)[x][2] = f.shift[x]
        BY <2>1 DEF CopiedCells
    <2> HIDE DEF P
    <2> QED BY <2>3, <2>4, LoopStep DEF P
<1>3. c \in P[{}]
    BY LoopStarts, EmptyConsistent
<1> HIDE DEF P, ch
<1>4. PICK h : Folded(h, M, ch, c, step) /\ \A r \in SUBSET M : h[r] \in P[r]
    <2>1. \A r \in SUBSET M : r # {} => \A d \in P[r \ {ch[r]}] : step[r][d] \in P[r]
        BY <1>1, <1>2 DEF Chooses
    <2> HIDE DEF step
    <2> QED BY <1>1, <1>3, <2>1, FoldRuns
<1>5. Eq(h)
    <2>1. \A r \in SUBSET M : r # {} =>
              step[r][h[r \ {ch[r]}]] = CopyCell(h[r \ {ch[r]}], ch[r], f, s)
        BY <1>4
    <2>2. \A r \in SUBSET M : r # {} =>
              step[r][h[r \ {ch[r]}]] =
                  CopyCell(h[r \ {CHOOSE x \in r : TRUE}], CHOOSE x \in r : TRUE, f, s)
        BY <1>0, <2>1
    <2> HIDE DEF step
    <2> QED BY <1>4, <2>2 DEF Folded
<1>6. PICK g : Eq(g) /\ ForCells(LAMBDA d, i : CopyCell(d, i, f, s), c, M) = g[M]
    <2>1. ForCells(LAMBDA d, i : CopyCell(d, i, f, s), c, M) = (CHOOSE g : Eq(g))[M]
        BY Zenon DEF ForCells, FoldSet, MapThenFoldSet
    <2> HIDE DEF Eq
    <2> QED BY <1>5, <2>1
<1>7. \A r \in SUBSET M : r # {} /\ g[r \ {ch[r]}] \in P[r \ {ch[r]}] => g[r] \in P[r]
    <2> SUFFICES ASSUME NEW r \in SUBSET M, r # {}, g[r \ {ch[r]}] \in P[r \ {ch[r]}]
                 PROVE  g[r] \in P[r]
        OBVIOUS
    <2>1. ch[r] \in r
        BY <1>1 DEF Chooses
    <2>2. g[r] = CopyCell(g[r \ {ch[r]}], ch[r], f, s)
        BY <1>0, <1>6
    <2> HIDE DEF Eq
    <2> QED BY <1>2, <2>1, <2>2
<1>8. g[M] \in P[M]
    <2>1. g[{}] \in P[{}]
        BY <1>3, <1>6
    <2> HIDE DEF Eq
    <2> QED BY <1>1, <1>7, <2>1, FoldKeeps
<1> QED BY <1>6, <1>8 DEF P

-----------------------------------------------------------------------------
(***************************************************************************)
(* The state of the cache: all streams sound, and the heads within them    *)
(***************************************************************************)
LEMMA LeastOf ==
    ASSUME NEW K, K \subseteq Nat, K # {}
    PROVE  Least(K) \in K /\ \A j \in K : Least(K) <= j
<1>1. PICK k \in K : \A j \in K : ~(<<j, k>> \in OpToRel(<, Nat))
    <2>1. IsWellFoundedOn(OpToRel(<, Nat), Nat)
        BY NatLessThanWellFounded
    <2> QED BY <2>1, WFMin
<1>2. ASSUME NEW j \in K, ~(k <= j)
      PROVE  FALSE
    <2>1. j \in Nat /\ k \in Nat /\ j < k
        BY <1>2
    <2>2. <<j, k>> \in OpToRel(<, Nat)
        BY <2>1 DEF OpToRel
    <2> QED BY <1>1, <2>2
<1>3. \E x \in K : \A j \in K : x <= j
    BY <1>2
<1> QED BY <1>3 DEF Least

LEMMA NthOf ==
    ASSUME NEW K, K \subseteq Nat, IsFiniteSet(K), NEW k \in 1 .. Cardinality(K)
    PROVE  Nth(K, k) \in K /\ Cardinality({j \in K : j <= Nth(K, k)}) = k
<1> DEFINE Upto(i) == {j \in K : j <= i}
           T == {n \in Nat : n \in 1 .. Cardinality(K) => \E i \in K : Cardinality(Upto(i)) = n}
<1>1. 0 \in T
    OBVIOUS
<1>2. ASSUME NEW n \in Nat, n \in T
      PROVE  n + 1 \in T
    <2> SUFFICES ASSUME n + 1 \in 1 .. Cardinality(K)
                 PROVE  \E i \in K : Cardinality(Upto(i)) = n + 1
        OBVIOUS
    <2>1. Cardinality(K) \in Nat /\ n < Cardinality(K)
        BY FS_CardinalityType
    <2>2. PICK A \in SUBSET K : /\ Cardinality(A) = n
                                /\ \A i \in A, j \in K : j <= i => j \in A
        <3>1. CASE n = 0
            BY <3>1, FS_EmptySet
        <3>2. CASE n # 0
            <4>1. PICK i \in K : Cardinality(Upto(i)) = n
                BY <1>2, <2>1, <3>2
            <4> QED BY <4>1
        <3> QED BY <3>1, <3>2
    <2>3. IsFiniteSet(A)
        BY FS_Subset
    <2>9. A # K
        BY <2>1, <2>2
    <2>4. PICK m \in K \ A : \A j \in K \ A : m <= j
        BY <2>2, <2>3, <2>9, LeastOf
    <2>5. Upto(m) = A \cup {m}
        <3>1. ASSUME NEW j \in A
              PROVE  j <= m
            BY <2>2, <2>4
        <3>2. ASSUME NEW j \in K, j <= m, j \notin A
              PROVE  j = m
            BY <2>4, <3>2
        <3>3. m \in Nat /\ m <= m
            BY <2>4
        <3>4. \A j \in K : j <= m <=> j \in A \cup {m}
            BY <3>1, <3>2, <3>3
        <3> QED BY <2>4, <3>4
    <2>6. Cardinality(A \cup {m}) = n + 1
        BY <2>2, <2>3, FS_AddElement
    <2> QED BY <2>5, <2>6
<1>3. k \in T
    <2>1. k \in Nat
        OBVIOUS
    <2> HIDE DEF T
    <2> QED BY <1>1, <1>2, <2>1, Counting
<1>4. \E i \in K : Cardinality(Upto(i)) = k
    BY <1>3
<1> QED BY <1>4 DEF Nth

Owned(m) == {s \in Seqs : seq_to_stream(s) = m}

States == [v : [Streams -> KvCellsType], h : [Streams -> 0 .. Size]]
GoodStates == {S \in States : \A m \in Streams : Sound(S.v[m], Owned(m))}
StillStates == {S \in GoodStates : \A m \in Streams : Still(S.v[m])}
Kinds == {GoodStates, StillStates}

LEMMA StreamOf ==
    ASSUME NEW s \in Seqs
    PROVE  seq_to_stream(s) \in Streams /\ s \in Owned(seq_to_stream(s))
BY DEF Streams, Owned

LEMMA PutCells ==
    ASSUME NEW G \in Kinds, NEW S \in G, NEW m \in Streams, NEW c, Sound(c, Owned(m)),
           Still(S.v[m]) => Still(c), NEW h \in [Streams -> 0 .. Size]
    PROVE  [v |-> [S.v EXCEPT ![m] = c], h |-> h] \in G
<1>1. S \in States /\ \A x \in Streams : Sound(S.v[x], Owned(x))
    BY DEF Kinds, GoodStates, StillStates
<1>2. c \in KvCellsType
    BY DEF Sound, Consistent
<1>3. PICK w \in [Streams -> KvCellsType] : /\ w = [S.v EXCEPT ![m] = c] /\ w[m] = c
                                            /\ \A x \in Streams : x # m => w[x] = S.v[x]
    <2>1. PICK u \in [Streams -> KvCellsType] : u = S.v
        BY <1>1 DEF States
    <2>2. [u EXCEPT ![m] = c] \in [Streams -> KvCellsType]
        BY <1>2
    <2> QED BY <2>1, <2>2
<1>4. [v |-> w, h |-> h] \in GoodStates
    <2>1. \A x \in Streams : Sound(w[x], Owned(x))
        BY <1>1, <1>3
    <2>2. [v |-> w, h |-> h] \in States
        BY <1>3 DEF States
    <2> QED BY <2>1, <2>2 DEF GoodStates
<1>5. ASSUME G = StillStates
      PROVE  [v |-> w, h |-> h] \in StillStates
    <2>1. \A x \in Streams : Still(S.v[x])
        BY <1>5 DEF StillStates
    <2> QED BY <1>3, <1>4, <2>1 DEF StillStates
<1> QED BY <1>3, <1>4, <1>5 DEF Kinds

LEMMA PullHeadKeeps ==
    ASSUME NEW G \in Kinds, NEW S \in G, NEW m \in Streams, NEW c, Sound(c, Owned(m)),
           Still(S.v[m]) => Still(c)
    PROVE  PullHead(S, m, c) \in G
<1> DEFINE F == Freed(S.v[m], c)
           head == IF F # {} /\ Least(F) < S.h[m] THEN Least(F) ELSE S.h[m]
<1>1. S.h \in [Streams -> 0 .. Size]
    BY DEF Kinds, GoodStates, StillStates, States
<1>2. F # {} => Least(F) \in 0 .. Size
    <2>1. F \subseteq Cells /\ Cells \subseteq 0 .. Size /\ F \subseteq Nat
        BY KvCellsAssumption DEF Freed, Cells
    <2> HIDE DEF F
    <2> QED BY <2>1, LeastOf
<1>3. head \in 0 .. Size
    BY <1>1, <1>2
<1>4. PullHead(S, m, c) = [v |-> [S.v EXCEPT ![m] = c], h |-> [S.h EXCEPT ![m] = head]]
    BY DEF PullHead
<1> HIDE DEF head, F
<1>5. [S.h EXCEPT ![m] = head] \in [Streams -> 0 .. Size]
    BY <1>1, <1>3
<1> QED BY <1>4, <1>5, PutCells

\* A loop that leaves no shift where there was none.
LEMMA LoopStill ==
    ASSUME NEW c, NEW T, NEW M \in SUBSET Cells, NEW d \in Loop(c, T, M)[M],
           \A i \in M : c.shift[i] = 0 => T[i][2] = 0
    PROVE  Still(c) => Still(d)
<1> SUFFICES ASSUME Still(c), NEW i \in Cells
             PROVE  d.shift[i] = 0
    BY DEF Still
<1>1. CASE i \in M
    <2>1. Cell(d, i) = T[i] /\ T[i][2] = 0
        BY <1>1 DEF Loop, Still
    <2> QED BY <2>1 DEF Cell
<1>2. CASE i \notin M
    <2>1. Cell(d, i) = Cell(c, i)
        BY <1>2 DEF Loop
    <2> QED BY <2>1 DEF Cell, Still
<1> QED BY <1>1, <1>2

LEMMA SeqRmInKeeps ==
    ASSUME NEW G \in Kinds, NEW S \in G, NEW s \in Seqs, NEW p0, NEW p1
    PROVE  SeqRmIn(S, s, p0, p1) \in G
<1> DEFINE m == seq_to_stream(s)
           M == Matching(S, m, s, p0, p1)
           c == ForCells(LAMBDA d, i : seq_rm(d, i, s), S.v[m], M)
<1>1. SeqRmIn(S, s, p0, p1) = PullHead(S, m, c)
    BY Zenon DEF SeqRmIn
<1>2. m \in Streams
    BY StreamOf
<1>3. M \in SUBSET Cells /\ \A i \in M : s \in S.v[m].seq[i]
    BY DEF Matching
<1>4. Sound(S.v[m], Owned(m))
    BY <1>2 DEF Kinds, GoodStates, StillStates
<1> HIDE DEF M, m
<1>5. c \in Loop(S.v[m], RmCells(S.v[m], s), M)[M]
    BY <1>3, <1>4, SeqRmLoop
<1> HIDE DEF c
<1>6. \A i \in M : LET x == RmCells(S.v[m], s)[i] IN
          /\ x[3] \subseteq Owned(m) /\ (x[1] # -1 => x[3] # {})
          /\ S.v[m].shift[i] = 0 => x[2] = 0
    BY <1>3, <1>4 DEF RmCells, Gone, Sound
<1>7. Sound(c, Owned(m))
    BY <1>3, <1>4, <1>5, <1>6, LoopSound
<1>8. Still(S.v[m]) => Still(c)
    BY <1>3, <1>5, <1>6, LoopStill
<1> QED BY <1>1, <1>2, <1>7, <1>8, PullHeadKeeps

\* What may be left of cell y: all of it but some sequences, or nothing.
LeftOf(x, y) == x = Gone \/ (x[1] = y[1] /\ x[2] = y[2] /\ x[3] \subseteq y[3])

\* T is what a removal leaves of S.
Remains(S, T) == \A m \in Streams, i \in Cells : LeftOf(Cell(T.v[m], i), Cell(S.v[m], i))

LEMMA RemainsRemains ==
    ASSUME NEW S, NEW T, NEW U, Remains(S, T), Remains(T, U)
    PROVE  Remains(S, U)
<1> SUFFICES ASSUME NEW m \in Streams, NEW i \in Cells
             PROVE  LeftOf(Cell(U.v[m], i), Cell(S.v[m], i))
    BY DEF Remains
<1>1. LeftOf(Cell(U.v[m], i), Cell(T.v[m], i)) /\ LeftOf(Cell(T.v[m], i), Cell(S.v[m], i))
    BY DEF Remains
<1>2. PICK a, b, c : Cell(U.v[m], i) = <<a, b, c>>
    BY DEF Cell
<1>3. CASE Cell(T.v[m], i) = Gone
    BY <1>1, <1>2, <1>3 DEF LeftOf, Gone
<1>4. CASE Cell(T.v[m], i) # Gone
    BY <1>1, <1>4 DEF LeftOf
<1> QED BY <1>3, <1>4

\* A call that changes one stream.
LEMMA RemainsIn ==
    ASSUME NEW S \in GoodStates, NEW m \in Streams, NEW c,
           \A i \in Cells : LeftOf(Cell(c, i), Cell(S.v[m], i))
    PROVE  /\ Remains(S, PullHead(S, m, c)) /\ PullHead(S, m, c).v[m] = c
           /\ \A x \in Streams : x # m => PullHead(S, m, c).v[x] = S.v[x]
<1>1. S.v \in [Streams -> KvCellsType]
    BY DEF GoodStates, States
<1>2. PullHead(S, m, c).v = [S.v EXCEPT ![m] = c]
    BY DEF PullHead
<1>3. PullHead(S, m, c).v[m] = c /\ \A x \in Streams : x # m => PullHead(S, m, c).v[x] = S.v[x]
    BY <1>1, <1>2
<1>4. \A x, i : LeftOf(Cell(S.v[x], i), Cell(S.v[x], i))
    BY DEF LeftOf
<1> QED BY <1>3, <1>4 DEF Remains

\* Cell i of its stream holds sequence s, at what position.
Has(S, s, i) == s \in S.v[seq_to_stream(s)].seq[i]
At(S, s, i) == S.v[seq_to_stream(s)].pos[i]

\* Only s loses cells: those at its positions in [p0, p1).
LEMMA SeqRmInLeaves ==
    ASSUME NEW S \in GoodStates, NEW s \in Seqs, NEW p0, NEW p1, NEW m, m = seq_to_stream(s),
           NEW T, T = SeqRmIn(S, s, p0, p1)
    PROVE  /\ Remains(S, T)
           /\ \A x \in Seqs, i \in Cells :
                  Has(T, x, i) <=> Has(S, x, i) /\ ~(x = s /\ pos_in(S.v[m], i, p0, p1))
<1> DEFINE M == Matching(S, m, s, p0, p1)
           c == ForCells(LAMBDA d, i : seq_rm(d, i, s), S.v[m], M)
<1>1. T = PullHead(S, m, c)
    BY Zenon DEF SeqRmIn
<1>2. m \in Streams
    BY StreamOf
<1>3. M \in SUBSET Cells /\ \A i \in M : s \in S.v[m].seq[i]
    BY DEF Matching
<1>4. Sound(S.v[m], Owned(m))
    BY <1>2 DEF GoodStates
<1>5. \A i \in Cells : s \in S.v[m].seq[i] /\ i \notin M => ~pos_in(S.v[m], i, p0, p1)
    BY DEF Matching
<1>9. \A i \in M : pos_in(S.v[m], i, p0, p1)
    BY DEF Matching
<1> HIDE DEF M
<1>6. c \in Loop(S.v[m], RmCells(S.v[m], s), M)[M]
    BY <1>3, <1>4, SeqRmLoop
<1> HIDE DEF c
<1>7. /\ \A i \in M : Cell(c, i) = RmCells(S.v[m], s)[i]
      /\ \A i \in Cells \ M : Cell(c, i) = Cell(S.v[m], i)
    BY <1>6 DEF Loop
<1>8. ASSUME NEW i \in Cells
      PROVE  /\ LeftOf(Cell(c, i), Cell(S.v[m], i))
             /\ \A x : x \in c.seq[i] <=>
                       x \in S.v[m].seq[i] /\ ~(x = s /\ pos_in(S.v[m], i, p0, p1))
    <2>1. CASE i \in M
        <3>1. Cell(c, i) = RmCells(S.v[m], s)[i]
            BY <1>7, <2>1
        <3>2. c.seq[i] = S.v[m].seq[i] \ {s} /\ pos_in(S.v[m], i, p0, p1)
            BY <1>9, <2>1, <3>1 DEF RmCells, Gone, Cell
        <3>3. LeftOf(Cell(c, i), Cell(S.v[m], i))
            BY <3>1 DEF RmCells, LeftOf, Cell
        <3> QED BY <3>2, <3>3
    <2>2. CASE i \notin M
        <3>1. Cell(c, i) = Cell(S.v[m], i)
            BY <1>7, <2>2
        <3> QED BY <1>5, <2>2, <3>1 DEF LeftOf, Cell
    <2> QED BY <2>1, <2>2
<1>10. /\ Remains(S, T) /\ T.v[m] = c
       /\ \A x \in Streams : x # m => T.v[x] = S.v[x]
    BY <1>1, <1>2, <1>8, RemainsIn
<1>11. ASSUME NEW x \in Seqs, NEW i \in Cells
       PROVE  Has(T, x, i) <=> Has(S, x, i) /\ ~(x = s /\ pos_in(S.v[m], i, p0, p1))
    <2>1. PICK n \in Streams : n = seq_to_stream(x)
        BY StreamOf
    <2>2. CASE n = m
        BY <1>8, <1>10, <2>1, <2>2 DEF Has
    <2>3. CASE n # m
        BY <1>10, <2>1, <2>3 DEF Has
    <2> QED BY <2>2, <2>3
<1> QED BY <1>10, <1>11

-----------------------------------------------------------------------------
(***************************************************************************)
(* Finding a slot                                                          *)
(***************************************************************************)
TokensIn(m) == [pos : Positions, seqs : (SUBSET Owned(m)) \ {{}}]
Parts == {p \in [strm : Streams, toks : Seq([pos : Positions, seqs : SUBSET Seqs])] :
             p.toks \in Seq(TokensIn(p.strm))}
\* A micro batch.  It has no more parts than there are streams.
Ubatches == {ub \in Seq(Parts) : \A k \in DOMAIN ub : k - 1 \in Streams}
Different(x) == \A j, l \in DOMAIN x : x[j] = x[l] => j = l
Slots(ub) == {x \in Seq(Seq(Cells)) :
                 /\ DOMAIN x = DOMAIN ub
                 /\ \A k \in DOMAIN ub : /\ x[k] # <<>> /\ DOMAIN x[k] = DOMAIN ub[k].toks
                                         /\ Different(x[k])}

LEMMA Listing ==
    ASSUME NEW X, NEW n \in Nat, NEW f, f = [k \in 1 .. n |-> f[k]], \A k \in 1 .. n : f[k] \in X
    PROVE  f \in Seq(X)
<1>1. f \in [1 .. n -> X]
    OBVIOUS
<1> QED BY <1>1

\* The search reaches no cell twice.
LEMMA WrapsOnce ==
    ASSUME NEW n \in Nat \ {0}, NEW a \in 0 .. n, NEW j \in 0 .. n - 1, NEW l \in 0 .. n - 1,
           (a + j) % n = (a + l) % n
    PROVE  j = l
<1>1. ASSUME NEW x \in 0 .. n - 1
      PROVE  (a + x) % n = IF a + x < n THEN a + x ELSE a + x - n
    <2>1. CASE a + x \in 0 .. n - 1
        BY <2>1
    <2>2. CASE a + x \in n .. 2 * n - 1
        <3>1. (a + x) % n = a + x - n
            BY <2>2
        <3> QED BY <2>2, <3>1
    <2> QED BY <2>1, <2>2
<1>2. (a + j) % n = IF a + j < n THEN a + j ELSE a + j - n
    BY <1>1
<1>3. (a + l) % n = IF a + l < n THEN a + l ELSE a + l - n
    BY <1>1
<1>4. PICK u, w : u = (a + j) % n /\ w = (a + l) % n /\ u = w
    OBVIOUS
<1> QED BY <1>2, <1>3, <1>4

LEMMA FindCellsGives ==
    ASSUME NEW c, NEW head \in 0 .. Size, NEW n \in Nat
    PROVE  /\ FindCells(c, head, n) \in Seq(Cells) /\ Different(FindCells(c, head, n))
           /\ FindCells(c, head, n) # <<>> => DOMAIN FindCells(c, head, n) = 1 .. n
<1> DEFINE From(j) == (SearchFrom(c, head, n) + j) % Size
           usable == {j \in Cells : CanUse(c, From(j))}
<1>1. FindCells(c, head, n) = IF Cardinality(usable) < n THEN <<>>
                              ELSE [k \in 1 .. n |-> From(Nth(usable, k))]
    BY DEF FindCells
<1>2. Size \in Nat \ {0} /\ SearchFrom(c, head, n) \in Nat
    BY KvCellsAssumption DEF SearchFrom
<1>3. \A j \in Nat : From(j) \in Cells
    BY <1>2 DEF Cells
<1>9. \A j, l \in Cells : From(j) = From(l) => j = l
    <2>1. Cells = 0 .. Size - 1
        BY DEF Cells
    <2>2. SearchFrom(c, head, n) \in 0 .. Size
        BY <1>2 DEF SearchFrom
    <2> QED BY <1>2, <2>1, <2>2, WrapsOnce
<1>4. usable \subseteq Nat /\ IsFiniteSet(usable) /\ usable \subseteq Cells
    BY CellsFinite, FS_Subset, KvCellsAssumption DEF Cells
<1> HIDE DEF From, usable
<1>5. CASE Cardinality(usable) < n
    BY <1>1, <1>5 DEF Different
<1>6. CASE ~(Cardinality(usable) < n)
    <2>1. Cardinality(usable) \in Nat
        BY <1>4, FS_CardinalityType
    <2>2. \A k \in 1 .. n : k \in 1 .. Cardinality(usable)
        BY <1>6, <2>1
    <2>3. \A k \in 1 .. n : Nth(usable, k) \in Nat
        BY <1>4, <2>2, NthOf
    <2>4. \A k \in 1 .. n : From(Nth(usable, k)) \in Cells
        BY <1>3, <2>3
    <2>5. [k \in 1 .. n |-> From(Nth(usable, k))] \in Seq(Cells)
        BY <2>4
    <2>6. ASSUME NEW k \in 1 .. n, NEW l \in 1 .. n, From(Nth(usable, k)) = From(Nth(usable, l))
          PROVE  k = l
        <3>1. /\ Nth(usable, k) \in usable /\ Cardinality({j \in usable : j <= Nth(usable, k)}) = k
              /\ Nth(usable, l) \in usable /\ Cardinality({j \in usable : j <= Nth(usable, l)}) = l
            BY <1>4, <2>2, NthOf
        <3>2. Nth(usable, k) = Nth(usable, l)
            BY <1>4, <1>9, <2>6, <3>1
        <3> QED BY <3>1, <3>2
    <2>7. Different([k \in 1 .. n |-> From(Nth(usable, k))])
        BY <2>6 DEF Different
    <2> QED BY <1>1, <1>6, <2>5, <2>7
<1> QED BY <1>5, <1>6

LEMMA PartFields ==
    ASSUME NEW ub \in Seq(Parts), NEW k \in DOMAIN ub
    PROVE  /\ ub[k].strm \in Streams
           /\ ub[k].toks \in Seq(TokensIn(ub[k].strm))
           /\ Len(ub[k].toks) \in Nat /\ DOMAIN ub[k].toks = 1 .. Len(ub[k].toks)
<1>1. PICK p \in Parts : p = ub[k]
    OBVIOUS
<1>2. p.strm \in Streams /\ p.toks \in Seq(TokensIn(p.strm))
    BY DEF Parts
<1> QED BY <1>1, <1>2

LEMMA FindSlotGives ==
    ASSUME NEW S \in States, NEW ub \in Seq(Parts), find_slot(S, ub) # <<>>
    PROVE  find_slot(S, ub) \in Slots(ub)
<1> DEFINE idxs == [k \in DOMAIN ub |->
                       FindCells(S.v[ub[k].strm], S.h[ub[k].strm], Len(ub[k].toks))]
<1>1. find_slot(S, ub) = idxs /\ \A k \in DOMAIN ub : idxs[k] # <<>>
    BY DEF find_slot
<1>2. ASSUME NEW k \in DOMAIN ub
      PROVE  idxs[k] \in Seq(Cells) /\ DOMAIN idxs[k] = DOMAIN ub[k].toks /\ Different(idxs[k])
    <2>1. /\ ub[k].strm \in Streams
          /\ Len(ub[k].toks) \in Nat /\ DOMAIN ub[k].toks = 1 .. Len(ub[k].toks)
        BY PartFields
    <2>2. S.h[ub[k].strm] \in 0 .. Size
        BY <2>1 DEF States
    <2>3. idxs[k] = FindCells(S.v[ub[k].strm], S.h[ub[k].strm], Len(ub[k].toks))
        OBVIOUS
    <2> HIDE DEF idxs
    <2> QED BY <1>1, <2>1, <2>2, <2>3, FindCellsGives
<1>3. DOMAIN ub = 1 .. Len(ub) /\ Len(ub) \in Nat /\ DOMAIN idxs = DOMAIN ub
    OBVIOUS
<1>4. idxs \in Seq(Seq(Cells))
    <2>1. idxs = [k \in 1 .. Len(ub) |-> idxs[k]]
        BY <1>3
    <2> HIDE DEF idxs
    <2> QED BY <1>2, <1>3, <2>1
<1> HIDE DEF idxs
<1> QED BY <1>1, <1>2, <1>3, <1>4 DEF Slots

-----------------------------------------------------------------------------
(***************************************************************************)
(* Putting a micro batch into its slot                                     *)
(***************************************************************************)
\* Cell i holds its position for the sequences of r.
Shared(c, i, M) ==
    [r \in SUBSET M |-> {d \in KvCellsType :
        /\ Consistent(d) /\ Alone(c, d, i) /\ Cell(d, i) = <<c.pos[i], c.shift[i], r>>
        /\ d.has_shift = c.has_shift}]

\* The loop over the sequences of a token.
LEMMA SharedLoop ==
    ASSUME NEW c, NEW i \in Cells, Consistent(c), c.pos[i] # -1, c.seq[i] = {},
           NEW M \in SUBSET Seqs
    PROVE  FoldSet(LAMBDA s, d : seq_add(d, i, s), c, M) \in Shared(c, i, M)[M]
<1> DEFINE P == Shared(c, i, M)
           ch == Chosen(M)
           step == [r \in SUBSET M |-> [d \in P[r \ {ch[r]}] |-> seq_add(d, i, ch[r])]]
           Eq(g) == g = [r \in SUBSET M |-> IF r = {} THEN c
                            ELSE seq_add(g[r \ {CHOOSE x \in r : TRUE}], i, CHOOSE x \in r : TRUE)]
<1>0. \A r \in SUBSET M : ch[r] = CHOOSE x \in r : TRUE
    BY ChosenChooses
<1>1. IsFiniteSet(M) /\ Chooses(ch, M)
    BY ChosenChooses, FS_Subset, KvCellsAssumption
<1>2. ASSUME NEW r \in SUBSET M, NEW x \in r, NEW d \in P[r \ {x}]
      PROVE  seq_add(d, i, x) \in P[r]
    <2>0. r \ {x} \in SUBSET M /\ x \in Seqs
        OBVIOUS
    <2>1. /\ d \in KvCellsType /\ Consistent(d) /\ Alone(c, d, i)
          /\ Cell(d, i) = <<c.pos[i], c.shift[i], r \ {x}>> /\ d.has_shift = c.has_shift
        BY <2>0 DEF Shared
    <2>2. d.pos[i] = c.pos[i] /\ d.shift[i] = c.shift[i] /\ d.seq[i] = r \ {x}
        BY <2>1 DEF Cell
    <2>3. d \in LooseType /\ d.pos[i] \in Positions
        BY <2>1, <2>2, Loosen DEF Consistent, KvCellsType
    <2>4. Consistent(seq_add(d, i, x))
        BY <2>0, <2>1, <2>2, SeqAddConsistent
    <2>5. /\ Alone(d, seq_add(d, i, x), i) /\ seq_add(d, i, x).has_shift = d.has_shift
          /\ Cell(seq_add(d, i, x), i) = <<d.pos[i], d.shift[i], d.seq[i] \cup {x}>>
        BY <2>0, <2>3, SeqAddEffect
    <2>6. d.seq[i] \cup {x} = r
        BY <2>2
    <2>7. seq_add(d, i, x) \in KvCellsType
        BY <2>4 DEF Consistent
    <2> HIDE DEF P
    <2>8. PICK e : e = seq_add(d, i, x)
        OBVIOUS
    <2>9. Alone(c, e, i)
        BY <2>1, <2>5, <2>8 DEF Alone
    <2>10. Cell(e, i) = <<c.pos[i], c.shift[i], r>>
        BY <2>2, <2>5, <2>6, <2>8
    <2>11. e \in P[r]
        BY <2>1, <2>4, <2>5, <2>7, <2>8, <2>9, <2>10 DEF P, Shared
    <2> QED BY <2>8, <2>11
<1>3. c \in P[{}]
    BY DEF Shared, Alone, Cell, Consistent
<1> HIDE DEF P, ch
<1>4. PICK h : Folded(h, M, ch, c, step) /\ \A r \in SUBSET M : h[r] \in P[r]
    <2>1. \A r \in SUBSET M : r # {} => \A d \in P[r \ {ch[r]}] : step[r][d] \in P[r]
        BY <1>1, <1>2 DEF Chooses
    <2> HIDE DEF step
    <2> QED BY <1>1, <1>3, <2>1, FoldRuns
<1>5. Eq(h)
    <2>1. \A r \in SUBSET M : r # {} =>
              step[r][h[r \ {ch[r]}]] = seq_add(h[r \ {ch[r]}], i, ch[r])
        BY <1>4
    <2>2. \A r \in SUBSET M : r # {} =>
              step[r][h[r \ {ch[r]}]] =
                  seq_add(h[r \ {CHOOSE x \in r : TRUE}], i, CHOOSE x \in r : TRUE)
        BY <1>0, <2>1
    <2>3. h = [r \in SUBSET M |-> IF r = {} THEN c ELSE step[r][h[r \ {ch[r]}]]]
        BY <1>4 DEF Folded
    <2> HIDE DEF step
    <2> QED BY <2>2, <2>3
<1>6. PICK g : Eq(g) /\ FoldSet(LAMBDA s, d : seq_add(d, i, s), c, M) = g[M]
    <2>1. FoldSet(LAMBDA s, d : seq_add(d, i, s), c, M) = (CHOOSE g : Eq(g))[M]
        BY Zenon DEF FoldSet, MapThenFoldSet
    <2> HIDE DEF Eq
    <2> QED BY <1>5, <2>1
<1>7. \A r \in SUBSET M : r # {} /\ g[r \ {ch[r]}] \in P[r \ {ch[r]}] => g[r] \in P[r]
    <2> SUFFICES ASSUME NEW r \in SUBSET M, r # {}, g[r \ {ch[r]}] \in P[r \ {ch[r]}]
                 PROVE  g[r] \in P[r]
        OBVIOUS
    <2>1. ch[r] \in r
        BY <1>1 DEF Chooses
    <2>2. g[r] = seq_add(g[r \ {ch[r]}], i, ch[r])
        BY <1>0, <1>6
    <2> HIDE DEF Eq
    <2> QED BY <1>2, <2>1, <2>2
<1>8. g[M] \in P[M]
    <2>1. g[{}] \in P[{}]
        BY <1>3, <1>6
    <2> HIDE DEF Eq
    <2> QED BY <1>1, <1>7, <2>1, FoldKeeps
<1> QED BY <1>6, <1>8 DEF P

LEMMA AloneStill ==
    ASSUME NEW c, NEW d, NEW i \in Cells, Alone(c, d, i), d.shift[i] = 0
    PROVE  Still(c) => Still(d)
<1> SUFFICES ASSUME Still(c), NEW j \in Cells
             PROVE  d.shift[j] = 0
    BY DEF Still
<1>1. j # i => Cell(d, j) = Cell(c, j)
    BY DEF Alone
<1> QED BY <1>1 DEF Cell, Still

\* What placing a token keeps, in a stream that has no shift if c0 has none.
Removed == [Seqs -> Positions \cup {-1}]
Placed(m, c0) == {a \in [c : KvCellsType, rmd : Removed] :
                     Sound(a.c, Owned(m)) /\ (Still(c0) => Still(a.c))}

\* Cell i of c is overwritten.
Newer(rmd, c, i) ==
    [s \in Seqs |-> IF s \in c.seq[i] /\ c.pos[i] > rmd[s] THEN c.pos[i] ELSE rmd[s]]

LEMMA PutKeeps ==
    ASSUME NEW m \in Streams, NEW c0, NEW a \in Placed(m, c0), NEW i \in Cells,
           NEW tok \in TokensIn(m)
    PROVE  /\ Put(a, i, tok) \in Placed(m, c0) /\ Alone(a.c, Put(a, i, tok).c, i)
           /\ Cell(Put(a, i, tok).c, i) = <<tok.pos, 0, tok.seqs>>
           /\ Put(a, i, tok).rmd = Newer(a.rmd, a.c, i)
<1> DEFINE old == IF is_empty(a.c, i) THEN {} ELSE a.c.seq[i]
           freed == IF is_empty(a.c, i) THEN a.c ELSE rm(a.c, i)
           e == pos_set(freed, i, tok.pos)
           f == FoldSet(LAMBDA s, d : seq_add(d, i, s), e, tok.seqs)
           last == [s \in Seqs |-> IF s \in old /\ a.c.pos[i] > a.rmd[s]
                                   THEN a.c.pos[i] ELSE a.rmd[s]]
<1>1. Put(a, i, tok) = [c |-> f, rmd |-> last]
    BY Zenon DEF Put
<1>2. /\ Sound(a.c, Owned(m)) /\ (Still(c0) => Still(a.c)) /\ a.rmd \in Removed
      /\ Consistent(a.c) /\ a.c \in LooseType /\ a.c.pos[i] \in Positions \cup {-1}
    BY Loosen DEF Placed, Sound, Consistent, KvCellsType
<1>3. /\ Consistent(freed) /\ Alone(a.c, freed, i) /\ Cell(freed, i) = Gone
      /\ freed.has_shift = a.c.has_shift
    <2>1. CASE is_empty(a.c, i)
        <3>1. Cell(a.c, i) = Gone
            BY <1>2, <2>1 DEF is_empty, Cell, Gone, Consistent
        <3> QED BY <1>2, <2>1, <3>1 DEF Alone
    <2>2. CASE ~is_empty(a.c, i)
        BY <1>2, <2>2, RmConsistent, RmEffect
    <2> QED BY <2>1, <2>2
<1>4. last \in Removed
    BY <1>2 DEF Removed
<1>15. last = Newer(a.rmd, a.c, i)
    <2>1. old = a.c.seq[i]
        BY <1>2 DEF is_empty, Consistent
    <2> HIDE DEF old
    <2> QED BY <2>1 DEF Newer
<1>5. tok.pos \in Positions /\ tok.seqs \subseteq Owned(m) /\ tok.seqs # {} /\ tok.seqs \subseteq Seqs
    BY DEF TokensIn, Owned
<1> HIDE DEF freed, last
<1>6. freed.pos[i] = -1 /\ freed \in LooseType
    BY <1>3, Loosen DEF Cell, Gone
<1>7. /\ Consistent(e) /\ Alone(freed, e, i) /\ Cell(e, i) = <<tok.pos, 0, {}>>
      /\ e.has_shift = freed.has_shift
    <2>1. Cell(e, i) = <<tok.pos, freed.shift[i], freed.seq[i]>>
        BY <1>6, PosSetEffect
    <2>2. freed.shift[i] = 0 /\ freed.seq[i] = {}
        BY <1>3 DEF Cell, Gone
    <2> QED BY <1>3, <1>5, <1>6, <2>1, <2>2, PosSetConsistent, PosSetEffect
<1> HIDE DEF e
<1>8. e.pos[i] = tok.pos /\ e.pos[i] # -1 /\ e.shift[i] = 0 /\ e.seq[i] = {}
    BY <1>5, <1>7 DEF Cell, Positions
<1>9. f \in Shared(e, i, tok.seqs)[tok.seqs]
    BY <1>5, <1>7, <1>8, SharedLoop
<1> HIDE DEF f
<1>10. /\ f \in KvCellsType /\ Consistent(f) /\ Alone(e, f, i)
       /\ Cell(f, i) = <<tok.pos, 0, tok.seqs>> /\ f.has_shift = e.has_shift
    BY <1>8, <1>9 DEF Shared
<1>11. Alone(a.c, f, i)
    BY <1>3, <1>7, <1>10 DEF Alone
<1>12. FineCell(Cell(f, i), Owned(m), f.has_shift)
    BY <1>5, <1>10 DEF FineCell
<1>13. Sound(f, Owned(m))
    BY <1>2, <1>3, <1>7, <1>10, <1>11, <1>12, SoundStep
<1>14. Still(a.c) => Still(f)
    BY <1>10, <1>11, AloneStill DEF Cell
<1> QED BY <1>1, <1>2, <1>4, <1>10, <1>11, <1>13, <1>14, <1>15 DEF Placed

Latest(M) == [r \in SUBSET M |-> Max(r)]

LEMMA Bounded ==
    ASSUME NEW n \in Nat, NEW r \in SUBSET (0 .. n), r # {}
    PROVE  \E u \in r : \A y \in r : y <= u
<1> DEFINE U == {u \in Nat : \A j \in r : j <= u}
<1>1. n \in U
    OBVIOUS
<1>2. PICK u \in U : \A v \in U : u <= v
    <2> HIDE DEF U
    <2>1. U \subseteq Nat
        BY DEF U
    <2> QED BY <1>1, <2>1, LeastOf
<1>3. u \in r
    <2> SUFFICES ASSUME u \notin r PROVE FALSE
        OBVIOUS
    <2>1. \A j \in r : j \in Nat /\ j <= u /\ j # u
        BY <1>2
    <2>2. PICK j \in r : TRUE
        OBVIOUS
    <2>3. u \in Nat /\ u >= 1
        BY <1>2, <2>1, <2>2
    <2>4. u - 1 \in Nat /\ \A k \in r : k <= u - 1
        BY <2>1, <2>3
    <2>5. u - 1 \in U
        BY <2>4
    <2>6. u <= u - 1
        BY <1>2, <2>5
    <2> QED BY <2>3, <2>6
<1> QED BY <1>2, <1>3

LEMMA LatestChooses ==
    ASSUME NEW n \in Nat
    PROVE  IsFiniteSet(1 .. n) /\ Chooses(Latest(1 .. n), 1 .. n)
<1>1. ASSUME NEW r \in SUBSET (1 .. n), r # {}
      PROVE  Max(r) \in r
    <2>1. r \in SUBSET (0 .. n)
        OBVIOUS
    <2>2. PICK u \in r : \A y \in r : y <= u
        BY <1>1, <2>1, Bounded
    <2>3. \A y \in r : u >= y
        BY <2>2
    <2> QED BY <2>3 DEF Max
<1>2. IsFiniteSet(1 .. n)
    BY FS_Interval
<1> QED BY <1>1, <1>2 DEF Chooses, Latest

\* q runs through the indices of x.
Counts(q, x) == DOMAIN q = DOMAIN x /\ \A k \in DOMAIN q : q[k] = k

\* The tokens of r are in their cells, and the other cells as they were.
Filled(c0, c, idxs, toks, r) ==
    /\ \A j \in r : Cell(c, idxs[j]) = <<toks[j].pos, 0, toks[j].seqs>>
    /\ \A i \in Cells : (\A j \in r : idxs[j] # i) => Cell(c, i) = Cell(c0, i)

\* The cells that the indices x list at r.
Hit(x, r) == {x[j] : j \in r}

\* rmd knows the last position of each sequence in the overwritten cells I of c.
Overwrote(c, rmd0, rmd, I) ==
    \A s \in Seqs :
        /\ rmd0[s] <= rmd[s]
        /\ \A i \in I : s \in c.seq[i] => c.pos[i] <= rmd[s]
        /\ rmd[s] = rmd0[s] \/ \E i \in I : s \in c.seq[i] /\ rmd[s] = c.pos[i]

LEMMA OverwroteMore ==
    ASSUME NEW c, NEW rmd0 \in Removed, NEW d \in Removed, NEW I, NEW i, Overwrote(c, rmd0, d, I),
           NEW b, b.pos[i] = c.pos[i], b.seq[i] = c.seq[i], c.pos[i] \in Int,
           \A j \in I : c.pos[j] \in Int
    PROVE  Overwrote(c, rmd0, Newer(d, b, i), I \cup {i})
<1> SUFFICES ASSUME NEW s \in Seqs
             PROVE  LET e == Newer(d, b, i)[s] IN
                    /\ rmd0[s] <= e
                    /\ \A j \in I \cup {i} : s \in c.seq[j] => c.pos[j] <= e
                    /\ e = rmd0[s] \/ \E j \in I \cup {i} : s \in c.seq[j] /\ e = c.pos[j]
    BY DEF Overwrote
<1>1. d[s] \in Int /\ rmd0[s] \in Int
    BY DEF Removed, Positions
<1>2. PICK e : e = Newer(d, b, i)[s] /\ e = IF s \in c.seq[i] /\ c.pos[i] > d[s] THEN c.pos[i] ELSE d[s]
    BY DEF Newer
<1>3. /\ rmd0[s] <= d[s] /\ \A j \in I : s \in c.seq[j] => c.pos[j] <= d[s]
      /\ d[s] = rmd0[s] \/ \E j \in I : s \in c.seq[j] /\ d[s] = c.pos[j]
    BY DEF Overwrote
<1>4. d[s] <= e /\ rmd0[s] <= e /\ (s \in c.seq[i] => c.pos[i] <= e) /\ e \in Int
    BY <1>1, <1>2, <1>3
<1>5. \A j \in I : s \in c.seq[j] => c.pos[j] <= e
    BY <1>1, <1>3, <1>4
<1>6. e = rmd0[s] \/ \E j \in I \cup {i} : s \in c.seq[j] /\ e = c.pos[j]
    BY <1>2, <1>3
<1> QED BY <1>2, <1>4, <1>5, <1>6

\* The loop over the tokens of a part.
LEMMA PutLoop ==
    ASSUME NEW m \in Streams, NEW c0, NEW b \in Placed(m, c0), NEW toks \in Seq(TokensIn(m)),
           NEW idxs \in Seq(Cells), DOMAIN idxs = DOMAIN toks, Different(idxs),
           NEW q \in Seq(DOMAIN idxs), Counts(q, idxs)
    PROVE  FoldLeft(LAMBDA a, k : Put(a, idxs[k], toks[k]), b, q)
               \in {a \in Placed(m, c0) :
                       /\ Filled(b.c, a.c, idxs, toks, DOMAIN idxs)
                       /\ Overwrote(b.c, b.rmd, a.rmd, Hit(idxs, DOMAIN idxs))}
<1> DEFINE M == DOMAIN q
           P == [r \in SUBSET M |-> {a \in Placed(m, c0) :
                       /\ Filled(b.c, a.c, idxs, toks, r)
                       /\ Overwrote(b.c, b.rmd, a.rmd, Hit(idxs, r))}]
           ch == Latest(M)
           step == [r \in SUBSET M |-> [d \in P[r \ {ch[r]}] |-> Put(d, idxs[q[ch[r]]], toks[q[ch[r]]])]]
           Eq(g) == g = [r \in SUBSET M |-> IF r = {} THEN b
                            ELSE Put(g[r \ {Max(r)}], idxs[q[Max(r)]], toks[q[Max(r)]])]
<1>0. \A r \in SUBSET M : ch[r] = Max(r)
    BY DEF Latest
<1>1. IsFiniteSet(M) /\ Chooses(ch, M)
    <2>1. M = 1 .. Len(q) /\ Len(q) \in Nat
        OBVIOUS
    <2> QED BY <2>1, LatestChooses
<1>2. ASSUME NEW r \in SUBSET M, NEW x \in r, NEW d \in P[r \ {x}]
      PROVE  Put(d, idxs[q[x]], toks[q[x]]) \in P[r]
    <2>1. /\ r \ {x} \in SUBSET M /\ d \in Placed(m, c0) /\ Filled(b.c, d.c, idxs, toks, r \ {x})
          /\ Overwrote(b.c, b.rmd, d.rmd, Hit(idxs, r \ {x}))
        OBVIOUS
    <2>2. x \in DOMAIN idxs /\ q[x] = x /\ r \subseteq DOMAIN idxs
        BY DEF Counts
    <2>3. idxs[x] \in Cells /\ toks[x] \in TokensIn(m)
        BY <2>2
    <2>4. PICK e : e = Put(d, idxs[x], toks[x])
        OBVIOUS
    <2>5. /\ e \in Placed(m, c0) /\ Alone(d.c, e.c, idxs[x])
          /\ Cell(e.c, idxs[x]) = <<toks[x].pos, 0, toks[x].seqs>>
          /\ e.rmd = Newer(d.rmd, d.c, idxs[x])
        <3>1. PICK i \in Cells, tok \in TokensIn(m) : i = idxs[x] /\ tok = toks[x]
            BY <2>3
        <3>2. d \in Placed(m, c0)
            BY <2>1
        <3> HIDE DEF P, ch, step, Eq
        <3>3. /\ Put(d, i, tok) \in Placed(m, c0) /\ Alone(d.c, Put(d, i, tok).c, i)
              /\ Cell(Put(d, i, tok).c, i) = <<tok.pos, 0, tok.seqs>>
              /\ Put(d, i, tok).rmd = Newer(d.rmd, d.c, i)
            BY <3>2, PutKeeps
        <3> QED BY <2>4, <3>1, <3>3
    <2>6. ASSUME NEW j \in r
          PROVE  Cell(e.c, idxs[j]) = <<toks[j].pos, 0, toks[j].seqs>>
        <3>1. CASE j # x
            <4>1. idxs[j] # idxs[x] /\ idxs[j] \in Cells
                BY <2>2, <3>1 DEF Different
            <4>2. Cell(e.c, idxs[j]) = Cell(d.c, idxs[j])
                BY <2>5, <4>1 DEF Alone
            <4> QED BY <2>1, <3>1, <4>2 DEF Filled
        <3> QED BY <2>5, <3>1
    <2>7. ASSUME NEW i \in Cells, \A j \in r : idxs[j] # i
          PROVE  Cell(e.c, i) = Cell(b.c, i)
        <3>1. Cell(e.c, i) = Cell(d.c, i)
            BY <2>5, <2>7 DEF Alone
        <3> QED BY <2>1, <2>7, <3>1 DEF Filled
    <2>8. Filled(b.c, e.c, idxs, toks, r)
        BY <2>6, <2>7 DEF Filled
    <2>9. Cell(d.c, idxs[x]) = Cell(b.c, idxs[x])
        <3>1. \A j \in r \ {x} : idxs[j] # idxs[x]
            BY <2>2 DEF Different
        <3> QED BY <2>1, <2>3, <3>1 DEF Filled
    <2>10. \A i \in Cells : b.c.pos[i] \in Int
        BY DEF Placed, KvCellsType, Positions
    <2>11. Overwrote(b.c, b.rmd, e.rmd, Hit(idxs, r))
        <3>1. Hit(idxs, r) = Hit(idxs, r \ {x}) \cup {idxs[x]} /\ Hit(idxs, r \ {x}) \subseteq Cells
            BY <2>2 DEF Hit
        <3>2. b.rmd \in Removed /\ d.rmd \in Removed
            BY <2>1 DEF Placed
        <3>3. d.c.pos[idxs[x]] = b.c.pos[idxs[x]] /\ d.c.seq[idxs[x]] = b.c.seq[idxs[x]]
            BY <2>9 DEF Cell
        <3>4. PICK I, i : I = Hit(idxs, r \ {x}) /\ i = idxs[x]
            OBVIOUS
        <3>5. /\ Overwrote(b.c, b.rmd, d.rmd, I) /\ i \in Cells /\ I \subseteq Cells
              /\ e.rmd = Newer(d.rmd, d.c, i) /\ Hit(idxs, r) = I \cup {i}
              /\ d.c.pos[i] = b.c.pos[i] /\ d.c.seq[i] = b.c.seq[i]
            BY <2>1, <2>3, <2>5, <3>1, <3>3, <3>4
        <3> HIDE DEF P, ch, step, Eq
        <3>6. Overwrote(b.c, b.rmd, Newer(d.rmd, d.c, i), I \cup {i})
            BY <2>10, <3>2, <3>5, OverwroteMore
        <3> QED BY <3>5, <3>6
    <2> QED BY <2>2, <2>4, <2>5, <2>8, <2>11
<1>3. b \in P[{}]
    <2>1. b.rmd \in Removed
        BY DEF Placed
    <2>2. \A s \in Seqs : b.rmd[s] <= b.rmd[s]
        BY <2>1 DEF Removed, Positions
    <2>3. Overwrote(b.c, b.rmd, b.rmd, Hit(idxs, {}))
        BY <2>2 DEF Overwrote, Hit
    <2> QED BY <2>3 DEF Filled
<1> HIDE DEF P, ch
<1>4. PICK h : Folded(h, M, ch, b, step) /\ \A r \in SUBSET M : h[r] \in P[r]
    <2>1. \A r \in SUBSET M : r # {} => \A d \in P[r \ {ch[r]}] : step[r][d] \in P[r]
        BY <1>1, <1>2 DEF Chooses
    <2> HIDE DEF step
    <2> QED BY <1>1, <1>3, <2>1, FoldRuns
<1>5. Eq(h)
    <2>1. \A r \in SUBSET M : r # {} =>
              step[r][h[r \ {ch[r]}]] = Put(h[r \ {ch[r]}], idxs[q[ch[r]]], toks[q[ch[r]]])
        BY <1>4
    <2>2. \A r \in SUBSET M : r # {} =>
              step[r][h[r \ {ch[r]}]] =
                  Put(h[r \ {Max(r)}], idxs[q[Max(r)]], toks[q[Max(r)]])
        BY <1>0, <2>1
    <2>3. h = [r \in SUBSET M |-> IF r = {} THEN b ELSE step[r][h[r \ {ch[r]}]]]
        BY <1>4 DEF Folded
    <2> HIDE DEF step
    <2> QED BY <2>2, <2>3
<1>6. PICK g : Eq(g) /\ FoldLeft(LAMBDA a, k : Put(a, idxs[k], toks[k]), b, q) = g[M]
    <2>1. FoldLeft(LAMBDA a, k : Put(a, idxs[k], toks[k]), b, q) = (CHOOSE g : Eq(g))[M]
        BY Zenon DEF FoldLeft, MapThenFoldSet
    <2> HIDE DEF Eq
    <2> QED BY <1>5, <2>1
<1>7. \A r \in SUBSET M : r # {} /\ g[r \ {ch[r]}] \in P[r \ {ch[r]}] => g[r] \in P[r]
    <2> SUFFICES ASSUME NEW r \in SUBSET M, r # {}, g[r \ {ch[r]}] \in P[r \ {ch[r]}]
                 PROVE  g[r] \in P[r]
        OBVIOUS
    <2>1. ch[r] \in r
        BY <1>1 DEF Chooses
    <2>2. g[r] = Put(g[r \ {ch[r]}], idxs[q[ch[r]]], toks[q[ch[r]]])
        BY <1>0, <1>6
    <2> HIDE DEF Eq
    <2> QED BY <1>2, <2>1, <2>2
<1>8. g[M] \in P[M]
    <2>1. g[{}] \in P[{}]
        BY <1>3, <1>6
    <2> HIDE DEF Eq
    <2> QED BY <1>1, <1>7, <2>1, FoldKeeps
<1>9. M = DOMAIN idxs
    BY DEF Counts
<1> QED BY <1>6, <1>8, <1>9 DEF P

RunAccs(G) == [S : G, rmd : Removed]

LEMMA PutPartKeeps ==
    ASSUME NEW G \in Kinds, NEW acc \in RunAccs(G), NEW part \in Parts, NEW idxs \in Seq(Cells),
           DOMAIN idxs = DOMAIN part.toks, Different(idxs)
    PROVE  /\ PutPart(acc, part, idxs) \in RunAccs(G)
           /\ LET T == PutPart(acc, part, idxs).S IN
              /\ Filled(acc.S.v[part.strm], T.v[part.strm], idxs, part.toks, DOMAIN idxs)
              /\ \A x \in Streams \ {part.strm} : T.v[x] = acc.S.v[x]
           /\ Overwrote(acc.S.v[part.strm], acc.rmd, PutPart(acc, part, idxs).rmd,
                        Hit(idxs, DOMAIN idxs))
<1> DEFINE m == part.strm
           c0 == acc.S.v[m]
           b == [c |-> c0, rmd |-> acc.rmd]
           done == FoldLeft(LAMBDA a, k : Put(a, idxs[k], part.toks[k]), b, [k \in DOMAIN idxs |-> k])
<1>1. PutPart(acc, part, idxs) = [S |-> [acc.S EXCEPT !.v[m] = done.c], rmd |-> done.rmd]
    BY Zenon DEF PutPart
<1>2. m \in Streams /\ part.toks \in Seq(TokensIn(m))
    BY DEF Parts
<1>3. PICK S \in G : S = acc.S
    BY DEF RunAccs
<1>4. S \in States /\ c0 \in KvCellsType /\ Sound(c0, Owned(m))
    <2>1. S \in States /\ \A x \in Streams : Sound(S.v[x], Owned(x))
        BY DEF Kinds, GoodStates, StillStates
    <2> QED BY <1>2, <1>3, <2>1 DEF States
<1>5. b \in Placed(m, c0)
    BY <1>4 DEF Placed, RunAccs
<1>6. [k \in DOMAIN idxs |-> k] \in Seq(DOMAIN idxs) /\ Counts([k \in DOMAIN idxs |-> k], idxs)
    <2>1. DOMAIN idxs = 1 .. Len(idxs) /\ Len(idxs) \in Nat
        OBVIOUS
    <2> QED BY <2>1 DEF Counts
<1> HIDE DEF m, c0, b
<1>7. /\ done \in Placed(m, c0) /\ Filled(b.c, done.c, idxs, part.toks, DOMAIN idxs)
      /\ Overwrote(b.c, b.rmd, done.rmd, Hit(idxs, DOMAIN idxs))
    <2>1. PICK q : q = [k \in DOMAIN idxs |-> k] /\ q \in Seq(DOMAIN idxs) /\ Counts(q, idxs)
        BY <1>6
    <2>2. done = FoldLeft(LAMBDA a, k : Put(a, idxs[k], part.toks[k]), b, q)
        BY <2>1
    <2>3. PICK toks \in Seq(TokensIn(m)) : toks = part.toks
        BY <1>2
    <2> HIDE DEF done
    <2> QED BY <1>2, <1>5, <2>1, <2>2, <2>3, PutLoop
<1> HIDE DEF done
<1>8. Sound(done.c, Owned(m)) /\ (Still(c0) => Still(done.c)) /\ done.rmd \in Removed
    BY <1>7 DEF Placed
<1>12. b.c = c0 /\ b.rmd = acc.rmd
    BY DEF b
<1>9. S.h \in [Streams -> 0 .. Size] /\ c0 = S.v[m]
    BY <1>3, <1>4 DEF States, c0
<1>10. [v |-> [S.v EXCEPT ![m] = done.c], h |-> S.h] \in G
    BY <1>2, <1>8, <1>9, PutCells
<1>11. [S EXCEPT !.v[m] = done.c] = [v |-> [S.v EXCEPT ![m] = done.c], h |-> S.h]
    <2>1. PICK w : w = [S.v EXCEPT ![m] = done.c]
        OBVIOUS
    <2>2. S = [v |-> S.v, h |-> S.h]
        BY <1>4 DEF States
    <2>3. [S EXCEPT !.v[m] = done.c] = [S EXCEPT !.v = w]
        BY <2>1
    <2>4. [S EXCEPT !.v = w] = [v |-> w, h |-> S.h]
        BY <2>2
    <2> QED BY <2>1, <2>3, <2>4
<1>13. PICK w : w = [S.v EXCEPT ![m] = done.c]
    OBVIOUS
<1>14. w[m] = done.c /\ \A x \in Streams \ {m} : w[x] = S.v[x]
    BY <1>2, <1>4, <1>13 DEF States
<1>15. PICK res : res = PutPart(acc, part, idxs)
    OBVIOUS
<1>16. res = [S |-> [v |-> w, h |-> S.h], rmd |-> done.rmd]
    BY <1>1, <1>3, <1>11, <1>13, <1>15
<1>17. res \in RunAccs(G)
    BY <1>8, <1>10, <1>13, <1>16 DEF RunAccs
<1>18. res.S.v = w
    BY <1>16
<1>19. Filled(S.v[m], res.S.v[m], idxs, part.toks, DOMAIN idxs)
    BY <1>7, <1>9, <1>12, <1>14, <1>18
<1>20. Overwrote(S.v[m], acc.rmd, res.rmd, Hit(idxs, DOMAIN idxs))
    BY <1>7, <1>9, <1>12, <1>16
<1> QED BY <1>3, <1>14, <1>15, <1>17, <1>18, <1>19, <1>20 DEF m

\* A stream has at most one part of a micro batch.
Apart(ub) == \A k, l \in DOMAIN ub : ub[k].strm = ub[l].strm => k = l

\* The parts of r are in the cache, and the other streams as they were.
FilledUp(S, T, ub, idxs, r) ==
    /\ \A k \in r : Filled(S.v[ub[k].strm], T.v[ub[k].strm], idxs[k], ub[k].toks, DOMAIN idxs[k])
    /\ \A m \in Streams : (\A k \in r : ub[k].strm # m) => T.v[m] = S.v[m]

\* Cell i of stream m gets a token of the parts in r.
Touched(ub, idxs, r, m, i) ==
    \E k \in r : ub[k].strm = m /\ i \in Hit(idxs[k], DOMAIN idxs[k])

\* rmd knows the last position of each sequence that the parts of r overwrite.
Overwrites(S, rmd, ub, idxs, r) ==
    \A s \in Seqs : LET On(i) == Touched(ub, idxs, r, seq_to_stream(s), i) IN
        /\ \A i \in Cells : On(i) /\ Has(S, s, i) => At(S, s, i) <= rmd[s]
        /\ rmd[s] = -1 \/ \E i \in Cells : On(i) /\ Has(S, s, i) /\ rmd[s] = At(S, s, i)

\* A part more.
LEMMA OverwritesMore ==
    ASSUME NEW S \in GoodStates, NEW ub \in Seq(Parts), NEW idxs \in Slots(ub),
           NEW r \in SUBSET DOMAIN ub, NEW x \in r, NEW d \in Removed, NEW e \in Removed,
           Overwrites(S, d, ub, idxs, r \ {x}),
           Overwrote(S.v[ub[x].strm], d, e, Hit(idxs[x], DOMAIN idxs[x]))
    PROVE  Overwrites(S, e, ub, idxs, r)
<1> SUFFICES ASSUME NEW s \in Seqs
             PROVE  LET On(i) == Touched(ub, idxs, r, seq_to_stream(s), i) IN
                    /\ \A i \in Cells : On(i) /\ Has(S, s, i) => At(S, s, i) <= e[s]
                    /\ e[s] = -1 \/ \E i \in Cells : On(i) /\ Has(S, s, i) /\ e[s] = At(S, s, i)
    BY DEF Overwrites
<1>1. PICK m \in Streams : m = seq_to_stream(s)
    BY StreamOf
<1>2. PICK n \in Streams : n = ub[x].strm
    BY PartFields
<1>3. PICK I : I = Hit(idxs[x], DOMAIN idxs[x])
    OBVIOUS
<1>4. I \subseteq Cells
    <2>1. PICK z \in Seq(Cells) : z = idxs[x]
        BY DEF Slots
    <2> QED BY <1>3, <2>1 DEF Hit
<1>5. Sound(S.v[n], Owned(n)) /\ S.v[m] \in KvCellsType
    BY DEF GoodStates, States
<1>6. \A i \in I : s \in S.v[n].seq[i] => n = m
    BY <1>1, <1>4, <1>5 DEF Sound, Owned
<1>7. /\ d[s] <= e[s] /\ \A i \in I : s \in S.v[n].seq[i] => S.v[n].pos[i] <= e[s]
      /\ e[s] = d[s] \/ \E i \in I : s \in S.v[n].seq[i] /\ e[s] = S.v[n].pos[i]
    BY <1>2, <1>3 DEF Overwrote
<1>8. /\ \A i \in Cells : Touched(ub, idxs, r \ {x}, m, i) /\ Has(S, s, i) => At(S, s, i) <= d[s]
      /\ d[s] = -1 \/ \E i \in Cells : /\ Touched(ub, idxs, r \ {x}, m, i)
                                       /\ Has(S, s, i) /\ d[s] = At(S, s, i)
    BY <1>1 DEF Overwrites
<1>9. \A i : Touched(ub, idxs, r, m, i) <=>
                 Touched(ub, idxs, r \ {x}, m, i) \/ (n = m /\ i \in I)
    BY <1>2, <1>3 DEF Touched
<1>10. /\ \A i : Has(S, s, i) <=> s \in S.v[m].seq[i]
       /\ \A i : At(S, s, i) = S.v[m].pos[i]
    BY <1>1 DEF Has, At
<1>11. d[s] \in Int /\ e[s] \in Int /\ \A i \in Cells : S.v[m].pos[i] \in Int
    BY <1>5 DEF Removed, Positions, KvCellsType
<1>12. ASSUME NEW i \in Cells, Touched(ub, idxs, r, m, i), Has(S, s, i)
       PROVE  At(S, s, i) <= e[s]
    <2>1. CASE Touched(ub, idxs, r \ {x}, m, i)
        <3>1. PICK p \in Int : p = At(S, s, i)
            BY <1>10, <1>11
        <3>2. p <= d[s]
            BY <1>8, <1>12, <2>1, <3>1
        <3> QED BY <1>7, <1>11, <3>1, <3>2
    <2>2. CASE n = m /\ i \in I
        BY <1>7, <1>10, <1>12, <2>2
    <2> QED BY <1>9, <1>12, <2>1, <2>2
<1>13. e[s] = -1 \/ \E i \in Cells : Touched(ub, idxs, r, m, i) /\ Has(S, s, i) /\ e[s] = At(S, s, i)
    <2>1. CASE e[s] = d[s]
        BY <1>8, <1>9, <2>1
    <2>2. CASE \E i \in I : s \in S.v[n].seq[i] /\ e[s] = S.v[n].pos[i]
        BY <1>4, <1>6, <1>9, <1>10, <2>2
    <2> QED BY <1>7, <2>1, <2>2
<1> QED BY <1>1, <1>12, <1>13

\* What the parts of r do to a cache that has nothing overwritten yet.
PutIn(b, a, ub, idxs, r) ==
    FilledUp(b.S, a.S, ub, idxs, r) /\ Overwrites(b.S, a.rmd, ub, idxs, r)

\* The loop over the parts of a micro batch.
LEMMA PutPartsLoop ==
    ASSUME NEW G \in Kinds, NEW b \in RunAccs(G), \A s \in Seqs : b.rmd[s] = -1,
           NEW ub \in Seq(Parts), NEW idxs \in Slots(ub), NEW q \in Seq(DOMAIN ub), Counts(q, ub)
    PROVE  FoldLeft(LAMBDA a, k : PutPart(a, ub[k], idxs[k]), b, q)
               \in {a \in RunAccs(G) : Apart(ub) => PutIn(b, a, ub, idxs, DOMAIN ub)}
<1> DEFINE M == DOMAIN q
           P == [r \in SUBSET M |-> {a \in RunAccs(G) : Apart(ub) => PutIn(b, a, ub, idxs, r)}]
           ch == Latest(M)
           step == [r \in SUBSET M |-> [d \in P[r \ {ch[r]}] |-> PutPart(d, ub[q[ch[r]]], idxs[q[ch[r]]])]]
           Eq(g) == g = [r \in SUBSET M |-> IF r = {} THEN b
                            ELSE PutPart(g[r \ {Max(r)}], ub[q[Max(r)]], idxs[q[Max(r)]])]
<1>0. \A r \in SUBSET M : ch[r] = Max(r)
    BY DEF Latest
<1>1. IsFiniteSet(M) /\ Chooses(ch, M)
    <2>1. M = 1 .. Len(q) /\ Len(q) \in Nat
        OBVIOUS
    <2> QED BY <2>1, LatestChooses
<1>2. ASSUME NEW r \in SUBSET M, NEW x \in r, NEW d \in P[r \ {x}]
      PROVE  PutPart(d, ub[q[x]], idxs[q[x]]) \in P[r]
    <2>1. /\ r \ {x} \in SUBSET M /\ d \in RunAccs(G)
          /\ Apart(ub) => PutIn(b, d, ub, idxs, r \ {x})
        OBVIOUS
    <2>2. x \in DOMAIN ub /\ q[x] = x /\ r \subseteq DOMAIN ub
        BY DEF Counts
    <2>3. idxs \in Seq(Seq(Cells)) /\ DOMAIN idxs = DOMAIN ub
          /\ \A k \in DOMAIN ub : DOMAIN idxs[k] = DOMAIN ub[k].toks /\ Different(idxs[k])
        BY DEF Slots
    <2>4. ub[x] \in Parts /\ idxs[x] \in Seq(Cells) /\ DOMAIN idxs[x] = DOMAIN ub[x].toks
          /\ Different(idxs[x]) /\ ub[x].strm \in Streams
        BY <2>2, <2>3, PartFields
    <2>5. PICK e : e = PutPart(d, ub[x], idxs[x])
        OBVIOUS
    <2>6. /\ e \in RunAccs(G)
          /\ Filled(d.S.v[ub[x].strm], e.S.v[ub[x].strm], idxs[x], ub[x].toks, DOMAIN idxs[x])
          /\ \A y \in Streams \ {ub[x].strm} : e.S.v[y] = d.S.v[y]
          /\ Overwrote(d.S.v[ub[x].strm], d.rmd, e.rmd, Hit(idxs[x], DOMAIN idxs[x]))
        <3>1. PICK part, z : part = ub[x] /\ z = idxs[x]
            OBVIOUS
        <3>2. /\ d \in RunAccs(G) /\ part \in Parts /\ z \in Seq(Cells)
              /\ DOMAIN z = DOMAIN part.toks /\ Different(z)
            BY <2>1, <2>4, <3>1
        <3>3. /\ PutPart(d, part, z) \in RunAccs(G)
              /\ Filled(d.S.v[part.strm], PutPart(d, part, z).S.v[part.strm], z, part.toks, DOMAIN z)
              /\ \A y \in Streams \ {part.strm} : PutPart(d, part, z).S.v[y] = d.S.v[y]
              /\ Overwrote(d.S.v[part.strm], d.rmd, PutPart(d, part, z).rmd, Hit(z, DOMAIN z))
            BY <3>2, PutPartKeeps
        <3> HIDE DEF P, ch, step, Eq
        <3> QED BY <2>5, <3>1, <3>3
    <2>7. ASSUME Apart(ub)
          PROVE  PutIn(b, e, ub, idxs, r)
        <3>1. FilledUp(b.S, d.S, ub, idxs, r \ {x}) /\ Overwrites(b.S, d.rmd, ub, idxs, r \ {x})
            BY <2>1, <2>7 DEF PutIn
        <3>2. \A k \in r \ {x} : ub[k].strm # ub[x].strm
            BY <2>2, <2>7 DEF Apart
        <3>3. d.S.v[ub[x].strm] = b.S.v[ub[x].strm]
            BY <2>4, <3>1, <3>2 DEF FilledUp
        <3>4. ASSUME NEW k \in r
              PROVE  Filled(b.S.v[ub[k].strm], e.S.v[ub[k].strm], idxs[k], ub[k].toks, DOMAIN idxs[k])
            <4>1. CASE k = x
                BY <2>6, <3>3, <4>1
            <4>2. CASE k # x
                <5>1. ub[k].strm \in Streams \ {ub[x].strm}
                    BY <2>2, <3>2, <4>2, PartFields
                <5>2. e.S.v[ub[k].strm] = d.S.v[ub[k].strm]
                    BY <2>6, <5>1
                <5> QED BY <3>1, <4>2, <5>2 DEF FilledUp
            <4> QED BY <4>1, <4>2
        <3>5. ASSUME NEW m \in Streams, \A k \in r : ub[k].strm # m
              PROVE  e.S.v[m] = b.S.v[m]
            <4>1. m \in Streams \ {ub[x].strm}
                BY <3>5
            <4>2. e.S.v[m] = d.S.v[m]
                BY <2>6, <4>1
            <4> QED BY <3>1, <3>5, <4>2 DEF FilledUp
        <3>6. Overwrites(b.S, e.rmd, ub, idxs, r)
            <4>1. b.S \in GoodStates /\ d.rmd \in Removed /\ e.rmd \in Removed
                BY <2>1, <2>6 DEF RunAccs, Kinds, StillStates
            <4>2. Overwrote(b.S.v[ub[x].strm], d.rmd, e.rmd, Hit(idxs[x], DOMAIN idxs[x]))
                BY <2>6, <3>3
            <4>3. r \in SUBSET DOMAIN ub
                BY <2>2
            <4> HIDE DEF P, ch, step, Eq
            <4> QED BY <3>1, <4>1, <4>2, <4>3, OverwritesMore
        <3> QED BY <3>4, <3>5, <3>6 DEF FilledUp, PutIn
    <2> HIDE DEF Apart
    <2> QED BY <2>2, <2>5, <2>6, <2>7
<1>3. b \in P[{}]
    BY DEF PutIn, FilledUp, Overwrites, Touched
<1> HIDE DEF P, ch
<1>4. PICK h : Folded(h, M, ch, b, step) /\ \A r \in SUBSET M : h[r] \in P[r]
    <2>1. \A r \in SUBSET M : r # {} => \A d \in P[r \ {ch[r]}] : step[r][d] \in P[r]
        BY <1>1, <1>2 DEF Chooses
    <2> HIDE DEF step
    <2> QED BY <1>1, <1>3, <2>1, FoldRuns
<1>5. Eq(h)
    <2>1. \A r \in SUBSET M : r # {} =>
              step[r][h[r \ {ch[r]}]] = PutPart(h[r \ {ch[r]}], ub[q[ch[r]]], idxs[q[ch[r]]])
        BY <1>4
    <2>2. \A r \in SUBSET M : r # {} =>
              step[r][h[r \ {ch[r]}]] =
                  PutPart(h[r \ {Max(r)}], ub[q[Max(r)]], idxs[q[Max(r)]])
        BY <1>0, <2>1
    <2>3. h = [r \in SUBSET M |-> IF r = {} THEN b ELSE step[r][h[r \ {ch[r]}]]]
        BY <1>4 DEF Folded
    <2> HIDE DEF step
    <2> QED BY <2>2, <2>3
<1>6. PICK g : Eq(g) /\ FoldLeft(LAMBDA a, k : PutPart(a, ub[k], idxs[k]), b, q) = g[M]
    <2>1. FoldLeft(LAMBDA a, k : PutPart(a, ub[k], idxs[k]), b, q) = (CHOOSE g : Eq(g))[M]
        BY Zenon DEF FoldLeft, MapThenFoldSet
    <2> HIDE DEF Eq
    <2> QED BY <1>5, <2>1
<1>7. \A r \in SUBSET M : r # {} /\ g[r \ {ch[r]}] \in P[r \ {ch[r]}] => g[r] \in P[r]
    <2> SUFFICES ASSUME NEW r \in SUBSET M, r # {}, g[r \ {ch[r]}] \in P[r \ {ch[r]}]
                 PROVE  g[r] \in P[r]
        OBVIOUS
    <2>1. ch[r] \in r
        BY <1>1 DEF Chooses
    <2>2. g[r] = PutPart(g[r \ {ch[r]}], ub[q[ch[r]]], idxs[q[ch[r]]])
        BY <1>0, <1>6
    <2> HIDE DEF Eq
    <2> QED BY <1>2, <2>1, <2>2
<1>8. g[M] \in P[M]
    <2>1. g[{}] \in P[{}]
        BY <1>3, <1>6
    <2> HIDE DEF Eq
    <2> QED BY <1>1, <1>7, <2>1, FoldKeeps
<1>9. M = DOMAIN ub
    BY DEF Counts
<1> QED BY <1>6, <1>8, <1>9 DEF P

\* The index of the positions knows the positions of the cells.
LEMMA PresentIs ==
    ASSUME NEW c, Consistent(c), NEW s \in Seqs
    PROVE  Present(c, s) = PositionsOf(c, s) /\ PositionsOf(c, s) \subseteq Positions
<1>1. ASSUME NEW i \in Cells, s \in c.seq[i]
      PROVE  c.pos[i] \in Positions
    BY <1>1 DEF Consistent, KvCellsType
<1>2. ASSUME NEW p \in Positions
      PROVE  p \in Present(c, s) <=> \E i \in Cells : c.pos[i] = p /\ s \in c.seq[i]
    <2>1. c.seq_pos[s][p] = Cardinality(Holders(c, s, p))
        BY DEF Consistent
    <2>2. IsFiniteSet(Holders(c, s, p))
        <3>1. Holders(c, s, p) \subseteq Cells
            BY DEF Holders
        <3> QED BY <3>1, CellsFinite, FS_Subset
    <2>3. Cardinality(Holders(c, s, p)) = 0 <=> Holders(c, s, p) = {}
        BY <2>2, FS_EmptySet
    <2>4. p \in Present(c, s) <=> Holders(c, s, p) # {}
        BY <2>1, <2>3 DEF Present
    <2> QED BY <2>4 DEF Holders
<1>3. PositionsOf(c, s) \subseteq Positions /\ Present(c, s) \subseteq Positions
    BY <1>1 DEF PositionsOf, Present
<1>4. \A p : p \in PositionsOf(c, s) <=> \E i \in Cells : c.pos[i] = p /\ s \in c.seq[i]
    BY DEF PositionsOf
<1>5. \A p \in Positions : p \in Present(c, s) <=> p \in PositionsOf(c, s)
    BY <1>2, <1>4
<1> QED BY <1>3, <1>5

\* The first and the last position of a sequence that has some.
LEMMA EndsOf ==
    ASSUME NEW c, Consistent(c), NEW s \in Seqs, NEW q \in PositionsOf(c, s)
    PROVE  /\ seq_pos_min(c, s) \in PositionsOf(c, s) /\ seq_pos_min(c, s) <= q
           /\ seq_pos_max(c, s) \in PositionsOf(c, s) /\ q <= seq_pos_max(c, s)
<1>1. Present(c, s) = PositionsOf(c, s) /\ PositionsOf(c, s) \subseteq Positions
    BY PresentIs
<1>2. PICK X : X = PositionsOf(c, s) /\ X # {} /\ X \in SUBSET (0 .. MaxPos) /\ X \subseteq Nat
    BY <1>1 DEF Positions
<1>3. Least(X) \in X /\ \A j \in X : Least(X) <= j
    BY <1>2, LeastOf
<1>4. Greatest(X) \in X /\ \A j \in X : j <= Greatest(X)
    <2>1. \E u \in X : \A y \in X : y <= u
        BY <1>2, KvCellsAssumption, Bounded
    <2> QED BY <2>1 DEF Greatest
<1> QED BY <1>1, <1>2, <1>3, <1>4 DEF seq_pos_min, seq_pos_max

\* R is what is left of S when the sequences in r have lost what is not after
\* their positions in rmd.
Purged(S, R, rmd, r) ==
    /\ Remains(S, R)
    /\ \A x \in Seqs, i \in Cells :
           Has(R, x, i) <=> Has(S, x, i) /\ ~(x \in r /\ At(S, x, i) <= rmd[x])

LEMMA HeldAt ==
    ASSUME NEW S \in GoodStates, NEW s \in Seqs, NEW i \in Cells, Has(S, s, i)
    PROVE  /\ At(S, s, i) \in Positions
           /\ At(S, s, i) \in PositionsOf(S.v[seq_to_stream(s)], s)
<1>1. PICK m \in Streams : m = seq_to_stream(s)
    BY StreamOf
<1>2. Consistent(S.v[m])
    BY DEF GoodStates, Sound
<1>3. S.v[m].pos[i] \in PositionsOf(S.v[m], s)
    BY <1>1 DEF PositionsOf, Has
<1> QED BY <1>1, <1>2, <1>3, PresentIs DEF At

LEMMA RemainsAt ==
    ASSUME NEW S, NEW T, Remains(S, T), NEW s \in Seqs, NEW i \in Cells, Has(T, s, i)
    PROVE  Has(S, s, i) /\ At(T, s, i) = At(S, s, i)
<1>1. PICK m \in Streams : m = seq_to_stream(s)
    BY StreamOf
<1>2. LeftOf(Cell(T.v[m], i), Cell(S.v[m], i))
    BY DEF Remains
<1> QED BY <1>1, <1>2 DEF LeftOf, Cell, Gone, Has, At

LEMMA PurgeKeeps ==
    ASSUME NEW G \in Kinds, NEW S \in G, NEW s \in Seqs, NEW last \in Positions \cup {-1},
           NEW T, T = Purge(S, s, last)
    PROVE  /\ T \in G /\ Remains(S, T)
           /\ \A x \in Seqs, i \in Cells :
                  Has(T, x, i) <=> Has(S, x, i) /\ ~(x = s /\ At(S, x, i) <= last)
<1>1. Remains(S, S)
    BY DEF Remains, LeftOf
<1>2. S \in GoodStates
    BY DEF Kinds, StillStates
<1>3. PICK m \in Streams : m = seq_to_stream(s)
    BY StreamOf
<1>4. PICK first : first = seq_pos_min(S.v[m], s)
    OBVIOUS
<1>5. last \in Int /\ Positions \subseteq Nat
    BY DEF Positions
<1>6. ASSUME NEW i \in Cells, Has(S, s, i)
      PROVE  /\ first \in Positions /\ S.v[m].pos[i] \in Positions
             /\ At(S, s, i) = S.v[m].pos[i] /\ first <= S.v[m].pos[i]
    <2>1. /\ At(S, s, i) \in Positions /\ At(S, s, i) = S.v[m].pos[i]
          /\ S.v[m].pos[i] \in PositionsOf(S.v[m], s)
        BY <1>2, <1>3, <1>6, HeldAt DEF At
    <2>2. Consistent(S.v[m])
        BY <1>2 DEF GoodStates, Sound
    <2>3. first \in Positions /\ first <= S.v[m].pos[i]
        BY <1>4, <2>1, <2>2, EndsOf, PresentIs
    <2> QED BY <2>1, <2>3
<1>7. CASE last # -1 /\ first <= last
    <2>1. T = SeqRmIn(S, s, first, last + 1)
        BY <1>3, <1>4, <1>7 DEF Purge
    <2>2. /\ T \in G /\ Remains(S, T)
          /\ \A x \in Seqs, i \in Cells :
                 Has(T, x, i) <=> Has(S, x, i) /\ ~(x = s /\ pos_in(S.v[m], i, first, last + 1))
        BY <1>2, <1>3, <2>1, SeqRmInKeeps, SeqRmInLeaves
    <2>3. \A i \in Cells : Has(S, s, i) =>
              (pos_in(S.v[m], i, first, last + 1) <=> At(S, s, i) <= last)
        <3> SUFFICES ASSUME NEW i \in Cells, Has(S, s, i)
                     PROVE  pos_in(S.v[m], i, first, last + 1) <=> At(S, s, i) <= last
            OBVIOUS
        <3>1. PICK p \in Nat : p = S.v[m].pos[i] /\ p = At(S, s, i) /\ first \in Nat /\ first <= p
            BY <1>5, <1>6
        <3>2. pos_in(S.v[m], i, first, last + 1) <=> p >= first /\ p < last + 1
            BY <3>1 DEF pos_in
        <3> QED BY <1>5, <3>1, <3>2
    <2> QED BY <2>2, <2>3
<1>8. CASE ~(last # -1 /\ first <= last)
    <2>1. T = S
        BY <1>3, <1>4, <1>8 DEF Purge
    <2>2. \A i \in Cells : Has(S, s, i) => ~(At(S, s, i) <= last)
        <3> SUFFICES ASSUME NEW i \in Cells, Has(S, s, i)
                     PROVE  ~(At(S, s, i) <= last)
            OBVIOUS
        <3>1. PICK p \in Nat : p = At(S, s, i) /\ first \in Nat /\ first <= p
            BY <1>5, <1>6
        <3>2. last = -1 \/ first > last
            BY <1>5, <1>8, <3>1
        <3> QED BY <1>5, <3>1, <3>2
    <2> QED BY <1>1, <2>1, <2>2
<1> QED BY <1>7, <1>8

\* The loop over the sequences of which something was overwritten.
LEMMA PurgeLoop ==
    ASSUME NEW G \in Kinds, NEW S \in G, NEW rmd \in Removed
    PROVE  FoldSet(LAMBDA s, R : Purge(R, s, rmd[s]), S, Seqs)
               \in {R \in G : Purged(S, R, rmd, Seqs)}
<1> DEFINE M == Seqs
           P == [r \in SUBSET M |-> {R \in G : Purged(S, R, rmd, r)}]
           ch == Chosen(M)
           step == [r \in SUBSET M |-> [d \in P[r \ {ch[r]}] |-> Purge(d, ch[r], rmd[ch[r]])]]
           Eq(g) == g = [r \in SUBSET M |-> IF r = {} THEN S
                            ELSE Purge(g[r \ {CHOOSE x \in r : TRUE}], CHOOSE x \in r : TRUE, rmd[CHOOSE x \in r : TRUE])]
<1>0. \A r \in SUBSET M : ch[r] = CHOOSE x \in r : TRUE
    BY ChosenChooses
<1>1. IsFiniteSet(M) /\ Chooses(ch, M)
    BY ChosenChooses, KvCellsAssumption
<1>2. ASSUME NEW r \in SUBSET M, NEW x \in r, NEW d \in P[r \ {x}]
      PROVE  Purge(d, x, rmd[x]) \in P[r]
    <2>1. x \in Seqs /\ d \in G /\ Purged(S, d, rmd, r \ {x}) /\ rmd[x] \in Positions \cup {-1}
        BY DEF Removed
    <2>2. PICK e : e = Purge(d, x, rmd[x])
        OBVIOUS
    <2>3. /\ e \in G /\ Remains(d, e)
          /\ \A y \in Seqs, i \in Cells :
                 Has(e, y, i) <=> Has(d, y, i) /\ ~(y = x /\ At(d, y, i) <= rmd[x])
        BY <2>1, <2>2, PurgeKeeps
    <2>4. Remains(S, e)
        BY <2>1, <2>3, RemainsRemains DEF Purged
    <2>5. ASSUME NEW y \in Seqs, NEW i \in Cells
          PROVE  Has(e, y, i) <=> Has(S, y, i) /\ ~(y \in r /\ At(S, y, i) <= rmd[y])
        <3>1. Has(d, y, i) <=> Has(S, y, i) /\ ~(y \in r \ {x} /\ At(S, y, i) <= rmd[y])
            BY <2>1 DEF Purged
        <3>2. Has(d, y, i) => At(d, y, i) = At(S, y, i)
            BY <2>1, RemainsAt DEF Purged
        <3> QED BY <2>3, <3>1, <3>2
    <2>6. Purged(S, e, rmd, r)
        BY <2>4, <2>5 DEF Purged
    <2> QED BY <2>2, <2>3, <2>6
<1>3. S \in P[{}]
    BY DEF Purged, Remains, LeftOf
<1> HIDE DEF P, ch
<1>4. PICK h : Folded(h, M, ch, S, step) /\ \A r \in SUBSET M : h[r] \in P[r]
    <2>1. \A r \in SUBSET M : r # {} => \A d \in P[r \ {ch[r]}] : step[r][d] \in P[r]
        BY <1>1, <1>2 DEF Chooses
    <2> HIDE DEF step
    <2> QED BY <1>1, <1>3, <2>1, FoldRuns
<1>5. Eq(h)
    <2>1. \A r \in SUBSET M : r # {} =>
              step[r][h[r \ {ch[r]}]] = Purge(h[r \ {ch[r]}], ch[r], rmd[ch[r]])
        BY <1>4
    <2>2. \A r \in SUBSET M : r # {} =>
              step[r][h[r \ {ch[r]}]] =
                  Purge(h[r \ {CHOOSE x \in r : TRUE}], CHOOSE x \in r : TRUE, rmd[CHOOSE x \in r : TRUE])
        BY <1>0, <2>1
    <2>3. h = [r \in SUBSET M |-> IF r = {} THEN S ELSE step[r][h[r \ {ch[r]}]]]
        BY <1>4 DEF Folded
    <2> HIDE DEF step
    <2> QED BY <2>2, <2>3
<1>6. PICK g : Eq(g) /\ FoldSet(LAMBDA s, R : Purge(R, s, rmd[s]), S, Seqs) = g[M]
    <2>1. FoldSet(LAMBDA s, R : Purge(R, s, rmd[s]), S, Seqs) = (CHOOSE g : Eq(g))[M]
        BY Zenon DEF FoldSet, MapThenFoldSet
    <2> HIDE DEF Eq
    <2> QED BY <1>5, <2>1
<1>7. \A r \in SUBSET M : r # {} /\ g[r \ {ch[r]}] \in P[r \ {ch[r]}] => g[r] \in P[r]
    <2> SUFFICES ASSUME NEW r \in SUBSET M, r # {}, g[r \ {ch[r]}] \in P[r \ {ch[r]}]
                 PROVE  g[r] \in P[r]
        OBVIOUS
    <2>1. ch[r] \in r
        BY <1>1 DEF Chooses
    <2>2. g[r] = Purge(g[r \ {ch[r]}], ch[r], rmd[ch[r]])
        BY <1>0, <1>6
    <2> HIDE DEF Eq
    <2> QED BY <1>2, <2>1, <2>2
<1>8. g[M] \in P[M]
    <2>1. g[{}] \in P[{}]
        BY <1>3, <1>6
    <2> HIDE DEF Eq
    <2> QED BY <1>1, <1>7, <2>1, FoldKeeps
<1> QED BY <1>6, <1>8 DEF P

LEMMA HeadsKeep ==
    ASSUME NEW G \in Kinds, NEW S \in G, NEW h \in [Streams -> 0 .. Size]
    PROVE  [S EXCEPT !.h = h] \in G
<1>1. S = [v |-> S.v, h |-> S.h] /\ S.v \in [Streams -> KvCellsType]
    BY DEF Kinds, GoodStates, StillStates, States
<1>2. PICK T : T = [S EXCEPT !.h = h]
    OBVIOUS
<1>3. T = [v |-> S.v, h |-> h]
    BY <1>1, <1>2
<1>4. T \in States /\ T.v = S.v
    BY <1>1, <1>3 DEF States
<1>5. S \in GoodStates => T \in GoodStates
    BY <1>4 DEF GoodStates
<1>6. S \in StillStates => T \in StillStates
    BY <1>4, <1>5 DEF StillStates
<1> QED BY <1>2, <1>5, <1>6 DEF Kinds

\* The micro batch takes no notice of cell i of stream m.
Untouched(ub, idxs, m, i) ==
    \A k \in DOMAIN ub : ub[k].strm = m => \A j \in DOMAIN idxs[k] : idxs[k][j] # i

\* T is what a micro batch leaves of S: its tokens, and what it did not touch,
\* except for what is purged.
Applied(S, T, ub, idxs) ==
    /\ \A k \in DOMAIN ub : \A j \in DOMAIN idxs[k] :
           LeftOf(Cell(T.v[ub[k].strm], idxs[k][j]), <<ub[k].toks[j].pos, 0, ub[k].toks[j].seqs>>)
    /\ \A m \in Streams, i \in Cells :
           Untouched(ub, idxs, m, i) => LeftOf(Cell(T.v[m], i), Cell(S.v[m], i))

LEMMA FilledApplied ==
    ASSUME NEW S, NEW U, NEW T, NEW ub \in Seq(Parts), NEW idxs \in Slots(ub),
           FilledUp(S, U, ub, idxs, DOMAIN ub), Remains(U, T)
    PROVE  Applied(S, T, ub, idxs)
<1>1. ASSUME NEW k \in DOMAIN ub, NEW j \in DOMAIN idxs[k]
      PROVE  LeftOf(Cell(T.v[ub[k].strm], idxs[k][j]), <<ub[k].toks[j].pos, 0, ub[k].toks[j].seqs>>)
    <2>1. PICK m \in Streams : m = ub[k].strm
        BY PartFields
    <2>2. PICK x \in Seq(Cells) : x = idxs[k]
        BY DEF Slots
    <2>3. Filled(S.v[m], U.v[m], x, ub[k].toks, DOMAIN x)
        BY <2>1, <2>2 DEF FilledUp
    <2>4. x[j] \in Cells /\ Cell(U.v[m], x[j]) = <<ub[k].toks[j].pos, 0, ub[k].toks[j].seqs>>
        BY <2>2, <2>3 DEF Filled
    <2>5. LeftOf(Cell(T.v[m], x[j]), Cell(U.v[m], x[j]))
        BY <2>4 DEF Remains
    <2> QED BY <2>1, <2>2, <2>4, <2>5
<1>2. ASSUME NEW m \in Streams, NEW i \in Cells, Untouched(ub, idxs, m, i)
      PROVE  LeftOf(Cell(T.v[m], i), Cell(S.v[m], i))
    <2>1. Cell(U.v[m], i) = Cell(S.v[m], i)
        <3>1. CASE \E k \in DOMAIN ub : ub[k].strm = m
            <4>1. PICK k \in DOMAIN ub : ub[k].strm = m
                BY <3>1
            <4>2. Filled(S.v[m], U.v[m], idxs[k], ub[k].toks, DOMAIN idxs[k])
                BY <4>1 DEF FilledUp
            <4>3. \A j \in DOMAIN idxs[k] : idxs[k][j] # i
                BY <1>2, <4>1 DEF Untouched
            <4> QED BY <4>2, <4>3 DEF Filled
        <3>2. CASE \A k \in DOMAIN ub : ub[k].strm # m
            <4>1. U.v[m] = S.v[m]
                BY <3>2 DEF FilledUp
            <4> QED BY <4>1
        <3> QED BY <3>1, <3>2
    <2>2. LeftOf(Cell(T.v[m], i), Cell(U.v[m], i))
        BY DEF Remains
    <2> QED BY <2>1, <2>2
<1> QED BY <1>1, <1>2 DEF Applied

\* The same to the last cell: the tokens are put in, then each sequence is purged
\* up to the last of its positions that they overwrite.
Applies(S, T, ub, idxs) ==
    \E U \in GoodStates, rmd \in Removed :
        /\ FilledUp(S, U, ub, idxs, DOMAIN ub) /\ Overwrites(S, rmd, ub, idxs, DOMAIN ub)
        /\ Purged(U, T, rmd, Seqs)

LEMMA ApplyKeeps ==
    ASSUME NEW G \in Kinds, NEW S \in G, NEW ub \in Seq(Parts), NEW idxs \in Slots(ub)
    PROVE  /\ apply_ubatch(S, ub, idxs) \in G
           /\ Apart(ub) => /\ Applied(S, apply_ubatch(S, ub, idxs), ub, idxs)
                           /\ Applies(S, apply_ubatch(S, ub, idxs), ub, idxs)
<1> DEFINE b == [S |-> S, rmd |-> [s \in Seqs |-> -1]]
           put == FoldLeft(LAMBDA a, k : PutPart(a, ub[k], idxs[k]), b, [k \in DOMAIN ub |-> k])
           T == FoldSet(LAMBDA s, R : Purge(R, s, put.rmd[s]), put.S, Seqs)
           K(m) == CHOOSE k \in DOMAIN ub : ub[k].strm = m
           ends == [m \in {ub[k].strm : k \in DOMAIN ub} |-> Last(idxs[K(m)]) + 1]
           h == [m \in Streams |-> IF m \in DOMAIN ends THEN ends[m] ELSE T.h[m]]
<1>1. apply_ubatch(S, ub, idxs) = [T EXCEPT !.h = h]
    BY Zenon DEF apply_ubatch
<1>2. b \in RunAccs(G)
    BY DEF RunAccs, Removed
<1>3. PICK q \in Seq(DOMAIN ub) : q = [k \in DOMAIN ub |-> k] /\ Counts(q, ub)
    <2>1. DOMAIN ub = 1 .. Len(ub) /\ Len(ub) \in Nat
        OBVIOUS
    <2>2. [k \in DOMAIN ub |-> k] \in Seq(DOMAIN ub)
        BY <2>1
    <2> QED BY <2>2 DEF Counts
<1>10. b.S = S /\ \A s \in Seqs : b.rmd[s] = -1
    OBVIOUS
<1> HIDE DEF b
<1>4. put \in RunAccs(G) /\ (Apart(ub) => PutIn(b, put, ub, idxs, DOMAIN ub))
    <2>1. put = FoldLeft(LAMBDA a, k : PutPart(a, ub[k], idxs[k]), b, q)
        BY <1>3
    <2> HIDE DEF put
    <2>2. put \in {a \in RunAccs(G) : Apart(ub) => PutIn(b, a, ub, idxs, DOMAIN ub)}
        BY <1>2, <1>3, <1>10, <2>1, PutPartsLoop
    <2> QED BY <2>2
<1> HIDE DEF put
<1>5. put.S \in G /\ put.rmd \in Removed
    BY <1>4 DEF RunAccs
<1>6. T \in G /\ Purged(put.S, T, put.rmd, Seqs)
    <2>1. T \in {R \in G : Purged(put.S, R, put.rmd, Seqs)}
        BY <1>5, PurgeLoop
    <2> HIDE DEF T
    <2> QED BY <2>1
<1> HIDE DEF T
<1>7. T.h \in [Streams -> 0 .. Size]
    BY <1>6 DEF Kinds, GoodStates, StillStates, States
<1>8. ASSUME NEW m \in DOMAIN ends
      PROVE  ends[m] \in 0 .. Size
    <2>1. PICK k \in DOMAIN ub : k = K(m)
        OBVIOUS
    <2>2. idxs \in Seq(Seq(Cells)) /\ DOMAIN idxs = DOMAIN ub /\ idxs[k] # <<>>
        BY DEF Slots
    <2>3. PICK x \in Seq(Cells) : x = idxs[k]
        BY <2>2
    <2>4. Len(x) \in DOMAIN x
        BY <2>2, <2>3
    <2>5. x[Len(x)] \in Cells /\ Size \in Nat \ {0}
        BY <2>3, <2>4, KvCellsAssumption
    <2>6. ends[m] = x[Len(x)] + 1
        BY <2>1, <2>3 DEF Last
    <2>7. \A i \in Cells : i + 1 \in 0 .. Size
        BY <2>5 DEF Cells
    <2> HIDE DEF ends
    <2> QED BY <2>5, <2>6, <2>7
<1> HIDE DEF ends
<1>9. h \in [Streams -> 0 .. Size]
    BY <1>7, <1>8
<1> HIDE DEF h
<1>11. PICK R : R = apply_ubatch(S, ub, idxs)
    OBVIOUS
<1>12. R \in G
    BY <1>1, <1>6, <1>9, <1>11, HeadsKeep
<1>13. ASSUME Apart(ub)
       PROVE  Applied(S, R, ub, idxs) /\ Applies(S, R, ub, idxs)
    <2>1. R.v = T.v
        BY <1>1, <1>6, <1>11 DEF Kinds, GoodStates, StillStates, States
    <2>2. Remains(put.S, R) /\ Purged(put.S, R, put.rmd, Seqs)
        BY <1>6, <2>1 DEF Remains, Purged, Has
    <2>3. /\ FilledUp(S, put.S, ub, idxs, DOMAIN ub)
          /\ Overwrites(S, put.rmd, ub, idxs, DOMAIN ub)
        BY <1>4, <1>10, <1>13 DEF PutIn
    <2>4. put.S \in GoodStates
        BY <1>5 DEF Kinds, StillStates
    <2>5. Applies(S, R, ub, idxs)
        BY <1>5, <2>2, <2>3, <2>4 DEF Applies
    <2> QED BY <2>2, <2>3, <2>5, FilledApplied
<1> QED BY <1>11, <1>12, <1>13

-----------------------------------------------------------------------------
(***************************************************************************)
(* Placing a batch on trial                                                *)
(***************************************************************************)
Trials == {t \in [before : StillStates, ub : Ubatches, idxs : Seq(Seq(Cells))] :
              t.idxs \in Slots(t.ub)}
Tried == [ok : BOOLEAN, S : StillStates, stack : Seq(Trials)]

\* While it goes well, the stack has the micro batches so far, in order.
InOrder(a, batch, n) ==
    a.ok => Len(a.stack) = n /\ \A k \in 1 .. n : a.stack[k].ub = batch[k]

\* s[n] is what is tried after n of the micro batches.
TryRun(s, b, batch) ==
    /\ s[0] = b
    /\ \A n \in 1 .. Len(batch) : s[n] = TryUbatch(s[n - 1], batch[n])
    /\ \A n \in 0 .. Len(batch) : s[n] \in Tried /\ InOrder(s[n], batch, n)

LEMMA TryKeeps ==
    ASSUME NEW batch \in Seq(Ubatches), NEW n \in DOMAIN batch, NEW a \in Tried
    PROVE  /\ TryUbatch(a, batch[n]) \in Tried
           /\ InOrder(a, batch, n - 1) => InOrder(TryUbatch(a, batch[n]), batch, n)
<1>1. PICK ub \in Ubatches : ub = batch[n]
    OBVIOUS
<1>7. ub \in Seq(Parts)
    BY DEF Ubatches
<1>2. PICK idxs : idxs = find_slot(a.S, ub)
    OBVIOUS
<1>3. PICK T : T = TryUbatch(a, ub)
    OBVIOUS
<1>4. a.S \in StillStates /\ a.stack \in Seq(Trials) /\ a = [ok |-> a.ok, S |-> a.S, stack |-> a.stack]
    BY DEF Tried
<1>5. CASE ~a.ok \/ idxs = <<>>
    <2>1. T = [a EXCEPT !.ok = FALSE]
        BY <1>2, <1>3, <1>5 DEF TryUbatch
    <2>2. T = [ok |-> FALSE, S |-> a.S, stack |-> a.stack]
        BY <1>4, <2>1
    <2> QED BY <1>1, <1>3, <1>4, <2>2 DEF Tried, InOrder
<1>6. CASE a.ok /\ idxs # <<>>
    <2> DEFINE t == [before |-> a.S, ub |-> ub, idxs |-> idxs]
    <2>1. T = [ok |-> TRUE, S |-> apply_ubatch(a.S, ub, idxs), stack |-> Append(a.stack, t)]
        BY <1>2, <1>3, <1>6 DEF TryUbatch
    <2>2. a.S \in States
        BY <1>4 DEF StillStates, GoodStates
    <2>3. idxs \in Slots(ub)
        BY <1>2, <1>6, <1>7, <2>2, FindSlotGives
    <2>4. StillStates \in Kinds
        BY DEF Kinds
    <2>5. apply_ubatch(a.S, ub, idxs) \in StillStates
        BY <1>4, <1>7, <2>3, <2>4, ApplyKeeps
    <2>6. t \in Trials
        BY <1>4, <2>3 DEF Trials, Slots
    <2>7. t.ub = ub
        OBVIOUS
    <2> HIDE DEF t
    <2>8. T \in Tried
        BY <1>4, <2>1, <2>5, <2>6 DEF Tried
    <2>9. ASSUME InOrder(a, batch, n - 1)
          PROVE  InOrder(T, batch, n)
        <3>1. n \in Nat \ {0} /\ Len(a.stack) = n - 1
              /\ \A k \in 1 .. n - 1 : a.stack[k].ub = batch[k]
            BY <1>6, <2>9 DEF InOrder
        <3>2. PICK z \in Seq(Trials) : z = a.stack
            BY <1>4
        <3>3. T.stack = Append(z, t)
            BY <2>1, <3>2
        <3>4. Len(T.stack) = n
            BY <2>6, <3>1, <3>2, <3>3
        <3>5. ASSUME NEW k \in 1 .. n
              PROVE  T.stack[k].ub = batch[k]
            <4>1. CASE k = n
                <5>1. T.stack[k] = t
                    BY <2>6, <3>1, <3>2, <3>3, <4>1
                <5> QED BY <1>1, <2>7, <4>1, <5>1
            <4>2. CASE k # n
                <5>1. k \in 1 .. n - 1
                    BY <3>1, <4>2
                <5>2. T.stack[k] = z[k]
                    BY <2>6, <3>1, <3>2, <3>3, <5>1
                <5> QED BY <3>1, <3>2, <5>1, <5>2
            <4> QED BY <4>1, <4>2
        <3> QED BY <3>4, <3>5 DEF InOrder
    <2> QED BY <1>1, <1>3, <2>8, <2>9
<1> QED BY <1>5, <1>6

LEMMA LatestOf ==
    ASSUME NEW n \in Nat \ {0}
    PROVE  Max(1 .. n) = n
<1>1. n \in 1 .. n /\ \A y \in 1 .. n : n >= y
    OBVIOUS
<1>2. \A x \in 1 .. n : (\A y \in 1 .. n : x >= y) => x = n
    OBVIOUS
<1> QED BY <1>1, <1>2 DEF Max

\* The loop over the micro batches of a batch.
LEMMA TryLoop ==
    ASSUME NEW batch \in Seq(Ubatches), NEW b \in Tried, InOrder(b, batch, 0)
    PROVE  \E s : TryRun(s, b, batch) /\ FoldLeft(TryUbatch, b, batch) = s[Len(batch)]
<1> DEFINE M == DOMAIN batch
           P == [r \in SUBSET M |-> Tried]
           ch == Latest(M)
           step == [r \in SUBSET M |-> [d \in P[r \ {ch[r]}] |-> TryUbatch(d, batch[ch[r]])]]
           Eq(g) == g = [r \in SUBSET M |-> IF r = {} THEN b
                            ELSE TryUbatch(g[r \ {Max(r)}], batch[Max(r)])]
<1>0. \A r \in SUBSET M : ch[r] = Max(r)
    BY DEF Latest
<1>1. IsFiniteSet(M) /\ Chooses(ch, M)
    <2>1. M = 1 .. Len(batch) /\ Len(batch) \in Nat
        OBVIOUS
    <2> QED BY <2>1, LatestChooses
<1>2. ASSUME NEW r \in SUBSET M, NEW x \in r, NEW d \in P[r \ {x}]
      PROVE  TryUbatch(d, batch[x]) \in P[r]
    <2>1. r \ {x} \in SUBSET M /\ d \in Tried /\ x \in DOMAIN batch
        OBVIOUS
    <2> QED BY <2>1, TryKeeps
<1>3. b \in P[{}]
    OBVIOUS
<1> HIDE DEF P, ch
<1>4. PICK h : Folded(h, M, ch, b, step) /\ \A r \in SUBSET M : h[r] \in P[r]
    <2>1. \A r \in SUBSET M : r # {} => \A d \in P[r \ {ch[r]}] : step[r][d] \in P[r]
        BY <1>1, <1>2 DEF Chooses
    <2> HIDE DEF step
    <2> QED BY <1>1, <1>3, <2>1, FoldRuns
<1>5. Eq(h)
    <2>1. \A r \in SUBSET M : r # {} =>
              step[r][h[r \ {ch[r]}]] = TryUbatch(h[r \ {ch[r]}], batch[ch[r]])
        BY <1>4
    <2>2. \A r \in SUBSET M : r # {} =>
              step[r][h[r \ {ch[r]}]] =
                  TryUbatch(h[r \ {Max(r)}], batch[Max(r)])
        BY <1>0, <2>1
    <2>3. h = [r \in SUBSET M |-> IF r = {} THEN b ELSE step[r][h[r \ {ch[r]}]]]
        BY <1>4 DEF Folded
    <2> HIDE DEF step
    <2> QED BY <2>2, <2>3
<1>6. PICK g : Eq(g) /\ FoldLeft(TryUbatch, b, batch) = g[M]
    <2>1. FoldLeft(TryUbatch, b, batch) = (CHOOSE g : Eq(g))[M]
        BY Zenon DEF FoldLeft, MapThenFoldSet
    <2> HIDE DEF Eq
    <2> QED BY <1>5, <2>1
<1> DEFINE s == [n \in 0 .. Len(batch) |-> g[1 .. n]]
<1>7. Len(batch) \in Nat /\ M = 1 .. Len(batch) /\ s[Len(batch)] = g[M]
    OBVIOUS
<1>8. s[0] = b
    <2>1. g[{}] = b
        BY <1>6
    <2>2. 1 .. 0 = {} /\ s[0] = g[1 .. 0]
        BY <1>7
    <2> HIDE DEF Eq, s
    <2> QED BY <2>1, <2>2
<1>9. ASSUME NEW n \in 1 .. Len(batch)
      PROVE  s[n] = TryUbatch(s[n - 1], batch[n])
    <2>0. n \in Nat \ {0} /\ \A k \in 1 .. n : k \in 1 .. Len(batch)
        BY <1>7
    <2>1. 1 .. n \in SUBSET M /\ 1 .. n # {} /\ n \in Nat \ {0}
        <3>1. n \in 1 .. n
            BY <2>0
        <3> HIDE DEF M
        <3> QED BY <1>7, <2>0, <3>1
    <2>2. Max(1 .. n) = n /\ (1 .. n) \ {n} = 1 .. (n - 1)
        BY <2>1, LatestOf
    <2>3. g[1 .. n] = TryUbatch(g[(1 .. n) \ {Max(1 .. n)}], batch[Max(1 .. n)])
        BY <1>6, <2>1
    <2>4. s[n] = g[1 .. n] /\ s[n - 1] = g[1 .. (n - 1)]
        BY <2>1
    <2> HIDE DEF Eq, s
    <2> QED BY <2>2, <2>3, <2>4
<1> HIDE DEF s
<1>10. ASSUME NEW n \in 0 .. Len(batch)
       PROVE  s[n] \in Tried /\ InOrder(s[n], batch, n)
    <2> DEFINE T == {k \in Nat : k <= Len(batch) => s[k] \in Tried /\ InOrder(s[k], batch, k)}
    <2>1. 0 \in T
        BY <1>8
    <2>2. ASSUME NEW k \in Nat, k \in T
          PROVE  k + 1 \in T
        <3> SUFFICES ASSUME k + 1 <= Len(batch)
                     PROVE  s[k + 1] \in Tried /\ InOrder(s[k + 1], batch, k + 1)
            OBVIOUS
        <3>1. /\ k + 1 \in 1 .. Len(batch) /\ (k + 1) - 1 = k
              /\ s[k] \in Tried /\ InOrder(s[k], batch, k)
            BY <1>7, <2>2
        <3>2. s[k + 1] = TryUbatch(s[k], batch[k + 1])
            BY <1>9, <3>1
        <3>3. PICK j \in DOMAIN batch : j = k + 1 /\ j - 1 = k
            <4>1. k + 1 \in DOMAIN batch /\ (k + 1) - 1 = k
                BY <1>7, <3>1
            <4> HIDE DEF M, T
            <4> QED BY <4>1
        <3> HIDE DEF T
        <3> QED BY <3>1, <3>2, <3>3, TryKeeps
    <2>3. n \in T
        <3>1. n \in Nat
            OBVIOUS
        <3> HIDE DEF T
        <3> QED BY <2>1, <2>2, <3>1, Counting
    <2> QED BY <2>3
<1>11. TryRun(s, b, batch)
    BY <1>8, <1>9, <1>10 DEF TryRun
<1> QED BY <1>6, <1>7, <1>11

Stills(m) == {c \in KvCellsType : Sound(c, Owned(m)) /\ Still(c)}

LEMMA SetKeeps ==
    ASSUME NEW m, NEW old \in Stills(m), NEW d \in Stills(m), NEW i \in Cells
    PROVE  set(d, i, old.pos[i], old.seq[i]) \in Stills(m)
<1>1. PICK p, X : p = old.pos[i] /\ X = old.seq[i]
    OBVIOUS
<1>2. /\ p \in Positions \cup {-1} /\ X \in SUBSET Seqs /\ (p = -1 => X = {})
      /\ X \subseteq Owned(m) /\ (p # -1 => X # {})
    BY <1>1 DEF Stills, Sound, Consistent, KvCellsType
<1>3. Consistent(d) /\ d \in LooseType /\ d.shift[i] = 0 /\ Sound(d, Owned(m)) /\ Still(d)
    BY Loosen DEF Stills, Sound, Still
<1>4. p \in Int
    BY <1>2, KvCellsAssumption DEF Positions
<1>5. PICK e : e = set(d, i, p, X)
    OBVIOUS
<1>6. Consistent(e)
    BY <1>2, <1>3, <1>5, SetConsistent
<1>7. Alone(d, e, i) /\ Cell(e, i) = <<p, d.shift[i], X>> /\ e.has_shift = d.has_shift
    BY <1>2, <1>3, <1>4, <1>5, SetEffect
<1>8. FineCell(Cell(e, i), Owned(m), e.has_shift) /\ e.shift[i] = 0
    BY <1>2, <1>3, <1>7 DEF FineCell, Cell
<1>9. Sound(e, Owned(m))
    BY <1>3, <1>6, <1>7, <1>8, SoundStep
<1>10. Still(e)
    BY <1>3, <1>7, <1>8, AloneStill
<1>11. e \in Stills(m)
    BY <1>6, <1>9, <1>10 DEF Stills, Consistent
<1> QED BY <1>1, <1>5, <1>11

\* The loop that puts back the cells of a part.
LEMMA SetLoop ==
    ASSUME NEW m, NEW old \in Stills(m), NEW b \in Stills(m), NEW q \in Seq(Cells)
    PROVE  FoldLeft(LAMBDA d, i : set(d, i, old.pos[i], old.seq[i]), b, q) \in Stills(m)
<1> DEFINE M == DOMAIN q
           P == [r \in SUBSET M |-> Stills(m)]
           ch == Latest(M)
           step == [r \in SUBSET M |-> [d \in P[r \ {ch[r]}] |-> set(d, q[ch[r]], old.pos[q[ch[r]]], old.seq[q[ch[r]]])]]
           Eq(g) == g = [r \in SUBSET M |-> IF r = {} THEN b
                            ELSE set(g[r \ {Max(r)}], q[Max(r)], old.pos[q[Max(r)]], old.seq[q[Max(r)]])]
<1>0. \A r \in SUBSET M : ch[r] = Max(r)
    BY DEF Latest
<1>1. IsFiniteSet(M) /\ Chooses(ch, M)
    <2>1. M = 1 .. Len(q) /\ Len(q) \in Nat
        OBVIOUS
    <2> QED BY <2>1, LatestChooses
<1>2. ASSUME NEW r \in SUBSET M, NEW x \in r, NEW d \in P[r \ {x}]
      PROVE  set(d, q[x], old.pos[q[x]], old.seq[q[x]]) \in P[r]
    <2>1. r \ {x} \in SUBSET M /\ d \in Stills(m) /\ q[x] \in Cells
        OBVIOUS
    <2>2. set(d, q[x], old.pos[q[x]], old.seq[q[x]]) \in Stills(m)
        BY <2>1, SetKeeps
    <2> QED BY <2>2
<1>3. b \in P[{}]
    OBVIOUS
<1> HIDE DEF P, ch
<1>4. PICK h : Folded(h, M, ch, b, step) /\ \A r \in SUBSET M : h[r] \in P[r]
    <2>1. \A r \in SUBSET M : r # {} => \A d \in P[r \ {ch[r]}] : step[r][d] \in P[r]
        BY <1>1, <1>2 DEF Chooses
    <2> HIDE DEF step
    <2> QED BY <1>1, <1>3, <2>1, FoldRuns
<1>5. Eq(h)
    <2>1. \A r \in SUBSET M : r # {} =>
              step[r][h[r \ {ch[r]}]] = set(h[r \ {ch[r]}], q[ch[r]], old.pos[q[ch[r]]], old.seq[q[ch[r]]])
        BY <1>4
    <2>2. \A r \in SUBSET M : r # {} =>
              step[r][h[r \ {ch[r]}]] =
                  set(h[r \ {Max(r)}], q[Max(r)], old.pos[q[Max(r)]], old.seq[q[Max(r)]])
        BY <1>0, <2>1
    <2>3. h = [r \in SUBSET M |-> IF r = {} THEN b ELSE step[r][h[r \ {ch[r]}]]]
        BY <1>4 DEF Folded
    <2> HIDE DEF step
    <2> QED BY <2>2, <2>3
<1>6. PICK g : Eq(g) /\ FoldLeft(LAMBDA d, i : set(d, i, old.pos[i], old.seq[i]), b, q) = g[M]
    <2>1. FoldLeft(LAMBDA d, i : set(d, i, old.pos[i], old.seq[i]), b, q) = (CHOOSE g : Eq(g))[M]
        BY Zenon DEF FoldLeft, MapThenFoldSet
    <2> HIDE DEF Eq
    <2> QED BY <1>5, <2>1
<1>7. \A r \in SUBSET M : r # {} /\ g[r \ {ch[r]}] \in P[r \ {ch[r]}] => g[r] \in P[r]
    <2> SUFFICES ASSUME NEW r \in SUBSET M, r # {}, g[r \ {ch[r]}] \in P[r \ {ch[r]}]
                 PROVE  g[r] \in P[r]
        OBVIOUS
    <2>1. ch[r] \in r
        BY <1>1 DEF Chooses
    <2>2. g[r] = set(g[r \ {ch[r]}], q[ch[r]], old.pos[q[ch[r]]], old.seq[q[ch[r]]])
        BY <1>0, <1>6
    <2> HIDE DEF Eq
    <2> QED BY <1>2, <2>1, <2>2
<1>8. g[M] \in P[M]
    <2>1. g[{}] \in P[{}]
        BY <1>3, <1>6
    <2> HIDE DEF Eq
    <2> QED BY <1>1, <1>7, <2>1, FoldKeeps
<1> QED BY <1>6, <1>8 DEF P

LEMMA RestorePartKeeps ==
    ASSUME NEW R \in StillStates, NEW st \in Trials, NEW k \in DOMAIN st.ub
    PROVE  RestorePart(R, st, k) \in StillStates
<1> DEFINE m == st.ub[k].strm
           old == st.before.v[m]
           c == FoldLeft(LAMBDA d, i : set(d, i, old.pos[i], old.seq[i]), R.v[m], st.idxs[k])
           h == [R.h EXCEPT ![m] = st.before.h[k - 1]]
<1>1. RestorePart(R, st, k) = [v |-> [R.v EXCEPT ![m] = c], h |-> h]
    BY Zenon DEF RestorePart
<1>2. /\ st.before \in StillStates /\ st.ub \in Seq(Parts) /\ st.idxs \in Seq(Seq(Cells))
      /\ DOMAIN st.idxs = DOMAIN st.ub /\ k - 1 \in Streams
    BY DEF Trials, Slots, Ubatches
<1>3. m \in Streams
    BY <1>2, PartFields
<1>4. PICK q \in Seq(Cells) : q = st.idxs[k]
    BY <1>2
<1> HIDE DEF m
<1>5. /\ st.before.h \in [Streams -> 0 .. Size] /\ R.h \in [Streams -> 0 .. Size]
      /\ old \in Stills(m) /\ R.v[m] \in Stills(m)
    BY <1>2, <1>3 DEF Stills, StillStates, GoodStates, States
<1>6. h \in [Streams -> 0 .. Size]
    BY <1>2, <1>3, <1>5
<1> HIDE DEF old, h
<1>7. c \in Stills(m)
    BY <1>4, <1>5, SetLoop
<1> HIDE DEF c
<1>8. Sound(c, Owned(m)) /\ Still(c) /\ StillStates \in Kinds
    BY <1>7 DEF Stills, Kinds
<1> QED BY <1>1, <1>3, <1>6, <1>8, PutCells

\* The loop over the parts of a micro batch.
LEMMA RestoreLoop ==
    ASSUME NEW S \in StillStates, NEW st \in Trials, NEW q \in Seq(DOMAIN st.ub)
    PROVE  FoldLeft(LAMBDA R, k : RestorePart(R, st, k), S, q) \in StillStates
<1> DEFINE M == DOMAIN q
           P == [r \in SUBSET M |-> StillStates]
           ch == Latest(M)
           step == [r \in SUBSET M |-> [d \in P[r \ {ch[r]}] |-> RestorePart(d, st, q[ch[r]])]]
           Eq(g) == g = [r \in SUBSET M |-> IF r = {} THEN S
                            ELSE RestorePart(g[r \ {Max(r)}], st, q[Max(r)])]
<1>0. \A r \in SUBSET M : ch[r] = Max(r)
    BY DEF Latest
<1>1. IsFiniteSet(M) /\ Chooses(ch, M)
    <2>1. M = 1 .. Len(q) /\ Len(q) \in Nat
        OBVIOUS
    <2> QED BY <2>1, LatestChooses
<1>2. ASSUME NEW r \in SUBSET M, NEW x \in r, NEW d \in P[r \ {x}]
      PROVE  RestorePart(d, st, q[x]) \in P[r]
    <2>1. r \ {x} \in SUBSET M /\ d \in StillStates /\ q[x] \in DOMAIN st.ub
        OBVIOUS
    <2>2. RestorePart(d, st, q[x]) \in StillStates
        BY <2>1, RestorePartKeeps
    <2> QED BY <2>2
<1>3. S \in P[{}]
    OBVIOUS
<1> HIDE DEF P, ch
<1>4. PICK h : Folded(h, M, ch, S, step) /\ \A r \in SUBSET M : h[r] \in P[r]
    <2>1. \A r \in SUBSET M : r # {} => \A d \in P[r \ {ch[r]}] : step[r][d] \in P[r]
        BY <1>1, <1>2 DEF Chooses
    <2> HIDE DEF step
    <2> QED BY <1>1, <1>3, <2>1, FoldRuns
<1>5. Eq(h)
    <2>1. \A r \in SUBSET M : r # {} =>
              step[r][h[r \ {ch[r]}]] = RestorePart(h[r \ {ch[r]}], st, q[ch[r]])
        BY <1>4
    <2>2. \A r \in SUBSET M : r # {} =>
              step[r][h[r \ {ch[r]}]] =
                  RestorePart(h[r \ {Max(r)}], st, q[Max(r)])
        BY <1>0, <2>1
    <2>3. h = [r \in SUBSET M |-> IF r = {} THEN S ELSE step[r][h[r \ {ch[r]}]]]
        BY <1>4 DEF Folded
    <2> HIDE DEF step
    <2> QED BY <2>2, <2>3
<1>6. PICK g : Eq(g) /\ FoldLeft(LAMBDA R, k : RestorePart(R, st, k), S, q) = g[M]
    <2>1. FoldLeft(LAMBDA R, k : RestorePart(R, st, k), S, q) = (CHOOSE g : Eq(g))[M]
        BY Zenon DEF FoldLeft, MapThenFoldSet
    <2> HIDE DEF Eq
    <2> QED BY <1>5, <2>1
<1>7. \A r \in SUBSET M : r # {} /\ g[r \ {ch[r]}] \in P[r \ {ch[r]}] => g[r] \in P[r]
    <2> SUFFICES ASSUME NEW r \in SUBSET M, r # {}, g[r \ {ch[r]}] \in P[r \ {ch[r]}]
                 PROVE  g[r] \in P[r]
        OBVIOUS
    <2>1. ch[r] \in r
        BY <1>1 DEF Chooses
    <2>2. g[r] = RestorePart(g[r \ {ch[r]}], st, q[ch[r]])
        BY <1>0, <1>6
    <2> HIDE DEF Eq
    <2> QED BY <1>2, <2>1, <2>2
<1>8. g[M] \in P[M]
    <2>1. g[{}] \in P[{}]
        BY <1>3, <1>6
    <2> HIDE DEF Eq
    <2> QED BY <1>1, <1>7, <2>1, FoldKeeps
<1> QED BY <1>6, <1>8 DEF P

LEMMA RestoreKeeps ==
    ASSUME NEW S \in StillStates, NEW st \in Trials
    PROVE  Restore(S, st) \in StillStates
<1>1. st.ub \in Seq(Parts)
    BY DEF Trials, Ubatches
<1>2. DOMAIN st.ub = 1 .. Len(st.ub) /\ Len(st.ub) \in Nat
    BY <1>1
<1>3. [k \in DOMAIN st.ub |-> k] \in Seq(DOMAIN st.ub)
    BY <1>2
<1> QED BY <1>3, RestoreLoop DEF Restore

\* The loop back over the stack.
LEMMA RestoresLoop ==
    ASSUME NEW S \in StillStates, NEW q \in Seq(Trials)
    PROVE  FoldLeft(Restore, S, q) \in StillStates
<1> DEFINE M == DOMAIN q
           P == [r \in SUBSET M |-> StillStates]
           ch == Latest(M)
           step == [r \in SUBSET M |-> [d \in P[r \ {ch[r]}] |-> Restore(d, q[ch[r]])]]
           Eq(g) == g = [r \in SUBSET M |-> IF r = {} THEN S
                            ELSE Restore(g[r \ {Max(r)}], q[Max(r)])]
<1>0. \A r \in SUBSET M : ch[r] = Max(r)
    BY DEF Latest
<1>1. IsFiniteSet(M) /\ Chooses(ch, M)
    <2>1. M = 1 .. Len(q) /\ Len(q) \in Nat
        OBVIOUS
    <2> QED BY <2>1, LatestChooses
<1>2. ASSUME NEW r \in SUBSET M, NEW x \in r, NEW d \in P[r \ {x}]
      PROVE  Restore(d, q[x]) \in P[r]
    <2>1. r \ {x} \in SUBSET M /\ d \in StillStates /\ q[x] \in Trials
        OBVIOUS
    <2>2. Restore(d, q[x]) \in StillStates
        BY <2>1, RestoreKeeps
    <2> QED BY <2>2
<1>3. S \in P[{}]
    OBVIOUS
<1> HIDE DEF P, ch
<1>4. PICK h : Folded(h, M, ch, S, step) /\ \A r \in SUBSET M : h[r] \in P[r]
    <2>1. \A r \in SUBSET M : r # {} => \A d \in P[r \ {ch[r]}] : step[r][d] \in P[r]
        BY <1>1, <1>2 DEF Chooses
    <2> HIDE DEF step
    <2> QED BY <1>1, <1>3, <2>1, FoldRuns
<1>5. Eq(h)
    <2>1. \A r \in SUBSET M : r # {} =>
              step[r][h[r \ {ch[r]}]] = Restore(h[r \ {ch[r]}], q[ch[r]])
        BY <1>4
    <2>2. \A r \in SUBSET M : r # {} =>
              step[r][h[r \ {ch[r]}]] =
                  Restore(h[r \ {Max(r)}], q[Max(r)])
        BY <1>0, <2>1
    <2>3. h = [r \in SUBSET M |-> IF r = {} THEN S ELSE step[r][h[r \ {ch[r]}]]]
        BY <1>4 DEF Folded
    <2> HIDE DEF step
    <2> QED BY <2>2, <2>3
<1>6. PICK g : Eq(g) /\ FoldLeft(Restore, S, q) = g[M]
    <2>1. FoldLeft(Restore, S, q) = (CHOOSE g : Eq(g))[M]
        BY Zenon DEF FoldLeft, MapThenFoldSet
    <2> HIDE DEF Eq
    <2> QED BY <1>5, <2>1
<1>7. \A r \in SUBSET M : r # {} /\ g[r \ {ch[r]}] \in P[r \ {ch[r]}] => g[r] \in P[r]
    <2> SUFFICES ASSUME NEW r \in SUBSET M, r # {}, g[r \ {ch[r]}] \in P[r \ {ch[r]}]
                 PROVE  g[r] \in P[r]
        OBVIOUS
    <2>1. ch[r] \in r
        BY <1>1 DEF Chooses
    <2>2. g[r] = Restore(g[r \ {ch[r]}], q[ch[r]])
        BY <1>0, <1>6
    <2> HIDE DEF Eq
    <2> QED BY <1>2, <2>1, <2>2
<1>8. g[M] \in P[M]
    <2>1. g[{}] \in P[{}]
        BY <1>3, <1>6
    <2> HIDE DEF Eq
    <2> QED BY <1>1, <1>7, <2>1, FoldKeeps
<1> QED BY <1>6, <1>8 DEF P

Fits(slots, batch) == \A k \in DOMAIN batch : slots[k] \in Slots(batch[k])

\* What prepare() returns: if the batch fits, slots for each micro batch.
Prepared(batch) ==
    {p \in [ok : BOOLEAN, S : StillStates, slots : Seq(Seq(Seq(Cells)))] :
        p.ok => Fits(p.slots, batch)}

LEMMA PrepareGives ==
    ASSUME NEW S \in StillStates, NEW batch \in Seq(Ubatches)
    PROVE  prepare(S, batch) \in Prepared(batch)
<1> DEFINE b == [ok |-> TRUE, S |-> S, stack |-> <<>>]
           tried == FoldLeft(TryUbatch, b, batch)
           back == FoldLeft(Restore, tried.S, Reverse(tried.stack))
           slots == [k \in DOMAIN tried.stack |-> tried.stack[k].idxs]
<1>1. prepare(S, batch) = [ok |-> tried.ok, S |-> back, slots |-> slots]
    BY Zenon DEF prepare
<1>2. b \in Tried /\ InOrder(b, batch, 0)
    BY DEF Tried, InOrder
<1> HIDE DEF b
<1>3. \E s : TryRun(s, b, batch) /\ tried = s[Len(batch)]
    BY <1>2, TryLoop
<1> HIDE DEF tried
<1>4. Len(batch) \in Nat /\ DOMAIN batch = 1 .. Len(batch)
    OBVIOUS
<1>5. tried \in Tried /\ InOrder(tried, batch, Len(batch))
    <2>1. Len(batch) \in 0 .. Len(batch)
        BY <1>4
    <2> QED BY <1>3, <2>1 DEF TryRun
<1>6. tried.ok \in BOOLEAN /\ tried.S \in StillStates
    BY <1>5 DEF Tried
<1>7. PICK z \in Seq(Trials) : z = tried.stack
    BY <1>5 DEF Tried
<1>8. Reverse(z) \in Seq(Trials)
    <2>1. Len(z) \in Nat /\ DOMAIN z = 1 .. Len(z) /\ \A i \in 1 .. Len(z) : z[i] \in Trials
        OBVIOUS
    <2>2. \A i \in 1 .. Len(z) : (Len(z) - i) + 1 \in 1 .. Len(z)
        BY <2>1
    <2>3. \A i \in 1 .. Len(z) : z[(Len(z) - i) + 1] \in Trials
        BY <2>1, <2>2
    <2> QED BY <2>1, <2>3 DEF Reverse
<1>9. back \in StillStates
    BY <1>6, <1>7, <1>8, RestoresLoop
<1> HIDE DEF back
<1>10. ASSUME tried.ok, NEW k \in DOMAIN batch
       PROVE  slots[k] \in Slots(batch[k])
    <2>1. Len(z) = Len(batch) /\ z[k].ub = batch[k]
        BY <1>4, <1>5, <1>7, <1>10 DEF InOrder
    <2>2. k \in DOMAIN z /\ z[k] \in Trials
        BY <1>4, <2>1
    <2>3. slots[k] = z[k].idxs
        BY <1>7, <2>2
    <2> QED BY <2>1, <2>2, <2>3 DEF Trials
<1>11. slots \in Seq(Seq(Seq(Cells)))
    <2>1. Len(z) \in Nat /\ DOMAIN z = 1 .. Len(z)
        OBVIOUS
    <2>2. \A k \in 1 .. Len(z) : z[k].idxs \in Seq(Seq(Cells))
        BY DEF Trials
    <2>3. slots = [k \in 1 .. Len(z) |-> slots[k]] /\ \A k \in 1 .. Len(z) : slots[k] \in Seq(Seq(Cells))
        BY <1>7, <2>1, <2>2
    <2> HIDE DEF slots
    <2> QED BY <2>1, <2>3, Listing
<1> HIDE DEF slots
<1>12. tried.ok => Fits(slots, batch)
    BY <1>10 DEF Fits
<1> QED BY <1>1, <1>6, <1>9, <1>11, <1>12 DEF Prepared

-----------------------------------------------------------------------------
(***************************************************************************)
(* Computing a batch                                                       *)
(***************************************************************************)
KeysType == [Streams -> [Cells -> Int]]

\* One round of the loops over the keys.
Written(L, ub, idxs, k) ==
    [L EXCEPT ![ub[k].strm] = [i \in Cells |->
        IF \E j \in DOMAIN idxs[k] : idxs[k][j] = i
        THEN ub[k].toks[CHOOSE j \in DOMAIN idxs[k] : idxs[k][j] = i].pos
        ELSE L[ub[k].strm][i]]]
Copied(L, cp) == [L EXCEPT ![cp[2]] = L[cp[1]]]

\* The tokens of the parts in r have their keys, and the other cells theirs.
Wrote(K, L, ub, idxs, r) ==
    /\ \A k \in r : \A j \in DOMAIN idxs[k] : L[ub[k].strm][idxs[k][j]] = ub[k].toks[j].pos
    /\ \A m \in Streams, i \in Cells :
           (\A k \in r : ub[k].strm = m => \A j \in DOMAIN idxs[k] : idxs[k][j] # i)
               => L[m][i] = K[m][i]

LEMMA WriteStep ==
    ASSUME NEW d \in KeysType, NEW ub \in Seq(Parts), NEW idxs \in Slots(ub), NEW k \in DOMAIN ub,
           NEW e, e = Written(d, ub, idxs, k), NEW m, m = ub[k].strm
    PROVE  /\ e \in KeysType /\ m \in Streams
           /\ \A j \in DOMAIN idxs[k] : e[m][idxs[k][j]] = ub[k].toks[j].pos
           /\ \A i \in Cells : (\A j \in DOMAIN idxs[k] : idxs[k][j] # i) => e[m][i] = d[m][i]
           /\ \A x \in Streams \ {m} : e[x] = d[x]
<1>1. PICK toks, z : toks = ub[k].toks /\ z = idxs[k]
    OBVIOUS
<1>2. /\ m \in Streams /\ toks \in Seq(TokensIn(m)) /\ DOMAIN z = DOMAIN toks
      /\ z \in Seq(Cells) /\ Different(z)
    BY <1>1, PartFields DEF Slots
<1>3. \A j \in DOMAIN z : toks[j].pos \in Int
    <2>1. \A j \in DOMAIN z : toks[j] \in TokensIn(m)
        BY <1>2
    <2>2. Positions \subseteq Int
        BY KvCellsAssumption DEF Positions
    <2> QED BY <2>1, <2>2 DEF TokensIn
<1>4. d[m] \in [Cells -> Int]
    BY <1>2 DEF KeysType
<1>5. PICK w : w = [i \in Cells |-> IF \E j \in DOMAIN z : z[j] = i
                                    THEN toks[CHOOSE j \in DOMAIN z : z[j] = i].pos
                                    ELSE d[m][i]]
    OBVIOUS
<1>6. w \in [Cells -> Int]
    BY <1>3, <1>4, <1>5
<1>7. e = [d EXCEPT ![m] = w]
    BY <1>1, <1>5 DEF Written
<1>8. e \in KeysType /\ e[m] = w /\ \A x \in Streams \ {m} : e[x] = d[x]
    BY <1>2, <1>6, <1>7 DEF KeysType
<1>9. ASSUME NEW j \in DOMAIN z
      PROVE  w[z[j]] = toks[j].pos
    <2>1. z[j] \in Cells
        BY <1>2
    <2>2. PICK l \in DOMAIN z : l = (CHOOSE y \in DOMAIN z : z[y] = z[j]) /\ z[l] = z[j]
        OBVIOUS
    <2>3. l = j
        BY <1>2, <2>2 DEF Different
    <2>4. w[z[j]] = toks[l].pos
        BY <1>5, <2>1, <2>2
    <2> QED BY <2>3, <2>4
<1>10. \A i \in Cells : (\A j \in DOMAIN z : z[j] # i) => w[i] = d[m][i]
    BY <1>5
<1> QED BY <1>1, <1>2, <1>8, <1>9, <1>10

\* The loop over the parts of a micro batch whose keys are written.
LEMMA WriteLoop ==
    ASSUME NEW K \in KeysType, NEW ub \in Seq(Parts), NEW idxs \in Slots(ub),
           NEW q \in Seq(DOMAIN ub), Counts(q, ub)
    PROVE  FoldLeft(LAMBDA L, k : [L EXCEPT ![ub[k].strm] = [i \in Cells |->
                 IF \E j \in DOMAIN idxs[k] : idxs[k][j] = i
                 THEN ub[k].toks[CHOOSE j \in DOMAIN idxs[k] : idxs[k][j] = i].pos
                 ELSE L[ub[k].strm][i]]], K, q)
               \in {L \in KeysType : Apart(ub) => Wrote(K, L, ub, idxs, DOMAIN ub)}
<1> DEFINE M == DOMAIN q
           P == [r \in SUBSET M |-> {L \in KeysType : Apart(ub) => Wrote(K, L, ub, idxs, r)}]
           ch == Latest(M)
           step == [r \in SUBSET M |-> [d \in P[r \ {ch[r]}] |-> Written(d, ub, idxs, q[ch[r]])]]
           Eq(g) == g = [r \in SUBSET M |-> IF r = {} THEN K
                            ELSE Written(g[r \ {Max(r)}], ub, idxs, q[Max(r)])]
<1>0. \A r \in SUBSET M : ch[r] = Max(r)
    BY DEF Latest
<1>1. IsFiniteSet(M) /\ Chooses(ch, M)
    <2>1. M = 1 .. Len(q) /\ Len(q) \in Nat
        OBVIOUS
    <2> QED BY <2>1, LatestChooses
<1>2. ASSUME NEW r \in SUBSET M, NEW x \in r, NEW d \in P[r \ {x}]
      PROVE  Written(d, ub, idxs, q[x]) \in P[r]
    <2>1. d \in KeysType /\ (Apart(ub) => Wrote(K, d, ub, idxs, r \ {x}))
        OBVIOUS
    <2>2. x \in DOMAIN ub /\ q[x] = x /\ r \subseteq DOMAIN ub
        BY DEF Counts
    <2>3. PICK e, m : e = Written(d, ub, idxs, x) /\ m = ub[x].strm
        OBVIOUS
    <2>4. /\ e \in KeysType /\ m \in Streams
          /\ \A j \in DOMAIN idxs[x] : e[m][idxs[x][j]] = ub[x].toks[j].pos
          /\ \A i \in Cells : (\A j \in DOMAIN idxs[x] : idxs[x][j] # i) => e[m][i] = d[m][i]
          /\ \A y \in Streams \ {m} : e[y] = d[y]
        BY <2>1, <2>2, <2>3, WriteStep
    <2>5. ASSUME Apart(ub)
          PROVE  Wrote(K, e, ub, idxs, r)
        <3>1. Wrote(K, d, ub, idxs, r \ {x}) /\ \A k \in r \ {x} : ub[k].strm # m
            BY <2>1, <2>2, <2>3, <2>5 DEF Apart
        <3>2. ASSUME NEW k \in r, NEW j \in DOMAIN idxs[k]
              PROVE  e[ub[k].strm][idxs[k][j]] = ub[k].toks[j].pos
            <4>1. CASE k = x
                BY <2>3, <2>4, <4>1
            <4>2. CASE k # x
                <5>1. ub[k].strm \in Streams \ {m}
                    BY <2>2, <3>1, <4>2, PartFields
                <5>2. e[ub[k].strm] = d[ub[k].strm]
                    BY <2>4, <5>1
                <5> QED BY <3>1, <4>2, <5>2 DEF Wrote
            <4> QED BY <4>1, <4>2
        <3>3. ASSUME NEW n \in Streams, NEW i \in Cells,
                     \A k \in r : ub[k].strm = n => \A j \in DOMAIN idxs[k] : idxs[k][j] # i
              PROVE  e[n][i] = K[n][i]
            <4>1. d[n][i] = K[n][i]
                BY <3>1, <3>3 DEF Wrote
            <4>2. CASE n = m
                BY <2>3, <2>4, <3>3, <4>1, <4>2
            <4>3. CASE n # m
                BY <2>4, <4>1, <4>3
            <4> QED BY <4>2, <4>3
        <3> QED BY <3>2, <3>3 DEF Wrote
    <2> HIDE DEF Apart
    <2> QED BY <2>2, <2>3, <2>4, <2>5
<1>3. K \in P[{}]
    BY DEF Wrote
<1> HIDE DEF P, ch
<1>4. PICK h : Folded(h, M, ch, K, step) /\ \A r \in SUBSET M : h[r] \in P[r]
    <2>1. \A r \in SUBSET M : r # {} => \A d \in P[r \ {ch[r]}] : step[r][d] \in P[r]
        BY <1>1, <1>2 DEF Chooses
    <2> HIDE DEF step
    <2> QED BY <1>1, <1>3, <2>1, FoldRuns
<1>5. Eq(h)
    <2>1. \A r \in SUBSET M : r # {} =>
              step[r][h[r \ {ch[r]}]] = Written(h[r \ {ch[r]}], ub, idxs, q[ch[r]])
        BY <1>4
    <2>2. \A r \in SUBSET M : r # {} =>
              step[r][h[r \ {ch[r]}]] =
                  Written(h[r \ {Max(r)}], ub, idxs, q[Max(r)])
        BY <1>0, <2>1
    <2>3. h = [r \in SUBSET M |-> IF r = {} THEN K ELSE step[r][h[r \ {ch[r]}]]]
        BY <1>4 DEF Folded
    <2> HIDE DEF step
    <2> QED BY <2>2, <2>3
<1>6. PICK g : Eq(g) /\ FoldLeft(LAMBDA L, k : [L EXCEPT ![ub[k].strm] = [i \in Cells |->
                 IF \E j \in DOMAIN idxs[k] : idxs[k][j] = i
                 THEN ub[k].toks[CHOOSE j \in DOMAIN idxs[k] : idxs[k][j] = i].pos
                 ELSE L[ub[k].strm][i]]], K, q) = g[M]
    <2>1. FoldLeft(LAMBDA L, k : [L EXCEPT ![ub[k].strm] = [i \in Cells |->
                 IF \E j \in DOMAIN idxs[k] : idxs[k][j] = i
                 THEN ub[k].toks[CHOOSE j \in DOMAIN idxs[k] : idxs[k][j] = i].pos
                 ELSE L[ub[k].strm][i]]], K, q) = (CHOOSE g : Eq(g))[M]
        BY Zenon DEF FoldLeft, MapThenFoldSet, Written
    <2> HIDE DEF Eq
    <2> QED BY <1>5, <2>1
<1>7. \A r \in SUBSET M : r # {} /\ g[r \ {ch[r]}] \in P[r \ {ch[r]}] => g[r] \in P[r]
    <2> SUFFICES ASSUME NEW r \in SUBSET M, r # {}, g[r \ {ch[r]}] \in P[r \ {ch[r]}]
                 PROVE  g[r] \in P[r]
        OBVIOUS
    <2>1. ch[r] \in r
        BY <1>1 DEF Chooses
    <2>2. g[r] = Written(g[r \ {ch[r]}], ub, idxs, q[ch[r]])
        BY <1>0, <1>6
    <2> HIDE DEF Eq
    <2> QED BY <1>2, <2>1, <2>2
<1>8. g[M] \in P[M]
    <2>1. g[{}] \in P[{}]
        BY <1>3, <1>6
    <2> HIDE DEF Eq
    <2> QED BY <1>1, <1>7, <2>1, FoldKeeps
<1>9. M = DOMAIN ub
    BY DEF Counts
<1> QED BY <1>6, <1>8, <1>9 DEF P

\* s[n] are the keys after n of the copies q.
CopyRun(s, K, q) ==
    /\ s[0] = K
    /\ \A n \in 1 .. Len(q) : s[n] = Copied(s[n - 1], q[n])
    /\ \A n \in 0 .. Len(q) : s[n] \in KeysType

LEMMA CopyKeeps ==
    ASSUME NEW d \in KeysType, NEW cp \in Streams \X Streams
    PROVE  Copied(d, cp) \in KeysType
<1>1. PICK m \in Streams, n \in Streams : cp = <<m, n>>
    OBVIOUS
<1>2. d[m] \in [Cells -> Int]
    BY DEF KeysType
<1>3. [d EXCEPT ![n] = d[m]] \in KeysType
    BY <1>2 DEF KeysType
<1> QED BY <1>1, <1>3 DEF Copied

\* The loop over the pending copies of streams.
LEMMA CopiedLoop ==
    ASSUME NEW K \in KeysType, NEW q \in Seq(Streams \X Streams)
    PROVE  \E s : /\ CopyRun(s, K, q)
                  /\ FoldLeft(LAMBDA L, cp : [L EXCEPT ![cp[2]] = L[cp[1]]], K, q) = s[Len(q)]
<1> DEFINE M == DOMAIN q
           P == [r \in SUBSET M |-> KeysType]
           ch == Latest(M)
           step == [r \in SUBSET M |-> [d \in P[r \ {ch[r]}] |-> Copied(d, q[ch[r]])]]
           Eq(g) == g = [r \in SUBSET M |-> IF r = {} THEN K
                            ELSE Copied(g[r \ {Max(r)}], q[Max(r)])]
<1>0. \A r \in SUBSET M : ch[r] = Max(r)
    BY DEF Latest
<1>1. IsFiniteSet(M) /\ Chooses(ch, M)
    <2>1. M = 1 .. Len(q) /\ Len(q) \in Nat
        OBVIOUS
    <2> QED BY <2>1, LatestChooses
<1>2. ASSUME NEW r \in SUBSET M, NEW x \in r, NEW d \in P[r \ {x}]
      PROVE  Copied(d, q[x]) \in P[r]
    <2>1. r \ {x} \in SUBSET M /\ d \in KeysType /\ q[x] \in Streams \X Streams
        OBVIOUS
    <2> QED BY <2>1, CopyKeeps
<1>3. K \in P[{}]
    OBVIOUS
<1> HIDE DEF P, ch
<1>4. PICK h : Folded(h, M, ch, K, step) /\ \A r \in SUBSET M : h[r] \in P[r]
    <2>1. \A r \in SUBSET M : r # {} => \A d \in P[r \ {ch[r]}] : step[r][d] \in P[r]
        BY <1>1, <1>2 DEF Chooses
    <2> HIDE DEF step
    <2> QED BY <1>1, <1>3, <2>1, FoldRuns
<1>5. Eq(h)
    <2>1. \A r \in SUBSET M : r # {} =>
              step[r][h[r \ {ch[r]}]] = Copied(h[r \ {ch[r]}], q[ch[r]])
        BY <1>4
    <2>2. \A r \in SUBSET M : r # {} =>
              step[r][h[r \ {ch[r]}]] =
                  Copied(h[r \ {Max(r)}], q[Max(r)])
        BY <1>0, <2>1
    <2>3. h = [r \in SUBSET M |-> IF r = {} THEN K ELSE step[r][h[r \ {ch[r]}]]]
        BY <1>4 DEF Folded
    <2> HIDE DEF step
    <2> QED BY <2>2, <2>3
<1>6. PICK g : Eq(g) /\ FoldLeft(LAMBDA L, cp : [L EXCEPT ![cp[2]] = L[cp[1]]], K, q) = g[M]
    <2>1. FoldLeft(LAMBDA L, cp : [L EXCEPT ![cp[2]] = L[cp[1]]], K, q) = (CHOOSE g : Eq(g))[M]
        BY Zenon DEF FoldLeft, MapThenFoldSet, Copied
    <2> HIDE DEF Eq
    <2> QED BY <1>5, <2>1
<1> DEFINE s == [n \in 0 .. Len(q) |-> g[1 .. n]]
<1>7. Len(q) \in Nat /\ M = 1 .. Len(q) /\ s[Len(q)] = g[M]
    OBVIOUS
<1>8. s[0] = K
    <2>1. g[{}] = K
        BY <1>6
    <2>2. 1 .. 0 = {} /\ s[0] = g[1 .. 0]
        BY <1>7
    <2> HIDE DEF Eq, s
    <2> QED BY <2>1, <2>2
<1>9. ASSUME NEW n \in 1 .. Len(q)
      PROVE  s[n] = Copied(s[n - 1], q[n])
    <2>0. n \in Nat \ {0} /\ \A k \in 1 .. n : k \in 1 .. Len(q)
        BY <1>7
    <2>1. 1 .. n \in SUBSET M /\ 1 .. n # {} /\ n \in Nat \ {0}
        <3>1. n \in 1 .. n
            BY <2>0
        <3> HIDE DEF M
        <3> QED BY <1>7, <2>0, <3>1
    <2>2. Max(1 .. n) = n /\ (1 .. n) \ {n} = 1 .. (n - 1)
        BY <2>1, LatestOf
    <2>3. g[1 .. n] = Copied(g[(1 .. n) \ {Max(1 .. n)}], q[Max(1 .. n)])
        BY <1>6, <2>1
    <2>4. s[n] = g[1 .. n] /\ s[n - 1] = g[1 .. (n - 1)]
        BY <2>1
    <2> HIDE DEF Eq, s
    <2> QED BY <2>2, <2>3, <2>4
<1> HIDE DEF s
<1>10. ASSUME NEW n \in 0 .. Len(q)
       PROVE  s[n] \in KeysType
    <2> DEFINE T == {k \in Nat : k <= Len(q) => s[k] \in KeysType}
    <2>1. 0 \in T
        BY <1>8
    <2>2. ASSUME NEW k \in Nat, k \in T
          PROVE  k + 1 \in T
        <3> SUFFICES ASSUME k + 1 <= Len(q)
                     PROVE  s[k + 1] \in KeysType
            OBVIOUS
        <3>1. k + 1 \in 1 .. Len(q) /\ s[k] \in KeysType /\ (k + 1) - 1 = k
            BY <1>7, <2>2
        <3>2. s[k + 1] = Copied(s[k], q[k + 1])
            BY <1>9, <3>1
        <3>3. q[k + 1] \in Streams \X Streams
            BY <3>1
        <3> QED BY <3>1, <3>2, <3>3, CopyKeeps
    <2>3. n \in T
        <3>1. n \in Nat
            OBVIOUS
        <3> HIDE DEF T
        <3> QED BY <2>1, <2>2, <3>1, Counting
    <2> QED BY <2>3
<1>11. CopyRun(s, K, q)
    BY <1>8, <1>9, <1>10 DEF CopyRun
<1> QED BY <1>6, <1>7, <1>11

\* Two runs of the same copies differ only in stream m if they start so.
LEMMA CopiedLike ==
    ASSUME NEW q \in Seq(Streams \X Streams), NEW s, NEW K, CopyRun(s, K, q), NEW t, NEW L,
           CopyRun(t, L, q), NEW m, \A k \in DOMAIN q : m \notin ToSet(q[k]),
           \A x \in Streams \ {m} : K[x] = L[x]
    PROVE  /\ m \in Streams => t[Len(q)][m] = L[m]
           /\ \A x \in Streams \ {m} : s[Len(q)][x] = t[Len(q)][x]
<1> DEFINE Good(n) == /\ m \in Streams => t[n][m] = L[m]
                      /\ \A x \in Streams \ {m} : s[n][x] = t[n][x]
           T == {n \in Nat : n <= Len(q) => Good(n)}
<1>1. 0 \in T
    BY DEF CopyRun
<1>2. ASSUME NEW n \in Nat, n \in T
      PROVE  n + 1 \in T
    <2> SUFFICES ASSUME n + 1 <= Len(q)
                 PROVE  Good(n + 1)
        OBVIOUS
    <2>1. /\ n + 1 \in DOMAIN q /\ n + 1 \in 1 .. Len(q) /\ (n + 1) - 1 = n
          /\ n \in 0 .. Len(q) /\ Len(q) \in Nat
        OBVIOUS
    <2>2. Good(n)
        BY <1>2, <2>1
    <2>3. PICK a \in Streams, b \in Streams : q[n + 1] = <<a, b>>
        BY <2>1
    <2>4. a # m /\ b # m
        <3>1. ToSet(q[n + 1]) = {a, b}
            BY <2>3 DEF ToSet
        <3> QED BY <2>1, <3>1
    <2>5. /\ s[n + 1] = [s[n] EXCEPT ![b] = s[n][a]] /\ s[n] \in KeysType
          /\ t[n + 1] = [t[n] EXCEPT ![b] = t[n][a]] /\ t[n] \in KeysType
        <3>1. s[n + 1] = Copied(s[n], q[n + 1]) /\ t[n + 1] = Copied(t[n], q[n + 1])
            BY <2>1 DEF CopyRun
        <3>2. s[n] \in KeysType /\ t[n] \in KeysType
            BY <2>1 DEF CopyRun
        <3> QED BY <2>3, <3>1, <3>2 DEF Copied
    <2>6. /\ \A x \in Streams : s[n + 1][x] = IF x = b THEN s[n][a] ELSE s[n][x]
          /\ \A x \in Streams : t[n + 1][x] = IF x = b THEN t[n][a] ELSE t[n][x]
        BY <2>5 DEF KeysType
    <2> QED BY <2>2, <2>4, <2>6
<1>3. Len(q) \in T
    <2>1. Len(q) \in Nat
        OBVIOUS
    <2> HIDE DEF T
    <2> QED BY <1>1, <1>2, <2>1, Counting
<1>4. Len(q) \in Nat
    OBVIOUS
<1> QED BY <1>3, <1>4

\* One copy more.
LEMMA CopiedMore ==
    ASSUME NEW q \in Seq(Streams \X Streams), NEW s, NEW K, CopyRun(s, K, q),
           NEW cp \in Streams \X Streams, NEW t, CopyRun(t, K, Append(q, cp))
    PROVE  t[Len(q) + 1] = Copied(s[Len(q)], cp)
<1>1. /\ Len(q) \in Nat /\ Len(Append(q, cp)) = Len(q) + 1 /\ Append(q, cp)[Len(q) + 1] = cp
      /\ \A n \in 1 .. Len(q) : Append(q, cp)[n] = q[n]
    OBVIOUS
<1>2. PICK z : z = Append(q, cp)
    OBVIOUS
<1> DEFINE T == {n \in Nat : n <= Len(q) => s[n] = t[n]}
<1>3. 0 \in T
    BY DEF CopyRun
<1>4. ASSUME NEW n \in Nat, n \in T
      PROVE  n + 1 \in T
    <2> SUFFICES ASSUME n + 1 <= Len(q)
                 PROVE  s[n + 1] = t[n + 1]
        OBVIOUS
    <2>1. n + 1 \in 1 .. Len(q) /\ n + 1 \in 1 .. Len(z) /\ (n + 1) - 1 = n /\ s[n] = t[n]
        BY <1>1, <1>2, <1>4
    <2>2. s[n + 1] = Copied(s[n], q[n + 1])
        BY <2>1 DEF CopyRun
    <2>3. t[n + 1] = Copied(t[n], z[n + 1])
        BY <1>2, <2>1 DEF CopyRun
    <2>4. z[n + 1] = q[n + 1]
        BY <1>1, <1>2, <2>1
    <2> QED BY <2>1, <2>2, <2>3, <2>4
<1>5. s[Len(q)] = t[Len(q)]
    <2>1. Len(q) \in T
        <3> HIDE DEF T
        <3> QED BY <1>1, <1>3, <1>4, Counting
    <2> QED BY <1>1, <2>1
<1>6. Len(q) + 1 \in 1 .. Len(z) /\ (Len(q) + 1) - 1 = Len(q) /\ z[Len(q) + 1] = cp
    BY <1>1, <1>2
<1>7. t[Len(q) + 1] = Copied(t[Len(q)], z[Len(q) + 1])
    BY <1>2, <1>6 DEF CopyRun
<1> QED BY <1>5, <1>6, <1>7

LEMMA UpdatedKeys ==
    ASSUME v_cells \in [Streams -> KvCellsType], keys \in KeysType,
           sc_info \in Seq(Streams \X Streams)
    PROVE  KeysUpdated \in KeysType
<1>1. PICK K \in KeysType : K = KeysCopied
    <2>1. PICK s : CopyRun(s, keys, sc_info) /\ KeysCopied = s[Len(sc_info)]
        BY CopiedLoop DEF KeysCopied
    <2>2. Len(sc_info) \in 0 .. Len(sc_info)
        OBVIOUS
    <2> QED BY <2>1, <2>2 DEF CopyRun
<1>2. ASSUME NEW m \in Streams, NEW i \in Cells
      PROVE  K[m][i] + v_cells[m].shift[i] \in Int
    <2>1. v_cells[m].shift \in [Cells -> Int] /\ K[m] \in [Cells -> Int]
        BY DEF KvCellsType, KeysType
    <2> QED BY <2>1
<1>3. KeysUpdated = [m \in Streams |-> [i \in Cells |->
          IF is_empty(v_cells[m], i) THEN -1 ELSE K[m][i] + v_cells[m].shift[i]]]
    BY <1>1 DEF KeysUpdated
<1> QED BY <1>2, <1>3 DEF KeysType

AnyTokens == [pos : Positions, seqs : (SUBSET Seqs) \ {{}}]

LEMMA TokensTyped ==
    ASSUME NEW ub \in Seq(Parts)
    PROVE  Tokens(ub) \subseteq AnyTokens
<1> SUFFICES ASSUME NEW k \in DOMAIN ub, NEW j \in DOMAIN ub[k].toks
             PROVE  ub[k].toks[j] \in AnyTokens
    BY DEF Tokens, ToSet
<1>1. PICK m, toks : m = ub[k].strm /\ toks = ub[k].toks
    OBVIOUS
<1>2. toks \in Seq(TokensIn(m))
    BY <1>1, PartFields
<1>3. toks[j] \in TokensIn(m)
    BY <1>1, <1>2
<1>4. Owned(m) \subseteq Seqs
    BY DEF Owned
<1> QED BY <1>1, <1>3, <1>4 DEF TokensIn, AnyTokens

Runs == [S : StillStates, K : KeysType, given : SUBSET AnyTokens, blind : BOOLEAN]

\* The keys of the used cells are at their positions.
KeysAt(S, K) ==
    \A m \in Streams, i \in Cells : S.v[m].pos[i] # -1 => K[m][i] = S.v[m].pos[i]

LEMMA AppliedKeys ==
    ASSUME NEW S, NEW K, KeysAt(S, K), NEW T, NEW L, NEW ub, NEW idxs,
           Applied(S, T, ub, idxs), Wrote(K, L, ub, idxs, DOMAIN ub)
    PROVE  KeysAt(T, L)
<1> SUFFICES ASSUME NEW m \in Streams, NEW i \in Cells, T.v[m].pos[i] # -1
             PROVE  L[m][i] = T.v[m].pos[i]
    BY DEF KeysAt
<1>1. CASE Untouched(ub, idxs, m, i)
    <2>1. LeftOf(Cell(T.v[m], i), Cell(S.v[m], i))
        BY <1>1 DEF Applied
    <2>2. S.v[m].pos[i] = T.v[m].pos[i]
        BY <2>1 DEF LeftOf, Cell, Gone
    <2>3. L[m][i] = K[m][i]
        BY <1>1 DEF Wrote, Untouched
    <2> QED BY <2>2, <2>3 DEF KeysAt
<1>2. CASE ~Untouched(ub, idxs, m, i)
    <2>0. PICK k \in DOMAIN ub : ub[k].strm = m /\ \E j \in DOMAIN idxs[k] : idxs[k][j] = i
        BY <1>2 DEF Untouched
    <2>1. PICK j \in DOMAIN idxs[k] : ub[k].strm = m /\ idxs[k][j] = i
        BY <2>0
    <2>2. LeftOf(Cell(T.v[m], i), <<ub[k].toks[j].pos, 0, ub[k].toks[j].seqs>>)
        BY <2>1 DEF Applied
    <2>3. T.v[m].pos[i] = ub[k].toks[j].pos
        BY <2>2 DEF LeftOf, Cell, Gone
    <2> QED BY <2>1, <2>3 DEF Wrote
<1> QED BY <1>1, <1>2

LEMMA ComputeKeeps ==
    ASSUME NEW acc \in Runs, NEW ub \in Seq(Parts), NEW idxs \in Slots(ub),
           NEW run, run = Compute(acc, ub, idxs)
    PROVE  /\ run \in Runs
           /\ Apart(ub) => Applied(acc.S, run.S, ub, idxs)
           /\ Apart(ub) /\ KeysAt(acc.S, acc.K) => KeysAt(run.S, run.K)
<1> DEFINE S == apply_ubatch(acc.S, ub, idxs)
           given == acc.given \cup Tokens(ub)
           K == WriteKeys(acc.K, ub, idxs)
           blind == acc.blind \/ \E tok \in Tokens(ub) : ~Sees(S, Updated, given, tok)
<1>1. /\ acc = [S |-> acc.S, K |-> acc.K, given |-> acc.given, blind |-> acc.blind]
      /\ acc.S \in StillStates /\ acc.K \in KeysType /\ acc.given \in SUBSET AnyTokens
    BY DEF Runs
<1>2. Compute(acc, ub, idxs) = [acc EXCEPT !.S = S, !.K = K, !.given = given, !.blind = blind]
    BY DEF Compute
<1>3. S \in StillStates /\ (Apart(ub) => Applied(acc.S, S, ub, idxs))
    BY <1>1, ApplyKeeps DEF Kinds
<1>4. given \in SUBSET AnyTokens
    BY <1>1, TokensTyped
<1>5. K \in {L \in KeysType : Apart(ub) => Wrote(acc.K, L, ub, idxs, DOMAIN ub)}
    <2>1. DOMAIN ub = 1 .. Len(ub) /\ Len(ub) \in Nat
        OBVIOUS
    <2>2. PICK q \in Seq(DOMAIN ub) : q = [k \in DOMAIN ub |-> k] /\ Counts(q, ub)
        <3>1. [k \in DOMAIN ub |-> k] \in Seq(DOMAIN ub)
            BY <2>1
        <3> QED BY <3>1 DEF Counts
    <2> QED BY <1>1, <2>2, WriteLoop DEF WriteKeys
<1>6. blind \in BOOLEAN
    OBVIOUS
<1> HIDE DEF S, given, K, blind
<1>7. run = [S |-> S, K |-> K, given |-> given, blind |-> blind]
    BY <1>1, <1>2
<1>8. run \in Runs /\ run.S = S /\ run.K = K
    BY <1>3, <1>4, <1>5, <1>6, <1>7 DEF Runs
<1>9. Apart(ub) /\ KeysAt(acc.S, acc.K) => KeysAt(S, K)
    BY <1>3, <1>5, AppliedKeys
<1> QED BY <1>3, <1>8, <1>9

AllApart(batch) == \A k \in DOMAIN batch : Apart(batch[k])

\* The loop over the micro batches of a batch.
LEMMA ComputeLoop ==
    ASSUME NEW batch \in Seq(Seq(Parts)), NEW p \in Prepared(batch), p.ok, NEW b \in Runs,
           NEW q \in Seq(DOMAIN batch)
    PROVE  FoldLeft(LAMBDA acc, j : Compute(acc, batch[j], p.slots[j]), b, q)
               \in {a \in Runs : AllApart(batch) /\ KeysAt(b.S, b.K) => KeysAt(a.S, a.K)}
<1> DEFINE M == DOMAIN q
           P == [r \in SUBSET M |->
                    {a \in Runs : AllApart(batch) /\ KeysAt(b.S, b.K) => KeysAt(a.S, a.K)}]
           ch == Latest(M)
           step == [r \in SUBSET M |-> [d \in P[r \ {ch[r]}] |-> Compute(d, batch[q[ch[r]]], p.slots[q[ch[r]]])]]
           Eq(g) == g = [r \in SUBSET M |-> IF r = {} THEN b
                            ELSE Compute(g[r \ {Max(r)}], batch[q[Max(r)]], p.slots[q[Max(r)]])]
<1>0. \A r \in SUBSET M : ch[r] = Max(r)
    BY DEF Latest
<1>1. IsFiniteSet(M) /\ Chooses(ch, M)
    <2>1. M = 1 .. Len(q) /\ Len(q) \in Nat
        OBVIOUS
    <2> QED BY <2>1, LatestChooses
<1>2. ASSUME NEW r \in SUBSET M, NEW x \in r, NEW d \in P[r \ {x}]
      PROVE  Compute(d, batch[q[x]], p.slots[q[x]]) \in P[r]
    <2>1. /\ d \in Runs /\ q[x] \in DOMAIN batch
          /\ AllApart(batch) /\ KeysAt(b.S, b.K) => KeysAt(d.S, d.K)
        OBVIOUS
    <2>2. batch[q[x]] \in Seq(Parts) /\ p.slots[q[x]] \in Slots(batch[q[x]])
        BY <2>1 DEF Prepared, Fits
    <2>3. PICK e : e = Compute(d, batch[q[x]], p.slots[q[x]])
        OBVIOUS
    <2>4. e \in Runs /\ (Apart(batch[q[x]]) /\ KeysAt(d.S, d.K) => KeysAt(e.S, e.K))
        BY <2>1, <2>2, <2>3, ComputeKeeps
    <2>5. AllApart(batch) => Apart(batch[q[x]])
        BY <2>1 DEF AllApart
    <2> QED BY <2>1, <2>3, <2>4, <2>5
<1>3. b \in P[{}]
    OBVIOUS
<1> HIDE DEF P, ch
<1>4. PICK h : Folded(h, M, ch, b, step) /\ \A r \in SUBSET M : h[r] \in P[r]
    <2>1. \A r \in SUBSET M : r # {} => \A d \in P[r \ {ch[r]}] : step[r][d] \in P[r]
        BY <1>1, <1>2 DEF Chooses
    <2> HIDE DEF step
    <2> QED BY <1>1, <1>3, <2>1, FoldRuns
<1>5. Eq(h)
    <2>1. \A r \in SUBSET M : r # {} =>
              step[r][h[r \ {ch[r]}]] = Compute(h[r \ {ch[r]}], batch[q[ch[r]]], p.slots[q[ch[r]]])
        BY <1>4
    <2>2. \A r \in SUBSET M : r # {} =>
              step[r][h[r \ {ch[r]}]] =
                  Compute(h[r \ {Max(r)}], batch[q[Max(r)]], p.slots[q[Max(r)]])
        BY <1>0, <2>1
    <2>3. h = [r \in SUBSET M |-> IF r = {} THEN b ELSE step[r][h[r \ {ch[r]}]]]
        BY <1>4 DEF Folded
    <2> HIDE DEF step
    <2> QED BY <2>2, <2>3
<1>6. PICK g : Eq(g) /\ FoldLeft(LAMBDA acc, j : Compute(acc, batch[j], p.slots[j]), b, q) = g[M]
    <2>1. FoldLeft(LAMBDA acc, j : Compute(acc, batch[j], p.slots[j]), b, q) = (CHOOSE g : Eq(g))[M]
        BY Zenon DEF FoldLeft, MapThenFoldSet
    <2> HIDE DEF Eq
    <2> QED BY <1>5, <2>1
<1>7. \A r \in SUBSET M : r # {} /\ g[r \ {ch[r]}] \in P[r \ {ch[r]}] => g[r] \in P[r]
    <2> SUFFICES ASSUME NEW r \in SUBSET M, r # {}, g[r \ {ch[r]}] \in P[r \ {ch[r]}]
                 PROVE  g[r] \in P[r]
        OBVIOUS
    <2>1. ch[r] \in r
        BY <1>1 DEF Chooses
    <2>2. g[r] = Compute(g[r \ {ch[r]}], batch[q[ch[r]]], p.slots[q[ch[r]]])
        BY <1>0, <1>6
    <2> HIDE DEF Eq
    <2> QED BY <1>2, <2>1, <2>2
<1>8. g[M] \in P[M]
    <2>1. g[{}] \in P[{}]
        BY <1>3, <1>6
    <2> HIDE DEF Eq
    <2> QED BY <1>1, <1>7, <2>1, FoldKeeps
<1> QED BY <1>6, <1>8 DEF P

FirstPos(ub, s) == Least({tok.pos : tok \in {t \in Tokens(ub) : s = Least(t.seqs)}})

\* One round of the loop that removes a micro batch.
SeqRmFirst(R, s, ub) == SeqRmIn(R, s, FirstPos(ub, s), MaxPos + 1)

\* R is what is left of S when the sequences of r have lost everything from their
\* first position in the micro batch on.
Cleared(S, R, ub, r) ==
    /\ Remains(S, R)
    /\ \A x \in Seqs, i \in Cells :
           Has(R, x, i) <=>
               /\ Has(S, x, i)
               /\ ~(x \in r /\ pos_in(S.v[seq_to_stream(x)], i, FirstPos(ub, x), MaxPos + 1))

LEMMA RemoveStep ==
    ASSUME NEW S, NEW R \in StillStates, NEW ub, NEW r \in SUBSET Seqs, NEW s \in r,
           Cleared(S, R, ub, r \ {s}), NEW T, T = SeqRmFirst(R, s, ub)
    PROVE  T \in StillStates /\ Cleared(S, T, ub, r)
<1>1. R \in GoodStates /\ StillStates \in Kinds /\ s \in Seqs
    BY DEF StillStates, Kinds
<1>2. PICK p : p = FirstPos(ub, s)
    OBVIOUS
<1>3. T = SeqRmIn(R, s, p, MaxPos + 1)
    BY <1>2 DEF SeqRmFirst
<1>4. T \in StillStates
    BY <1>1, <1>3, SeqRmInKeeps
<1>5. PICK n : n = seq_to_stream(s)
    OBVIOUS
<1>6. /\ Remains(R, T)
      /\ \A x \in Seqs, i \in Cells :
             Has(T, x, i) <=> Has(R, x, i) /\ ~(x = s /\ pos_in(R.v[n], i, p, MaxPos + 1))
    BY <1>1, <1>3, <1>5, SeqRmInLeaves
<1>7. Remains(S, R) /\ Remains(S, T)
    BY <1>6, RemainsRemains DEF Cleared
<1>8. ASSUME NEW x \in Seqs, NEW i \in Cells, NEW m, m = seq_to_stream(x)
      PROVE  Has(T, x, i) <=> /\ Has(S, x, i)
                              /\ ~(x \in r /\ pos_in(S.v[m], i, FirstPos(ub, x), MaxPos + 1))
    <2>1. Has(R, x, i) <=> /\ Has(S, x, i)
                           /\ ~(x \in r \ {s} /\ pos_in(S.v[m], i, FirstPos(ub, x), MaxPos + 1))
        BY <1>8 DEF Cleared
    <2>2. Has(R, x, i) => R.v[m].pos[i] = S.v[m].pos[i]
        BY <1>7, <1>8, RemainsAt DEF At
    <2>3. CASE x = s
        <3>1. Has(R, x, i) => (pos_in(R.v[n], i, p, MaxPos + 1)
                                   <=> pos_in(S.v[m], i, FirstPos(ub, x), MaxPos + 1))
            BY <1>2, <1>5, <1>8, <2>2, <2>3 DEF pos_in
        <3> QED BY <1>6, <2>1, <2>3, <3>1
    <2>4. CASE x # s
        BY <1>6, <2>1, <2>4
    <2> QED BY <2>3, <2>4
<1> QED BY <1>4, <1>7, <1>8 DEF Cleared

\* The loop over the sequences of a micro batch that failed.
LEMMA RemoveLoop ==
    ASSUME NEW S \in StillStates, NEW ub \in Seq(Parts), NEW M \in SUBSET Seqs
    PROVE  FoldSet(LAMBDA s, R : SeqRmIn(R, s, Least({tok.pos : tok \in {t \in Tokens(ub) : s = Least(t.seqs)}}),
                                     MaxPos + 1), S, M)
               \in {R \in StillStates : Cleared(S, R, ub, M)}
<1> DEFINE P == [r \in SUBSET M |-> {R \in StillStates : Cleared(S, R, ub, r)}]
           ch == Chosen(M)
           step == [r \in SUBSET M |-> [d \in P[r \ {ch[r]}] |-> SeqRmFirst(d, ch[r], ub)]]
           Eq(g) == g = [r \in SUBSET M |-> IF r = {} THEN S
                            ELSE SeqRmFirst(g[r \ {CHOOSE x \in r : TRUE}], CHOOSE x \in r : TRUE, ub)]
<1>0. \A r \in SUBSET M : ch[r] = CHOOSE x \in r : TRUE
    BY ChosenChooses
<1>1. IsFiniteSet(M) /\ Chooses(ch, M)
    BY ChosenChooses, FS_Subset, KvCellsAssumption
<1>2. ASSUME NEW r \in SUBSET M, NEW x \in r, NEW d \in P[r \ {x}]
      PROVE  SeqRmFirst(d, x, ub) \in P[r]
    <2>1. d \in StillStates /\ Cleared(S, d, ub, r \ {x}) /\ r \in SUBSET Seqs
        OBVIOUS
    <2>2. PICK e : e = SeqRmFirst(d, x, ub)
        OBVIOUS
    <2>3. e \in StillStates /\ Cleared(S, e, ub, r)
        BY <2>1, <2>2, RemoveStep
    <2> QED BY <2>2, <2>3
<1>3. S \in P[{}]
    BY DEF Remains, LeftOf, Cleared
<1> HIDE DEF P, ch
<1>4. PICK h : Folded(h, M, ch, S, step) /\ \A r \in SUBSET M : h[r] \in P[r]
    <2>1. \A r \in SUBSET M : r # {} => \A d \in P[r \ {ch[r]}] : step[r][d] \in P[r]
        BY <1>1, <1>2 DEF Chooses
    <2> HIDE DEF step
    <2> QED BY <1>1, <1>3, <2>1, FoldRuns
<1>5. Eq(h)
    <2>1. \A r \in SUBSET M : r # {} =>
              step[r][h[r \ {ch[r]}]] = SeqRmFirst(h[r \ {ch[r]}], ch[r], ub)
        BY <1>4
    <2>2. \A r \in SUBSET M : r # {} =>
              step[r][h[r \ {ch[r]}]] =
                  SeqRmFirst(h[r \ {CHOOSE x \in r : TRUE}], CHOOSE x \in r : TRUE, ub)
        BY <1>0, <2>1
    <2>3. h = [r \in SUBSET M |-> IF r = {} THEN S ELSE step[r][h[r \ {ch[r]}]]]
        BY <1>4 DEF Folded
    <2> HIDE DEF step
    <2> QED BY <2>2, <2>3
<1>6. PICK g : Eq(g) /\ FoldSet(LAMBDA s, R : SeqRmIn(R, s, Least({tok.pos : tok \in {t \in Tokens(ub) : s = Least(t.seqs)}}),
                                     MaxPos + 1), S, M) = g[M]
    <2>1. FoldSet(LAMBDA s, R : SeqRmIn(R, s, Least({tok.pos : tok \in {t \in Tokens(ub) : s = Least(t.seqs)}}),
                                     MaxPos + 1), S, M) = (CHOOSE g : Eq(g))[M]
        BY Zenon DEF FoldSet, MapThenFoldSet, SeqRmFirst, FirstPos
    <2> HIDE DEF Eq
    <2> QED BY <1>5, <2>1
<1>7. \A r \in SUBSET M : r # {} /\ g[r \ {ch[r]}] \in P[r \ {ch[r]}] => g[r] \in P[r]
    <2> SUFFICES ASSUME NEW r \in SUBSET M, r # {}, g[r \ {ch[r]}] \in P[r \ {ch[r]}]
                 PROVE  g[r] \in P[r]
        OBVIOUS
    <2>1. ch[r] \in r
        BY <1>1 DEF Chooses
    <2>2. g[r] = SeqRmFirst(g[r \ {ch[r]}], ch[r], ub)
        BY <1>0, <1>6
    <2> HIDE DEF Eq
    <2> QED BY <1>2, <2>1, <2>2
<1>8. g[M] \in P[M]
    <2>1. g[{}] \in P[{}]
        BY <1>3, <1>6
    <2> HIDE DEF Eq
    <2> QED BY <1>1, <1>7, <2>1, FoldKeeps
<1> QED BY <1>6, <1>8 DEF P

Firsts(ub) == {Least(tok.seqs) : tok \in Tokens(ub)}

LEMMA RemoveFailedKeeps ==
    ASSUME NEW S \in StillStates, NEW ub \in Seq(Parts), NEW T, T = RemoveFailed(S, ub)
    PROVE  T \in StillStates /\ Remains(S, T) /\ Cleared(S, T, ub, Firsts(ub))
<1> DEFINE M == {Least(tok.seqs) : tok \in Tokens(ub)}
<1>1. ASSUME NEW tok \in Tokens(ub)
      PROVE  Least(tok.seqs) \in Seqs
    <2>1. tok.seqs \subseteq Seqs /\ tok.seqs # {}
        BY TokensTyped DEF AnyTokens
    <2>2. Seqs \subseteq Nat
        BY KvCellsAssumption
    <2>3. Least(tok.seqs) \in tok.seqs
        BY <2>1, <2>2, LeastOf
    <2> QED BY <2>1, <2>3
<1>2. M \in SUBSET Seqs
    BY <1>1
<1> HIDE DEF M
<1>3. RemoveFailed(S, ub) =
          FoldSet(LAMBDA s, R : SeqRmIn(R, s, Least({tok.pos : tok \in {t \in Tokens(ub) : s = Least(t.seqs)}}),
                                     MaxPos + 1), S, M)
    BY Zenon DEF RemoveFailed, M
<1>4. T \in {R \in StillStates : Cleared(S, R, ub, M)}
    BY <1>2, <1>3, RemoveLoop
<1>5. M = Firsts(ub)
    BY DEF M, Firsts
<1> QED BY <1>4, <1>5 DEF Cleared

\* The keys of a micro batch that failed do not matter, if no two sequences
\* share a token.
LEMMA FailedKeys ==
    ASSUME NEW R, NEW K, KeysAt(R, K), NEW S, NEW ub \in Seq(Parts), NEW idxs \in Slots(ub),
           Applied(R, S, ub, idxs), NEW T \in StillStates, Remains(S, T), Cleared(S, T, ub, Firsts(ub)),
           \A tok \in Tokens(ub) : ~(Cardinality(tok.seqs) > 1)
    PROVE  KeysAt(T, K)
<1> SUFFICES ASSUME NEW m \in Streams, NEW i \in Cells, T.v[m].pos[i] # -1
             PROVE  K[m][i] = T.v[m].pos[i]
    BY DEF KeysAt
<1>1. LeftOf(Cell(T.v[m], i), Cell(S.v[m], i))
    BY DEF Remains
<1>2. T.v[m].pos[i] = S.v[m].pos[i] /\ T.v[m].seq[i] \subseteq S.v[m].seq[i]
    BY <1>1 DEF LeftOf, Cell, Gone
<1>3. Untouched(ub, idxs, m, i)
    <2> SUFFICES ASSUME ~Untouched(ub, idxs, m, i) PROVE FALSE
        OBVIOUS
    <2>1. PICK k \in DOMAIN ub : ub[k].strm = m /\ \E j \in DOMAIN idxs[k] : idxs[k][j] = i
        BY DEF Untouched
    <2>2. PICK j \in DOMAIN idxs[k] : idxs[k][j] = i
        BY <2>1
    <2>3. PICK toks : toks = ub[k].toks /\ toks \in Seq(TokensIn(m)) /\ DOMAIN idxs[k] = DOMAIN toks
        BY <2>1, PartFields DEF Slots
    <2>4. PICK tok \in TokensIn(m) : tok = toks[j]
        BY <2>3
    <2>5. tok \in Tokens(ub)
        BY <2>3, <2>4 DEF Tokens, ToSet
    <2>6. LeftOf(Cell(S.v[m], i), <<tok.pos, 0, tok.seqs>>)
        BY <2>1, <2>2, <2>3, <2>4 DEF Applied
    <2>7. T.v[m].pos[i] = tok.pos /\ T.v[m].seq[i] \subseteq tok.seqs
        BY <1>2, <2>6 DEF LeftOf, Cell, Gone
    <2>8. T.v[m].seq[i] # {}
        BY DEF StillStates, GoodStates, Sound
    <2>9. PICK s \in Owned(m) : tok.seqs = {s}
        <3>1. tok.seqs \subseteq Owned(m) /\ tok.seqs # {} /\ tok.seqs \subseteq Seqs
            BY DEF TokensIn, Owned
        <3>2. IsFiniteSet(tok.seqs)
            BY <3>1, FS_Subset, KvCellsAssumption
        <3>3. Cardinality(tok.seqs) \in Nat /\ Cardinality(tok.seqs) # 0
            BY <3>1, <3>2, FS_CardinalityType, FS_EmptySet
        <3>4. Cardinality(tok.seqs) = 1
            BY <2>5, <3>3
        <3> QED BY <3>1, <3>2, <3>4, FS_Singleton
    <2>10. s \in Seqs /\ seq_to_stream(s) = m /\ s \in T.v[m].seq[i]
        BY <2>7, <2>8, <2>9 DEF Owned
    <2>11. Least(tok.seqs) = s
        <3>1. {s} \subseteq Nat
            BY <2>10, KvCellsAssumption
        <3>2. Least({s}) \in {s}
            BY <3>1, LeastOf
        <3> QED BY <2>9, <3>2
    <2>12. s \in Firsts(ub)
        BY <2>5, <2>11 DEF Firsts
    <2>13. FirstPos(ub, s) \in Nat /\ FirstPos(ub, s) <= tok.pos
        <3> DEFINE A == {t.pos : t \in {u \in Tokens(ub) : s = Least(u.seqs)}}
        <3>1. tok.pos \in A
            BY <2>5, <2>11
        <3>2. A \subseteq Nat
            <4>1. Positions \subseteq Nat
                BY DEF Positions
            <4> QED BY <4>1, TokensTyped DEF AnyTokens
        <3>3. FirstPos(ub, s) = Least(A)
            BY DEF FirstPos
        <3> HIDE DEF A
        <3> QED BY <3>1, <3>2, <3>3, LeastOf
    <2>14. tok.pos \in Nat /\ tok.pos < MaxPos + 1
        BY KvCellsAssumption DEF TokensIn, Positions
    <2>15. pos_in(S.v[m], i, FirstPos(ub, s), MaxPos + 1)
        BY <1>2, <2>7, <2>13, <2>14 DEF pos_in
    <2> QED BY <2>10, <2>12, <2>15 DEF Cleared, Has
<1>4. LeftOf(Cell(S.v[m], i), Cell(R.v[m], i))
    BY <1>3 DEF Applied
<1>5. R.v[m].pos[i] = T.v[m].pos[i]
    BY <1>2, <1>4 DEF LeftOf, Cell, Gone
<1> QED BY <1>5 DEF KeysAt

\* A removal does not disturb the keys of what it leaves.
LEMMA RemainsKeys ==
    ASSUME NEW S, NEW K, KeysAt(S, K), NEW T, Remains(S, T)
    PROVE  KeysAt(T, K)
<1> SUFFICES ASSUME NEW m \in Streams, NEW i \in Cells, T.v[m].pos[i] # -1
             PROVE  K[m][i] = T.v[m].pos[i]
    BY DEF KeysAt
<1>1. LeftOf(Cell(T.v[m], i), Cell(S.v[m], i))
    BY DEF Remains
<1>2. S.v[m].pos[i] = T.v[m].pos[i]
    BY <1>1 DEF LeftOf, Cell, Gone
<1> QED BY <1>2 DEF KeysAt

-----------------------------------------------------------------------------
(***************************************************************************)
(* The batches                                                             *)
(***************************************************************************)
\* Tokens and parts before the bound on the positions is looked at.
LooseTokens(m) == [pos : Nat, seqs : (SUBSET Owned(m)) \ {{}}]
LooseParts == {p \in [strm : Streams, toks : Seq([pos : Nat, seqs : SUBSET Seqs])] :
                  p.toks \in Seq(LooseTokens(p.strm))}
LooseUbatches == {ub \in Seq(LooseParts) : \A k \in DOMAIN ub : k - 1 \in Streams}

LEMMA NextPosNat ==
    ASSUME State \in GoodStates, NEW s \in Seqs
    PROVE  NextPos(s) \in Nat
<1>1. PICK c \in KvCellsType : c = v_cells[seq_to_stream(s)]
    BY StreamOf DEF GoodStates, States, State
<1>2. Present(c, s) \in SUBSET (0 .. MaxPos) /\ MaxPos \in Nat
    BY KvCellsAssumption DEF Present, Positions
<1>3. seq_pos_max(c, s) \in (0 .. MaxPos) \cup {-1}
    <2>1. CASE Present(c, s) # {}
        <3>1. \E u \in Present(c, s) : \A y \in Present(c, s) : y <= u
            BY <1>2, <2>1, Bounded
        <3>2. Greatest(Present(c, s)) \in Present(c, s)
            BY <3>1 DEF Greatest
        <3> QED BY <1>2, <2>1, <3>2 DEF seq_pos_max
    <2> QED BY <2>1 DEF seq_pos_max
<1> QED BY <1>1, <1>3 DEF NextPos

LEMMA EarlierNat ==
    ASSUME NEW sets, NEW s, NEW k \in Nat \ {0}
    PROVE  Earlier(sets, s, k) \in Nat
<1> DEFINE E == {j \in 1 .. k - 1 : s \in sets[j]}
<1>1. E \subseteq 1 .. k - 1 /\ k - 1 \in Nat
    OBVIOUS
<1>2. IsFiniteSet(1 .. k - 1)
    BY <1>1, FS_Interval
<1>3. IsFiniteSet(E) /\ Cardinality(E) \in Nat
    BY <1>1, <1>2, FS_Subset, FS_CardinalityType
<1> QED BY <1>3 DEF Earlier

LEMMA TokensOfGives ==
    ASSUME State \in GoodStates, NEW m, NEW n \in Nat,
           NEW sets \in [1 .. n -> (SUBSET Owned(m)) \ {{}}]
    PROVE  TokensOf(sets) \in Seq(LooseTokens(m))
<1> DEFINE tok(k) == LET s == Least(sets[k])
                     IN  [pos |-> NextPos(s) + Earlier(sets, s, k), seqs |-> sets[k]]
<1>1. ASSUME NEW k \in 1 .. n
      PROVE  tok(k) \in LooseTokens(m)
    <2>1. PICK T : T = sets[k] /\ T \in (SUBSET Owned(m)) \ {{}}
        OBVIOUS
    <2>2. T \subseteq Seqs /\ T \subseteq Nat /\ T # {}
        BY <2>1, KvCellsAssumption DEF Owned
    <2>3. PICK s \in Seqs : s = Least(T)
        BY <2>2, LeastOf
    <2>4. NextPos(s) \in Nat /\ Earlier(sets, s, k) \in Nat
        BY NextPosNat, EarlierNat
    <2> QED BY <2>1, <2>3, <2>4 DEF LooseTokens
<1>2. TokensOf(sets) = [k \in 1 .. n |-> tok(k)]
    BY DEF TokensOf
<1> HIDE DEF tok
<1>3. PICK f : f = [k \in 1 .. n |-> tok(k)]
    OBVIOUS
<1>4. f = [k \in 1 .. n |-> f[k]] /\ \A k \in 1 .. n : f[k] \in LooseTokens(m)
    BY <1>1, <1>3
<1> QED BY <1>2, <1>3, <1>4, Listing

LEMMA RunGives ==
    ASSUME State \in GoodStates, NEW s \in Seqs, NEW n \in Nat
    PROVE  Run(s, n) \in Seq(LooseTokens(seq_to_stream(s)))
<1>1. [k \in 1 .. n |-> {s}] \in [1 .. n -> (SUBSET Owned(seq_to_stream(s))) \ {{}}]
    BY StreamOf
<1> QED BY <1>1, TokensOfGives DEF Run

\* The first streams up to any stream are there.
LEMMA StreamsFrom0 ==
    ASSUME NEW m \in Streams
    PROVE  m \in Nat /\ 0 .. m \subseteq Streams
<1>1. PICK s \in Seqs : m = IF Unified THEN 0 ELSE s
    BY DEF Streams, seq_to_stream
<1>2. s \in Nat
    BY KvCellsAssumption
<1> QED BY <1>1, <1>2, StreamsAssumption

LEMMA LoosePart ==
    ASSUME NEW m \in Streams, NEW toks \in Seq(LooseTokens(m))
    PROVE  [strm |-> m, toks |-> toks] \in LooseParts
<1>1. \A k \in DOMAIN toks : toks[k] \in [pos : Nat, seqs : SUBSET Seqs]
    <2>1. \A k \in DOMAIN toks : toks[k] \in LooseTokens(m)
        OBVIOUS
    <2>2. Owned(m) \subseteq Seqs
        BY DEF Owned
    <2> QED BY <2>1, <2>2 DEF LooseTokens
<1>2. toks \in Seq([pos : Nat, seqs : SUBSET Seqs])
    <2>1. toks = [k \in 1 .. Len(toks) |-> toks[k]] /\ Len(toks) \in Nat /\ DOMAIN toks = 1 .. Len(toks)
        OBVIOUS
    <2>2. \A k \in 1 .. Len(toks) : toks[k] \in [pos : Nat, seqs : SUBSET Seqs]
        BY <1>1, <2>1
    <2> QED BY <2>1, <2>2, Listing
<1> QED BY <1>2 DEF LooseParts

LEMMA OnePart ==
    ASSUME NEW p \in LooseParts
    PROVE  <<p>> \in LooseUbatches
<1>1. p.strm \in Streams
    BY DEF LooseParts
<1>2. 0 \in Streams
    BY <1>1, StreamsFrom0
<1>3. <<p>> \in Seq(LooseParts) /\ \A k \in DOMAIN <<p>> : k - 1 = 0
    OBVIOUS
<1> QED BY <1>2, <1>3 DEF LooseUbatches

LEMMA TwoParts ==
    ASSUME NEW p \in LooseParts, NEW q \in LooseParts, p.strm # q.strm
    PROVE  <<p, q>> \in LooseUbatches
<1>1. p.strm \in Streams /\ q.strm \in Streams
    BY DEF LooseParts
<1>2. 0 \in Streams /\ 1 \in Streams
    <2>1. p.strm \in Nat /\ q.strm \in Nat
        BY <1>1, StreamsFrom0
    <2>2. 1 \in 0 .. p.strm \/ 1 \in 0 .. q.strm
        BY <2>1
    <2>3. 0 \in 0 .. p.strm
        BY <2>1
    <2> QED BY <1>1, <2>2, <2>3, StreamsFrom0
<1>3. <<p, q>> \in Seq(LooseParts) /\ \A k \in DOMAIN <<p, q>> : k - 1 \in {0, 1}
    OBVIOUS
<1> QED BY <1>2, <1>3 DEF LooseUbatches

LEMMA Section ==
    ASSUME NEW X, NEW q \in Seq(X), NEW a \in Nat, NEW b \in Nat, b <= Len(q)
    PROVE  SubSeq(q, a + 1, b) \in Seq(X)
<1>1. \A i \in a + 1 .. b : q[i] \in X
    OBVIOUS
<1> QED BY <1>1, SubSeqProperties

LEMMA SlicesGive ==
    ASSUME NEW m \in Streams, NEW toks \in Seq(LooseTokens(m))
    PROVE  Slices(m, toks) \in Seq(LooseUbatches)
<1>1. NUbatch \in Nat \ {0} /\ Len(toks) \in Nat
    BY KvCacheAssumption
<1>2. PICK n \in Int : n = (Len(toks) + NUbatch - 1) \div NUbatch
    BY <1>1
<1>3. n \in Nat
    BY <1>1, <1>2
<1> DEFINE a(k) == (k - 1) * NUbatch
           b(k) == IF k * NUbatch < Len(toks) THEN k * NUbatch ELSE Len(toks)
           part(k) == [strm |-> m, toks |-> SubSeq(toks, a(k) + 1, b(k))]
<1>4. Slices(m, toks) = [k \in 1 .. n |-> <<part(k)>>]
    BY <1>2 DEF Slices
<1>5. ASSUME NEW k \in 1 .. n
      PROVE  part(k) \in LooseParts
    <2>1. a(k) \in Nat /\ b(k) \in Nat /\ b(k) <= Len(toks)
        BY <1>1
    <2> HIDE DEF a, b
    <2>2. SubSeq(toks, a(k) + 1, b(k)) \in Seq(LooseTokens(m))
        BY <2>1, Section
    <2> QED BY <2>2, LoosePart
<1> HIDE DEF part
<1>6. \A k \in 1 .. n : <<part(k)>> \in LooseUbatches
    BY <1>5, OnePart
<1> QED BY <1>3, <1>4, <1>6

LEMMA SplitPairGives ==
    ASSUME State \in GoodStates, ~Unified, NEW s \in Seqs, NEW t \in Seqs, s # t
    PROVE  SplitPair(s, t) \in Seq(LooseUbatches) /\ AllApart(SplitPair(s, t))
<1>1. /\ seq_to_stream(s) = s /\ seq_to_stream(t) = t
      /\ seq_to_stream(s) \in Streams /\ seq_to_stream(t) \in Streams
    BY StreamOf DEF seq_to_stream
<1>2. PICK a \in LooseParts : a = [strm |-> s, toks |-> Run(s, 1)]
    BY <1>1, RunGives, LoosePart
<1>3. PICK b \in LooseParts : b = [strm |-> t, toks |-> Run(t, 1)]
    BY <1>1, RunGives, LoosePart
<1>4. SplitPair(s, t) = IF t = s + 1 THEN <<<<a, b>>>> ELSE <<<<a>>, <<b>>>>
    BY <1>2, <1>3 DEF SplitPair
<1>5. a.strm # b.strm
    BY <1>2, <1>3
<1>6. Apart(<<a, b>>) /\ Apart(<<a>>) /\ Apart(<<b>>)
    BY <1>5 DEF Apart
<1>7. <<a, b>> \in LooseUbatches /\ <<a>> \in LooseUbatches /\ <<b>> \in LooseUbatches
    BY <1>5, OnePart, TwoParts
<1>8. PICK x, y, z : x = <<a, b>> /\ y = <<a>> /\ z = <<b>>
    OBVIOUS
<1>9. <<x>> \in Seq(LooseUbatches) /\ <<y, z>> \in Seq(LooseUbatches)
    BY <1>7, <1>8
<1>10. AllApart(<<x>>) /\ AllApart(<<y, z>>)
    BY <1>6, <1>8 DEF AllApart
<1> QED BY <1>4, <1>8, <1>9, <1>10

\* What a batch is made of.
LEMMA BatchForms ==
    ASSUME NEW batch \in Batches
    PROVE  \/ /\ Unified
              /\ \E n \in 1 .. MaxBatch : \E sets \in [1 .. n -> (SUBSET Seqs) \ {{}}] :
                     sets \in Lists /\ Accepted(sets) /\ batch = Slices(0, TokensOf(sets))
           \/ ~Unified /\ \E s \in Seqs, n \in 1 .. MaxBatch : batch = Slices(s, Run(s, n))
           \/ ~Unified /\ \E s, t \in Seqs : s # t /\ batch = SplitPair(s, t)
<1>1. CASE Unified
    <2>1. PICK sets \in Lists : Accepted(sets) /\ batch = Slices(0, TokensOf(sets))
        BY <1>1 DEF Batches
    <2>2. PICK n \in 1 .. MaxBatch : sets \in [1 .. n -> (SUBSET Seqs) \ {{}}]
        BY <2>1 DEF Lists
    <2>3. \E l \in 1 .. MaxBatch : \E q \in [1 .. l -> (SUBSET Seqs) \ {{}}] :
              q \in Lists /\ Accepted(q) /\ batch = Slices(0, TokensOf(q))
        BY <2>1, <2>2, Zenon
    <2> QED BY <1>1, <2>3, Zenon
<1>2. CASE ~Unified
    <2>1. \/ \E s \in Seqs : \E n \in 1 .. MaxBatch : batch = Slices(s, Run(s, n))
          \/ \E r \in Seqs \X Seqs : r[1] # r[2] /\ batch = SplitPair(r[1], r[2])
        BY <1>2 DEF Batches
    <2>2. CASE \E s \in Seqs : \E n \in 1 .. MaxBatch : batch = Slices(s, Run(s, n))
        <3>1. PICK s \in Seqs, n \in 1 .. MaxBatch : batch = Slices(s, Run(s, n))
            BY <2>2
        <3> QED BY <1>2, <3>1, Zenon
    <2>3. CASE \E r \in Seqs \X Seqs : r[1] # r[2] /\ batch = SplitPair(r[1], r[2])
        <3>1. PICK r \in Seqs \X Seqs : r[1] # r[2] /\ batch = SplitPair(r[1], r[2])
            BY <2>3
        <3>2. PICK s \in Seqs, t \in Seqs : s = r[1] /\ t = r[2]
            BY <3>1
        <3>3. s # t /\ batch = SplitPair(s, t)
            BY <3>1, <3>2
        <3> QED BY <1>2, <3>3, Zenon
    <2> QED BY <2>1, <2>2, <2>3
<1> QED BY <1>1, <1>2, Zenon

LEMMA BatchesTyped ==
    ASSUME State \in GoodStates, NEW batch \in Batches
    PROVE  batch \in Seq(LooseUbatches)
<1>1. ASSUME Unified, NEW n \in 1 .. MaxBatch, NEW sets \in [1 .. n -> (SUBSET Seqs) \ {{}}],
             batch = Slices(0, TokensOf(sets))
      PROVE  batch \in Seq(LooseUbatches)
    <2>1. Owned(0) = Seqs /\ n \in Nat
        BY <1>1, KvCacheAssumption DEF Owned, seq_to_stream
    <2>2. PICK T : T \in (SUBSET Seqs) \ {{}} /\ T = sets[1]
        <3>1. 1 \in 1 .. n
            OBVIOUS
        <3> QED BY <3>1
    <2>3. 0 \in Streams
        <3>1. PICK s \in Seqs : s \in T
            BY <2>2
        <3> QED BY <1>1, <3>1 DEF Streams, seq_to_stream
    <2>4. TokensOf(sets) \in Seq(LooseTokens(0))
        <3>1. sets \in [1 .. n -> (SUBSET Owned(0)) \ {{}}]
            BY <2>1
        <3> QED BY <2>1, <3>1, TokensOfGives
    <2> QED BY <1>1, <2>3, <2>4, SlicesGive
<1>2. ASSUME ~Unified, NEW s \in Seqs, NEW n \in 1 .. MaxBatch, batch = Slices(s, Run(s, n))
      PROVE  batch \in Seq(LooseUbatches)
    <2>1. n \in Nat /\ seq_to_stream(s) = s /\ s \in Streams
        BY <1>2, StreamOf, KvCacheAssumption DEF seq_to_stream
    <2> QED BY <1>2, <2>1, RunGives, SlicesGive
<1> QED BY <1>1, <1>2, BatchForms, SplitPairGives

LEMMA SlicesApart ==
    ASSUME NEW m, NEW toks
    PROVE  AllApart(Slices(m, toks))
<1> SUFFICES ASSUME NEW k \in DOMAIN Slices(m, toks)
             PROVE  Apart(Slices(m, toks)[k])
    BY DEF AllApart
<1>1. PICK part : Slices(m, toks)[k] = <<part>>
    BY DEF Slices
<1> QED BY <1>1 DEF Apart

\* Only a cache with streams has micro batches of two parts.
LEMMA BatchesApart ==
    ASSUME State \in GoodStates, NEW batch \in Batches
    PROVE  AllApart(batch)
BY BatchForms, SlicesApart, SplitPairGives

\* The bound on the positions of a batch.
LEMMA WithinBound ==
    ASSUME NEW batch \in Seq(LooseUbatches),
           \A k \in DOMAIN batch : \A tok \in Tokens(batch[k]) : tok.pos <= MaxPos
    PROVE  batch \in Seq(Ubatches) /\ batch \in Seq(Seq(Parts))
<1>1. ASSUME NEW k \in DOMAIN batch, NEW j \in DOMAIN batch[k]
      PROVE  batch[k][j] \in Parts
    <2>1. PICK p \in LooseParts : p = batch[k][j]
        <3>1. PICK ub \in Seq(LooseParts) : ub = batch[k]
            BY DEF LooseUbatches
        <3> QED BY <3>1
    <2>2. /\ p = [strm |-> p.strm, toks |-> p.toks] /\ p.strm \in Streams
          /\ p.toks \in Seq(LooseTokens(p.strm))
        BY DEF LooseParts
    <2>3. ASSUME NEW i \in DOMAIN p.toks
          PROVE  p.toks[i] \in TokensIn(p.strm) /\ p.toks[i] \in [pos : Positions, seqs : SUBSET Seqs]
        <3>1. PICK tok \in LooseTokens(p.strm) : tok = p.toks[i]
            BY <2>2
        <3>2. tok \in Tokens(batch[k])
            BY <2>1, <3>1 DEF Tokens, ToSet
        <3>3. tok.pos \in Positions
            BY <3>2, KvCellsAssumption DEF LooseTokens, Positions
        <3>4. Owned(p.strm) \subseteq Seqs
            BY DEF Owned
        <3> QED BY <3>1, <3>3, <3>4 DEF LooseTokens, TokensIn
    <2>4. PICK toks : toks = p.toks
        OBVIOUS
    <2>5. toks = [i \in 1 .. Len(toks) |-> toks[i]] /\ Len(toks) \in Nat /\ DOMAIN toks = 1 .. Len(toks)
        BY <2>2, <2>4
    <2>6. toks \in Seq(TokensIn(p.strm)) /\ toks \in Seq([pos : Positions, seqs : SUBSET Seqs])
        <3>1. \A i \in 1 .. Len(toks) : toks[i] \in TokensIn(p.strm)
            BY <2>3, <2>4, <2>5
        <3>2. \A i \in 1 .. Len(toks) : toks[i] \in [pos : Positions, seqs : SUBSET Seqs]
            BY <2>3, <2>4, <2>5
        <3>3. toks \in Seq(TokensIn(p.strm))
            BY <2>5, <3>1, Listing
        <3>4. toks \in Seq([pos : Positions, seqs : SUBSET Seqs])
            BY <2>5, <3>2, Listing
        <3> QED BY <3>3, <3>4
    <2> QED BY <2>1, <2>2, <2>4, <2>6 DEF Parts
<1>2. ASSUME NEW k \in DOMAIN batch
      PROVE  batch[k] \in Ubatches /\ batch[k] \in Seq(Parts)
    <2>1. PICK ub \in Seq(LooseParts) : ub = batch[k] /\ \A j \in DOMAIN ub : j - 1 \in Streams
        BY DEF LooseUbatches
    <2>2. ub = [j \in 1 .. Len(ub) |-> ub[j]] /\ Len(ub) \in Nat /\ DOMAIN ub = 1 .. Len(ub)
        OBVIOUS
    <2>3. \A j \in 1 .. Len(ub) : ub[j] \in Parts
        BY <1>1, <2>1, <2>2
    <2>4. ub \in Seq(Parts)
        BY <2>2, <2>3
    <2> QED BY <2>1, <2>4 DEF Ubatches
<1>3. batch = [k \in 1 .. Len(batch) |-> batch[k]] /\ Len(batch) \in Nat /\ DOMAIN batch = 1 .. Len(batch)
    OBVIOUS
<1> QED BY <1>2, <1>3

-----------------------------------------------------------------------------
(***************************************************************************)
(* The operations                                                          *)
(***************************************************************************)
SavedType == {x \in [pos : Seq(Positions), key : Seq(Int)] : DOMAIN x.pos = DOMAIN x.key}

\* The inductive invariant: every stream sound, with the types of the rest.
CacheInv ==
    /\ State \in GoodStates
    /\ sc_info \in Seq(Streams \X Streams)
    /\ keys \in KeysType
    /\ saved \in SavedType

LEMMA Stream ==
    ASSUME State \in GoodStates, NEW m \in Streams
    PROVE  /\ Sound(v_cells[m], Owned(m)) /\ Consistent(v_cells[m]) /\ v_cells[m] \in KvCellsType
           /\ v_cells \in [Streams -> KvCellsType] /\ v_heads \in [Streams -> 0 .. Size]
BY DEF GoodStates, States, State, Sound

Based(S, T) == \A m \in Streams : CellsBased(S.v[m], T.v[m])

LEMMA RemainsBased ==
    ASSUME NEW S, NEW T, Remains(S, T)
    PROVE  Based(S, T)
<1>1. ASSUME NEW m \in Streams, NEW i \in Cells, T.v[m].pos[i] # -1
      PROVE  T.v[m].pos[i] = S.v[m].pos[i] /\ T.v[m].shift[i] = S.v[m].shift[i]
    <2>1. LeftOf(Cell(T.v[m], i), Cell(S.v[m], i))
        BY DEF Remains
    <2> QED BY <1>1, <2>1 DEF LeftOf, Cell, Gone
<1> QED BY <1>1 DEF Based, CellsBased

LEMMA InstallBased ==
    ASSUME NEW S, Install(S), Based(State, S)
    PROVE  Based(State, State')
<1>1. State'.v = S.v
    BY DEF Install, State
<1> QED BY <1>1 DEF Based

\* One stream gets other cells.
LEMMA StreamBased ==
    ASSUME State \in GoodStates, NEW m, NEW c, CellsBased(v_cells[m], c),
           v_cells' = [v_cells EXCEPT ![m] = c]
    PROVE  Based(State, State')
<1>1. State.v = v_cells /\ State'.v = v_cells'
    BY DEF State
<1>2. \A x : CellsBased(v_cells[x], v_cells[x])
    BY DEF CellsBased
<1>3. \A x \in Streams : v_cells'[x] = IF x = m THEN c ELSE v_cells[x]
    BY <1>1 DEF GoodStates, States
<1> QED BY <1>1, <1>2, <1>3 DEF Based

LEMMA InstallKeeps ==
    ASSUME NEW S \in GoodStates, Install(S)
    PROVE  State' \in GoodStates
<1>1. S = [v |-> S.v, h |-> S.h]
    BY DEF GoodStates, States
<1>2. State' = [v |-> S.v, h |-> S.h]
    BY DEF Install, State
<1> QED BY <1>1, <1>2

\* One stream gets other cells, and the heads may move.
LEMMA NewCells ==
    ASSUME State \in GoodStates, NEW m \in Streams, NEW c, Sound(c, Owned(m)),
           v_cells' = [v_cells EXCEPT ![m] = c], v_heads' \in [Streams -> 0 .. Size]
    PROVE  State' \in GoodStates
<1>1. [v |-> [State.v EXCEPT ![m] = c], h |-> v_heads'] \in GoodStates
    <2>1. /\ State.v \in [Streams -> KvCellsType]
          /\ \A x \in Streams : Sound(State.v[x], Owned(x))
        BY DEF GoodStates, States
    <2>2. PICK w \in [Streams -> KvCellsType] : /\ w = [State.v EXCEPT ![m] = c] /\ w[m] = c
                                                /\ \A x \in Streams : x # m => w[x] = State.v[x]
        <3>1. PICK u \in [Streams -> KvCellsType] : u = State.v
            BY <2>1
        <3>2. [u EXCEPT ![m] = c] \in [Streams -> KvCellsType]
            BY DEF Sound, Consistent
        <3> QED BY <3>1, <3>2
    <2>3. \A x \in Streams : Sound(w[x], Owned(x))
        BY <2>1, <2>2
    <2>4. [v |-> w, h |-> v_heads'] \in States
        BY <2>2 DEF States
    <2> QED BY <2>2, <2>3, <2>4 DEF GoodStates
<1>2. State' = [v |-> [State.v EXCEPT ![m] = c], h |-> v_heads']
    BY DEF State
<1> QED BY <1>1, <1>2

LEMMA InitGood == Init => CacheInv
<1> SUFFICES ASSUME Init PROVE CacheInv
    OBVIOUS
<1>1. \A m \in Streams : Sound(Empty, Owned(m)) /\ Empty \in KvCellsType
    BY EmptySound DEF Sound, Consistent
<1>2. v_cells \in [Streams -> KvCellsType] /\ \A m \in Streams : Sound(v_cells[m], Owned(m))
    BY <1>1 DEF Init
<1>3. v_heads \in [Streams -> 0 .. Size]
    BY KvCellsAssumption DEF Init
<1>4. State \in GoodStates
    BY <1>2, <1>3 DEF State, States, GoodStates
<1>5. keys \in KeysType /\ sc_info \in Seq(Streams \X Streams) /\ saved \in SavedType
    BY DEF Init, KeysType, Nothing, SavedType
<1> QED BY <1>4, <1>5 DEF CacheInv

LEMMA ClearGood == CacheInv /\ Clear => CacheInv'
<1> SUFFICES ASSUME CacheInv, Clear PROVE CacheInv'
    OBVIOUS
<1> DEFINE S == [v |-> [m \in Streams |-> Empty], h |-> [m \in Streams |-> 0]]
<1>1. \A m \in Streams : Sound(Empty, Owned(m)) /\ Empty \in KvCellsType
    BY EmptySound DEF Sound, Consistent
<1>2. S \in States
    BY <1>1, KvCellsAssumption DEF States
<1>3. S \in GoodStates
    BY <1>1, <1>2 DEF GoodStates
<1>4. Install(S)
    BY DEF Clear
<1> HIDE DEF S
<1>5. State' \in GoodStates
    BY <1>3, <1>4, InstallKeeps
<1> QED BY <1>5 DEF CacheInv, Clear

LEMMA SeqRmGood ==
    ASSUME CacheInv, NEW s \in Seqs, NEW p0, NEW p1, SeqRm(s, p0, p1)
    PROVE  CacheInv' /\ Based(State, State')
<1>1. PICK S : S = SeqRmIn(State, s, p0, p1)
    OBVIOUS
<1>2. S \in GoodStates
    BY <1>1, SeqRmInKeeps DEF Kinds, CacheInv
<1>5. Remains(State, S)
    BY <1>1, SeqRmInLeaves DEF CacheInv
<1>3. Install(S)
    BY <1>1 DEF SeqRm
<1>4. State' \in GoodStates
    BY <1>2, <1>3, InstallKeeps
<1>6. Based(State, State')
    BY <1>3, <1>5, RemainsBased, InstallBased
<1> QED BY <1>4, <1>6 DEF CacheInv, SeqRm

\* What seq_rm() of all sequences does to one stream.
RmIn(S, m, p0, p1) ==
    PullHead(S, m, ForCells(rm, S.v[m], {i \in Cells : pos_in(v_cells[m], i, p0, p1)}))

LEMMA RmInKeeps ==
    ASSUME NEW S \in GoodStates, NEW m \in Streams, NEW p0, NEW p1
    PROVE  RmIn(S, m, p0, p1) \in GoodStates /\ Remains(S, RmIn(S, m, p0, p1))
<1> DEFINE M == {i \in Cells : pos_in(v_cells[m], i, p0, p1)}
           c == ForCells(LAMBDA d, i : rm(d, i), S.v[m], M)
           T == [i \in Cells |-> Gone]
<1>1. RmIn(S, m, p0, p1) = PullHead(S, m, c)
    BY DEF RmIn, ForCells
<1>2. Sound(S.v[m], Owned(m)) /\ M \in SUBSET Cells
    BY DEF GoodStates
<1> HIDE DEF M
<1>3. c \in Loop(S.v[m], T, M)[M]
    BY <1>2, RmLoop
<1> HIDE DEF c
<1>4. \A i \in M : T[i][3] = {} /\ T[i][1] = -1 /\ T[i][2] = 0
    BY <1>2 DEF Gone
<1>7. \A i \in Cells : LeftOf(Cell(c, i), Cell(S.v[m], i))
    <2>1. /\ \A i \in M : Cell(c, i) = T[i]
          /\ \A i \in Cells \ M : Cell(c, i) = Cell(S.v[m], i)
        BY <1>3 DEF Loop
    <2> QED BY <1>2, <2>1 DEF LeftOf
<1> HIDE DEF T
<1>5. Sound(c, Owned(m))
    BY <1>2, <1>3, <1>4, LoopSound
<1>6. Still(S.v[m]) => Still(c)
    BY <1>2, <1>3, <1>4, LoopStill
<1>8. Remains(S, PullHead(S, m, c))
    BY <1>7, RemainsIn
<1> QED BY <1>1, <1>5, <1>6, <1>8, PullHeadKeeps DEF Kinds

LEMMA StreamsFinite == IsFiniteSet(Streams)
<1>1. CASE Unified
    <2>1. Streams \subseteq {0} /\ IsFiniteSet({0})
        BY <1>1, FS_Singleton DEF Streams, seq_to_stream
    <2> QED BY <2>1, FS_Subset
<1>2. CASE ~Unified
    <2>1. Streams = Seqs
        BY <1>2 DEF Streams, seq_to_stream
    <2> QED BY <2>1, KvCellsAssumption
<1> QED BY <1>1, <1>2

\* The loop over the streams.
LEMMA RmStreamsLoop ==
    ASSUME NEW S \in GoodStates, NEW p0 \in Positions, NEW p1 \in 1 .. MaxPos + 1
    PROVE  FoldSet(LAMBDA m, R : PullHead(R, m, ForCells(rm, R.v[m], {i \in Cells : pos_in(v_cells[m], i, p0, p1)})),
                   S, Streams) \in {R \in GoodStates : Remains(S, R)}
<1> DEFINE M == Streams
           P == [r \in SUBSET M |-> {R \in GoodStates : Remains(S, R)}]
           ch == Chosen(M)
           step == [r \in SUBSET M |-> [d \in P[r \ {ch[r]}] |-> RmIn(d, ch[r], p0, p1)]]
           Eq(g) == g = [r \in SUBSET M |-> IF r = {} THEN S
                            ELSE RmIn(g[r \ {CHOOSE x \in r : TRUE}], CHOOSE x \in r : TRUE, p0, p1)]
<1>0. \A r \in SUBSET M : ch[r] = CHOOSE x \in r : TRUE
    BY ChosenChooses
<1>1. IsFiniteSet(M) /\ Chooses(ch, M)
    BY ChosenChooses, StreamsFinite
<1>2. ASSUME NEW r \in SUBSET M, NEW x \in r, NEW d \in P[r \ {x}]
      PROVE  RmIn(d, x, p0, p1) \in P[r]
    <2>1. d \in GoodStates /\ Remains(S, d) /\ x \in Streams
        OBVIOUS
    <2>2. PICK e : e = RmIn(d, x, p0, p1)
        OBVIOUS
    <2>3. e \in GoodStates /\ Remains(d, e)
        BY <2>1, <2>2, RmInKeeps
    <2>4. Remains(S, e)
        BY <2>1, <2>3, RemainsRemains
    <2> QED BY <2>2, <2>3, <2>4
<1>3. S \in P[{}]
    BY DEF Remains, LeftOf
<1> HIDE DEF P, ch
<1>4. PICK h : Folded(h, M, ch, S, step) /\ \A r \in SUBSET M : h[r] \in P[r]
    <2>1. \A r \in SUBSET M : r # {} => \A d \in P[r \ {ch[r]}] : step[r][d] \in P[r]
        BY <1>1, <1>2 DEF Chooses
    <2> HIDE DEF step
    <2> QED BY <1>1, <1>3, <2>1, FoldRuns
<1>5. Eq(h)
    <2>1. \A r \in SUBSET M : r # {} =>
              step[r][h[r \ {ch[r]}]] = RmIn(h[r \ {ch[r]}], ch[r], p0, p1)
        BY <1>4
    <2>2. \A r \in SUBSET M : r # {} =>
              step[r][h[r \ {ch[r]}]] =
                  RmIn(h[r \ {CHOOSE x \in r : TRUE}], CHOOSE x \in r : TRUE, p0, p1)
        BY <1>0, <2>1
    <2>3. h = [r \in SUBSET M |-> IF r = {} THEN S ELSE step[r][h[r \ {ch[r]}]]]
        BY <1>4 DEF Folded
    <2> HIDE DEF step
    <2> QED BY <2>2, <2>3
<1>6. PICK g : Eq(g) /\ FoldSet(LAMBDA m, R : PullHead(R, m, ForCells(rm, R.v[m], {i \in Cells : pos_in(v_cells[m], i, p0, p1)})),
                   S, Streams) = g[M]
    <2>1. FoldSet(LAMBDA m, R : PullHead(R, m, ForCells(rm, R.v[m], {i \in Cells : pos_in(v_cells[m], i, p0, p1)})),
                   S, Streams) = (CHOOSE g : Eq(g))[M]
        BY Zenon DEF FoldSet, MapThenFoldSet, RmIn
    <2> HIDE DEF Eq
    <2> QED BY <1>5, <2>1
<1>7. \A r \in SUBSET M : r # {} /\ g[r \ {ch[r]}] \in P[r \ {ch[r]}] => g[r] \in P[r]
    <2> SUFFICES ASSUME NEW r \in SUBSET M, r # {}, g[r \ {ch[r]}] \in P[r \ {ch[r]}]
                 PROVE  g[r] \in P[r]
        OBVIOUS
    <2>1. ch[r] \in r
        BY <1>1 DEF Chooses
    <2>2. g[r] = RmIn(g[r \ {ch[r]}], ch[r], p0, p1)
        BY <1>0, <1>6
    <2> HIDE DEF Eq
    <2> QED BY <1>2, <2>1, <2>2
<1>8. g[M] \in P[M]
    <2>1. g[{}] \in P[{}]
        BY <1>3, <1>6
    <2> HIDE DEF Eq
    <2> QED BY <1>1, <1>7, <2>1, FoldKeeps
<1> QED BY <1>6, <1>8 DEF P

LEMMA SeqRmAnyGood ==
    ASSUME CacheInv, NEW p0 \in Positions, NEW p1 \in 1 .. MaxPos + 1, SeqRmAny(p0, p1)
    PROVE  CacheInv' /\ Based(State, State')
<1> DEFINE S == FoldSet(LAMBDA m, R : PullHead(R, m, ForCells(rm, R.v[m],
                                          {i \in Cells : pos_in(v_cells[m], i, p0, p1)})),
                        State, Streams)
<1>1. Install(S)
    BY Zenon DEF SeqRmAny
<1>2. State \in GoodStates
    BY DEF CacheInv
<1>3. S \in {R \in GoodStates : Remains(State, R)}
    BY <1>2, RmStreamsLoop
<1> HIDE DEF S
<1>4. State' \in GoodStates
    BY <1>1, <1>3, InstallKeeps
<1>5. Based(State, State')
    BY <1>1, <1>3, RemainsBased, InstallBased
<1> QED BY <1>4, <1>5 DEF CacheInv, SeqRmAny

LEMMA SeqCpShareGood ==
    ASSUME CacheInv, NEW src \in Seqs, NEW dst \in Seqs, NEW p0 \in Positions, NEW p1,
           SeqCpShare(src, dst, p0, p1)
    PROVE  CacheInv' /\ Based(State, State')
<1> DEFINE m == seq_to_stream(src)
           M == Matching(State, m, src, p0, p1)
           d == ForCells(LAMBDA c, i : seq_add(c, i, dst), v_cells[m], M)
<1>1. State \in GoodStates /\ m \in Streams /\ dst \in Owned(m)
    BY StreamOf DEF CacheInv, SeqCpShare, Owned
<1>2. PICK c : c = v_cells[m] /\ Sound(c, Owned(m)) /\ c \in KvCellsType
    BY <1>1, Stream
<1>3. v_cells \in [Streams -> KvCellsType] /\ v_heads \in [Streams -> 0 .. Size]
    BY <1>1, Stream
<1>4. /\ v_cells' = [v_cells EXCEPT ![m] = d] /\ v_heads' = v_heads
      /\ \A i \in M : dst \notin v_cells[m].seq[i]
    BY Zenon DEF SeqCpShare
<1>5. M \in SUBSET Cells /\ \A i \in M : c.pos[i] # -1 /\ dst \notin c.seq[i]
    <2>1. M \in SUBSET Cells /\ \A i \in M : c.pos[i] >= p0
        BY <1>2 DEF Matching, State, pos_in
    <2>2. \A i \in Cells : c.pos[i] \in Positions \cup {-1}
        BY <1>2 DEF KvCellsType
    <2>3. \A i \in M : c.pos[i] # -1
        BY <2>1, <2>2, KvCellsAssumption DEF Positions
    <2> QED BY <1>2, <1>4, <2>1, <2>3
<1> HIDE DEF M
<1>6. d \in Loop(c, SharedCells(c, dst), M)[M]
    BY <1>2, <1>5, SeqAddLoop
<1> HIDE DEF d, m
<1>7. \A i \in M : SharedCells(c, dst)[i][3] \subseteq Owned(m) /\ SharedCells(c, dst)[i][3] # {}
    BY <1>1, <1>2, <1>5 DEF SharedCells, Sound
<1>8. Sound(d, Owned(m))
    BY <1>2, <1>5, <1>6, <1>7, LoopSound
<1>9. State' \in GoodStates
    BY <1>1, <1>3, <1>4, <1>8, NewCells
<1>10. CellsBased(c, d)
    <2>1. \A i \in M : SharedCells(c, dst)[i][1] = c.pos[i] /\ SharedCells(c, dst)[i][2] = c.shift[i]
        BY <1>5 DEF SharedCells
    <2> QED BY <1>5, <1>6, <2>1, LoopBased
<1>11. Based(State, State')
    BY <1>1, <1>2, <1>4, <1>10, StreamBased
<1> QED BY <1>9, <1>11 DEF CacheInv, SeqCpShare

LEMMA SeqCpStreamGood ==
    ASSUME CacheInv, NEW src \in Seqs, NEW dst \in Seqs, SeqCpStream(src, dst)
    PROVE  /\ CacheInv'
           /\ CellsBased(v_cells[seq_to_stream(src)], v_cells'[seq_to_stream(dst)])
           /\ \A x \in Streams \ {seq_to_stream(dst)} : v_cells'[x] = v_cells[x]
<1> DEFINE m == seq_to_stream(src)
           n == seq_to_stream(dst)
           M == {i \in Cells : src \in v_cells[m].seq[i]}
           d == ForCells(LAMBDA c, i : CopyCell(c, i, v_cells[m], dst), Empty, M)
<1>1. State \in GoodStates /\ m \in Streams /\ n \in Streams /\ dst \in Owned(n)
    BY StreamOf DEF CacheInv
<1>2. PICK f : f = v_cells[m] /\ Consistent(f)
    BY <1>1, Stream
<1>3. v_heads \in [Streams -> 0 .. Size]
    BY <1>1, Stream
<1>4. /\ v_cells' = [v_cells EXCEPT ![n] = d]
      /\ v_heads' = [v_heads EXCEPT ![n] = v_heads[m]]
      /\ sc_info' = Append(sc_info, <<m, n>>)
      /\ \A i \in M : v_cells[m].pos[i] - v_cells[m].shift[i] \in Positions
    BY Zenon DEF SeqCpStream
<1>5. M \in SUBSET Cells /\ \A i \in M : f.pos[i] # -1 /\ f.pos[i] - f.shift[i] \in Positions
    <2>1. \A i \in M : i \in Cells /\ src \in f.seq[i]
        BY <1>2
    <2>2. \A i \in M : f.pos[i] # -1
        BY <1>2, <2>1 DEF Consistent
    <2> QED BY <1>2, <1>4, <2>1, <2>2
<1> HIDE DEF M
<1>6. d \in Loop(Empty, CopiedCells(f, dst), M)[M]
    BY <1>2, <1>5, CopyLoop
<1> HIDE DEF d
<1>7. \A i \in M : CopiedCells(f, dst)[i][3] \subseteq Owned(n) /\ CopiedCells(f, dst)[i][3] # {}
    BY <1>1, <1>5 DEF CopiedCells
<1>8. v_heads' \in [Streams -> 0 .. Size]
    BY <1>1, <1>3, <1>4
<1>9. sc_info' \in Seq(Streams \X Streams)
    BY <1>1, <1>4 DEF CacheInv
<1>12. CellsBased(f, d)
    <2>1. /\ \A i \in M : Cell(d, i) = CopiedCells(f, dst)[i]
          /\ \A i \in Cells \ M : Cell(d, i) = Cell(Empty, i)
        BY <1>6 DEF Loop
    <2>2. \A i \in M : d.pos[i] = f.pos[i] /\ d.shift[i] = f.shift[i]
        BY <1>5, <2>1 DEF CopiedCells, Cell
    <2>3. \A i \in Cells \ M : d.pos[i] = -1
        BY <2>1 DEF Cell, Empty
    <2> QED BY <1>5, <2>2, <2>3 DEF CellsBased
<1>13. v_cells'[n] = d /\ \A x \in Streams \ {n} : v_cells'[x] = v_cells[x]
    BY <1>1, <1>4, Stream
<1>14. /\ CellsBased(v_cells[m], v_cells'[n])
       /\ \A x \in Streams \ {n} : v_cells'[x] = v_cells[x]
    BY <1>2, <1>12, <1>13
<1> HIDE DEF m, n
<1>10. Sound(d, Owned(n))
    BY <1>5, <1>6, <1>7, EmptySound, LoopSound
<1>11. State' \in GoodStates
    BY <1>1, <1>4, <1>8, <1>10, NewCells
<1>15. CacheInv'
    BY <1>9, <1>11 DEF CacheInv, SeqCpStream
<1> QED BY <1>14, <1>15 DEF m, n

LEMMA SeqKeepGood ==
    ASSUME CacheInv, NEW s \in Seqs, SeqKeep(s)
    PROVE  CacheInv' /\ Based(State, State')
<1> DEFINE m == seq_to_stream(s)
           d == ForCells(LAMBDA c, i : seq_keep(c, i, s), v_cells[m], Cells)
<1>1. State \in GoodStates /\ m \in Streams /\ s \in Owned(m)
    BY StreamOf DEF CacheInv
<1>2. PICK c : c = v_cells[m] /\ Sound(c, Owned(m))
    BY <1>1, Stream
<1>3. Install(PullHead(State, m, d))
    BY Zenon DEF SeqKeep
<1>4. d \in Loop(c, KeptCells(c, s), Cells)[Cells]
    BY <1>2, SeqKeepLoop
<1> HIDE DEF d, m
<1>5. ASSUME NEW i \in Cells
      PROVE  /\ KeptCells(c, s)[i][3] \subseteq Owned(m)
             /\ KeptCells(c, s)[i][1] # -1 => KeptCells(c, s)[i][3] # {}
             /\ c.shift[i] = 0 => KeptCells(c, s)[i][2] = 0
    BY <1>1, <1>2 DEF KeptCells, Gone, Cell, Sound
<1>6. Sound(d, Owned(m))
    BY <1>2, <1>4, <1>5, LoopSound
<1>7. Still(c) => Still(d)
    BY <1>4, <1>5, LoopStill
<1>8. PullHead(State, m, d) \in GoodStates
    BY <1>1, <1>2, <1>6, <1>7, PullHeadKeeps DEF Kinds, State
<1>9. State' \in GoodStates
    BY <1>3, <1>8, InstallKeeps
<1>10. CellsBased(c, d)
    <2>1. ASSUME NEW i \in Cells, KeptCells(c, s)[i][1] # -1
          PROVE  c.pos[i] # -1 /\ KeptCells(c, s)[i][1] - KeptCells(c, s)[i][2] = c.pos[i] - c.shift[i]
        BY <2>1 DEF KeptCells, Gone, Cell
    <2> QED BY <1>4, <2>1, LoopBased
<1>11. v_cells' = [v_cells EXCEPT ![m] = d]
    BY <1>3 DEF Install, PullHead, State
<1>12. Based(State, State')
    BY <1>1, <1>2, <1>10, <1>11, StreamBased
<1> QED BY <1>9, <1>12 DEF CacheInv, SeqKeep

\* The positions that a seq_add() or seq_div() takes from p0 on.
LEMMA Taken ==
    ASSUME State \in GoodStates, NEW m \in Streams, NEW s, NEW p0 \in Positions, NEW p1
    PROVE  /\ Matching(State, m, s, p0, p1) \in SUBSET Cells
           /\ \A i \in Matching(State, m, s, p0, p1) :
                  v_cells[m].pos[i] # -1 /\ v_cells[m].pos[i] \in Positions
<1>1. PICK c \in KvCellsType : c = v_cells[m]
    BY Stream
<1>2. \A i \in Cells : c.pos[i] \in Positions \cup {-1}
    BY DEF KvCellsType
<1>3. \A i \in Matching(State, m, s, p0, p1) : i \in Cells /\ c.pos[i] >= p0
    BY <1>1 DEF Matching, State, pos_in
<1>4. \A i \in Matching(State, m, s, p0, p1) : c.pos[i] # -1
    BY <1>2, <1>3, KvCellsAssumption DEF Positions
<1> QED BY <1>1, <1>2, <1>3, <1>4

LEMMA SeqAddGood ==
    ASSUME CacheInv, NEW s \in Seqs, NEW p0 \in Positions, NEW p1, NEW k \in Shifts,
           SeqAdd(s, p0, p1, k)
    PROVE  CacheInv' /\ Based(State, State')
<1> DEFINE m == seq_to_stream(s)
           M == Matching(State, m, s, p0, p1)
           d == ForCells(LAMBDA x, i : pos_add(x, i, k), v_cells[m], M)
           F == Freed(v_cells[m], d)
<1>1. State \in GoodStates /\ m \in Streams /\ k \in Int
    BY StreamOf, KvCacheAssumption DEF CacheInv
<1>2. PICK c : c = v_cells[m] /\ Sound(c, Owned(m))
    BY <1>1, Stream
<1>3. v_heads \in [Streams -> 0 .. Size]
    BY <1>1, Stream
<1>4. /\ v_cells' = [v_cells EXCEPT ![m] = d]
      /\ v_heads' = [v_heads EXCEPT ![m] = IF F # {} THEN Least(F) ELSE 0]
      /\ \A i \in M : v_cells[m].pos[i] + k <= MaxPos
    BY Zenon DEF SeqAdd
<1>5. M \in SUBSET Cells /\ \A i \in M : c.pos[i] # -1 /\ c.pos[i] + k <= MaxPos
    BY <1>1, <1>2, <1>4, Taken
<1>6. (IF F # {} THEN Least(F) ELSE 0) \in 0 .. Size
    <2> HIDE DEF d, m
    <2>1. F \subseteq Cells
        BY DEF Freed
    <2> HIDE DEF F
    <2>2. Size \in Nat /\ Cells \subseteq Nat /\ Cells \subseteq 0 .. Size
        BY KvCellsAssumption DEF Cells
    <2>3. CASE F # {}
        <3>1. Least(F) \in F
            BY <2>1, <2>2, <2>3, LeastOf
        <3> QED BY <2>1, <2>2, <2>3, <3>1
    <2>4. CASE F = {}
        BY <2>2, <2>4
    <2> QED BY <2>3, <2>4
<1> HIDE DEF M, F
<1>7. d \in Loop(c, MovedCells(c, k), M)[M]
    BY <1>1, <1>2, <1>5, PosAddLoop
<1> HIDE DEF d, m
<1>8. \A i \in M : /\ MovedCells(c, k)[i][3] \subseteq Owned(m)
                   /\ MovedCells(c, k)[i][1] # -1 => MovedCells(c, k)[i][3] # {}
    BY <1>2, <1>5 DEF MovedCells, Gone, Sound
<1>9. Sound(d, Owned(m))
    BY <1>2, <1>5, <1>7, <1>8, LoopSound
<1>10. v_heads' \in [Streams -> 0 .. Size]
    BY <1>3, <1>4, <1>6
<1>11. State' \in GoodStates
    BY <1>1, <1>4, <1>9, <1>10, NewCells
<1>12. CellsBased(c, d)
    <2>1. ASSUME NEW i \in M, MovedCells(c, k)[i][1] # -1
          PROVE  c.pos[i] # -1 /\ MovedCells(c, k)[i][1] - MovedCells(c, k)[i][2] = c.pos[i] - c.shift[i]
        <3>1. c.pos[i] \in Int /\ c.shift[i] \in Int /\ i \in Cells
            BY <1>2, <1>5, Loosen DEF Sound, LooseType
        <3>2. MovedCells(c, k)[i] = <<c.pos[i] + k, c.shift[i] + k, c.seq[i]>>
            BY <2>1, <3>1 DEF MovedCells, Gone
        <3> QED BY <1>1, <1>5, <3>1, <3>2
    <2> QED BY <1>5, <1>7, <2>1, LoopBased
<1>13. Based(State, State')
    BY <1>1, <1>2, <1>4, <1>12, StreamBased
<1> QED BY <1>11, <1>13 DEF CacheInv, SeqAdd

LEMMA SeqDivGood ==
    ASSUME CacheInv, NEW s \in Seqs, NEW p0 \in Positions, NEW p1, SeqDiv(s, p0, p1, 2)
    PROVE  CacheInv'
<1> DEFINE m == seq_to_stream(s)
           M == Matching(State, m, s, p0, p1)
           d == ForCells(LAMBDA c, i : pos_div(c, i, 2), v_cells[m], M)
<1>1. State \in GoodStates /\ m \in Streams
    BY StreamOf DEF CacheInv
<1>2. PICK c : c = v_cells[m] /\ Sound(c, Owned(m))
    BY <1>1, Stream
<1>3. v_heads \in [Streams -> 0 .. Size]
    BY <1>1, Stream
<1>4. v_cells' = [v_cells EXCEPT ![m] = d] /\ v_heads' = v_heads
    BY Zenon DEF SeqDiv
<1>5. M \in SUBSET Cells /\ \A i \in M : c.pos[i] # -1
    BY <1>1, <1>2, Taken
<1> HIDE DEF M
<1>6. d \in Loop(c, DividedCells(c, 2), M)[M]
    <2>1. 2 \in Nat \ {0}
        OBVIOUS
    <2> QED BY <1>2, <1>5, <2>1, PosDivLoop
<1> HIDE DEF d, m
<1>7. \A i \in M : DividedCells(c, 2)[i][3] \subseteq Owned(m) /\ DividedCells(c, 2)[i][3] # {}
    BY <1>2, <1>5 DEF DividedCells, Sound
<1>8. Sound(d, Owned(m))
    BY <1>2, <1>5, <1>6, <1>7, LoopSound
<1>9. State' \in GoodStates
    BY <1>1, <1>3, <1>4, <1>8, NewCells
<1> QED BY <1>9 DEF CacheInv, SeqDiv

\* Once the copies are done, a key is at its position before the shifts.
Rooted(S, K) ==
    \A m \in Streams, i \in Cells :
        S.v[m].pos[i] # -1 => K[m][i] = S.v[m].pos[i] - S.v[m].shift[i]

LEMMA BasedRooted ==
    ASSUME NEW S, NEW K, Rooted(S, K), NEW T, Based(S, T)
    PROVE  Rooted(T, K)
<1> SUFFICES ASSUME NEW m \in Streams, NEW i \in Cells, T.v[m].pos[i] # -1
             PROVE  K[m][i] = T.v[m].pos[i] - T.v[m].shift[i]
    BY DEF Rooted
<1>1. S.v[m].pos[i] # -1 /\ T.v[m].pos[i] - T.v[m].shift[i] = S.v[m].pos[i] - S.v[m].shift[i]
    BY DEF Based, CellsBased
<1> QED BY <1>1 DEF Rooted

LEMMA CopiedRuns ==
    ASSUME CacheInv
    PROVE  \E s : CopyRun(s, keys, sc_info) /\ KeysCopied = s[Len(sc_info)]
BY CopiedLoop DEF CacheInv, KeysCopied

\* The keys K after the copies q.
CopiedFrom(K, q) == FoldLeft(LAMBDA L, cp : [L EXCEPT ![cp[2]] = L[cp[1]]], K, q)

LEMMA CopiedNow == KeysCopied = CopiedFrom(keys, sc_info)
BY Zenon DEF KeysCopied, CopiedFrom

LEMMA CopiedNext == KeysCopied' = CopiedFrom(keys', sc_info')
<1>1. (KeysCopied = CopiedFrom(keys, sc_info))'
    BY CopiedNow, PTL
<1> QED BY <1>1

LEMMA CopiedStill ==
    ASSUME keys' = keys, sc_info' = sc_info
    PROVE  KeysCopied' = KeysCopied
BY CopiedNow, CopiedNext

LEMMA CopiedRunsNext ==
    ASSUME CacheInv'
    PROVE  \E s : CopyRun(s, keys', sc_info') /\ KeysCopied' = s[Len(sc_info')]
<1>1. \E s : CopyRun(s, keys', sc_info') /\ CopiedFrom(keys', sc_info') = s[Len(sc_info')]
    BY CopiedLoop DEF CacheInv, CopiedFrom
<1> QED BY <1>1, CopiedNext

\* A copy across streams takes the key along with the cells.
LEMMA CpStreamRooted ==
    ASSUME CacheInv, NEW src \in Seqs, NEW dst \in Seqs, SeqCpStream(src, dst),
           Rooted(State, KeysCopied)
    PROVE  Rooted(State', KeysCopied')
<1>1. PICK m \in Streams, n \in Streams : m = seq_to_stream(src) /\ n = seq_to_stream(dst)
    BY StreamOf
<1>2. /\ CacheInv' /\ CellsBased(v_cells[m], v_cells'[n])
      /\ \A x \in Streams \ {n} : v_cells'[x] = v_cells[x]
    BY <1>1, SeqCpStreamGood
<1>3. keys' = keys /\ sc_info' = Append(sc_info, <<m, n>>)
    BY <1>1 DEF SeqCpStream
<1>4. PICK s : CopyRun(s, keys, sc_info) /\ KeysCopied = s[Len(sc_info)]
    BY CopiedRuns
<1>5. PICK t : CopyRun(t, keys, Append(sc_info, <<m, n>>))
               /\ KeysCopied' = t[Len(Append(sc_info, <<m, n>>))]
    BY <1>2, <1>3, CopiedRunsNext
<1>6. PICK cp \in Streams \X Streams : cp = <<m, n>>
    OBVIOUS
<1>7. sc_info \in Seq(Streams \X Streams)
    BY DEF CacheInv
<1>8. KeysCopied' = t[Len(sc_info) + 1]
    BY <1>5, <1>7
<1>9. KeysCopied' = Copied(KeysCopied, cp)
    BY <1>4, <1>5, <1>6, <1>7, <1>8, CopiedMore
<1>10. PICK K \in KeysType : K = KeysCopied
    <2>1. Len(sc_info) \in 0 .. Len(sc_info)
        BY <1>7
    <2> QED BY <1>4, <2>1 DEF CopyRun
<1>11. PICK L : L = KeysCopied' /\ L = [K EXCEPT ![n] = K[m]]
    BY <1>6, <1>9, <1>10 DEF Copied
<1>12. L[n] = K[m] /\ \A x \in Streams \ {n} : L[x] = K[x]
    BY <1>10, <1>11 DEF KeysType
<1>13. State.v = v_cells /\ State'.v = v_cells'
    BY DEF State
<1>14. Rooted(State', L)
    <2> SUFFICES ASSUME NEW x \in Streams, NEW i \in Cells, v_cells'[x].pos[i] # -1
                 PROVE  L[x][i] = v_cells'[x].pos[i] - v_cells'[x].shift[i]
        BY <1>13 DEF Rooted
    <2>1. CASE x = n
        <3>1. v_cells[m].pos[i] # -1 /\
              v_cells'[n].pos[i] - v_cells'[n].shift[i] = v_cells[m].pos[i] - v_cells[m].shift[i]
            BY <1>2, <2>1 DEF CellsBased
        <3>2. K[m][i] = v_cells[m].pos[i] - v_cells[m].shift[i]
            BY <1>10, <1>13, <3>1 DEF Rooted
        <3> QED BY <1>12, <2>1, <3>1, <3>2
    <2>2. CASE x # n
        <3>1. v_cells'[x] = v_cells[x] /\ L[x] = K[x]
            BY <1>2, <1>12, <2>2
        <3> QED BY <1>10, <1>13, <3>1 DEF Rooted
    <2> QED BY <2>1, <2>2
<1> QED BY <1>11, <1>14

LEMMA ClearRooted ==
    ASSUME Clear, NEW K
    PROVE  Rooted(State', K)
<1>1. v_cells' = [m \in Streams |-> Empty] /\ State'.v = v_cells'
    BY DEF Clear, Install, State
<1>2. \A i \in Cells : Empty.pos[i] = -1
    BY DEF Empty
<1> QED BY <1>1, <1>2 DEF Rooted

\* With no update pending, the keys are at the positions.
LEMMA SettledKeys ==
    ASSUME CacheInv, Rooted(State, KeysCopied), ~UpdatePending
    PROVE  KeysAt(State, keys)
<1>1. KeysCopied = keys
    <2>1. PICK s : CopyRun(s, keys, sc_info) /\ KeysCopied = s[Len(sc_info)]
        BY CopiedRuns
    <2>2. Len(sc_info) = 0
        BY DEF UpdatePending
    <2> QED BY <2>1, <2>2 DEF CopyRun
<1> SUFFICES ASSUME NEW m \in Streams, NEW i \in Cells, State.v[m].pos[i] # -1
             PROVE  keys[m][i] = State.v[m].pos[i]
    BY DEF KeysAt
<1>2. State.v[m] = v_cells[m] /\ State \in GoodStates
    BY DEF State, CacheInv
<1>3. Sound(v_cells[m], Owned(m)) /\ v_cells[m] \in LooseType
    BY <1>2, Stream, Loosen
<1>4. v_cells[m].shift[i] = 0 /\ v_cells[m].pos[i] \in Int
    BY <1>3 DEF UpdatePending, HasShift, Sound, LooseType
<1> QED BY <1>1, <1>2, <1>4 DEF Rooted

LEMMA SaveSeqGood ==
    ASSUME CacheInv, NEW s \in Seqs, SaveSeq(s)
    PROVE  CacheInv' /\ (Rooted(State, KeysCopied) => saved'.key = saved'.pos)
<1> DEFINE m == seq_to_stream(s)
           c == v_cells[m]
           Kept == {i \in Cells : /\ ~is_empty(c, i) /\ s \in c.seq[i]
                                  /\ ~is_masked_swa(c.pos[i], seq_pos_max(c, s))}
           n == Cardinality(Kept)
           order == [k \in 1 .. n |-> Nth(Kept, k)]
           pos == [k \in DOMAIN order |-> c.pos[order[k]]]
           key == [k \in DOMAIN order |-> keys[m][order[k]]]
<1>1. saved' = [pos |-> pos, key |-> key]
    BY Zenon DEF SaveSeq
<1>2. State \in GoodStates /\ m \in Streams /\ keys \in KeysType
    BY StreamOf DEF CacheInv
<1>3. /\ Kept \subseteq Nat /\ Kept \subseteq Cells /\ IsFiniteSet(Kept)
      /\ \A i \in Kept : c.pos[i] # -1
    BY CellsFinite, FS_Subset, KvCellsAssumption DEF Cells, is_empty
<1>4. c \in KvCellsType
    BY <1>2, Stream
<1> HIDE DEF Kept, c, m
<1>5. n \in Nat
    BY <1>3, FS_CardinalityType
<1> HIDE DEF n
<1>6. \A k \in 1 .. n : order[k] \in Kept
    BY <1>3, NthOf DEF n
<1>7. DOMAIN order = 1 .. n
    OBVIOUS
<1> HIDE DEF order
<1>8. \A i \in Kept : c.pos[i] \in Positions /\ keys[m][i] \in Int
    <2>1. \A i \in Cells : c.pos[i] \in Positions \cup {-1}
        BY <1>4 DEF KvCellsType
    <2>2. \A i \in Cells : keys[m][i] \in Int
        BY <1>2 DEF KeysType
    <2> QED BY <1>3, <2>1, <2>2
<1>9. pos \in Seq(Positions) /\ DOMAIN pos = 1 .. n
    <2>1. pos = [k \in 1 .. n |-> pos[k]] /\ \A k \in 1 .. n : pos[k] \in Positions
        BY <1>6, <1>7, <1>8
    <2> HIDE DEF pos
    <2> QED BY <1>5, <2>1, Listing
<1>10. key \in Seq(Int) /\ DOMAIN key = 1 .. n
    <2>1. key = [k \in 1 .. n |-> key[k]] /\ \A k \in 1 .. n : key[k] \in Int
        BY <1>6, <1>7, <1>8
    <2> HIDE DEF key
    <2> QED BY <1>5, <2>1, Listing
<1>13. ASSUME Rooted(State, KeysCopied)
       PROVE  pos = key
    <2>1. KeysAt(State, keys)
        BY <1>13, SettledKeys DEF SaveSeq
    <2>2. ASSUME NEW k \in 1 .. n
          PROVE  pos[k] = key[k]
        <3>1. order[k] \in Cells /\ c.pos[order[k]] # -1
            BY <1>3, <1>6
        <3>2. keys[m][order[k]] = c.pos[order[k]]
            BY <1>2, <2>1, <3>1 DEF KeysAt, State, c
        <3> QED BY <1>7, <3>2
    <2>3. pos = [k \in 1 .. n |-> pos[k]] /\ key = [k \in 1 .. n |-> key[k]]
        BY <1>7
    <2> HIDE DEF pos, key
    <2> QED BY <2>2, <2>3
<1> HIDE DEF pos, key
<1>11. saved' \in SavedType
    BY <1>1, <1>9, <1>10 DEF SavedType
<1>12. State' = State
    BY DEF SaveSeq, State
<1>14. CacheInv'
    BY <1>2, <1>11, <1>12 DEF CacheInv, SaveSeq
<1> QED BY <1>1, <1>13, <1>14

\* The saved cells as a micro batch for the sequence s.
LEMMA SavedBatch ==
    ASSUME saved \in SavedType, NEW s \in Seqs, NEW m, m = seq_to_stream(s), NEW toks,
           toks = [k \in DOMAIN saved.pos |-> [pos |-> saved.pos[k], seqs |-> {s}]]
    PROVE  <<[strm |-> m, toks |-> toks]>> \in Seq(Parts) /\ DOMAIN toks = DOMAIN saved.pos
<1>1. PICK q \in Seq(Positions) : q = saved.pos
    BY DEF SavedType
<1>2. DOMAIN q = 1 .. Len(q) /\ Len(q) \in Nat
    OBVIOUS
<1>3. m \in Streams /\ s \in Owned(m)
    BY StreamOf
<1>4. \A k \in DOMAIN q : /\ toks[k] \in TokensIn(m)
                          /\ toks[k] \in [pos : Positions, seqs : SUBSET Seqs]
    BY <1>1, <1>3 DEF TokensIn
<1>5. toks = [k \in 1 .. Len(q) |-> toks[k]]
    BY <1>1, <1>2
<1>6. toks \in Seq(TokensIn(m))
    <2>1. \A k \in 1 .. Len(q) : toks[k] \in TokensIn(m)
        BY <1>2, <1>4
    <2> QED BY <1>2, <1>5, <2>1, Listing
<1>7. toks \in Seq([pos : Positions, seqs : SUBSET Seqs])
    <2>1. \A k \in 1 .. Len(q) : toks[k] \in [pos : Positions, seqs : SUBSET Seqs]
        BY <1>2, <1>4
    <2> QED BY <1>2, <1>5, <2>1, Listing
<1>8. [strm |-> m, toks |-> toks] \in Parts
    BY <1>3, <1>6, <1>7 DEF Parts
<1> QED BY <1>1, <1>5, <1>8

\* L are the keys K after key was read into the cells z of stream m.
Loaded(K, L, m, z, key) ==
    /\ \A x \in Streams \ {m} : L[x] = K[x]
    /\ \A i \in Cells : L[m][i] = IF i \in ToSet(z) THEN key[CHOOSE k \in DOMAIN z : z[k] = i]
                                  ELSE K[m][i]

\* The keys after the saved cells were put into the slot z of stream m.
LEMMA LoadedKeys ==
    ASSUME NEW R, NEW K, Rooted(R, K), NEW S, Remains(R, S), NEW T, NEW m, NEW ub \in Seq(Parts),
           DOMAIN ub = {1}, ub[1].strm = m, NEW slot \in Slots(ub), Applied(S, T, ub, slot),
           NEW key, \A j \in DOMAIN slot[1] : key[j] = ub[1].toks[j].pos, NEW L,
           Loaded(K, L, m, slot[1], key)
    PROVE  Rooted(T, L)
<1> SUFFICES ASSUME NEW n \in Streams, NEW i \in Cells, T.v[n].pos[i] # -1
             PROVE  L[n][i] = T.v[n].pos[i] - T.v[n].shift[i]
    BY DEF Rooted
<1>1. PICK z \in Seq(Cells) : z = slot[1] /\ Different(z) /\ DOMAIN z = DOMAIN ub[1].toks
    BY DEF Slots
<1>2. CASE Untouched(ub, slot, n, i)
    <2>1. LeftOf(Cell(T.v[n], i), Cell(S.v[n], i)) /\ LeftOf(Cell(S.v[n], i), Cell(R.v[n], i))
        BY <1>2 DEF Applied, Remains
    <2>2. T.v[n].pos[i] = S.v[n].pos[i] /\ T.v[n].shift[i] = S.v[n].shift[i]
        BY <2>1 DEF LeftOf, Cell, Gone
    <2>3. S.v[n].pos[i] = R.v[n].pos[i] /\ S.v[n].shift[i] = R.v[n].shift[i]
        BY <2>1, <2>2 DEF LeftOf, Cell, Gone
    <2>4. L[n][i] = K[n][i]
        <3>1. CASE n = m
            <4>1. \A j \in DOMAIN z : z[j] # i
                BY <1>1, <1>2, <3>1 DEF Untouched
            <4>2. i \notin ToSet(slot[1])
                BY <1>1, <4>1 DEF ToSet
            <4> QED BY <3>1, <4>2 DEF Loaded
        <3>2. CASE n # m
            BY <3>2 DEF Loaded
        <3> QED BY <3>1, <3>2
    <2>5. K[n][i] = R.v[n].pos[i] - R.v[n].shift[i]
        BY <2>2, <2>3 DEF Rooted
    <2> QED BY <2>2, <2>3, <2>4, <2>5
<1>3. CASE ~Untouched(ub, slot, n, i)
    <2>1. n = m /\ \E j \in DOMAIN z : z[j] = i
        BY <1>1, <1>3 DEF Untouched
    <2>2. PICK j \in DOMAIN z : z[j] = i
        BY <2>1
    <2>3. PICK p, seqs : p = ub[1].toks[j].pos /\ seqs = ub[1].toks[j].seqs
        OBVIOUS
    <2>4. LeftOf(Cell(T.v[n], i), <<p, 0, seqs>>)
        BY <1>1, <2>1, <2>2, <2>3 DEF Applied
    <2>5. T.v[n].pos[i] = p /\ T.v[n].shift[i] = 0
        BY <2>4 DEF LeftOf, Cell, Gone
    <2>6. PICK l \in DOMAIN z : l = (CHOOSE k \in DOMAIN z : z[k] = i) /\ z[l] = i
        BY <2>2
    <2>7. l = j
        BY <1>1, <2>2, <2>6 DEF Different
    <2>8. i \in ToSet(slot[1])
        BY <1>1, <2>2 DEF ToSet
    <2>9. L[n][i] = key[j]
        BY <1>1, <2>1, <2>6, <2>7, <2>8 DEF Loaded
    <2>10. key[j] = p
        BY <1>1, <2>3
    <2>11. p \in Int
        <3>1. PICK toks \in Seq(TokensIn(m)) : toks = ub[1].toks
            BY PartFields
        <3>2. toks[j] \in TokensIn(m)
            BY <1>1, <3>1
        <3>3. p \in Positions
            BY <2>3, <3>1, <3>2 DEF TokensIn
        <3> QED BY <3>3, KvCellsAssumption DEF Positions
    <2> QED BY <2>5, <2>9, <2>10, <2>11
<1> QED BY <1>2, <1>3

LEMMA InstallRooted ==
    ASSUME NEW S, Install(S), NEW K, Rooted(S, K)
    PROVE  Rooted(State', K)
<1>1. State'.v = S.v
    BY DEF Install, State
<1> QED BY <1>1 DEF Rooted

LEMMA LoadSeqGood ==
    ASSUME CacheInv, NEW s \in Seqs, LoadSeq(s)
    PROVE  /\ CacheInv'
           /\ saved.key = saved.pos /\ Rooted(State, KeysCopied) /\ deviation' = "none"
                  => Rooted(State', KeysCopied')
<1> DEFINE m == seq_to_stream(s)
           toks == [k \in DOMAIN saved.pos |-> [pos |-> saved.pos[k], seqs |-> {s}]]
           ub == <<[strm |-> m, toks |-> toks]>>
           S == SeqRmIn(State, s, 0, MaxPos + 1)
           slot == find_slot(S, ub)
           Index(i) == CHOOSE k \in DOMAIN slot[1] : slot[1][k] = i
           new == [i \in Cells |-> IF i \in ToSet(slot[1]) THEN saved.key[Index(i)] ELSE keys[m][i]]
<1>9. /\ deviation' = "none" => \A k \in DOMAIN sc_info : m \notin ToSet(sc_info[k])
      /\ sc_info' = sc_info
    BY DEF LoadSeq
<1>1. \/ slot = <<>> /\ Install(S) /\ keys' = keys
      \/ slot # <<>> /\ Install(apply_ubatch(S, ub, slot)) /\ keys' = [keys EXCEPT ![m] = new]
    BY Zenon DEF LoadSeq
<1>2. /\ State \in GoodStates /\ m \in Streams /\ keys \in KeysType /\ saved \in SavedType
      /\ GoodStates \in Kinds
    BY StreamOf DEF CacheInv, Kinds
<1>3. S \in GoodStates /\ Remains(State, S)
    BY <1>2, SeqRmInKeeps, SeqRmInLeaves
<1>4. ub \in Seq(Parts) /\ DOMAIN toks = DOMAIN saved.pos
    BY <1>2, SavedBatch
<1>5. DOMAIN ub = {1} /\ ub[1].toks = toks /\ ub[1].strm = m
    <2> HIDE DEF toks, m
    <2>1. PICK part : part = [strm |-> m, toks |-> toks]
        OBVIOUS
    <2>2. ub = <<part>> /\ part.toks = toks /\ part.strm = m
        BY <2>1
    <2> QED BY <2>2
<1>10. \A j \in DOMAIN toks : toks[j].pos = saved.pos[j]
    OBVIOUS
<1> HIDE DEF ub, toks, S
<1>6. slot # <<>> => slot \in Slots(ub)
    <2>1. S \in States
        BY <1>3 DEF GoodStates
    <2> QED BY <1>4, <2>1, FindSlotGives
<1> HIDE DEF slot
<1>7. CASE slot = <<>>
    <2>1. State' \in GoodStates
        BY <1>1, <1>3, <1>7, InstallKeeps
    <2>2. ASSUME Rooted(State, KeysCopied)
          PROVE  Rooted(State', KeysCopied')
        <3>1. Rooted(S, KeysCopied)
            BY <1>3, <2>2, RemainsBased, BasedRooted
        <3>2. KeysCopied' = KeysCopied
            BY <1>1, <1>7, <1>9, CopiedStill
        <3> QED BY <1>1, <1>7, <3>1, <3>2, InstallRooted
    <2> QED BY <1>1, <1>2, <1>7, <2>1, <2>2 DEF CacheInv, LoadSeq
<1>8. CASE slot # <<>>
    <2>1. slot \in Slots(ub) /\ DOMAIN slot[1] = DOMAIN toks
        BY <1>5, <1>6, <1>8 DEF Slots
    <2>0. PICK T : T = apply_ubatch(S, ub, slot)
        OBVIOUS
    <2>2. T \in GoodStates /\ Applied(S, T, ub, slot)
        <3>1. Apart(ub)
            BY <1>5 DEF Apart
        <3> QED BY <1>2, <1>3, <1>4, <2>0, <2>1, <3>1, ApplyKeeps
    <2>3. State' \in GoodStates
        BY <1>1, <1>8, <2>0, <2>2, InstallKeeps
    <2>4. PICK q \in Seq(Int) : q = saved.key /\ DOMAIN q = DOMAIN slot[1]
        BY <1>2, <1>4, <2>1 DEF SavedType
    <2>5. ASSUME NEW i \in Cells
          PROVE  new[i] \in Int
        <3>1. CASE i \in ToSet(slot[1])
            <4>1. Index(i) \in DOMAIN slot[1]
                BY <3>1 DEF ToSet
            <4>2. PICK j \in DOMAIN q : j = Index(i)
                BY <2>4, <4>1
            <4>3. new[i] = q[j]
                BY <2>4, <3>1, <4>2
            <4> QED BY <4>3
        <3>2. CASE i \notin ToSet(slot[1])
            <4>1. keys[m] \in [Cells -> Int]
                BY <1>2 DEF KeysType
            <4> HIDE DEF m
            <4> QED BY <3>2, <4>1
        <3> QED BY <3>1, <3>2
    <2>6. new \in [Cells -> Int]
        <3>1. new = [i \in Cells |-> new[i]]
            OBVIOUS
        <3> HIDE DEF new
        <3> QED BY <2>5, <3>1
    <2>11. \A i \in Cells : new[i] = IF i \in ToSet(slot[1])
                                      THEN saved.key[CHOOSE k \in DOMAIN slot[1] : slot[1][k] = i]
                                      ELSE keys[m][i]
        OBVIOUS
    <2> HIDE DEF new
    <2>7. keys' \in KeysType
        BY <1>1, <1>2, <1>8, <2>6 DEF KeysType
    <2>8. CacheInv'
        BY <1>2, <2>3, <2>7 DEF CacheInv, LoadSeq
    <2>9. ASSUME saved.key = saved.pos, Rooted(State, KeysCopied), deviation' = "none"
          PROVE  Rooted(State', KeysCopied')
        <3>1. PICK u : CopyRun(u, keys, sc_info) /\ KeysCopied = u[Len(sc_info)]
            BY CopiedRuns
        <3>2. PICK w : CopyRun(w, keys', sc_info) /\ KeysCopied' = w[Len(sc_info)]
            BY <1>9, <2>8, CopiedRunsNext
        <3>3. sc_info \in Seq(Streams \X Streams) /\ \A k \in DOMAIN sc_info : m \notin ToSet(sc_info[k])
            BY <1>9, <2>9 DEF CacheInv
        <3>4. keys'[m] = new /\ \A x \in Streams \ {m} : keys[x] = keys'[x]
            BY <1>1, <1>2, <1>8 DEF KeysType
        <3>5. KeysCopied'[m] = keys'[m] /\ \A x \in Streams \ {m} : KeysCopied[x] = KeysCopied'[x]
            BY <1>2, <3>1, <3>2, <3>3, <3>4, CopiedLike
        <3>6. KeysCopied[m] = keys[m]
            BY <1>2, <3>1, <3>3, CopiedLike
        <3>7. PICK K, L, key : K = KeysCopied /\ L = KeysCopied' /\ key = saved.key
            OBVIOUS
        <3>8. \A j \in DOMAIN slot[1] : key[j] = ub[1].toks[j].pos
            BY <1>5, <1>10, <2>1, <2>9, <3>7
        <3>9. \A i \in Cells : L[m][i] = IF i \in ToSet(slot[1])
                                         THEN key[CHOOSE k \in DOMAIN slot[1] : slot[1][k] = i]
                                         ELSE K[m][i]
            BY <2>11, <3>4, <3>5, <3>6, <3>7
        <3>10. Loaded(K, L, m, slot[1], key)
            BY <3>5, <3>7, <3>9 DEF Loaded
        <3>11. Rooted(T, L)
            BY <1>3, <1>4, <1>5, <2>1, <2>2, <2>9, <3>7, <3>8, <3>10, LoadedKeys
        <3> QED BY <1>1, <1>8, <2>0, <3>7, <3>11, InstallRooted
    <2> QED BY <2>8, <2>9
<1> QED BY <1>7, <1>8

LEMMA UpdatedStill ==
    ASSUME State \in GoodStates
    PROVE  Updated \in StillStates
<1>1. v_cells \in [Streams -> KvCellsType] /\ v_heads \in [Streams -> 0 .. Size]
    BY DEF GoodStates, States, State
<1> DEFINE w == [m \in Streams |-> IF HasShift THEN reset_shift(v_cells[m]) ELSE v_cells[m]]
<1>2. ASSUME NEW m \in Streams
      PROVE  Sound(w[m], Owned(m)) /\ Still(w[m])
    <2>1. PICK c : c = v_cells[m] /\ Sound(c, Owned(m)) /\ c \in KvCellsType
        BY Stream
    <2>2. CASE HasShift
        <3>1. Consistent(reset_shift(c))
            BY <2>1, ResetShiftConsistent DEF Sound
        <3>2. /\ reset_shift(c).seq = c.seq /\ reset_shift(c).pos = c.pos
              /\ reset_shift(c).shift = [i \in Cells |-> 0]
            BY <2>1 DEF reset_shift, KvCellsType
        <3>3. Sound(reset_shift(c), Owned(m)) /\ Still(reset_shift(c))
            <4>1. PICK e : e = reset_shift(c)
                OBVIOUS
            <4>2. Sound(e, Owned(m)) /\ Still(e)
                BY <2>1, <3>1, <3>2, <4>1 DEF Sound, Still
            <4> QED BY <4>1, <4>2
        <3> QED BY <2>1, <2>2, <3>3
    <2>3. CASE ~HasShift
        <3>1. c.has_shift = FALSE
            BY <2>1, <2>3 DEF HasShift, KvCellsType
        <3>2. Still(c)
            BY <2>1, <3>1 DEF Sound, Still
        <3> QED BY <2>1, <2>3, <3>2
    <2> QED BY <2>2, <2>3
<1>3. Updated = [v |-> w, h |-> v_heads]
    BY DEF Updated
<1>4. w \in [Streams -> KvCellsType]
    <2>1. \A m \in Streams : w[m] \in KvCellsType
        BY <1>2 DEF Sound, Consistent
    <2> QED BY <2>1
<1> HIDE DEF w
<1>5. Updated \in GoodStates
    BY <1>1, <1>2, <1>3, <1>4 DEF States, GoodStates
<1> QED BY <1>2, <1>3, <1>5 DEF StillStates

LEMMA CellInt ==
    ASSUME NEW c \in KvCellsType, NEW i \in Cells
    PROVE  c.pos[i] \in Int /\ c.shift[i] \in Int
<1>1. PICK pos, shift : pos = c.pos /\ shift = c.shift
    OBVIOUS
<1>2. pos \in [Cells -> Positions \cup {-1}] /\ shift \in [Cells -> Int]
    BY <1>1 DEF KvCellsType
<1>3. pos[i] \in Positions \cup {-1} /\ shift[i] \in Int
    BY <1>2
<1>4. pos[i] \in Int
    BY <1>3 DEF Positions
<1> QED BY <1>1, <1>3, <1>4

LEMMA DecodedGood ==
    ASSUME CacheInv, NEW S \in StillStates, NEW K, NEW result, NEW n, NEW blind,
           Decoded(S, K, result, n, blind), K \in KeysType
    PROVE  CacheInv' /\ (KeysAt(S, K) => Rooted(State', KeysCopied'))
<1>1. State' \in GoodStates /\ State'.v = S.v
    BY InstallKeeps DEF Decoded, StillStates, Install, State
<1>2. Blanked(K, S) \in KeysType
    BY DEF Blanked, KeysType
<1>3. CacheInv'
    BY <1>1, <1>2 DEF Decoded, CacheInv
<1>4. KeysCopied' = keys'
    <2>1. PICK s : CopyRun(s, keys', sc_info') /\ KeysCopied' = s[Len(sc_info')]
        BY <1>3, CopiedRunsNext
    <2>2. Len(sc_info') = 0
        BY DEF Decoded
    <2> QED BY <2>1, <2>2 DEF CopyRun
<1>5. ASSUME KeysAt(S, K), NEW m \in Streams, NEW i \in Cells, State'.v[m].pos[i] # -1
      PROVE  keys'[m][i] = State'.v[m].pos[i] - State'.v[m].shift[i]
    <2>1. PICK c \in KvCellsType : c = S.v[m] /\ Still(c)
        BY DEF StillStates, GoodStates, States
    <2>2. c.shift[i] = 0 /\ c.pos[i] \in Int
        <3>1. c.shift[i] = 0
            BY <2>1 DEF Still
        <3> QED BY <3>1, CellInt
    <2>3. keys'[m][i] = K[m][i]
        BY <1>1, <1>5 DEF Decoded, Blanked, is_empty
    <2>4. K[m][i] = c.pos[i]
        BY <1>1, <1>5, <2>1 DEF KeysAt
    <2> QED BY <1>1, <2>1, <2>2, <2>3, <2>4
<1>6. ASSUME KeysAt(S, K)
      PROVE  Rooted(State', KeysCopied')
    BY <1>4, <1>5, <1>6 DEF Rooted
<1> QED BY <1>3, <1>6

\* After the update the keys are at the positions.
LEMMA UpdatedAt ==
    ASSUME CacheInv, Rooted(State, KeysCopied), NEW S,
           \A m \in Streams : S.v[m].pos = v_cells[m].pos
    PROVE  KeysAt(S, KeysUpdated)
<1> SUFFICES ASSUME NEW m \in Streams, NEW i \in Cells, S.v[m].pos[i] # -1
             PROVE  KeysUpdated[m][i] = S.v[m].pos[i]
    BY DEF KeysAt
<1>1. PICK c \in KvCellsType : c = v_cells[m] /\ State.v[m] = c
    <2>1. v_cells[m] \in KvCellsType
        BY Stream DEF CacheInv
    <2> QED BY <2>1 DEF State
<1>2. c.pos[i] # -1 /\ c.pos[i] \in Int /\ c.shift[i] \in Int
    <2>1. c.pos[i] # -1
        BY <1>1
    <2> QED BY <2>1, CellInt
<1>3. PICK K : K = KeysCopied
    OBVIOUS
<1>4. KeysUpdated[m][i] = K[m][i] + c.shift[i]
    BY <1>1, <1>2, <1>3 DEF KeysUpdated, is_empty
<1>5. K[m][i] = c.pos[i] - c.shift[i]
    BY <1>1, <1>2, <1>3 DEF Rooted
<1> QED BY <1>1, <1>2, <1>4, <1>5

LEMMA ComputeFirstGives ==
    ASSUME CacheInv, NEW batch \in Seq(Seq(Parts)), NEW p \in Prepared(batch), p.ok,
           NEW k \in 0 .. Len(batch)
    PROVE  ComputeFirst(p, batch, k)
               \in {a \in Runs : AllApart(batch) /\ KeysAt(p.S, KeysUpdated) => KeysAt(a.S, a.K)}
<1> DEFINE b == [S |-> p.S, K |-> KeysUpdated, given |-> {}, blind |-> FALSE]
<1>1. KeysUpdated \in KeysType
    BY UpdatedKeys DEF CacheInv, GoodStates, States, State
<1>2. b \in Runs /\ b.S = p.S /\ b.K = KeysUpdated
    BY <1>1 DEF Runs, Prepared
<1> HIDE DEF b
<1>3. PICK q \in Seq(DOMAIN batch) : q = [j \in 1 .. k |-> j]
    <2>1. k \in Nat /\ \A j \in 1 .. k : j \in DOMAIN batch
        OBVIOUS
    <2>2. PICK q : q = [j \in 1 .. k |-> j]
        OBVIOUS
    <2>3. q = [j \in 1 .. k |-> q[j]] /\ \A j \in 1 .. k : q[j] \in DOMAIN batch
        BY <2>1, <2>2
    <2>4. q \in Seq(DOMAIN batch)
        BY <2>1, <2>3, Listing
    <2> QED BY <2>2, <2>4
<1>4. FoldLeft(LAMBDA acc, j : Compute(acc, batch[j], p.slots[j]), b, q)
          \in {a \in Runs : AllApart(batch) /\ KeysAt(b.S, b.K) => KeysAt(a.S, a.K)}
    BY <1>2, ComputeLoop
<1>5. ComputeFirst(p, batch, k) =
          FoldLeft(LAMBDA acc, j : Compute(acc, batch[j], p.slots[j]), b, q)
    BY <1>3 DEF ComputeFirst, b
<1>6. PICK a : a = ComputeFirst(p, batch, k)
    OBVIOUS
<1>7. a \in Runs /\ (AllApart(batch) /\ KeysAt(b.S, b.K) => KeysAt(a.S, a.K))
    BY <1>4, <1>5, <1>6
<1> QED BY <1>2, <1>6, <1>7

LEMMA DecodeGood ==
    ASSUME CacheInv, NEW batch \in Batches, Decode(batch)
    PROVE  /\ CacheInv'
           /\ Rooted(State, KeysCopied) /\ deviation' = "none" => Rooted(State', KeysCopied')
<1>1. State \in GoodStates /\ v_cells \in [Streams -> KvCellsType]
    BY DEF CacheInv, GoodStates, States, State
<1>2. batch \in Seq(Ubatches) /\ batch \in Seq(Seq(Parts))
    <2>1. batch \in Seq(LooseUbatches)
        BY <1>1, BatchesTyped
    <2>2. \A k \in DOMAIN batch : \A tok \in Tokens(batch[k]) : tok.pos <= MaxPos
        BY DEF Decode
    <2> QED BY <2>1, <2>2, WithinBound
<1>3. PICK p : /\ p = prepare(Updated, batch)
               /\ \/ DecodeOk(batch, p)
                  \/ DecodeNoSlot(batch, p)
                  \/ \E k \in DOMAIN batch, wrote \in BOOLEAN : DecodeFails(batch, p, k, wrote)
    BY DEF Decode
<1>4. p \in Prepared(batch) /\ p.S \in StillStates /\ (p.ok => Fits(p.slots, batch))
    BY <1>1, <1>2, <1>3, UpdatedStill, PrepareGives DEF Prepared
<1>5. KeysUpdated \in KeysType
    BY <1>1, UpdatedKeys DEF CacheInv
<1>6. Len(batch) \in Nat /\ DOMAIN batch = 1 .. Len(batch)
    BY <1>2
<1>10. Rooted(State, KeysCopied) /\ ~Unrestored(p.S) => KeysAt(p.S, KeysUpdated)
    BY UpdatedAt DEF Unrestored
<1>11. AllApart(batch)
    BY <1>1, BatchesApart
<1>7. CASE DecodeNoSlot(batch, p)
    <2>1. Decoded(p.S, KeysUpdated, "no_slot", NTokens(batch), FALSE)
        BY <1>7 DEF DecodeNoSlot
    <2>2. deviation' = "none" => ~Unrestored(p.S)
        BY <1>7 DEF DecodeNoSlot
    <2> QED BY <1>4, <1>5, <1>10, <2>1, <2>2, DecodedGood
<1>8. CASE DecodeOk(batch, p)
    <2>1. PICK run : run = ComputeFirst(p, batch, Len(batch))
        OBVIOUS
    <2>2. p.ok /\ Decoded(run.S, run.K, "ok", 0, run.blind)
        BY <1>8, <2>1 DEF DecodeOk
    <2>3. Len(batch) \in 0 .. Len(batch)
        BY <1>6
    <2>4. run \in Runs /\ (KeysAt(p.S, KeysUpdated) => KeysAt(run.S, run.K))
        BY <1>2, <1>4, <1>11, <2>1, <2>2, <2>3, ComputeFirstGives
    <2>5. run.S \in StillStates /\ run.K \in KeysType
        BY <2>4 DEF Runs
    <2>6. deviation' = "none" => ~Unrestored(p.S)
        BY <1>8 DEF DecodeOk
    <2> QED BY <1>10, <2>2, <2>4, <2>5, <2>6, DecodedGood
<1>9. ASSUME NEW k \in DOMAIN batch, NEW wrote \in BOOLEAN, DecodeFails(batch, p, k, wrote)
      PROVE  /\ CacheInv'
             /\ Rooted(State, KeysCopied) /\ deviation' = "none" => Rooted(State', KeysCopied')
    <2>1. PICK run : run = ComputeFirst(p, batch, k - 1)
        OBVIOUS
    <2>2. PICK last : last = Compute(run, batch[k], p.slots[k])
        OBVIOUS
    <2>3. /\ p.ok
          /\ Decoded(RemoveFailed(last.S, batch[k]), IF wrote THEN last.K ELSE run.K,
                     "failed", 0, run.blind)
        BY <1>9, <2>1, <2>2 DEF DecodeFails
    <2>4. k - 1 \in 0 .. Len(batch)
        BY <1>6
    <2>5. run \in Runs /\ (KeysAt(p.S, KeysUpdated) => KeysAt(run.S, run.K))
        BY <1>2, <1>4, <1>11, <2>1, <2>3, <2>4, ComputeFirstGives
    <2>6. batch[k] \in Seq(Parts) /\ p.slots[k] \in Slots(batch[k]) /\ Apart(batch[k])
        BY <1>2, <1>4, <1>11, <2>3 DEF Fits, AllApart
    <2>7. /\ last \in Runs /\ Applied(run.S, last.S, batch[k], p.slots[k])
          /\ KeysAt(run.S, run.K) => KeysAt(last.S, last.K)
        BY <2>2, <2>5, <2>6, ComputeKeeps
    <2>8. last.S \in StillStates /\ last.K \in KeysType /\ run.K \in KeysType
        BY <2>5, <2>7 DEF Runs
    <2>9. PICK T : /\ T = RemoveFailed(last.S, batch[k]) /\ T \in StillStates
                   /\ Remains(last.S, T) /\ Cleared(last.S, T, batch[k], Firsts(batch[k]))
        BY <2>6, <2>8, RemoveFailedKeeps
    <2>10. PICK K : K = IF wrote THEN last.K ELSE run.K
        OBVIOUS
    <2>11. K \in KeysType
        BY <2>8, <2>10
    <2>12. CacheInv' /\ (KeysAt(T, K) => Rooted(State', KeysCopied'))
        BY <2>3, <2>9, <2>10, <2>11, DecodedGood
    <2>13. deviation' = "none" =>
               /\ ~Unrestored(p.S)
               /\ \A tok \in Tokens(batch[k]) : ~(Cardinality(tok.seqs) > 1)
        BY <1>9 DEF DecodeFails
    <2>14. ASSUME Rooted(State, KeysCopied), deviation' = "none"
           PROVE  KeysAt(T, K)
        <3>1. KeysAt(run.S, run.K) /\ KeysAt(last.S, last.K)
            BY <1>10, <2>5, <2>7, <2>13, <2>14
        <3>2. CASE wrote
            BY <2>9, <2>10, <3>1, <3>2, RemainsKeys
        <3>3. CASE ~wrote
            BY <2>6, <2>7, <2>9, <2>10, <2>13, <2>14, <3>1, <3>3, FailedKeys
        <3> QED BY <3>2, <3>3
    <2> QED BY <2>12, <2>14
<1> QED BY <1>3, <1>7, <1>8, <1>9

-----------------------------------------------------------------------------
(***************************************************************************)
(* The invariant of the cache                                              *)
(***************************************************************************)
\* The inductive invariant of the keys.
KeysInv ==
    /\ saved.key = saved.pos
    /\ deviation = "none" => Rooted(State, KeysCopied)

\* A call that leaves the keys and the pending copies alone.
LEMMA BasedKeys ==
    ASSUME KeysInv, deviation = "none", Based(State, State'),
           UNCHANGED <<sc_info, keys, saved, deviation>>
    PROVE  KeysInv'
<1>1. KeysCopied' = KeysCopied /\ Rooted(State, KeysCopied)
    BY CopiedStill DEF KeysInv
<1>2. Rooted(State', KeysCopied')
    BY <1>1, BasedRooted
<1> QED BY <1>2 DEF KeysInv

LEMMA OperationGood ==
    ASSUME CacheInv, Operation, deviation = "none"
    PROVE  CacheInv' /\ (KeysInv => KeysInv')
<1>1. \A r \in Ranges : r[1] \in Positions /\ r[2] \in 1 .. MaxPos + 1
    BY DEF Ranges
<1>2. ASSUME NEW s \in Seqs, SeqKeep(s)
      PROVE  CacheInv' /\ (KeysInv => KeysInv')
    <2>1. UNCHANGED <<sc_info, keys, saved, deviation>>
        BY <1>2 DEF SeqKeep
    <2> QED BY <1>2, <2>1, SeqKeepGood, BasedKeys
<1>3. ASSUME NEW s \in Seqs, SaveSeq(s)
      PROVE  CacheInv' /\ (KeysInv => KeysInv')
    <2>1. UNCHANGED <<v_cells, v_heads, sc_info, keys, deviation>>
        BY <1>3 DEF SaveSeq
    <2>2. State' = State /\ KeysCopied' = KeysCopied
        BY <2>1, CopiedStill DEF State
    <2>3. CacheInv' /\ (Rooted(State, KeysCopied) => saved'.key = saved'.pos)
        BY <1>3, SaveSeqGood
    <2> QED BY <2>1, <2>2, <2>3 DEF KeysInv
<1>4. ASSUME NEW s \in Seqs, LoadSeq(s)
      PROVE  CacheInv' /\ (KeysInv => KeysInv')
    <2>1. saved' = saved
        BY <1>4 DEF LoadSeq
    <2>2. /\ CacheInv'
          /\ saved.key = saved.pos /\ Rooted(State, KeysCopied) /\ deviation' = "none"
                 => Rooted(State', KeysCopied')
        BY <1>4, LoadSeqGood
    <2> QED BY <2>1, <2>2 DEF KeysInv
<1>5. ASSUME NEW r \in Ranges, SeqRmAny(r[1], r[2])
      PROVE  CacheInv' /\ (KeysInv => KeysInv')
    <2>1. UNCHANGED <<sc_info, keys, saved, deviation>>
        BY <1>5 DEF SeqRmAny
    <2> QED BY <1>1, <1>5, <2>1, SeqRmAnyGood, BasedKeys
<1>6. ASSUME NEW r \in Ranges, NEW s \in Seqs, SeqRm(s, r[1], r[2])
      PROVE  CacheInv' /\ (KeysInv => KeysInv')
    <2>1. UNCHANGED <<sc_info, keys, saved, deviation>>
        BY <1>6 DEF SeqRm
    <2> QED BY <1>1, <1>6, <2>1, SeqRmGood, BasedKeys
<1>7. ASSUME NEW r \in Ranges, NEW s \in Seqs, SeqDiv(s, r[1], r[2], 2)
      PROVE  CacheInv' /\ (KeysInv => KeysInv')
    <2>1. deviation' = "divided" /\ saved' = saved
        BY <1>7 DEF SeqDiv
    <2> QED BY <1>1, <1>7, <2>1, SeqDivGood DEF KeysInv
<1>8. ASSUME NEW r \in Ranges, NEW s \in Seqs, NEW t \in Seqs, SeqCpShare(s, t, r[1], r[2])
      PROVE  CacheInv' /\ (KeysInv => KeysInv')
    <2>1. UNCHANGED <<sc_info, keys, saved, deviation>>
        BY <1>8 DEF SeqCpShare
    <2> QED BY <1>1, <1>8, <2>1, SeqCpShareGood, BasedKeys
<1>9. ASSUME NEW r \in Ranges, NEW s \in Seqs, NEW d \in Shifts, SeqAdd(s, r[1], r[2], d)
      PROVE  CacheInv' /\ (KeysInv => KeysInv')
    <2>1. UNCHANGED <<sc_info, keys, saved, deviation>>
        BY <1>9 DEF SeqAdd
    <2> QED BY <1>1, <1>9, <2>1, SeqAddGood, BasedKeys
<1>10. ASSUME NEW s \in Seqs, NEW t \in Seqs, SeqCpStream(s, t)
       PROVE  CacheInv' /\ (KeysInv => KeysInv')
    <2>1. UNCHANGED <<saved, deviation>>
        BY <1>10 DEF SeqCpStream
    <2>2. KeysInv => Rooted(State', KeysCopied')
        BY <1>10, CpStreamRooted DEF KeysInv
    <2>3. KeysInv => KeysInv'
        BY <2>1, <2>2 DEF KeysInv
    <2> QED BY <1>10, <2>3, SeqCpStreamGood
<1>11. ASSUME NEW batch \in Batches, Decode(batch)
       PROVE  CacheInv' /\ (KeysInv => KeysInv')
    <2>1. saved' = saved
        BY <1>11 DEF Decode, DecodeOk, DecodeNoSlot, DecodeFails, Decoded
    <2>2. /\ CacheInv'
          /\ Rooted(State, KeysCopied) /\ deviation' = "none" => Rooted(State', KeysCopied')
        BY <1>11, DecodeGood
    <2> QED BY <2>1, <2>2 DEF KeysInv
<1> QED BY <1>2, <1>3, <1>4, <1>5, <1>6, <1>7, <1>8, <1>9, <1>10, <1>11 DEF Operation

\* Every stream stays sound under every call, also when a batch does not fit or
\* its computation fails, and a pending copy names streams of the cache.
THEOREM CacheInvariant == Spec => []CacheInv
<1>1. Init => CacheInv
    BY InitGood
<1>2. CacheInv /\ [Next]_vars => CacheInv'
    <2> SUFFICES ASSUME CacheInv, [Next]_vars PROVE CacheInv'
        OBVIOUS
    <2>1. CASE Clear
        BY <2>1, ClearGood
    <2>2. CASE deviation = "none" /\ Operation
        BY <2>2, OperationGood
    <2>3. CASE UNCHANGED vars
        BY <2>3 DEF vars, CacheInv, State
    <2> QED BY <2>1, <2>2, <2>3 DEF Next
<1> QED BY <1>1, <1>2, PTL DEF Spec

\* The used cells and the position counts agree with the cells, a used cell
\* belongs to a sequence of its stream, and a pending shift is announced.
THEOREM CellsAgree == Spec => []CellsConsistent
<1>1. CacheInv => CellsConsistent
    <2> SUFFICES ASSUME CacheInv, NEW m \in Streams
                 PROVE  LET c == v_cells[m] IN
                        /\ Consistent(c)
                        /\ \A i \in c.used : /\ c.seq[i] # {}
                                             /\ \A s \in c.seq[i] : seq_to_stream(s) = m
                        /\ (\E i \in Cells : c.shift[i] # 0) => c.has_shift
        BY DEF CellsConsistent
    <2>1. PICK c : c = v_cells[m] /\ Sound(c, Owned(m)) /\ Consistent(c)
        BY Stream DEF CacheInv
    <2>2. ASSUME NEW i \in c.used
          PROVE  c.seq[i] # {} /\ \A s \in c.seq[i] : seq_to_stream(s) = m
        <3>1. i \in Cells /\ c.pos[i] # -1
            BY <2>1 DEF Consistent
        <3> QED BY <2>1, <3>1 DEF Sound, Owned
    <2>3. (\E i \in Cells : c.shift[i] # 0) => c.has_shift
        BY <2>1 DEF Sound
    <2> QED BY <2>1, <2>2, <2>3
<1> QED BY <1>1, CacheInvariant, PTL

\* Once the pending copies and shifts are done, the key of every used cell is
\* rotated at the position that the meta data give it, after any sequence of
\* calls that takes none of the known deviations.
THEOREM KeysAreRight == Spec => []KeysMatch
<1>1. Init => KeysInv
    <2> SUFFICES ASSUME Init PROVE KeysInv
        OBVIOUS
    <2>1. \A m \in Streams, i \in Cells : State.v[m].pos[i] = -1
        BY DEF Init, State, Empty
    <2> QED BY <2>1 DEF Init, Nothing, KeysInv, Rooted
<1>2. CacheInv /\ KeysInv /\ [Next]_vars => KeysInv'
    <2> SUFFICES ASSUME CacheInv, KeysInv, [Next]_vars PROVE KeysInv'
        OBVIOUS
    <2>1. CASE Clear
        <3>1. saved' = saved
            BY <2>1 DEF Clear
        <3> QED BY <2>1, <3>1, ClearRooted DEF KeysInv
    <2>2. CASE deviation = "none" /\ Operation
        BY <2>2, OperationGood
    <2>3. CASE UNCHANGED vars
        <3>1. State' = State /\ KeysCopied' = KeysCopied /\ saved' = saved /\ deviation' = deviation
            BY <2>3, CopiedStill DEF vars, State
        <3> QED BY <3>1 DEF KeysInv
    <2> QED BY <2>1, <2>2, <2>3 DEF Next
<1>3. CacheInv /\ KeysInv => KeysMatch
    <2> SUFFICES ASSUME CacheInv, KeysInv, deviation = "none", NEW m \in Streams,
                        NEW i \in v_cells[m].used
                 PROVE  KeysUpdated[m][i] = v_cells[m].pos[i]
        BY DEF KeysMatch, KeysRotated
    <2>1. i \in Cells /\ v_cells[m].pos[i] # -1
        BY Stream DEF CacheInv, Consistent
    <2>2. KeysAt(State, KeysUpdated)
        <3>1. \A x \in Streams : State.v[x].pos = v_cells[x].pos
            BY DEF State
        <3> QED BY <3>1, UpdatedAt DEF KeysInv
    <2> QED BY <2>1, <2>2 DEF KeysAt, State
<1> QED BY <1>1, <1>2, <1>3, CacheInvariant, PTL DEF Spec
=============================================================================
