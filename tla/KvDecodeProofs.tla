--------------------------- MODULE KvDecodeProofs ---------------------------
(***************************************************************************)
(* What decode() promises about the cache that it leaves, for any number   *)
(* of cells, positions, sequences and tokens: it reports a full cache only *)
(* when one is (NoSlotMeansFull), every token sees its window              *)
(* (WindowIsSeen), and no sequence gets a hole (DecodeKeepsWhole).         *)
(*                                                                         *)
(* prepare() chooses the slots in the states x[k] of a Trial.  A search    *)
(* fails only with too few empty cells, and k micro batches use no more    *)
(* cells than they have tokens; hence the first theorem.                   *)
(*                                                                         *)
(* If prepare() has restored the cells, the computation goes through the   *)
(* same states (Tracked): the same micro batch in the same cells of Like   *)
(* states leaves Like states (AppliesSame).  So whatever a micro batch     *)
(* overwrites was chosen for being masked (Spent), and what the cache has  *)
(* lost of a sequence is, at any time, all that lies up to one position    *)
(* r[s] (Lost), which is masked for every token still to come (Passed),    *)
(* as the tokens of a batch continue their sequences (InSequence) and a    *)
(* mask only grows (MaskGrows).  Hence the second theorem, and the third:  *)
(* what was there and what was given make one interval, cut from below.    *)
(***************************************************************************)
EXTENDS KvProofs

(***************************************************************************)
(* The placement on trial, step by step                                    *)
(***************************************************************************)
\* x[k] is the state that prepare() tries micro batch k + 1 in, for the first n.
Trial(x, S, batch, n) ==
    /\ x[0] = S
    /\ \A k \in 0 .. n : x[k] \in StillStates
    /\ \A k \in 1 .. n : LET slot == find_slot(x[k - 1], batch[k])
                         IN  slot # <<>> /\ x[k] = apply_ubatch(x[k - 1], batch[k], slot)

SlotsOf(stack) == [k \in DOMAIN stack |-> stack[k].idxs]
Start(S) == [ok |-> TRUE, S |-> S, stack |-> <<>>]

LEMMA PrepareRuns ==
    ASSUME NEW S \in StillStates, NEW batch \in Seq(Ubatches), NEW p, p = prepare(S, batch)
    PROVE  \E s : /\ TryRun(s, Start(S), batch)
                  /\ p.ok = s[Len(batch)].ok
                  /\ p.slots = SlotsOf(s[Len(batch)].stack)
<1>1. Start(S) \in Tried /\ InOrder(Start(S), batch, 0)
    BY DEF Start, Tried, InOrder
<1>2. PICK s : TryRun(s, Start(S), batch) /\ FoldLeft(TryUbatch, Start(S), batch) = s[Len(batch)]
    BY <1>1, TryLoop
<1>3. PICK t : t = s[Len(batch)]
    OBVIOUS
<1>4. p.ok = t.ok /\ p.slots = SlotsOf(t.stack)
    BY <1>2, <1>3 DEF prepare, Start, SlotsOf
<1> QED BY <1>2, <1>3, <1>4

\* One micro batch on trial.
LEMMA TryStep ==
    ASSUME NEW batch \in Seq(Ubatches), NEW s, NEW b, TryRun(s, b, batch), NEW n \in 1 .. Len(batch),
           NEW slot, slot = find_slot(s[n - 1].S, batch[n])
    PROVE  /\ s[n].ok <=> s[n - 1].ok /\ slot # <<>>
           /\ s[n].ok => /\ s[n].S = apply_ubatch(s[n - 1].S, batch[n], slot)
                         /\ Len(s[n - 1].stack) = n - 1
                         /\ \A k \in 1 .. n - 1 : s[n].stack[k] = s[n - 1].stack[k]
                         /\ s[n].stack[n].idxs = slot
<1>1. PICK a, T : a = s[n - 1] /\ T = s[n]
    OBVIOUS
<1>2. T = TryUbatch(a, batch[n])
    BY <1>1 DEF TryRun
<1>3. a \in Tried /\ InOrder(a, batch, n - 1)
    <2>1. n - 1 \in 0 .. Len(batch)
        OBVIOUS
    <2> QED BY <1>1, <2>1 DEF TryRun
<1>4. a.ok \in BOOLEAN /\ a.stack \in Seq(Trials) /\ a = [ok |-> a.ok, S |-> a.S, stack |-> a.stack]
    BY <1>3 DEF Tried
<1>5. CASE ~a.ok \/ slot = <<>>
    <2>1. T = [a EXCEPT !.ok = FALSE]
        BY <1>1, <1>2, <1>5 DEF TryUbatch
    <2>2. ~T.ok
        BY <1>4, <2>1
    <2> QED BY <1>1, <1>5, <2>2
<1>6. CASE a.ok /\ slot # <<>>
    <2> DEFINE t == [before |-> a.S, ub |-> batch[n], idxs |-> slot]
    <2>1. T = [ok |-> TRUE, S |-> apply_ubatch(a.S, batch[n], slot), stack |-> Append(a.stack, t)]
        BY <1>1, <1>2, <1>6 DEF TryUbatch
    <2>2. t.idxs = slot
        OBVIOUS
    <2> HIDE DEF t
    <2>3. PICK z \in Seq(Trials) : z = a.stack
        BY <1>4
    <2>4. Len(z) = n - 1
        BY <1>3, <1>6, <2>3 DEF InOrder
    <2>5. T.stack = Append(z, t)
        BY <2>1, <2>3
    <2>6. /\ \A k \in 1 .. n - 1 : T.stack[k] = z[k]
          /\ T.stack[n] = t
        <3>1. n = Len(z) + 1 /\ Len(z) \in Nat
            BY <2>4
        <3> QED BY <2>4, <2>5, <3>1
    <2> QED BY <1>1, <1>6, <2>1, <2>2, <2>3, <2>4, <2>6
<1> QED BY <1>4, <1>5, <1>6

\* The states tried, as long as it goes well.
LEMMA TriedTrial ==
    ASSUME NEW S, NEW batch \in Seq(Ubatches), NEW s, TryRun(s, Start(S), batch),
           NEW x, x = [k \in 0 .. Len(batch) |-> s[k].S], NEW n \in 0 .. Len(batch), s[n].ok
    PROVE  /\ Trial(x, S, batch, n)
           /\ \A k \in 1 .. n : s[n].stack[k].idxs = find_slot(x[k - 1], batch[k])
<1> DEFINE Slot(k) == find_slot(x[k - 1], batch[k])
           Well(m) == Trial(x, S, batch, m) /\ \A k \in 1 .. m : s[m].stack[k].idxs = Slot(k)
           T == {m \in Nat : m <= Len(batch) /\ s[m].ok => Well(m)}
<1>0. Len(batch) \in Nat
    OBVIOUS
<1>1. \A k \in 0 .. Len(batch) : s[k] \in Tried /\ x[k] = s[k].S /\ x[k] \in StillStates
    BY DEF TryRun, Tried
<1>2. 0 \in T
    <2>1. x[0] = S /\ x[0] \in StillStates
        BY <1>0, <1>1 DEF TryRun, Start
    <2> QED BY <2>1 DEF Trial
<1>3. ASSUME NEW m \in Nat, m \in T
      PROVE  m + 1 \in T
    <2> HIDE DEF Well
    <2> SUFFICES ASSUME m + 1 <= Len(batch), s[m + 1].ok
                 PROVE  Well(m + 1)
        OBVIOUS
    <2>0. m + 1 \in 1 .. Len(batch) /\ (m + 1) - 1 = m /\ m \in 0 .. Len(batch) /\ m + 1 \in 0 .. Len(batch)
        BY <1>0
    <2> HIDE DEF T
    <2>1. PICK j \in 1 .. Len(batch) : j = m + 1 /\ j - 1 = m /\ m \in 0 .. Len(batch) /\ j \in 0 .. Len(batch)
        BY <2>0
    <2>2. x[m] = s[m].S /\ x[j] = s[j].S /\ x[j] \in StillStates
        BY <1>1, <2>1
    <2>3. PICK slot : slot = Slot(j)
        OBVIOUS
    <2>4. slot = find_slot(s[j - 1].S, batch[j])
        BY <2>1, <2>2, <2>3
    <2>5. /\ s[m].ok /\ slot # <<>> /\ s[j].S = apply_ubatch(s[m].S, batch[j], slot)
          /\ \A k \in 1 .. m : s[j].stack[k] = s[m].stack[k]
          /\ s[j].stack[j].idxs = slot
        BY <2>1, <2>4, TryStep
    <2>6. Trial(x, S, batch, m) /\ \A k \in 1 .. m : s[m].stack[k].idxs = Slot(k)
        BY <1>3, <2>1, <2>5 DEF T, Well
    <2>7. \A k \in 1 .. j : k \in 1 .. m \/ k = j
        BY <2>1
    <2>8. \A k \in 0 .. j : k \in 0 .. m \/ k = j
        BY <2>1
    <2> HIDE DEF Slot, T
    <2>9. \A k \in 1 .. j : s[j].stack[k].idxs = Slot(k)
        BY <2>3, <2>5, <2>6, <2>7
    <2>10. Trial(x, S, batch, j)
        BY <2>1, <2>2, <2>3, <2>5, <2>6, <2>7, <2>8 DEF Trial, Slot
    <2> QED BY <2>1, <2>9, <2>10 DEF Well
<1>4. n \in T
    <2>1. n \in Nat
        OBVIOUS
    <2> HIDE DEF T
    <2> QED BY <1>2, <1>3, <2>1, Counting
<1> QED BY <1>4

\* A batch that fits: the slots are those that the trial has found.
LEMMA TrialFits ==
    ASSUME NEW S \in StillStates, NEW batch \in Seq(Ubatches), NEW p, p = prepare(S, batch), p.ok
    PROVE  \E x : /\ Trial(x, S, batch, Len(batch))
                  /\ \A k \in 1 .. Len(batch) : p.slots[k] = find_slot(x[k - 1], batch[k])
<1>1. PICK s : /\ TryRun(s, Start(S), batch) /\ s[Len(batch)].ok
               /\ p.slots = SlotsOf(s[Len(batch)].stack)
    BY PrepareRuns
<1>2. PICK x : x = [k \in 0 .. Len(batch) |-> s[k].S]
    OBVIOUS
<1>3. PICK n \in 0 .. Len(batch) : n = Len(batch)
    OBVIOUS
<1>4. /\ Trial(x, S, batch, n)
      /\ \A k \in 1 .. n : s[n].stack[k].idxs = find_slot(x[k - 1], batch[k])
    <2>1. s[n].ok
        BY <1>1, <1>3
    <2> QED BY <1>1, <1>2, <2>1, TriedTrial
<1>5. DOMAIN s[n].stack = 1 .. n
    <2>1. s[n] \in Tried /\ InOrder(s[n], batch, n)
        BY <1>1, <1>3 DEF TryRun
    <2> QED BY <1>1, <1>3, <2>1 DEF Tried, InOrder
<1> QED BY <1>1, <1>3, <1>4, <1>5 DEF SlotsOf

\* A batch that does not fit: some micro batch has found no slot.
LEMMA TrialStops ==
    ASSUME NEW S \in StillStates, NEW batch \in Seq(Ubatches), NEW p, p = prepare(S, batch), ~p.ok
    PROVE  \E x, n : /\ n \in 1 .. Len(batch) /\ Trial(x, S, batch, n - 1)
                     /\ find_slot(x[n - 1], batch[n]) = <<>>
<1>1. PICK s : TryRun(s, Start(S), batch) /\ ~s[Len(batch)].ok
    BY PrepareRuns
<1> DEFINE T == {m \in Nat : m <= Len(batch) =>
                    s[m].ok \/ \E k \in 1 .. m : s[k - 1].ok /\ ~s[k].ok}
<1>0. Len(batch) \in Nat
    OBVIOUS
<1>2. 0 \in T
    BY <1>1 DEF TryRun, Start
<1>3. ASSUME NEW m \in Nat, m \in T
      PROVE  m + 1 \in T
    <2>1. CASE m + 1 <= Len(batch) /\ s[m].ok
        <3>1. m + 1 \in 1 .. m + 1 /\ (m + 1) - 1 = m
            OBVIOUS
        <3> QED BY <2>1, <3>1
    <2>2. CASE m + 1 <= Len(batch) /\ ~s[m].ok
        <3>1. PICK k \in 1 .. m : s[k - 1].ok /\ ~s[k].ok
            BY <1>0, <1>3, <2>2
        <3>2. k \in 1 .. m + 1
            OBVIOUS
        <3> QED BY <3>1, <3>2
    <2> QED BY <2>1, <2>2
<1>4. Len(batch) \in T
    <2> HIDE DEF T
    <2> QED BY <1>0, <1>2, <1>3, Counting
<1>5. PICK n \in 1 .. Len(batch) : s[n - 1].ok /\ ~s[n].ok
    BY <1>1, <1>4
<1>6. PICK x : x = [k \in 0 .. Len(batch) |-> s[k].S]
    OBVIOUS
<1>7. n - 1 \in 0 .. Len(batch)
    OBVIOUS
<1>8. Trial(x, S, batch, n - 1)
    <2>1. PICK m \in 0 .. Len(batch) : m = n - 1
        BY <1>7
    <2> QED BY <1>1, <1>5, <1>6, <2>1, TriedTrial
<1>9. find_slot(x[n - 1], batch[n]) = <<>>
    <2>1. PICK slot : slot = find_slot(s[n - 1].S, batch[n])
        OBVIOUS
    <2>2. slot = <<>>
        BY <1>1, <1>5, <2>1, TryStep
    <2> QED BY <1>6, <1>7, <2>1, <2>2
<1> QED BY <1>8, <1>9

-----------------------------------------------------------------------------
(***************************************************************************)
(* How many tokens a batch has                                             *)
(***************************************************************************)
TokensCount(ub) == FoldLeft(LAMBDA l, part : l + Len(part.toks), 0, ub)

\* The loop over the parts of a micro batch.
LEMMA CountLoop ==
    ASSUME NEW ub \in Seq(Parts)
    PROVE  TokensCount(ub) \in {n \in Nat : \A k \in DOMAIN ub : Len(ub[k].toks) <= n}
<1> DEFINE M == DOMAIN ub
           P == [r \in SUBSET M |-> {n \in Nat : \A k \in r : Len(ub[k].toks) <= n}]
           ch == Latest(M)
           step == [r \in SUBSET M |-> [d \in P[r \ {ch[r]}] |-> d + Len(ub[ch[r]].toks)]]
           Eq(g) == g = [r \in SUBSET M |-> IF r = {} THEN 0
                            ELSE g[r \ {Max(r)}] + Len(ub[Max(r)].toks)]
<1>0. \A r \in SUBSET M : ch[r] = Max(r)
    BY DEF Latest
<1>1. IsFiniteSet(M) /\ Chooses(ch, M)
    <2>1. M = 1 .. Len(ub) /\ Len(ub) \in Nat
        OBVIOUS
    <2> QED BY <2>1, LatestChooses
<1>2. ASSUME NEW r \in SUBSET M, NEW x \in r, NEW d \in P[r \ {x}]
      PROVE  d + Len(ub[x].toks) \in P[r]
    <2>1. d \in Nat /\ \A k \in r \ {x} : Len(ub[k].toks) <= d
        OBVIOUS
    <2>2. \A k \in r : Len(ub[k].toks) \in Nat
        BY PartFields
    <2>3. PICK l \in Nat : l = Len(ub[x].toks)
        BY <2>2
    <2>4. \A k \in r : Len(ub[k].toks) <= d + l
        <3> SUFFICES ASSUME NEW k \in r
                     PROVE  Len(ub[k].toks) <= d + l
            OBVIOUS
        <3>1. PICK e \in Nat : e = Len(ub[k].toks)
            BY <2>2
        <3>2. e <= d \/ e = l
            BY <2>1, <2>3, <3>1
        <3> QED BY <2>1, <3>1, <3>2
    <2> QED BY <2>1, <2>3, <2>4
<1>3. 0 \in P[{}]
    OBVIOUS
<1> HIDE DEF P, ch
<1>4. PICK h : Folded(h, M, ch, 0, step) /\ \A r \in SUBSET M : h[r] \in P[r]
    <2>1. \A r \in SUBSET M : r # {} => \A d \in P[r \ {ch[r]}] : step[r][d] \in P[r]
        BY <1>1, <1>2 DEF Chooses
    <2> HIDE DEF step
    <2> QED BY <1>1, <1>3, <2>1, FoldRuns
<1>5. Eq(h)
    <2>1. \A r \in SUBSET M : r # {} =>
              step[r][h[r \ {ch[r]}]] = h[r \ {ch[r]}] + Len(ub[ch[r]].toks)
        BY <1>4
    <2>2. \A r \in SUBSET M : r # {} =>
              step[r][h[r \ {ch[r]}]] = h[r \ {Max(r)}] + Len(ub[Max(r)].toks)
        BY <1>0, <2>1
    <2>3. h = [r \in SUBSET M |-> IF r = {} THEN 0 ELSE step[r][h[r \ {ch[r]}]]]
        BY <1>4 DEF Folded
    <2> HIDE DEF step
    <2> QED BY <2>2, <2>3
<1>6. PICK g : Eq(g) /\ TokensCount(ub) = g[M]
    <2>1. TokensCount(ub) = (CHOOSE g : Eq(g))[M]
        BY Zenon DEF FoldLeft, MapThenFoldSet, TokensCount
    <2> HIDE DEF Eq
    <2> QED BY <1>5, <2>1
<1>7. \A r \in SUBSET M : r # {} /\ g[r \ {ch[r]}] \in P[r \ {ch[r]}] => g[r] \in P[r]
    <2> SUFFICES ASSUME NEW r \in SUBSET M, r # {}, g[r \ {ch[r]}] \in P[r \ {ch[r]}]
                 PROVE  g[r] \in P[r]
        OBVIOUS
    <2>1. ch[r] \in r
        BY <1>1 DEF Chooses
    <2>2. g[r] = g[r \ {ch[r]}] + Len(ub[ch[r]].toks)
        BY <1>0, <1>6
    <2> HIDE DEF Eq
    <2> QED BY <1>2, <2>1, <2>2
<1>8. g[M] \in P[M]
    <2>1. g[{}] \in P[{}]
        BY <1>3, <1>6
    <2> HIDE DEF Eq
    <2> QED BY <1>1, <1>7, <2>1, FoldKeeps
<1> QED BY <1>6, <1>8 DEF P

\* What grows in n micro batches by no more than their tokens does not grow, in
\* all, by more than the tokens of the batch.
Grown(u, n, batch) ==
    /\ u \in [0 .. n -> Nat]
    /\ \A k \in 1 .. n : u[k] <= u[k - 1] + TokensCount(batch[k])

\* The loop over the micro batches of a batch.
LEMMA TotalLoop ==
    ASSUME NEW batch \in Seq(Seq(Parts)), NEW n \in 0 .. Len(batch), NEW u, Grown(u, n, batch)
    PROVE  NTokens(batch) \in {t \in Nat : u[n] <= u[0] + t}
<1> DEFINE M == DOMAIN batch
           Until(r) == {k \in 0 .. n : 1 .. k \subseteq r}
           P == [r \in SUBSET M |-> {t \in Nat : \A k \in Until(r) : u[k] <= u[0] + t}]
           ch == Latest(M)
           step == [r \in SUBSET M |-> [d \in P[r \ {ch[r]}] |-> d + TokensCount(batch[ch[r]])]]
           Eq(g) == g = [r \in SUBSET M |-> IF r = {} THEN 0
                            ELSE g[r \ {Max(r)}] + TokensCount(batch[Max(r)])]
<1>0. \A r \in SUBSET M : ch[r] = Max(r)
    BY DEF Latest
<1>1. IsFiniteSet(M) /\ Chooses(ch, M)
    <2>1. M = 1 .. Len(batch) /\ Len(batch) \in Nat
        OBVIOUS
    <2> QED BY <2>1, LatestChooses
<1>9. \A k \in M : TokensCount(batch[k]) \in Nat
    <2>1. \A k \in M : batch[k] \in Seq(Parts)
        OBVIOUS
    <2> QED BY <2>1, CountLoop
<1>10. u \in [0 .. n -> Nat] /\ n \in Nat /\ \A k \in 1 .. n : u[k] <= u[k - 1] + TokensCount(batch[k])
    BY DEF Grown
<1>2. ASSUME NEW r \in SUBSET M, r # {}, NEW d \in P[r \ {ch[r]}]
      PROVE  d + TokensCount(batch[ch[r]]) \in P[r]
    <2>1. PICK x \in r : x = ch[r]
        <3>1. ch[r] \in r
            <4> HIDE DEF ch, P
            <4> QED BY <1>1, <1>2 DEF Chooses
        <3> QED BY <3>1
    <2>2. \A y \in r : y <= x
        <3>1. \A y \in 1 .. Len(batch) : y \in Nat
            OBVIOUS
        <3>2. r \in SUBSET (0 .. Len(batch)) /\ Len(batch) \in Nat
            OBVIOUS
        <3>3. \E w \in r : \A y \in r : w >= y
            BY <1>2, <3>1, <3>2, Bounded
        <3>4. x = Max(r)
            BY <1>0, <2>1
        <3>5. \A y \in r : x >= y
            BY <3>3, <3>4 DEF Max
        <3> QED BY <3>1, <3>2, <3>5
    <2>3. PICK c \in Nat : c = TokensCount(batch[x])
        BY <1>9
    <2>4. d \in Nat /\ \A k \in Until(r \ {x}) : u[k] <= u[0] + d
        BY <2>1
    <2>5. ASSUME NEW k \in Until(r)
          PROVE  u[k] <= u[0] + (d + c)
        <3>0. k \in 0 .. n /\ k \in Nat /\ 1 .. k \subseteq r /\ u[k] \in Nat /\ u[0] \in Nat
            BY <1>10
        <3>1. CASE x \notin 1 .. k
            <4>1. u[k] <= u[0] + d
                BY <2>4, <3>0, <3>1
            <4> QED BY <2>3, <2>4, <3>0, <4>1
        <3>2. CASE x \in 1 .. k
            <4>1. k \in 1 .. k
                BY <3>0, <3>2
            <4>2. x = k /\ k \in 1 .. n
                BY <2>2, <3>0, <3>2, <4>1
            <4>3. k - 1 \in 0 .. n /\ 1 .. (k - 1) \subseteq r \ {x}
                BY <3>0, <4>2
            <4>4. u[k - 1] <= u[0] + d /\ u[k - 1] \in Nat
                BY <1>10, <2>4, <4>3
            <4>5. u[k] <= u[k - 1] + c
                BY <1>10, <2>3, <4>2
            <4>6. PICK a \in Nat, b \in Nat, e \in Nat : a = u[k - 1] /\ b = u[k] /\ e = u[0]
                BY <3>0, <4>4
            <4>7. d \in Nat /\ c \in Nat /\ a <= e + d /\ b <= a + c
                BY <2>3, <2>4, <4>4, <4>5, <4>6
            <4>8. b <= e + (d + c)
                BY <4>7
            <4> QED BY <4>6, <4>8
        <3> QED BY <3>1, <3>2
    <2>6. d + c \in P[r]
        <3>1. d + c \in Nat
            BY <2>3, <2>4
        <3> HIDE DEF Until, M
        <3> QED BY <2>5, <3>1
    <2> QED BY <2>1, <2>3, <2>6
<1>3. 0 \in P[{}]
    <2>1. \A k \in Until({}) : k = 0
        <3> SUFFICES ASSUME NEW k \in Until({}), k # 0
                     PROVE  FALSE
            OBVIOUS
        <3>1. k \in 0 .. n /\ 1 .. k \subseteq {}
            OBVIOUS
        <3>2. 1 \in 1 .. k
            BY <1>10, <3>1
        <3> QED BY <3>1, <3>2
    <2>2. u[0] \in Nat
        BY <1>10
    <2>3. \A k \in Until({}) : u[k] <= u[0] + 0
        BY <2>1, <2>2
    <2>4. {} \in SUBSET M
        OBVIOUS
    <2> HIDE DEF Until, M
    <2> QED BY <2>3, <2>4
<1> HIDE DEF P, ch
<1>4. PICK h : Folded(h, M, ch, 0, step) /\ \A r \in SUBSET M : h[r] \in P[r]
    <2>1. \A r \in SUBSET M : r # {} => \A d \in P[r \ {ch[r]}] : step[r][d] \in P[r]
        BY <1>2
    <2> HIDE DEF step
    <2> QED BY <1>1, <1>3, <2>1, FoldRuns
<1>5. Eq(h)
    <2>1. \A r \in SUBSET M : r # {} =>
              step[r][h[r \ {ch[r]}]] = h[r \ {ch[r]}] + TokensCount(batch[ch[r]])
        BY <1>4
    <2>2. \A r \in SUBSET M : r # {} =>
              step[r][h[r \ {ch[r]}]] = h[r \ {Max(r)}] + TokensCount(batch[Max(r)])
        BY <1>0, <2>1
    <2>3. h = [r \in SUBSET M |-> IF r = {} THEN 0 ELSE step[r][h[r \ {ch[r]}]]]
        BY <1>4 DEF Folded
    <2> HIDE DEF step
    <2> QED BY <2>2, <2>3
<1>6. PICK g : Eq(g) /\ NTokens(batch) = g[M]
    <2>1. NTokens(batch) = (CHOOSE g : Eq(g))[M]
        BY Zenon DEF FoldLeft, MapThenFoldSet, NTokens, TokensCount
    <2> HIDE DEF Eq
    <2> QED BY <1>5, <2>1
<1>7. \A r \in SUBSET M : r # {} /\ g[r \ {ch[r]}] \in P[r \ {ch[r]}] => g[r] \in P[r]
    <2> SUFFICES ASSUME NEW r \in SUBSET M, r # {}, g[r \ {ch[r]}] \in P[r \ {ch[r]}]
                 PROVE  g[r] \in P[r]
        OBVIOUS
    <2>1. g[r] = g[r \ {ch[r]}] + TokensCount(batch[ch[r]])
        BY <1>0, <1>6
    <2> HIDE DEF Eq
    <2> QED BY <1>2, <2>1
<1>8. g[M] \in P[M]
    <2>1. g[{}] \in P[{}]
        BY <1>3, <1>6
    <2> HIDE DEF Eq
    <2> QED BY <1>1, <1>7, <2>1, FoldKeeps
<1>11. n \in Until(M)
    BY <1>10
<1> QED BY <1>6, <1>8, <1>11 DEF P

LEMMA ImageOf ==
    ASSUME NEW X, IsFiniteSet(X), NEW f, DOMAIN f = X, f = [x \in X |-> f[x]],
           NEW Y, \A y \in Y : \E x \in X : f[x] = y
    PROVE  IsFiniteSet(Y) /\ Cardinality(Y) <= Cardinality(X)
<1> DEFINE Z == {f[x] : x \in X}
<1>1. f \in Surjection(X, Z)
    BY DEF Surjection
<1>2. IsFiniteSet(Z) /\ Cardinality(Z) <= Cardinality(X)
    BY <1>1, FS_Surjection
<1>3. Y \in SUBSET Z
    OBVIOUS
<1> HIDE DEF Z
<1>4. IsFiniteSet(Y) /\ Cardinality(Y) <= Cardinality(Z)
    BY <1>2, <1>3, FS_Subset
<1>5. Cardinality(X) \in Nat /\ Cardinality(Y) \in Nat /\ Cardinality(Z) \in Nat
    BY <1>2, <1>4, FS_CardinalityType
<1> QED BY <1>2, <1>4, <1>5

LEMMA UsedSize ==
    ASSUME NEW c, Consistent(c)
    PROVE  /\ c.used = {i \in Cells : c.pos[i] # -1} /\ IsFiniteSet(c.used)
           /\ Cardinality(c.used) \in Nat /\ Cardinality(Cells \ c.used) = Size - Cardinality(c.used)
<1>1. c.used = {i \in Cells : c.pos[i] # -1} /\ c.used \in SUBSET Cells
    BY DEF Consistent
<1>2. IsFiniteSet(c.used) /\ IsFiniteSet(Cells \ c.used) /\ Cells \ c.used \in SUBSET Cells
    BY <1>1, CellsFinite, FS_Subset
<1>3. Cardinality(c.used) \in Nat /\ Cardinality(Cells \ c.used) \in Nat
    BY <1>2, FS_CardinalityType
<1>4. Cardinality(Cells) = Size
    <2>1. Size \in Nat \ {0} /\ 0 \in Int /\ Size - 1 \in Int
        BY KvCellsAssumption
    <2>2. Cardinality(0 .. Size - 1) = IF 0 > Size - 1 THEN 0 ELSE (Size - 1) - 0 + 1
        BY <2>1, FS_Interval
    <2> QED BY <2>1, <2>2 DEF Cells
<1>5. Cardinality(Cells) = Cardinality(c.used) + Cardinality(Cells \ c.used)
    <2>1. c.used \cup (Cells \ c.used) = Cells /\ c.used \cap (Cells \ c.used) = {}
        BY <1>1
    <2>2. Cardinality(c.used \cup (Cells \ c.used)) =
              Cardinality(c.used) + Cardinality(Cells \ c.used)
              - Cardinality(c.used \cap (Cells \ c.used))
        BY <1>2, FS_Union
    <2>3. Cardinality(c.used \cap (Cells \ c.used)) = 0
        BY <2>1, FS_EmptySet
    <2>4. PICK a \in Nat, b \in Nat : a = Cardinality(c.used) /\ b = Cardinality(Cells \ c.used)
        BY <1>3
    <2>5. Cardinality(Cells) = a + b - 0
        BY <2>1, <2>2, <2>3, <2>4
    <2> QED BY <2>4, <2>5
<1>6. Size \in Nat
    BY KvCellsAssumption
<1> QED BY <1>1, <1>2, <1>3, <1>4, <1>5, <1>6

\* The search reaches every cell.
LEMMA WrapsAll ==
    ASSUME NEW n \in Nat \ {0}, NEW a \in 0 .. n, NEW i \in 0 .. n - 1
    PROVE  \E j \in 0 .. n - 1 : (a + j) % n = i
<1>1. CASE i >= a
    <2>1. i - a \in 0 .. n - 1 /\ a + (i - a) = i /\ i % n = i
        BY <1>1
    <2> QED BY <2>1
<1>2. CASE i < a
    <2>1. (i - a) + n \in 0 .. n - 1 /\ a + ((i - a) + n) = i + n
        BY <1>2
    <2>2. (i + n) % n = i
        OBVIOUS
    <2> QED BY <2>1, <2>2
<1> QED BY <1>1, <1>2

\* A search fails only if there are too few empty cells.
LEMMA FindCellsFails ==
    ASSUME NEW c, Consistent(c), NEW head \in 0 .. Size, NEW n \in Nat \ {0},
           FindCells(c, head, n) = <<>>
    PROVE  Size - Cardinality(c.used) < n
<1> DEFINE From(j) == (SearchFrom(c, head, n) + j) % Size
           usable == {j \in Cells : CanUse(c, From(j))}
<1>1. FindCells(c, head, n) = IF Cardinality(usable) < n THEN <<>>
                              ELSE [k \in 1 .. n |-> From(Nth(usable, k))]
    BY DEF FindCells
<1>2. Cardinality(usable) < n
    <2> HIDE DEF From, usable
    <2> SUFFICES ASSUME ~(Cardinality(usable) < n)
                 PROVE  FALSE
        OBVIOUS
    <2>1. DOMAIN FindCells(c, head, n) = 1 .. n
        BY <1>1
    <2>2. 1 \in 1 .. n /\ DOMAIN <<>> = 1 .. 0
        OBVIOUS
    <2> QED BY <2>1, <2>2
<1>3. usable \in SUBSET Cells
    OBVIOUS
<1>4. IsFiniteSet(usable) /\ Cardinality(usable) \in Nat
    <2> HIDE DEF usable
    <2>1. IsFiniteSet(usable)
        BY <1>3, CellsFinite, FS_Subset
    <2> QED BY <2>1, FS_CardinalityType
<1>5. ASSUME NEW i \in Cells \ c.used
      PROVE  \E j \in usable : From(j) = i
    <2>1. Size \in Nat \ {0} /\ SearchFrom(c, head, n) \in 0 .. Size /\ i \in 0 .. Size - 1
        BY KvCellsAssumption DEF SearchFrom, Cells
    <2>2. PICK j \in 0 .. Size - 1 : From(j) = i
        BY <2>1, WrapsAll
    <2>3. CanUse(c, i)
        BY UsedSize DEF CanUse, is_empty
    <2> HIDE DEF From
    <2> QED BY <2>2, <2>3 DEF Cells
<1>6. Cardinality(Cells \ c.used) <= Cardinality(usable)
    <2>1. PICK f : f = [j \in usable |-> From(j)]
        OBVIOUS
    <2> HIDE DEF usable, From
    <2>2. DOMAIN f = usable /\ f = [j \in usable |-> f[j]]
          /\ \A i \in Cells \ c.used : \E j \in usable : f[j] = i
        BY <1>5, <2>1
    <2> QED BY <1>4, <2>2, ImageOf
<1> HIDE DEF usable
<1>7. Cardinality(c.used) \in Nat /\ Cardinality(Cells \ c.used) = Size - Cardinality(c.used)
    BY UsedSize
<1> QED BY <1>2, <1>4, <1>6, <1>7, KvCellsAssumption

\* A micro batch uses no more cells than it has tokens for.
LEMMA UsedGrows ==
    ASSUME NEW S \in StillStates, NEW ub \in Seq(Parts), NEW idxs \in Slots(ub), Apart(ub),
           NEW T, T = apply_ubatch(S, ub, idxs), NEW m \in Streams
    PROVE  Cardinality(T.v[m].used) <= Cardinality(S.v[m].used) + TokensCount(ub)
<1>1. T \in StillStates /\ Applied(S, T, ub, idxs)
    <2>1. StillStates \in Kinds
        BY DEF Kinds
    <2> QED BY <2>1, ApplyKeeps
<1>2. PICK c, d : c = S.v[m] /\ d = T.v[m] /\ Consistent(c) /\ Consistent(d)
    BY <1>1 DEF StillStates, GoodStates, Sound
<1>3. /\ c.used = {i \in Cells : c.pos[i] # -1} /\ IsFiniteSet(c.used) /\ Cardinality(c.used) \in Nat
      /\ d.used = {i \in Cells : d.pos[i] # -1} /\ IsFiniteSet(d.used) /\ Cardinality(d.used) \in Nat
    BY <1>2, UsedSize
<1>4. TokensCount(ub) \in Nat /\ \A k \in DOMAIN ub : Len(ub[k].toks) <= TokensCount(ub)
    BY CountLoop
<1>5. ASSUME NEW i \in d.used, i \notin c.used
      PROVE  ~Untouched(ub, idxs, m, i)
    <2>1. d.pos[i] # -1 /\ c.pos[i] = -1 /\ i \in Cells
        BY <1>3, <1>5
    <2>2. Untouched(ub, idxs, m, i) => LeftOf(Cell(d, i), Cell(c, i))
        BY <1>1, <1>2, <2>1 DEF Applied
    <2>3. ~LeftOf(Cell(d, i), Cell(c, i))
        BY <2>1 DEF LeftOf, Cell, Gone
    <2> QED BY <2>2, <2>3
<1>6. CASE \A k \in DOMAIN ub : ub[k].strm # m
    <2>1. d.used \in SUBSET c.used
        BY <1>5, <1>6 DEF Untouched
    <2>2. Cardinality(d.used) <= Cardinality(c.used)
        BY <1>3, <2>1, FS_Subset
    <2> QED BY <1>2, <1>3, <1>4, <2>2
<1>7. ASSUME NEW k \in DOMAIN ub, ub[k].strm = m
      PROVE  Cardinality(T.v[m].used) <= Cardinality(S.v[m].used) + TokensCount(ub)
    <2>1. PICK z, n : z = idxs[k] /\ n = Len(ub[k].toks) /\ n \in Nat /\ DOMAIN z = 1 .. n
                      /\ z \in Seq(Cells)
        BY PartFields DEF Slots
    <2> DEFINE H == Hit(z, DOMAIN z)
    <2>2. IsFiniteSet(H) /\ Cardinality(H) <= n /\ Cardinality(H) \in Nat
        <3>1. IsFiniteSet(1 .. n) /\ Cardinality(1 .. n) = n
            <4>1. 1 \in Int /\ n \in Int
                BY <2>1
            <4>2. IsFiniteSet(1 .. n) /\ Cardinality(1 .. n) = IF 1 > n THEN 0 ELSE n - 1 + 1
                BY <4>1, FS_Interval
            <4> QED BY <2>1, <4>2
        <3>2. z = [j \in 1 .. n |-> z[j]] /\ \A y \in H : \E j \in 1 .. n : z[j] = y
            BY <2>1 DEF Hit
        <3> HIDE DEF H
        <3>3. IsFiniteSet(H) /\ Cardinality(H) <= Cardinality(1 .. n)
            BY <2>1, <3>1, <3>2, ImageOf
        <3> QED BY <3>1, <3>3, FS_CardinalityType
    <2>3. d.used \in SUBSET (c.used \cup H)
        <3> SUFFICES ASSUME NEW i \in d.used, i \notin c.used
                     PROVE  i \in H
            OBVIOUS
        <3>1. PICK l \in DOMAIN ub : ub[l].strm = m /\ \E j \in DOMAIN idxs[l] : idxs[l][j] = i
            BY <1>5 DEF Untouched
        <3>2. l = k
            BY <1>7, <3>1 DEF Apart
        <3> QED BY <2>1, <3>1, <3>2 DEF Hit
    <2> HIDE DEF H
    <2>4. /\ IsFiniteSet(c.used \cup H)
          /\ Cardinality(c.used \cup H) = Cardinality(c.used) + Cardinality(H) - Cardinality(c.used \cap H)
        BY <1>3, <2>2, FS_Union
    <2>5. Cardinality(c.used \cap H) \in Nat
        <3>1. IsFiniteSet(c.used \cap H)
            BY <1>3, FS_Subset
        <3> QED BY <3>1, FS_CardinalityType
    <2>6. Cardinality(d.used) <= Cardinality(c.used \cup H)
        BY <2>3, <2>4, FS_Subset
    <2>7. Cardinality(d.used) <= Cardinality(c.used) + n
        BY <1>3, <2>1, <2>2, <2>4, <2>5, <2>6
    <2>8. n <= TokensCount(ub)
        BY <1>4, <2>1
    <2> QED BY <1>2, <1>3, <1>4, <2>1, <2>7, <2>8
<1> QED BY <1>6, <1>7

-----------------------------------------------------------------------------
(***************************************************************************)
(* The tokens of a batch                                                   *)
(***************************************************************************)
AnyLoose == [pos : Nat, seqs : SUBSET Seqs]

\* Each sequence goes on from its last position, without a gap.
Continues(toks) ==
    \A j \in DOMAIN toks : \A s \in toks[j].seqs :
        /\ NextPos(s) <= toks[j].pos
        /\ \A p \in NextPos(s) .. toks[j].pos :
               \E i \in DOMAIN toks : i <= j /\ s \in toks[i].seqs /\ toks[i].pos = p
        /\ \A i \in DOMAIN toks : i > j /\ s \in toks[i].seqs => toks[j].pos < toks[i].pos

\* The same for the micro batches of a batch.
InSequence(batch) ==
    \A k \in DOMAIN batch : \A tok \in Tokens(batch[k]) : \A s \in tok.seqs :
        /\ NextPos(s) <= tok.pos
        /\ \A p \in NextPos(s) .. tok.pos :
               \E l \in DOMAIN batch : l <= k /\ \E t \in Tokens(batch[l]) : s \in t.seqs /\ t.pos = p
        /\ \A l \in DOMAIN batch : l > k =>
               \A t \in Tokens(batch[l]) : s \in t.seqs => tok.pos < t.pos

\* No micro batch and no part of one is empty.
WholeParts(batch) ==
    \A k \in DOMAIN batch : /\ batch[k] # <<>>
                            /\ \A j \in DOMAIN batch[k] : batch[k][j].toks # <<>>

LEMMA Division ==
    ASSUME NEW a \in Nat, NEW b \in Nat \ {0}
    PROVE  a \div b \in Nat /\ (a \div b) * b <= a /\ a < (a \div b) * b + b
<1>1. PICK q \in Int : q = a \div b
    OBVIOUS
<1>2. q * b <= a /\ a < q * b + b
    BY <1>1
<1>3. q \in Nat
    BY <1>1
<1> QED BY <1>1, <1>2, <1>3

LEMMA Multiples ==
    ASSUME NEW b \in Nat, NEW k \in Nat, NEW l \in Nat, k < l
    PROVE  k * b + b <= l * b
<1>1. PICK d \in Nat : l = k + 1 + d
    <2>1. l - k - 1 \in Nat /\ l = k + 1 + (l - k - 1)
        OBVIOUS
    <2> QED BY <2>1
<1>2. l * b = k * b + b + d * b
    BY <1>1
<1>3. d * b \in Nat /\ k * b \in Nat
    OBVIOUS
<1> QED BY <1>2, <1>3

\* Micro batch k has the tokens after a up to b.
Slice(batch, m, toks, k, a, b) ==
    /\ a = (k - 1) * NUbatch /\ a < b /\ b <= Len(toks) /\ b <= k * NUbatch
    /\ b = Len(toks) \/ b = k * NUbatch
    /\ batch[k] = <<[strm |-> m, toks |-> SubSeq(toks, a + 1, b)]>>

LEMMA SliceAt ==
    ASSUME NEW m, NEW X, NEW toks \in Seq(X), NEW batch, batch = Slices(m, toks), NEW k \in DOMAIN batch
    PROVE  k \in Nat \ {0} /\ \E a, b \in Nat : Slice(batch, m, toks, k, a, b)
<1>1. NUbatch \in Nat \ {0} /\ Len(toks) \in Nat
    BY KvCacheAssumption
<1>2. PICK n \in Nat : n = (Len(toks) + NUbatch - 1) \div NUbatch /\ n * NUbatch <= Len(toks) + NUbatch - 1
    <2>1. PICK c \in Nat : c = Len(toks) + NUbatch - 1
        <3>1. PICK d \in Nat : d = Len(toks)
            BY <1>1
        <3>2. d + NUbatch - 1 \in Nat
            BY <1>1, <3>1
        <3> QED BY <3>1, <3>2
    <2>2. c \div NUbatch \in Nat /\ (c \div NUbatch) * NUbatch <= c
        BY <1>1, Division
    <2> QED BY <2>1, <2>2
<1>3. k \in 1 .. n
    BY <1>2 DEF Slices
<1>4. PICK a \in Nat : a = (k - 1) * NUbatch
    BY <1>1, <1>3
<1>5. k * NUbatch = a + NUbatch
    BY <1>1, <1>3, <1>4
<1>6. k * NUbatch <= n * NUbatch
    <2>1. CASE k = n
        <3>1. PICK u \in Int : u = n * NUbatch
            BY <1>1, <1>2
        <3>2. k * NUbatch = u
            BY <2>1, <3>1
        <3> QED BY <3>1, <3>2
    <2>2. CASE k < n
        <3>1. k * NUbatch + NUbatch <= n * NUbatch
            BY <1>1, <1>3, <2>2, Multiples
        <3>2. k * NUbatch \in Nat /\ n * NUbatch \in Nat
            BY <1>1, <1>3
        <3> QED BY <1>1, <3>1, <3>2
    <2> QED BY <1>3, <2>1, <2>2
<1>7. a < Len(toks)
    <2>1. PICK u \in Nat, w \in Nat : u = k * NUbatch /\ w = n * NUbatch
        BY <1>1, <1>3
    <2> QED BY <1>1, <1>2, <1>5, <1>6, <2>1
<1>8. PICK b \in Nat : b = IF k * NUbatch < Len(toks) THEN k * NUbatch ELSE Len(toks)
    BY <1>1, <1>5
<1>9. a < b /\ b <= Len(toks) /\ b <= k * NUbatch /\ (b = Len(toks) \/ b = k * NUbatch)
    BY <1>1, <1>5, <1>7, <1>8
<1>10. batch[k] = <<[strm |-> m, toks |-> SubSeq(toks, a + 1, b)]>>
    BY <1>2, <1>3, <1>4, <1>8 DEF Slices
<1>11. Slice(batch, m, toks, k, a, b)
    BY <1>4, <1>9, <1>10 DEF Slice
<1> QED BY <1>3, <1>11

\* The parts of ub are not empty and list the tokens after a up to b.
Listed(ub, toks, a, b) ==
    /\ ub # <<>> /\ \A j \in DOMAIN ub : ub[j].toks # <<>>
    /\ \A tok : tok \in Tokens(ub) <=> \E j \in a + 1 .. b : tok = toks[j]

LEMMA SliceTokens ==
    ASSUME NEW m, NEW toks \in Seq(AnyLoose), NEW batch, NEW k, NEW a \in Nat, NEW b \in Nat,
           Slice(batch, m, toks, k, a, b)
    PROVE  Listed(batch[k], toks, a, b)
<1>1. PICK z : z = SubSeq(toks, a + 1, b)
    OBVIOUS
<1>2. a < b /\ b <= Len(toks) /\ batch[k] = <<[strm |-> m, toks |-> z]>>
    BY <1>1 DEF Slice
<1>3. /\ z \in Seq(AnyLoose) /\ Len(z) = b - a
      /\ \A i \in 1 .. b - a : z[i] = toks[a + i]
    <2>1. \A i \in a + 1 .. b : toks[i] \in AnyLoose
        BY <1>2
    <2>2. Len(z) = IF a + 1 <= b THEN b - (a + 1) + 1 ELSE 0
        BY <1>1, <2>1, SubSeqProperties
    <2>3. \A i \in 1 .. b - (a + 1) + 1 : z[i] = toks[a + 1 + i - 1]
        BY <1>1, <2>1, SubSeqProperties
    <2>4. z \in Seq(AnyLoose)
        BY <1>1, <2>1, SubSeqProperties
    <2>5. b - (a + 1) + 1 = b - a /\ \A i \in Int : a + 1 + i - 1 = a + i
        OBVIOUS
    <2> QED BY <1>2, <2>2, <2>3, <2>4, <2>5
<1>4. z # <<>> /\ DOMAIN z = 1 .. b - a
    BY <1>2, <1>3
<1>5. batch[k] # <<>> /\ DOMAIN batch[k] = {1} /\ batch[k][1].toks = z
    BY <1>2
<1>6. Tokens(batch[k]) = {z[i] : i \in 1 .. b - a}
    BY <1>4, <1>5 DEF Tokens, ToSet
<1>7. ASSUME NEW j \in a + 1 .. b
      PROVE  toks[j] \in Tokens(batch[k])
    <2>1. j - a \in 1 .. b - a /\ a + (j - a) = j
        OBVIOUS
    <2> QED BY <1>3, <1>6, <2>1
<1>8. ASSUME NEW tok \in Tokens(batch[k])
      PROVE  \E j \in a + 1 .. b : tok = toks[j]
    <2>1. PICK i \in 1 .. b - a : tok = toks[a + i]
        BY <1>3, <1>6
    <2>2. a + i \in a + 1 .. b
        OBVIOUS
    <2> QED BY <2>1, <2>2
<1> QED BY <1>4, <1>5, <1>7, <1>8 DEF Listed

\* A list of tokens that go on is cut into micro batches that do.
LEMMA SlicesInSequence ==
    ASSUME NEW m, NEW toks \in Seq(AnyLoose), Continues(toks),
           NEW batch, batch = Slices(m, toks)
    PROVE  InSequence(batch) /\ WholeParts(batch)
<1>0. NUbatch \in Nat \ {0} /\ Len(toks) \in Nat /\ DOMAIN toks = 1 .. Len(toks)
    BY KvCacheAssumption
<1>1. ASSUME NEW k \in DOMAIN batch
      PROVE  /\ k \in Nat \ {0} /\ batch[k] # <<>> /\ \A j \in DOMAIN batch[k] : batch[k][j].toks # <<>>
             /\ \A tok \in Tokens(batch[k]) : \E j \in DOMAIN toks :
                    /\ tok = toks[j]
                    /\ (k - 1) * NUbatch < j /\ j <= k * NUbatch
             /\ \A j \in DOMAIN toks : (k - 1) * NUbatch < j /\ j <= k * NUbatch =>
                    toks[j] \in Tokens(batch[k])
    <2>1. PICK a \in Nat, b \in Nat : k \in Nat \ {0} /\ Slice(batch, m, toks, k, a, b)
        BY SliceAt
    <2>2. /\ batch[k] # <<>> /\ \A j \in DOMAIN batch[k] : batch[k][j].toks # <<>>
          /\ \A tok : tok \in Tokens(batch[k]) <=> \E j \in a + 1 .. b : tok = toks[j]
        <3>1. Slice(batch, m, toks, k, a, b)
            BY <2>1
        <3>2. Listed(batch[k], toks, a, b)
            BY <3>1, SliceTokens
        <3> QED BY <3>2 DEF Listed
    <2>3. PICK c : c = k * NUbatch
        OBVIOUS
    <2>4. a = (k - 1) * NUbatch /\ b <= Len(toks) /\ b <= c /\ (b = Len(toks) \/ b = c)
        BY <2>1, <2>3 DEF Slice
    <2>5. c \in Nat
        BY <1>0, <2>1, <2>3
    <2>8. PICK n \in Nat : n = Len(toks) /\ DOMAIN toks = 1 .. n /\ b <= n /\ b <= c /\ (b = n \/ b = c)
        BY <1>0, <2>4
    <2>6. \A j \in a + 1 .. b : j \in DOMAIN toks /\ a < j /\ j <= c
        BY <2>1, <2>5, <2>8
    <2>7. \A j \in DOMAIN toks : a < j /\ j <= c => j \in a + 1 .. b
        BY <2>1, <2>5, <2>8
    <2> QED BY <2>1, <2>2, <2>3, <2>4, <2>6, <2>7
<1>2. ASSUME NEW k \in DOMAIN batch, NEW tok \in Tokens(batch[k]), NEW s \in tok.seqs
      PROVE  /\ NextPos(s) <= tok.pos
             /\ \A p \in NextPos(s) .. tok.pos :
                    \E l \in DOMAIN batch : l <= k /\ \E t \in Tokens(batch[l]) : s \in t.seqs /\ t.pos = p
             /\ \A l \in DOMAIN batch : l > k =>
                    \A t \in Tokens(batch[l]) : s \in t.seqs => tok.pos < t.pos
    <2>1. PICK j \in DOMAIN toks : /\ tok = toks[j]
                                   /\ (k - 1) * NUbatch < j /\ j <= k * NUbatch
        BY <1>1
    <2>2. /\ NextPos(s) <= tok.pos
          /\ \A p \in NextPos(s) .. tok.pos :
                 \E i \in DOMAIN toks : i <= j /\ s \in toks[i].seqs /\ toks[i].pos = p
          /\ \A i \in DOMAIN toks : i > j /\ s \in toks[i].seqs => tok.pos < toks[i].pos
        BY <2>1 DEF Continues
    <2>3. ASSUME NEW p \in NextPos(s) .. tok.pos
          PROVE  \E l \in DOMAIN batch : l <= k /\ \E t \in Tokens(batch[l]) : s \in t.seqs /\ t.pos = p
        <3>1. PICK i \in DOMAIN toks : i <= j /\ s \in toks[i].seqs /\ toks[i].pos = p
            BY <2>2
        <3>2. PICK q \in Nat : q * NUbatch <= i - 1 /\ i - 1 < q * NUbatch + NUbatch
            <4>1. i - 1 \in Nat
                BY <1>0
            <4> QED BY <1>0, <4>1, Division
        <3>3. q < k
            <4> SUFFICES ASSUME ~(q < k)
                         PROVE  FALSE
                OBVIOUS
            <4>1. k \in Nat /\ q \in Nat
                BY <1>1, <3>2
            <4>2. k * NUbatch <= q * NUbatch
                <5>1. CASE k = q
                    <6>1. PICK u \in Int : u = q * NUbatch
                        BY <1>0, <4>1
                    <6>2. k * NUbatch = u
                        BY <5>1, <6>1
                    <6> QED BY <6>1, <6>2
                <5>2. CASE k < q
                    <6>1. k * NUbatch + NUbatch <= q * NUbatch
                        BY <1>0, <4>1, <5>2, Multiples
                    <6>2. PICK u \in Int, w \in Int : u = k * NUbatch /\ w = q * NUbatch
                        BY <1>0, <4>1
                    <6> QED BY <1>0, <6>1, <6>2
                <5> QED BY <4>1, <5>1, <5>2
            <4>3. PICK u \in Int, w \in Int : u = k * NUbatch /\ w = q * NUbatch
                BY <1>0, <4>1
            <4>4. i \in Int /\ j \in Int /\ i <= j /\ j <= u /\ u <= w /\ w <= i - 1
                BY <1>0, <2>1, <3>1, <3>2, <4>2, <4>3
            <4> QED BY <4>4
        <3>4. q + 1 \in DOMAIN batch
            <4>1. DOMAIN batch = 1 .. (Len(toks) + NUbatch - 1) \div NUbatch
                BY DEF Slices
            <4>2. (Len(toks) + NUbatch - 1) \div NUbatch \in Nat
                <5>1. Len(toks) + NUbatch - 1 \in Nat
                    BY <1>0
                <5> QED BY <1>0, <5>1, Division
            <4> QED BY <1>1, <3>2, <3>3, <4>1, <4>2
        <3>5. (q + 1) * NUbatch = q * NUbatch + NUbatch /\ (q + 1) - 1 = q
            BY <1>0, <3>2
        <3>6. PICK u \in Int : u = q * NUbatch
            BY <1>0, <3>2
        <3>7. i \in Int /\ u <= i - 1 /\ i - 1 < u + NUbatch
            BY <1>0, <3>2, <3>6
        <3>8. u < i /\ i <= u + NUbatch
            BY <1>0, <3>7
        <3>9. toks[i] \in Tokens(batch[q + 1])
            BY <1>1, <3>4, <3>5, <3>6, <3>8
        <3>10. q + 1 <= k
            BY <1>1, <3>2, <3>3
        <3> QED BY <3>1, <3>4, <3>9, <3>10
    <2>4. ASSUME NEW l \in DOMAIN batch, l > k, NEW t \in Tokens(batch[l]), s \in t.seqs
          PROVE  tok.pos < t.pos
        <3>1. PICK i \in DOMAIN toks : t = toks[i] /\ (l - 1) * NUbatch < i
            BY <1>1
        <3>2. k * NUbatch <= (l - 1) * NUbatch
            <4>1. k \in Nat /\ l \in Nat /\ l - 1 \in Nat
                BY <1>1
            <4>2. CASE k = l - 1
                <5>1. PICK u \in Int : u = k * NUbatch
                    BY <1>0, <4>1
                <5>2. (l - 1) * NUbatch = u
                    BY <4>2, <5>1
                <5> QED BY <5>1, <5>2
            <4>3. CASE k < l - 1
                <5>1. k * NUbatch + NUbatch <= (l - 1) * NUbatch
                    BY <1>0, <4>1, <4>3, Multiples
                <5>2. PICK u \in Int, w \in Int : u = k * NUbatch /\ w = (l - 1) * NUbatch
                    BY <1>0, <4>1
                <5> QED BY <1>0, <5>1, <5>2
            <4> QED BY <2>4, <4>1, <4>2, <4>3
        <3>3. PICK u \in Int, w \in Int : u = k * NUbatch /\ w = (l - 1) * NUbatch
            BY <1>0, <1>1
        <3>4. i > j
            <4>1. i \in Int /\ j \in Int /\ j <= u /\ u <= w /\ w < i
                BY <1>0, <2>1, <3>1, <3>2, <3>3
            <4> QED BY <4>1
        <3> QED BY <2>2, <2>4, <3>1, <3>4
    <2> QED BY <2>2, <2>3, <2>4
<1>3. InSequence(batch)
    BY <1>2 DEF InSequence
<1>4. WholeParts(batch)
    BY <1>1 DEF WholeParts
<1> QED BY <1>3, <1>4

LEMMA AcceptedNext ==
    ASSUME Unified, NEW sets, Accepted(sets), NEW k \in DOMAIN sets, NEW s \in sets[k], NEW u \in sets[k]
    PROVE  NextPos(s) = NextPos(u)
<1>1. seq_pos_max(v_cells[0], s) = seq_pos_max(v_cells[0], u)
    BY DEF Accepted
<1>2. seq_to_stream(s) = 0 /\ seq_to_stream(u) = 0
    BY DEF seq_to_stream
<1> QED BY <1>1, <1>2 DEF NextPos

\* The tokens of a sequence are counted up one by one.
LEMMA EarlierGrows ==
    ASSUME NEW sets, NEW s, NEW j \in Nat \ {0}, NEW i \in Nat, j < i, s \in sets[j]
    PROVE  Earlier(sets, s, j) < Earlier(sets, s, i)
<1> DEFINE B(k) == {l \in 1 .. k - 1 : s \in sets[l]}
<1>1. ASSUME NEW k \in Nat \ {0}
      PROVE  IsFiniteSet(B(k)) /\ Cardinality(B(k)) \in Nat /\ Earlier(sets, s, k) = Cardinality(B(k))
    <2>1. B(k) \subseteq 1 .. k - 1 /\ IsFiniteSet(1 .. k - 1)
        BY FS_Interval
    <2> QED BY <2>1, FS_Subset, FS_CardinalityType DEF Earlier
<1>2. j \notin B(j) /\ B(j) \cup {j} \subseteq B(i)
    OBVIOUS
<1>3. i \in Nat \ {0}
    OBVIOUS
<1> HIDE DEF B
<1>4. Cardinality(B(j) \cup {j}) = Cardinality(B(j)) + 1
    BY <1>1, <1>2, FS_AddElement
<1>5. Cardinality(B(j) \cup {j}) <= Cardinality(B(i))
    BY <1>1, <1>2, <1>3, FS_Subset
<1> QED BY <1>1, <1>3, <1>4, <1>5

LEMMA EarlierHits ==
    ASSUME NEW sets, NEW s, NEW j \in Nat \ {0}, NEW e \in Nat, e < Earlier(sets, s, j)
    PROVE  \E i \in 1 .. j - 1 : s \in sets[i] /\ Earlier(sets, s, i) = e
<1> DEFINE B(k) == {l \in 1 .. k - 1 : s \in sets[l]}
           K == B(j)
<1>1. ASSUME NEW k \in Nat \ {0}
      PROVE  IsFiniteSet(B(k)) /\ Cardinality(B(k)) \in Nat /\ Earlier(sets, s, k) = Cardinality(B(k))
    <2>1. B(k) \subseteq 1 .. k - 1 /\ IsFiniteSet(1 .. k - 1)
        BY FS_Interval
    <2> QED BY <2>1, FS_Subset, FS_CardinalityType DEF Earlier
<1>2. K \subseteq Nat /\ K \subseteq 1 .. j - 1
    OBVIOUS
<1>3. e + 1 \in 1 .. Cardinality(K)
    <2>1. PICK c \in Nat : c = Cardinality(K) /\ e < c
        BY <1>1
    <2> QED BY <2>1
<1>4. PICK i \in K : Cardinality({l \in K : l <= i}) = e + 1
    <2> HIDE DEF K
    <2> QED BY <1>1, <1>2, <1>3, NthOf DEF K
<1>5. i \in 1 .. j - 1 /\ i \in Nat \ {0} /\ s \in sets[i]
    OBVIOUS
<1>6. {l \in K : l <= i} = B(i) \cup {i} /\ i \notin B(i)
    BY <1>5
<1> HIDE DEF B, K
<1>7. Cardinality(B(i) \cup {i}) = Cardinality(B(i)) + 1
    BY <1>1, <1>5, <1>6, FS_AddElement
<1>8. Cardinality(B(i)) = e
    BY <1>1, <1>4, <1>5, <1>6, <1>7
<1> QED BY <1>1, <1>5, <1>8

\* A list of sequence sets whose members agree on where they go on.
Agreeing(sets) ==
    \A k \in DOMAIN sets : \A s, t \in sets[k] :
        Earlier(sets, s, k) = Earlier(sets, t, k) /\ NextPos(s) = NextPos(t)

LEMMA TokensContinue ==
    ASSUME State \in GoodStates, NEW n \in Nat, NEW sets \in [1 .. n -> (SUBSET Seqs) \ {{}}],
           Agreeing(sets)
    PROVE  TokensOf(sets) \in Seq(AnyLoose) /\ Continues(TokensOf(sets))
<1>1. PICK f : f = TokensOf(sets)
    OBVIOUS
<1>2. DOMAIN f = 1 .. n /\ f = [k \in 1 .. n |-> f[k]]
    BY <1>1 DEF TokensOf
<1>3. ASSUME NEW k \in 1 .. n
      PROVE  /\ f[k] \in AnyLoose /\ f[k].seqs = sets[k]
             /\ \A s \in sets[k] : /\ NextPos(s) \in Nat /\ Earlier(sets, s, k) \in Nat
                                   /\ f[k].pos = NextPos(s) + Earlier(sets, s, k)
    <2>1. PICK T : T = sets[k] /\ T \in (SUBSET Seqs) \ {{}}
        OBVIOUS
    <2>2. T \subseteq Nat /\ T # {} /\ T \subseteq Seqs
        <3>1. T \in SUBSET Seqs /\ T # {}
            BY <2>1
        <3>2. Seqs \subseteq Nat
            BY KvCellsAssumption
        <3> QED BY <3>1, <3>2
    <2>3. PICK u \in T : u = Least(T)
        BY <2>2, LeastOf
    <2>4. f[k] = [pos |-> NextPos(u) + Earlier(sets, u, k), seqs |-> T]
        BY <1>1, <2>1, <2>3 DEF TokensOf
    <2>5. \A s \in T : NextPos(s) \in Nat /\ Earlier(sets, s, k) \in Nat
        BY <2>2, NextPosNat, EarlierNat
    <2>6. \A s \in T : NextPos(u) = NextPos(s) /\ Earlier(sets, u, k) = Earlier(sets, s, k)
        BY <2>1, <2>3 DEF Agreeing
    <2>7. f[k].seqs = T /\ f[k].pos = NextPos(u) + Earlier(sets, u, k)
        BY <2>4
    <2>8. f[k] \in AnyLoose
        BY <2>2, <2>3, <2>4, <2>5 DEF AnyLoose
    <2>9. \A s \in T : f[k].pos = NextPos(s) + Earlier(sets, s, k)
        BY <2>6, <2>7
    <2> QED BY <2>1, <2>5, <2>7, <2>8, <2>9
<1>4. f \in Seq(AnyLoose)
    BY <1>2, <1>3, Listing
<1>5. ASSUME NEW j \in 1 .. n, NEW s \in sets[j], NEW x \in Nat, x = NextPos(s),
             NEW e \in Nat, e = Earlier(sets, s, j), f[j].pos = x + e
      PROVE  /\ x <= f[j].pos
             /\ \A p \in x .. f[j].pos : \E i \in 1 .. n : i <= j /\ s \in sets[i] /\ f[i].pos = p
             /\ \A i \in 1 .. n : i > j /\ s \in sets[i] => f[j].pos < f[i].pos
    <2>1. ASSUME NEW p \in x .. x + e
          PROVE  \E i \in 1 .. n : i <= j /\ s \in sets[i] /\ f[i].pos = p
        <3>1. CASE p = x + e
            BY <1>5, <3>1
        <3>2. CASE p # x + e
            <4>1. p - x \in Nat /\ p - x < e /\ j \in Nat \ {0}
                BY <3>2
            <4>2. PICK i \in 1 .. j - 1 : s \in sets[i] /\ Earlier(sets, s, i) = p - x
                BY <1>5, <4>1, EarlierHits
            <4>3. i \in 1 .. n /\ i <= j
                OBVIOUS
            <4>4. f[i].pos = x + (p - x)
                BY <1>3, <1>5, <4>2, <4>3
            <4> QED BY <4>2, <4>3, <4>4
        <3> QED BY <3>1, <3>2
    <2>2. ASSUME NEW i \in 1 .. n, i > j, s \in sets[i]
          PROVE  f[j].pos < f[i].pos
        <3>1. PICK d \in Nat : d = Earlier(sets, s, i) /\ f[i].pos = x + d
            BY <1>3, <1>5, <2>2
        <3>2. e < d
            <4>1. j \in Nat \ {0} /\ i \in Nat /\ j < i
                BY <2>2
            <4> QED BY <1>5, <3>1, <4>1, EarlierGrows
        <3> QED BY <1>5, <3>1, <3>2
    <2> QED BY <1>5, <2>1, <2>2
<1>6. Continues(f)
    <2> SUFFICES ASSUME NEW j \in DOMAIN f, NEW s \in f[j].seqs
                 PROVE  /\ NextPos(s) <= f[j].pos
                        /\ \A p \in NextPos(s) .. f[j].pos :
                               \E i \in DOMAIN f : i <= j /\ s \in f[i].seqs /\ f[i].pos = p
                        /\ \A i \in DOMAIN f : i > j /\ s \in f[i].seqs => f[j].pos < f[i].pos
        BY Zenon DEF Continues
    <2>1. j \in 1 .. n /\ s \in sets[j] /\ DOMAIN f = 1 .. n /\ \A i \in 1 .. n : f[i].seqs = sets[i]
        BY <1>2, <1>3
    <2>2. PICK x \in Nat, e \in Nat : x = NextPos(s) /\ e = Earlier(sets, s, j) /\ f[j].pos = x + e
        BY <1>3, <2>1
    <2>3. /\ x <= f[j].pos
          /\ \A p \in x .. f[j].pos : \E i \in 1 .. n : i <= j /\ s \in sets[i] /\ f[i].pos = p
          /\ \A i \in 1 .. n : i > j /\ s \in sets[i] => f[j].pos < f[i].pos
        BY <1>5, <2>1, <2>2
    <2> QED BY <2>1, <2>2, <2>3
<1> QED BY <1>1, <1>4, <1>6

LEMMA RunContinues ==
    ASSUME State \in GoodStates, NEW s \in Seqs, NEW n \in Nat
    PROVE  Run(s, n) \in Seq(AnyLoose) /\ Continues(Run(s, n))
<1>1. PICK sets : sets = [k \in 1 .. n |-> {s}]
    OBVIOUS
<1>2. sets \in [1 .. n -> (SUBSET Seqs) \ {{}}]
    <2>1. {s} \in (SUBSET Seqs) \ {{}}
        OBVIOUS
    <2> QED BY <1>1, <2>1
<1>3. Agreeing(sets)
    <2>1. \A k \in DOMAIN sets : \A x \in sets[k] : x = s
        BY <1>1
    <2> QED BY <2>1, Zenon DEF Agreeing
<1> QED BY <1>1, <1>2, <1>3, TokensContinue DEF Run

LEMMA OneToken ==
    ASSUME State \in GoodStates, NEW s \in Seqs
    PROVE  /\ Run(s, 1) = <<[pos |-> NextPos(s), seqs |-> {s}]>> /\ NextPos(s) \in Nat
           /\ [pos |-> NextPos(s), seqs |-> {s}] \in AnyLoose
<1>1. PICK x \in Nat : x = NextPos(s)
    BY NextPosNat
<1>2. PICK sets : sets = [k \in 1 .. 1 |-> {s}]
    OBVIOUS
<1>3. Least({s}) = s
    <2>1. {s} \subseteq Nat /\ {s} # {}
        BY KvCellsAssumption
    <2> QED BY <2>1, LeastOf
<1>4. Earlier(sets, s, 1) = 0
    <2>1. {j \in 1 .. 1 - 1 : s \in sets[j]} = {}
        OBVIOUS
    <2> QED BY <2>1, FS_EmptySet DEF Earlier
<1>5. TokensOf(sets) = [k \in 1 .. 1 |-> [pos |-> NextPos(Least(sets[k])) + Earlier(sets, Least(sets[k]), k),
                                          seqs |-> sets[k]]]
    BY <1>2 DEF TokensOf
<1>6. \A k \in 1 .. 1 : k = 1 /\ sets[k] = {s}
    BY <1>2
<1>7. x + 0 = x
    OBVIOUS
<1>8. TokensOf(sets) = [k \in 1 .. 1 |-> [pos |-> x, seqs |-> {s}]]
    BY <1>1, <1>3, <1>4, <1>5, <1>6, <1>7
<1>9. [k \in 1 .. 1 |-> [pos |-> x, seqs |-> {s}]] = <<[pos |-> x, seqs |-> {s}]>>
    OBVIOUS
<1> QED BY <1>1, <1>2, <1>8, <1>9 DEF Run, AnyLoose

\* Every token is the next of its sequence, which has no other in the batch.
LEMMA SingleTokens ==
    ASSUME NEW batch, DOMAIN batch \subseteq Nat,
           \A k \in DOMAIN batch : \A tok \in Tokens(batch[k]) : \A x \in tok.seqs :
               /\ tok.pos \in Nat /\ NextPos(x) = tok.pos
               /\ \A l \in DOMAIN batch : l > k => \A t \in Tokens(batch[l]) : x \notin t.seqs
    PROVE  InSequence(batch)
<1> SUFFICES ASSUME NEW k \in DOMAIN batch, NEW tok \in Tokens(batch[k]), NEW x \in tok.seqs
             PROVE  /\ NextPos(x) <= tok.pos
                    /\ \A p \in NextPos(x) .. tok.pos :
                           \E l \in DOMAIN batch : l <= k /\ \E t \in Tokens(batch[l]) : x \in t.seqs /\ t.pos = p
                    /\ \A l \in DOMAIN batch : l > k =>
                           \A t \in Tokens(batch[l]) : x \in t.seqs => tok.pos < t.pos
    BY Zenon DEF InSequence
<1>1. PICK q \in Nat : q = NextPos(x) /\ q = tok.pos
    OBVIOUS
<1>2. q <= q /\ (\A p \in q .. q : p = q) /\ k <= k
    OBVIOUS
<1> QED BY <1>1, <1>2

\* One token of each of two streams, in one micro batch or in two.
LEMMA StreamsInSequence ==
    ASSUME State \in GoodStates, NEW s \in Seqs, NEW t \in Seqs, s # t
    PROVE  InSequence(SplitPair(s, t)) /\ WholeParts(SplitPair(s, t))
<1>1. PICK a \in AnyLoose, b \in AnyLoose :
          /\ a = [pos |-> NextPos(s), seqs |-> {s}] /\ b = [pos |-> NextPos(t), seqs |-> {t}]
          /\ a.pos \in Nat /\ b.pos \in Nat
    BY OneToken
<1>2. a.pos = NextPos(s) /\ a.seqs = {s} /\ b.pos = NextPos(t) /\ b.seqs = {t}
    BY <1>1
<1>3. PICK y, z : y = [strm |-> s, toks |-> <<a>>] /\ z = [strm |-> t, toks |-> <<b>>]
    OBVIOUS
<1>4. SplitPair(s, t) = IF t = s + 1 THEN <<<<y, z>>>> ELSE <<<<y>>, <<z>>>>
    <2>1. Run(s, 1) = <<a>> /\ Run(t, 1) = <<b>>
        BY <1>1, OneToken
    <2> QED BY <1>3, <2>1 DEF SplitPair
<1>5. \A e : ToSet(<<e>>) = {e}
    <2> SUFFICES ASSUME NEW e
                 PROVE  ToSet(<<e>>) = {e}
        OBVIOUS
    <2>1. DOMAIN <<e>> = {1} /\ <<e>>[1] = e
        OBVIOUS
    <2> QED BY <2>1, Zenon DEF ToSet
<1>6. y.toks = <<a>> /\ z.toks = <<b>>
    BY <1>3
<1>7. PICK u, v, w : u = <<y, z>> /\ v = <<y>> /\ w = <<z>>
    OBVIOUS
<1>8. Tokens(u) = {a, b} /\ Tokens(v) = {a} /\ Tokens(w) = {b}
    <2>1. ASSUME NEW p, NEW q
          PROVE  Tokens(<<p, q>>) = ToSet(p.toks) \cup ToSet(q.toks) /\ Tokens(<<p>>) = ToSet(p.toks)
        <3>1. DOMAIN <<p, q>> = {1, 2} /\ <<p, q>>[1] = p /\ <<p, q>>[2] = q
            OBVIOUS
        <3>2. DOMAIN <<p>> = {1} /\ <<p>>[1] = p
            OBVIOUS
        <3>3. {ToSet(<<p, q>>[k].toks) : k \in DOMAIN <<p, q>>} = {ToSet(p.toks), ToSet(q.toks)}
            BY <3>1
        <3>4. {ToSet(<<p>>[k].toks) : k \in DOMAIN <<p>>} = {ToSet(p.toks)}
            BY <3>2
        <3> QED BY <3>3, <3>4 DEF Tokens
    <2>2. Tokens(<<y, z>>) = ToSet(y.toks) \cup ToSet(z.toks)
        BY <2>1
    <2>3. Tokens(<<y>>) = ToSet(y.toks) /\ Tokens(<<z>>) = ToSet(z.toks)
        BY <2>1
    <2>4. ToSet(y.toks) = {a} /\ ToSet(z.toks) = {b}
        BY <1>5, <1>6
    <2>5. {a} \cup {b} = {a, b}
        OBVIOUS
    <2> QED BY <1>7, <2>2, <2>3, <2>4, <2>5
<1>9. CASE t = s + 1
    <2>1. PICK batch : batch = SplitPair(s, t) /\ batch = <<u>>
        BY <1>4, <1>7, <1>9
    <2>2. DOMAIN batch = {1} /\ batch[1] = u
        BY <2>1
    <2>3. WholeParts(batch)
        BY <1>6, <1>7, <2>2 DEF WholeParts
    <2>4. InSequence(batch)
        <3>1. \A l \in DOMAIN batch : ~(l > 1)
            BY <2>2
        <3> QED BY <1>1, <1>2, <1>8, <2>2, <3>1, SingleTokens
    <2> QED BY <2>1, <2>3, <2>4
<1>10. CASE t # s + 1
    <2>1. PICK batch : batch = SplitPair(s, t) /\ batch = <<v, w>>
        BY <1>4, <1>7, <1>10
    <2>2. DOMAIN batch = {1, 2} /\ batch[1] = v /\ batch[2] = w
        BY <2>1
    <2>3. WholeParts(batch)
        <3>1. v # <<>> /\ DOMAIN v = {1} /\ v[1] = y /\ w # <<>> /\ DOMAIN w = {1} /\ w[1] = z
            BY <1>7
        <3>2. y.toks # <<>> /\ z.toks # <<>>
            BY <1>6
        <3>3. v # <<>> /\ \A j \in DOMAIN v : v[j].toks # <<>>
            BY <3>1, <3>2
        <3>4. w # <<>> /\ \A j \in DOMAIN w : w[j].toks # <<>>
            BY <3>1, <3>2
        <3>5. \A k \in DOMAIN batch : batch[k] = v \/ batch[k] = w
            BY <2>2
        <3> QED BY <3>3, <3>4, <3>5, Zenon DEF WholeParts
    <2>4. InSequence(batch)
        <3>1. \A l \in DOMAIN batch : ~(l > 2) /\ (l > 1 => l = 2)
            BY <2>2
        <3>2. s \notin b.seqs
            BY <1>2
        <3>3. ASSUME NEW k \in DOMAIN batch, NEW tok \in Tokens(batch[k]), NEW x \in tok.seqs
              PROVE  /\ tok.pos \in Nat /\ NextPos(x) = tok.pos
                     /\ \A l \in DOMAIN batch : l > k => \A r \in Tokens(batch[l]) : x \notin r.seqs
            <4>1. CASE k = 1
                <5>1. tok = a /\ x = s
                    BY <1>2, <1>8, <2>2, <4>1
                <5>2. \A l \in DOMAIN batch : l > k => Tokens(batch[l]) = {b}
                    BY <1>8, <2>2, <3>1, <4>1
                <5> QED BY <1>1, <1>2, <3>2, <5>1, <5>2
            <4>2. CASE k = 2
                <5>1. tok = b /\ x = t
                    BY <1>2, <1>8, <2>2, <4>2
                <5> QED BY <1>1, <1>2, <3>1, <4>2, <5>1
            <4> QED BY <2>2, <4>1, <4>2
        <3>4. DOMAIN batch \subseteq Nat
            BY <2>2
        <3> QED BY <3>3, <3>4, SingleTokens
    <2> QED BY <2>1, <2>3, <2>4
<1> QED BY <1>9, <1>10

LEMMA BatchesInSequence ==
    ASSUME State \in GoodStates, NEW batch \in Batches
    PROVE  InSequence(batch) /\ WholeParts(batch)
<1>1. MaxBatch \in Nat
    BY KvCacheAssumption
<1>2. ASSUME Unified, NEW n \in 1 .. MaxBatch, NEW sets \in [1 .. n -> (SUBSET Seqs) \ {{}}],
             sets \in Lists, Accepted(sets), batch = Slices(0, TokensOf(sets))
      PROVE  InSequence(batch) /\ WholeParts(batch)
    <2>1. n \in Nat
        BY <1>1
    <2>2. \A k \in DOMAIN sets : \A s, t \in sets[k] : Earlier(sets, s, k) = Earlier(sets, t, k)
        BY <1>2 DEF Lists
    <2>3. Agreeing(sets)
        BY <1>2, <2>2, AcceptedNext DEF Agreeing
    <2>4. TokensOf(sets) \in Seq(AnyLoose) /\ Continues(TokensOf(sets))
        BY <2>1, <2>3, TokensContinue
    <2> QED BY <1>2, <2>4, SlicesInSequence
<1>3. ASSUME NEW s \in Seqs, NEW n \in 1 .. MaxBatch, batch = Slices(s, Run(s, n))
      PROVE  InSequence(batch) /\ WholeParts(batch)
    <2>1. n \in Nat
        BY <1>1
    <2> QED BY <1>3, <2>1, RunContinues, SlicesInSequence
<1> QED BY <1>2, <1>3, BatchForms, StreamsInSequence

-----------------------------------------------------------------------------
(***************************************************************************)
(* A batch that does not fit                                               *)
(***************************************************************************)
LEMMA UpdatedCells ==
    ASSUME State \in GoodStates, NEW m \in Streams
    PROVE  /\ Updated.v[m].used = v_cells[m].used
           /\ Updated.v[m].pos = v_cells[m].pos /\ Updated.v[m].seq = v_cells[m].seq
<1>1. PICK c \in KvCellsType : c = v_cells[m]
    BY Stream
<1>2. reset_shift(c).used = c.used /\ reset_shift(c).pos = c.pos /\ reset_shift(c).seq = c.seq
    BY DEF reset_shift, KvCellsType
<1>3. Updated.v[m] = IF HasShift THEN reset_shift(c) ELSE c
    BY <1>1 DEF Updated
<1> QED BY <1>1, <1>2, <1>3

LEMMA NoSlot ==
    ASSUME State \in GoodStates, NEW batch \in Batches,
           batch \in Seq(Ubatches), batch \in Seq(Seq(Parts)),
           NEW p, p = prepare(Updated, batch), ~p.ok
    PROVE  \E m \in Streams : Size - Cardinality(v_cells[m].used) < NTokens(batch)
<1>1. Updated \in StillStates
    BY UpdatedStill
<1>2. PICK x, n : /\ n \in 1 .. Len(batch) /\ Trial(x, Updated, batch, n - 1)
                  /\ find_slot(x[n - 1], batch[n]) = <<>>
    BY <1>1, TrialStops
<1>3. PICK ub, y : /\ ub \in Seq(Parts) /\ ub = batch[n] /\ y = x[n - 1]
                   /\ find_slot(y, ub) = <<>>
    BY <1>2
<1>4. n \in Nat \ {0} /\ n - 1 \in Nat /\ n \in DOMAIN batch
    BY <1>2
<1>5. x[0] = Updated /\ y \in StillStates /\ \A k \in 0 .. n - 1 : x[k] \in StillStates
    <2>1. n - 1 \in 0 .. n - 1
        BY <1>4
    <2> QED BY <1>2, <1>3, <2>1 DEF Trial
<1>6. ub # <<>> /\ \A k \in DOMAIN ub : ub[k].toks # <<>>
    BY <1>3, <1>4, BatchesInSequence DEF WholeParts
<1>7. PICK k \in DOMAIN ub : FindCells(y.v[ub[k].strm], y.h[ub[k].strm], Len(ub[k].toks)) = <<>>
    <2>1. PICK z : z = [k \in DOMAIN ub |->
                           FindCells(y.v[ub[k].strm], y.h[ub[k].strm], Len(ub[k].toks))]
        OBVIOUS
    <2>2. find_slot(y, ub) = IF \E k \in DOMAIN ub : z[k] = <<>> THEN <<>> ELSE z
        BY <2>1 DEF find_slot
    <2>3. z # <<>>
        <3>1. DOMAIN z = DOMAIN ub /\ DOMAIN ub = 1 .. Len(ub) /\ Len(ub) \in Nat \ {0}
            BY <1>6, <2>1
        <3>2. 1 \in DOMAIN z
            BY <3>1
        <3> QED BY <3>2
    <2> QED BY <1>3, <2>1, <2>2, <2>3
<1>8. PICK m \in Streams, l \in Nat \ {0} : m = ub[k].strm /\ l = Len(ub[k].toks)
    <2>1. ub[k].strm \in Streams /\ ub[k].toks \in Seq(TokensIn(ub[k].strm))
        BY <1>3, <1>7, PartFields
    <2>2. PICK toks \in Seq(TokensIn(ub[k].strm)) : toks = ub[k].toks
        BY <2>1
    <2>3. Len(toks) \in Nat \ {0}
        BY <1>6, <2>2
    <2> QED BY <2>1, <2>2, <2>3
<1>9. Size - Cardinality(y.v[m].used) < l
    <2>1. Consistent(y.v[m]) /\ y.h[m] \in 0 .. Size
        BY <1>5 DEF StillStates, GoodStates, States, Sound
    <2> QED BY <1>7, <1>8, <2>1, FindCellsFails
<1> DEFINE Used(j) == Cardinality(x[j].v[m].used)
           u == [j \in 0 .. n |-> IF j < n THEN Used(j) ELSE Used(n - 1) + l]
<1>10. \A j \in 0 .. n - 1 : Used(j) \in Nat
    <2> SUFFICES ASSUME NEW j \in 0 .. n - 1
                 PROVE  Used(j) \in Nat
        OBVIOUS
    <2>1. Consistent(x[j].v[m])
        BY <1>5 DEF StillStates, GoodStates, Sound
    <2> QED BY <2>1, UsedSize
<1>11. ASSUME NEW j \in 1 .. n - 1
       PROVE  Used(j) <= Used(j - 1) + TokensCount(batch[j])
    <2>1. j - 1 \in 0 .. n - 1 /\ j \in DOMAIN batch
        BY <1>2, <1>4
    <2>2. PICK S \in StillStates : S = x[j - 1]
        BY <1>5, <2>1
    <2>6. PICK w \in Seq(Parts) : w = batch[j]
        BY <2>1
    <2>7. PICK slot : slot = find_slot(S, w)
        OBVIOUS
    <2>3. slot # <<>> /\ x[j] = apply_ubatch(S, w, slot)
        BY <1>2, <2>2, <2>6, <2>7 DEF Trial
    <2>4. slot \in Slots(w)
        <3>1. S \in States
            BY <2>2 DEF StillStates, GoodStates
        <3> QED BY <2>7, <2>3, <3>1, FindSlotGives
    <2>5. Apart(w)
        BY <2>1, <2>6, BatchesApart DEF AllApart
    <2> QED BY <2>2, <2>6, <2>7, <2>3, <2>4, <2>5, UsedGrows
<1> HIDE DEF Used
<1>12. l <= TokensCount(ub) /\ TokensCount(ub) \in Nat
    BY <1>3, <1>7, <1>8, CountLoop
<1>13. Grown(u, n, batch)
    <2>1. \A j \in 0 .. n - 1 : u[j] = Used(j)
        BY <1>4
    <2>2. u[n] = Used(n - 1) + l
        BY <1>4
    <2>3. n - 1 \in 0 .. n - 1
        BY <1>4
    <2>4. u \in [0 .. n -> Nat]
        <3>1. \A j \in 0 .. n : j < n => j \in 0 .. n - 1
            BY <1>4
        <3> QED BY <1>8, <1>10, <2>3, <3>1
    <2>5. ASSUME NEW j \in 1 .. n
          PROVE  u[j] <= u[j - 1] + TokensCount(batch[j])
        <3>1. j - 1 \in 0 .. n - 1 /\ (j = n \/ j \in 1 .. n - 1)
            BY <1>4
        <3> HIDE DEF u
        <3>2. CASE j = n
            <4>1. PICK a \in Nat : a = Used(n - 1)
                BY <1>10, <2>3
            <4>2. u[j - 1] = a /\ u[j] = a + l
                BY <2>1, <2>2, <2>3, <3>2, <4>1
            <4>3. PICK t \in Nat : t = TokensCount(batch[j]) /\ l <= t
                BY <1>3, <1>12, <3>2
            <4> QED BY <4>1, <4>2, <4>3
        <3>3. CASE j \in 1 .. n - 1
            <4>1. j \in 0 .. n - 1
                BY <1>4, <3>3
            <4> QED BY <1>11, <2>1, <3>1, <3>3, <4>1
        <3> QED BY <3>1, <3>2, <3>3
    <2> HIDE DEF u
    <2> QED BY <2>4, <2>5 DEF Grown
<1>14. NTokens(batch) \in Nat /\ u[n] <= u[0] + NTokens(batch)
    <2>1. n \in 0 .. Len(batch)
        BY <1>2
    <2> HIDE DEF u
    <2> QED BY <1>13, <2>1, TotalLoop
<1>15. u[0] = Cardinality(v_cells[m].used)
    BY <1>4, <1>5, UpdatedCells DEF Used
<1>16. PICK a \in Nat : a = Used(n - 1) /\ u[n] = a + l /\ a = Cardinality(y.v[m].used)
    <2>1. n - 1 \in 0 .. n - 1 /\ n \in 0 .. n
        BY <1>4
    <2>2. u[n] = Used(n - 1) + l
        BY <2>1
    <2> QED BY <1>3, <1>10, <2>1, <2>2 DEF Used
<1>17. u[0] \in Nat
    BY <1>13, <1>4 DEF Grown
<1> HIDE DEF u
<1>18. Size - Cardinality(v_cells[m].used) < NTokens(batch)
    <2>1. PICK e \in Nat, t \in Nat : e = u[0] /\ t = NTokens(batch)
        BY <1>14, <1>17
    <2>2. Size \in Nat /\ Size - a < l /\ a + l <= e + t
        BY <1>9, <1>14, <1>16, <2>1, KvCellsAssumption
    <2>3. Size - e < t
        BY <1>8, <1>16, <2>1, <2>2
    <2> QED BY <1>15, <2>1, <2>3
<1> QED BY <1>18

\* Only decode() reports anything.
LEMMA OnlyDecode ==
    ASSUME Next, outcome' # Quiet
    PROVE  deviation = "none" /\ \E batch \in Batches : Decode(batch)
<1>1. ~Clear
    BY DEF Clear, Done
<1>2. ASSUME NEW s \in Seqs
      PROVE  ~SeqKeep(s) /\ ~SaveSeq(s) /\ ~LoadSeq(s)
    BY DEF SeqKeep, SaveSeq, LoadSeq, Done
<1>3. ASSUME NEW r \in Ranges
      PROVE  /\ ~SeqRmAny(r[1], r[2])
             /\ \A s \in Seqs : /\ ~SeqRm(s, r[1], r[2]) /\ ~SeqDiv(s, r[1], r[2], 2)
                                /\ \A d \in Shifts : ~SeqAdd(s, r[1], r[2], d)
             /\ \A s, t \in Seqs : ~SeqCpShare(s, t, r[1], r[2])
    BY DEF SeqRmAny, SeqRm, SeqDiv, SeqAdd, SeqCpShare, Done
<1>4. ASSUME NEW s \in Seqs, NEW t \in Seqs
      PROVE  ~SeqCpStream(s, t)
    BY DEF SeqCpStream, Done
<1>5. deviation = "none" /\ Operation
    BY <1>1, Zenon DEF Next
<1> QED BY <1>2, <1>3, <1>4, <1>5, Zenon DEF Operation

\* The tokens of a batch are within the positions that the model knows.
LEMMA DecodeTyped ==
    ASSUME State \in GoodStates, NEW batch \in Batches, Decode(batch)
    PROVE  batch \in Seq(Ubatches) /\ batch \in Seq(Seq(Parts))
<1>1. batch \in Seq(LooseUbatches)
    BY BatchesTyped
<1>2. \A k \in DOMAIN batch : \A tok \in Tokens(batch[k]) : tok.pos <= MaxPos
    BY DEF Decode
<1> QED BY <1>1, <1>2, WithinBound

\* decode() reports a full cache only if some stream has fewer empty cells than the
\* batch has tokens: neither the heads, nor the masked cells that other sequences
\* hold, nor the micro batches placed before make it give up earlier.
THEOREM NoSlotMeansFull == Spec => NoSlotOnlyWhenFull
<1>1. CacheInv /\ [Next]_vars =>
          [outcome'.call = "no_slot" =>
               \E m \in Streams : Size - Cardinality(v_cells[m].used) < outcome'.n]_vars
    <2> SUFFICES ASSUME CacheInv, Next, outcome'.call = "no_slot"
                 PROVE  \E m \in Streams : Size - Cardinality(v_cells[m].used) < outcome'.n
        OBVIOUS
    <2>1. outcome' # Quiet
        BY DEF Quiet
    <2>2. PICK batch \in Batches : Decode(batch)
        BY <2>1, OnlyDecode
    <2>3. State \in GoodStates
        BY DEF CacheInv
    <2>4. batch \in Seq(Ubatches) /\ batch \in Seq(Seq(Parts))
        BY <2>2, <2>3, DecodeTyped
    <2>5. PICK p : p = prepare(Updated, batch) /\ DecodeNoSlot(batch, p)
        <3>1. PICK p : /\ p = prepare(Updated, batch)
                       /\ \/ DecodeOk(batch, p)
                          \/ DecodeNoSlot(batch, p)
                          \/ \E k \in DOMAIN batch, wrote \in BOOLEAN : DecodeFails(batch, p, k, wrote)
            BY <2>2 DEF Decode
        <3>2. ~DecodeOk(batch, p)
            BY DEF DecodeOk, Decoded
        <3>3. \A k, wrote : ~DecodeFails(batch, p, k, wrote)
            BY DEF DecodeFails, Decoded
        <3> QED BY <3>1, <3>2, <3>3
    <2>6. ~p.ok /\ outcome'.n = NTokens(batch)
        BY <2>5 DEF DecodeNoSlot, Decoded
    <2> QED BY <2>3, <2>4, <2>5, <2>6, NoSlot
<1> QED BY <1>1, CacheInvariant, PTL DEF Spec, NoSlotOnlyWhenFull

-----------------------------------------------------------------------------
(***************************************************************************)
(* What a micro batch overwrites                                           *)
(***************************************************************************)
\* A position that is masked stays masked for later tokens, and so are those
\* before it.
LEMMA MaskGrows ==
    ASSUME NEW q \in Nat, NEW a \in Nat, NEW b \in Nat, NEW d \in Nat, q <= a, a < b, b <= d,
           is_masked_swa(a, b)
    PROVE  is_masked_swa(q, d)
<1>1. NSwa \in Nat \ {0} /\ SwaType \in {"none", "standard", "chunked", "symmetric"}
    BY KvCacheAssumption
<1>2. CASE SwaType = "none"
    BY <1>2 DEF is_masked_swa
<1>3. CASE SwaType = "standard"
    <2>1. b - a >= NSwa
        BY <1>3 DEF is_masked_swa
    <2>2. d - q >= NSwa
        BY <1>1, <2>1
    <2> QED BY <1>3, <2>2 DEF is_masked_swa
<1>4. CASE SwaType = "chunked"
    <2>1. a < (b \div NSwa) * NSwa
        BY <1>4 DEF is_masked_swa
    <2>2. PICK k, l \in Nat : k = b \div NSwa /\ l = d \div NSwa
        BY <1>1, Division
    <2>3. k * NSwa <= b /\ d < l * NSwa + NSwa
        BY <1>1, <2>2, Division
    <2>4. PICK x, y, z \in Nat : x = k * NSwa /\ y = l * NSwa /\ z = NSwa
        BY <1>1, <2>2
    <2>5. x <= y
        <3>1. CASE k = l
            BY <2>4, <3>1
        <3>2. CASE k < l
            <4>1. x + z <= y
                BY <1>1, <2>2, <2>4, <3>2, Multiples
            <4> QED BY <2>4, <4>1
        <3>3. CASE l < k
            <4>1. y + z <= x
                BY <1>1, <2>2, <2>4, <3>3, Multiples
            <4>2. x <= b /\ d < y + z
                BY <2>3, <2>4
            <4> QED BY <2>4, <4>1, <4>2
        <3> QED BY <2>2, <3>1, <3>2, <3>3
    <2>6. a < x
        BY <2>1, <2>2, <2>4
    <2>7. q < y
        BY <2>4, <2>5, <2>6
    <2>8. q < (d \div NSwa) * NSwa
        BY <2>2, <2>4, <2>7
    <2> QED BY <1>4, <2>8 DEF is_masked_swa
<1>5. CASE SwaType = "symmetric"
    <2>1. b - a \notin -(NSwa \div 2) .. NSwa \div 2
        BY <1>5 DEF is_masked_swa
    <2>2. PICK k \in Nat : k = NSwa \div 2
        BY <1>1, Division
    <2>3. b - a > k
        BY <2>1, <2>2
    <2>4. d - q \notin -k .. k
        BY <2>2, <2>3
    <2> QED BY <1>5, <2>2, <2>4 DEF is_masked_swa
<1> QED BY <1>1, <1>2, <1>3, <1>4, <1>5

\* A search finds only cells that can be used.
LEMMA FindCellsUse ==
    ASSUME NEW c, NEW head \in 0 .. Size, NEW n \in Nat, NEW k \in DOMAIN FindCells(c, head, n),
           FindCells(c, head, n) # <<>>
    PROVE  CanUse(c, FindCells(c, head, n)[k])
<1> DEFINE From(j) == (SearchFrom(c, head, n) + j) % Size
           usable == {j \in Cells : CanUse(c, From(j))}
<1>1. FindCells(c, head, n) = IF Cardinality(usable) < n THEN <<>>
                              ELSE [l \in 1 .. n |-> From(Nth(usable, l))]
    BY DEF FindCells
<1>2. usable \subseteq Nat /\ IsFiniteSet(usable)
    BY CellsFinite, FS_Subset, KvCellsAssumption DEF Cells
<1>3. Cardinality(usable) \in Nat
    BY <1>2, FS_CardinalityType
<1>4. \A j \in usable : CanUse(c, From(j))
    OBVIOUS
<1> HIDE DEF From, usable
<1>5. FindCells(c, head, n) = [l \in 1 .. n |-> From(Nth(usable, l))] /\ ~(Cardinality(usable) < n)
    BY <1>1
<1>6. k \in 1 .. Cardinality(usable)
    BY <1>3, <1>5
<1>7. Nth(usable, k) \in usable
    BY <1>2, <1>6, NthOf
<1> QED BY <1>4, <1>5, <1>7

\* Whatever the micro batch overwrites is masked for all that its sequence may
\* still be given.
Spent(S, ub, idxs) ==
    \A s \in Seqs, i \in Cells :
        Touched(ub, idxs, DOMAIN ub, seq_to_stream(s), i) /\ Has(S, s, i) =>
            \E q \in PositionsOf(S.v[seq_to_stream(s)], s) :
                At(S, s, i) <= q /\ is_masked_swa(At(S, s, i), q + 1)

LEMMA FindSlotSpent ==
    ASSUME NEW S \in StillStates, NEW ub \in Seq(Parts), NEW slot, slot = find_slot(S, ub), slot # <<>>
    PROVE  Spent(S, ub, slot)
<1>1. S \in GoodStates /\ S \in States
    BY DEF StillStates, GoodStates
<1> SUFFICES ASSUME NEW s \in Seqs, NEW i \in Cells, NEW m, m = seq_to_stream(s),
                    Touched(ub, slot, DOMAIN ub, m, i), Has(S, s, i)
             PROVE  \E q \in PositionsOf(S.v[m], s) : At(S, s, i) <= q /\ is_masked_swa(At(S, s, i), q + 1)
    BY DEF Spent
<1>2. m \in Streams /\ Consistent(S.v[m]) /\ S.h[m] \in 0 .. Size
    BY <1>1, StreamOf DEF GoodStates, States, Sound
<1>3. PICK k \in DOMAIN ub : ub[k].strm = m /\ i \in Hit(slot[k], DOMAIN slot[k])
    BY DEF Touched
<1>4. PICK j \in DOMAIN slot[k] : slot[k][j] = i
    BY <1>3 DEF Hit
<1>5. PICK f : f = FindCells(S.v[m], S.h[m], Len(ub[k].toks))
    OBVIOUS
<1>6. slot[k] = f /\ f # <<>>
    BY <1>3, <1>5 DEF find_slot
<1>7. Len(ub[k].toks) \in Nat
    BY PartFields
<1>8. CanUse(S.v[m], i)
    BY <1>2, <1>4, <1>5, <1>6, <1>7, FindCellsUse
<1>9. At(S, s, i) \in Positions /\ At(S, s, i) \in PositionsOf(S.v[m], s)
    BY <1>1, HeldAt
<1>10. At(S, s, i) = S.v[m].pos[i] /\ s \in S.v[m].seq[i] /\ S.v[m].pos[i] # -1
    BY <1>9 DEF At, Has, Positions
<1>11. is_masked_swa(At(S, s, i), seq_pos_max(S.v[m], s) + 1)
    BY <1>8, <1>10 DEF CanUse, is_empty
<1>12. seq_pos_max(S.v[m], s) \in PositionsOf(S.v[m], s) /\ At(S, s, i) <= seq_pos_max(S.v[m], s)
    BY <1>2, <1>9, EndsOf
<1> QED BY <1>11, <1>12

\* The cells of S and T hold the same.
Like(S, T) == \A m \in Streams, i \in Cells : Cell(S.v[m], i) = Cell(T.v[m], i)

LEMMA LikeHolds ==
    ASSUME NEW S, NEW T, Like(S, T), NEW s \in Seqs
    PROVE  /\ \A i \in Cells : (Has(S, s, i) <=> Has(T, s, i)) /\ At(S, s, i) = At(T, s, i)
           /\ PositionsOf(S.v[seq_to_stream(s)], s) = PositionsOf(T.v[seq_to_stream(s)], s)
<1>1. PICK m \in Streams : m = seq_to_stream(s)
    BY StreamOf
<1>2. \A i \in Cells : S.v[m].pos[i] = T.v[m].pos[i] /\ S.v[m].seq[i] = T.v[m].seq[i]
    BY DEF Like, Cell
<1> QED BY <1>1, <1>2 DEF Has, At, PositionsOf

LEMMA LikeSpent ==
    ASSUME NEW S, NEW T, Like(S, T), NEW ub, NEW idxs, Spent(T, ub, idxs)
    PROVE  Spent(S, ub, idxs)
<1> SUFFICES ASSUME NEW s \in Seqs, NEW i \in Cells,
                    Touched(ub, idxs, DOMAIN ub, seq_to_stream(s), i), Has(S, s, i)
             PROVE  \E q \in PositionsOf(S.v[seq_to_stream(s)], s) :
                        At(S, s, i) <= q /\ is_masked_swa(At(S, s, i), q + 1)
    BY DEF Spent
<1>1. /\ Has(T, s, i) /\ At(S, s, i) = At(T, s, i)
      /\ PositionsOf(S.v[seq_to_stream(s)], s) = PositionsOf(T.v[seq_to_stream(s)], s)
    BY LikeHolds
<1> QED BY <1>1 DEF Spent

\* What is in each cell when the tokens are put in.
LEMMA FilledCells ==
    ASSUME NEW S, NEW U, NEW ub, NEW idxs, FilledUp(S, U, ub, idxs, DOMAIN ub)
    PROVE  /\ \A k \in DOMAIN ub : \A j \in DOMAIN idxs[k] :
                  Cell(U.v[ub[k].strm], idxs[k][j]) = <<ub[k].toks[j].pos, 0, ub[k].toks[j].seqs>>
           /\ \A m \in Streams, i \in Cells : ~Touched(ub, idxs, DOMAIN ub, m, i) =>
                  Cell(U.v[m], i) = Cell(S.v[m], i)
<1>1. ASSUME NEW k \in DOMAIN ub
      PROVE  Filled(S.v[ub[k].strm], U.v[ub[k].strm], idxs[k], ub[k].toks, DOMAIN idxs[k])
    BY DEF FilledUp
<1>2. ASSUME NEW m \in Streams, NEW i \in Cells, ~Touched(ub, idxs, DOMAIN ub, m, i)
      PROVE  Cell(U.v[m], i) = Cell(S.v[m], i)
    <2>1. CASE \A k \in DOMAIN ub : ub[k].strm # m
        BY <2>1 DEF FilledUp
    <2>2. ASSUME NEW k \in DOMAIN ub, ub[k].strm = m
          PROVE  Cell(U.v[m], i) = Cell(S.v[m], i)
        <3>1. \A j \in DOMAIN idxs[k] : idxs[k][j] # i
            BY <1>2, <2>2 DEF Touched, Hit
        <3> QED BY <1>1, <2>2, <3>1 DEF Filled
    <2> QED BY <2>1, <2>2
<1> QED BY <1>1, <1>2 DEF Filled

\* The same micro batch in the same cells leaves the same.
LEMMA AppliesSame ==
    ASSUME NEW S \in StillStates, NEW R \in StillStates, Like(S, R), NEW ub \in Seq(Parts),
           NEW idxs \in Slots(ub), NEW T \in StillStates, Applies(S, T, ub, idxs),
           NEW W \in StillStates, Applies(R, W, ub, idxs)
    PROVE  Like(T, W)
<1>1. PICK U \in GoodStates, a \in Removed :
          /\ FilledUp(S, U, ub, idxs, DOMAIN ub) /\ Overwrites(S, a, ub, idxs, DOMAIN ub)
          /\ Purged(U, T, a, Seqs)
    BY DEF Applies
<1>2. PICK V \in GoodStates, b \in Removed :
          /\ FilledUp(R, V, ub, idxs, DOMAIN ub) /\ Overwrites(R, b, ub, idxs, DOMAIN ub)
          /\ Purged(V, W, b, Seqs)
    BY DEF Applies
<1>3. Like(U, V)
    <2> SUFFICES ASSUME NEW m \in Streams, NEW i \in Cells
                 PROVE  Cell(U.v[m], i) = Cell(V.v[m], i)
        BY DEF Like
    <2>1. CASE Touched(ub, idxs, DOMAIN ub, m, i)
        <3>1. PICK k \in DOMAIN ub : ub[k].strm = m /\ i \in Hit(idxs[k], DOMAIN idxs[k])
            BY <2>1 DEF Touched
        <3>2. PICK j \in DOMAIN idxs[k] : idxs[k][j] = i
            BY <3>1 DEF Hit
        <3>3. Cell(U.v[m], i) = <<ub[k].toks[j].pos, 0, ub[k].toks[j].seqs>>
            BY <1>1, <3>1, <3>2, FilledCells
        <3>4. Cell(V.v[m], i) = <<ub[k].toks[j].pos, 0, ub[k].toks[j].seqs>>
            BY <1>2, <3>1, <3>2, FilledCells
        <3> QED BY <3>3, <3>4
    <2>2. CASE ~Touched(ub, idxs, DOMAIN ub, m, i)
        <3>1. Cell(U.v[m], i) = Cell(S.v[m], i)
            BY <1>1, <2>2, FilledCells
        <3>2. Cell(V.v[m], i) = Cell(R.v[m], i)
            BY <1>2, <2>2, FilledCells
        <3> QED BY <3>1, <3>2 DEF Like
    <2> QED BY <2>1, <2>2
<1>4. ASSUME NEW s \in Seqs
      PROVE  a[s] = b[s]
    <2> DEFINE On(i) == Touched(ub, idxs, DOMAIN ub, seq_to_stream(s), i)
    <2>1. /\ \A i \in Cells : On(i) /\ Has(S, s, i) => At(S, s, i) <= a[s]
          /\ a[s] = -1 \/ \E i \in Cells : On(i) /\ Has(S, s, i) /\ a[s] = At(S, s, i)
        BY <1>1 DEF Overwrites
    <2>2. /\ \A i \in Cells : On(i) /\ Has(R, s, i) => At(R, s, i) <= b[s]
          /\ b[s] = -1 \/ \E i \in Cells : On(i) /\ Has(R, s, i) /\ b[s] = At(R, s, i)
        BY <1>2 DEF Overwrites
    <2>3. \A i \in Cells : (Has(S, s, i) <=> Has(R, s, i)) /\ At(S, s, i) = At(R, s, i)
        BY LikeHolds
    <2>4. \A i \in Cells : Has(S, s, i) => At(S, s, i) \in Positions
        BY HeldAt DEF StillStates
    <2>5. PICK x, y \in Positions \cup {-1} : x = a[s] /\ y = b[s]
        BY <1>1, <1>2 DEF Removed
    <2>6. x \in Int /\ y \in Int /\ x >= -1 /\ y >= -1
        BY <2>5, KvCellsAssumption DEF Positions
    <2> HIDE DEF On
    <2>7. x <= y
        <3>1. CASE x = -1
            BY <2>6, <3>1
        <3>2. CASE x # -1
            <4>1. PICK i \in Cells : On(i) /\ Has(S, s, i) /\ x = At(S, s, i)
                BY <2>1, <2>5, <3>2
            <4> QED BY <2>2, <2>3, <2>5, <4>1
        <3> QED BY <3>1, <3>2
    <2>8. y <= x
        <3>1. CASE y = -1
            BY <2>6, <3>1
        <3>2. CASE y # -1
            <4>1. PICK i \in Cells : On(i) /\ Has(R, s, i) /\ y = At(R, s, i)
                BY <2>2, <2>5, <3>2
            <4> QED BY <2>1, <2>3, <2>5, <4>1
        <3> QED BY <3>1, <3>2
    <2> QED BY <2>5, <2>6, <2>7, <2>8
<1>5. ASSUME NEW s \in Seqs, NEW i \in Cells
      PROVE  Has(T, s, i) <=> Has(W, s, i)
    <2>1. (Has(U, s, i) <=> Has(V, s, i)) /\ At(U, s, i) = At(V, s, i)
        BY <1>3, LikeHolds
    <2>2. Has(T, s, i) <=> Has(U, s, i) /\ ~(At(U, s, i) <= a[s])
        BY <1>1 DEF Purged
    <2>3. Has(W, s, i) <=> Has(V, s, i) /\ ~(At(V, s, i) <= b[s])
        BY <1>2 DEF Purged
    <2> QED BY <1>4, <2>1, <2>2, <2>3
<1> SUFFICES ASSUME NEW m \in Streams, NEW i \in Cells
             PROVE  Cell(T.v[m], i) = Cell(W.v[m], i)
    BY DEF Like
<1>6. PICK c, d \in KvCellsType :
          /\ c = T.v[m] /\ Sound(c, Owned(m)) /\ Still(c)
          /\ d = W.v[m] /\ Sound(d, Owned(m)) /\ Still(d)
    BY DEF StillStates, GoodStates, States
<1>7. c.seq[i] = d.seq[i]
    <2>1. c.seq[i] \subseteq Owned(m) /\ d.seq[i] \subseteq Owned(m)
        BY <1>6 DEF Sound
    <2>2. \A s \in Owned(m) : s \in c.seq[i] <=> s \in d.seq[i]
        BY <1>5, <1>6 DEF Owned, Has
    <2> QED BY <2>1, <2>2
<1>8. LeftOf(Cell(c, i), Cell(U.v[m], i)) /\ LeftOf(Cell(d, i), Cell(V.v[m], i))
    BY <1>1, <1>2, <1>6 DEF Purged, Remains
<1>9. Cell(U.v[m], i) = Cell(V.v[m], i)
    BY <1>3 DEF Like
<1>10. c.shift[i] = 0 /\ d.shift[i] = 0
    BY <1>6 DEF Still
<1>11. c.pos[i] = d.pos[i]
    <2>1. CASE c.seq[i] = {}
        BY <1>6, <1>7, <2>1 DEF Sound
    <2>2. CASE c.seq[i] # {}
        BY <1>7, <1>8, <1>9, <2>2 DEF LeftOf, Gone, Cell
    <2> QED BY <2>1, <2>2
<1> QED BY <1>6, <1>7, <1>10, <1>11 DEF Cell

\* The positions that the tokens of a set have in the sequence s.
Given(toks, s) == {t.pos : t \in {u \in toks : s \in u.seqs}}

\* What a micro batch does to the positions of the sequences: its own are added,
\* and none is left up to the last that it overwrites.
LEMMA AppliedPositions ==
    ASSUME NEW S \in StillStates, NEW ub \in Seq(Parts), NEW idxs \in Slots(ub),
           NEW T \in StillStates, Applies(S, T, ub, idxs)
    PROVE  \E rmd \in Removed :
               /\ Overwrites(S, rmd, ub, idxs, DOMAIN ub)
               /\ \A s \in Seqs : PositionsOf(T.v[seq_to_stream(s)], s) =
                      {q \in PositionsOf(S.v[seq_to_stream(s)], s) \cup Given(Tokens(ub), s) : q > rmd[s]}
<1>1. PICK U \in GoodStates, rmd \in Removed :
          /\ FilledUp(S, U, ub, idxs, DOMAIN ub) /\ Overwrites(S, rmd, ub, idxs, DOMAIN ub)
          /\ Purged(U, T, rmd, Seqs)
    BY DEF Applies
<1> SUFFICES ASSUME NEW s \in Seqs, NEW m, m = seq_to_stream(s)
             PROVE  PositionsOf(T.v[m], s) =
                        {q \in PositionsOf(S.v[m], s) \cup Given(Tokens(ub), s) : q > rmd[s]}
    BY <1>1
<1> DEFINE On(i) == Touched(ub, idxs, DOMAIN ub, m, i)
<1>2. m \in Streams /\ rmd[s] \in Int
    BY <1>1, StreamOf, KvCellsAssumption DEF Removed, Positions
<1>3. \A i \in Cells : Has(T, s, i) <=> Has(U, s, i) /\ ~(At(U, s, i) <= rmd[s])
    BY <1>1 DEF Purged
<1>4. \A i \in Cells : Has(T, s, i) => At(T, s, i) = At(U, s, i)
    BY <1>1, RemainsAt DEF Purged
<1>5. \A i \in Cells : Has(U, s, i) => At(U, s, i) \in Int
    BY HeldAt, KvCellsAssumption DEF Positions
<1>6. \A i \in Cells : On(i) /\ Has(S, s, i) => At(S, s, i) <= rmd[s]
    BY <1>1, <1>2 DEF Overwrites
<1>7. \A i \in Cells : ~On(i) => Cell(U.v[m], i) = Cell(S.v[m], i)
    BY <1>1, <1>2, FilledCells
<1>8. \A i \in Cells : ~On(i) => (Has(U, s, i) <=> Has(S, s, i)) /\ At(U, s, i) = At(S, s, i)
    BY <1>7 DEF Cell, Has, At
<1>9. ASSUME NEW k \in DOMAIN ub, NEW j \in DOMAIN idxs[k]
      PROVE  /\ idxs[k][j] \in Cells
             /\ Cell(U.v[ub[k].strm], idxs[k][j]) = <<ub[k].toks[j].pos, 0, ub[k].toks[j].seqs>>
             /\ ub[k].toks[j] \in Tokens(ub) /\ ub[k].toks[j].seqs \subseteq Owned(ub[k].strm)
    <2>1. PICK x \in Seq(Cells) : x = idxs[k] /\ j \in DOMAIN x /\ DOMAIN x = DOMAIN ub[k].toks
        BY DEF Slots
    <2>2. PICK toks \in Seq(TokensIn(ub[k].strm)) : toks = ub[k].toks
        BY PartFields
    <2>3. x[j] \in Cells /\ toks[j] \in TokensIn(ub[k].strm) /\ toks[j] \in ToSet(toks)
        BY <2>1, <2>2 DEF ToSet
    <2>4. toks[j] \in Tokens(ub)
        BY <2>2, <2>3 DEF Tokens
    <2>5. Cell(U.v[ub[k].strm], idxs[k][j]) = <<ub[k].toks[j].pos, 0, ub[k].toks[j].seqs>>
        BY <1>1, FilledCells
    <2> QED BY <2>1, <2>2, <2>3, <2>4, <2>5 DEF TokensIn
<1> HIDE DEF On
<1>10. ASSUME NEW i \in Cells, Has(T, s, i)
       PROVE  At(T, s, i) > rmd[s] /\ At(T, s, i) \in PositionsOf(S.v[m], s) \cup Given(Tokens(ub), s)
    <2>1. Has(U, s, i) /\ At(T, s, i) = At(U, s, i) /\ At(U, s, i) > rmd[s]
        BY <1>2, <1>3, <1>4, <1>5, <1>10
    <2>2. CASE ~On(i)
        <3>1. Has(S, s, i) /\ At(T, s, i) = At(S, s, i)
            BY <1>8, <2>1, <2>2
        <3> QED BY <2>1, <3>1 DEF PositionsOf, Has, At
    <2>3. CASE On(i)
        <3>1. PICK k \in DOMAIN ub : ub[k].strm = m /\ i \in Hit(idxs[k], DOMAIN idxs[k])
            BY <2>3 DEF On, Touched
        <3>2. PICK j \in DOMAIN idxs[k] : idxs[k][j] = i
            BY <3>1 DEF Hit
        <3>3. PICK t : t = ub[k].toks[j]
            OBVIOUS
        <3>4. t \in Tokens(ub) /\ Cell(U.v[m], i) = <<t.pos, 0, t.seqs>>
            BY <1>9, <3>1, <3>2, <3>3
        <3>5. s \in t.seqs /\ At(U, s, i) = t.pos
            BY <2>1, <3>4 DEF Cell, Has, At
        <3> QED BY <2>1, <3>4, <3>5 DEF Given
    <2> QED BY <2>2, <2>3
<1>11. ASSUME NEW i \in Cells, Has(U, s, i), At(U, s, i) > rmd[s]
       PROVE  At(U, s, i) \in PositionsOf(T.v[m], s)
    <2>1. Has(T, s, i) /\ At(T, s, i) = At(U, s, i)
        BY <1>2, <1>3, <1>4, <1>5, <1>11
    <2> QED BY <2>1 DEF PositionsOf, Has, At
<1>12. ASSUME NEW q \in PositionsOf(T.v[m], s)
       PROVE  q > rmd[s] /\ q \in PositionsOf(S.v[m], s) \cup Given(Tokens(ub), s)
    <2>1. PICK i \in Cells : Has(T, s, i) /\ q = At(T, s, i)
        BY DEF PositionsOf, Has, At
    <2> QED BY <1>10, <2>1
<1>13. ASSUME NEW q \in PositionsOf(S.v[m], s), q > rmd[s]
       PROVE  q \in PositionsOf(T.v[m], s)
    <2>1. PICK i \in Cells : Has(S, s, i) /\ q = At(S, s, i)
        BY DEF PositionsOf, Has, At
    <2>2. At(S, s, i) \in Int
        BY <2>1, HeldAt, KvCellsAssumption DEF StillStates, Positions
    <2>3. ~On(i)
        BY <1>2, <1>6, <1>13, <2>1, <2>2
    <2> QED BY <1>8, <1>11, <1>13, <2>1, <2>3
<1>14. ASSUME NEW q \in Given(Tokens(ub), s), q > rmd[s]
       PROVE  q \in PositionsOf(T.v[m], s)
    <2>1. PICK t \in Tokens(ub) : s \in t.seqs /\ q = t.pos
        BY DEF Given
    <2>2. PICK k \in DOMAIN ub : t \in ToSet(ub[k].toks)
        BY DEF Tokens
    <2>3. PICK j \in DOMAIN ub[k].toks : t = ub[k].toks[j]
        BY <2>2 DEF ToSet
    <2>4. j \in DOMAIN idxs[k]
        BY <2>3 DEF Slots
    <2>5. PICK i \in Cells : i = idxs[k][j]
        BY <1>9, <2>4
    <2>6. s \in Owned(ub[k].strm) /\ ub[k].strm = m
        BY <1>9, <2>1, <2>3, <2>4 DEF Owned
    <2>7. Cell(U.v[m], i) = <<t.pos, 0, t.seqs>>
        BY <1>9, <2>3, <2>4, <2>5, <2>6
    <2>8. Has(U, s, i) /\ At(U, s, i) = q
        BY <2>1, <2>7 DEF Cell, Has, At
    <2> QED BY <1>11, <1>14, <2>8
<1> QED BY <1>12, <1>13, <1>14

-----------------------------------------------------------------------------
(***************************************************************************)
(* The positions of a sequence while its batch is computed                 *)
(***************************************************************************)
GivenUpTo(batch, j) == UNION {Tokens(batch[l]) : l \in 1 .. j}

\* S has, of what was there before the batch and of toks, what comes after r.
Lost(S, toks, r) ==
    \A s \in Seqs : PositionsOf(S.v[seq_to_stream(s)], s) =
        {q \in PositionsOf(v_cells[seq_to_stream(s)], s) \cup Given(toks, s) : q > r[s]}

\* What is lost lies before the tokens from micro batch j on, and is masked for them.
Passed(batch, j, r) ==
    \A s \in Seqs : r[s] # -1 =>
        \A l \in DOMAIN batch : l >= j =>
            \A t \in Tokens(batch[l]) : s \in t.seqs => r[s] < t.pos /\ is_masked_swa(r[s], t.pos)

LEMMA GivenMore ==
    ASSUME NEW batch \in Seq(Seq(Parts)), NEW j \in DOMAIN batch
    PROVE  /\ GivenUpTo(batch, j) = GivenUpTo(batch, j - 1) \cup Tokens(batch[j])
           /\ \A s : Given(GivenUpTo(batch, j), s) =
                     Given(GivenUpTo(batch, j - 1), s) \cup Given(Tokens(batch[j]), s)
<1>1. j \in Nat \ {0}
    OBVIOUS
<1>2. 1 .. j = (1 .. (j - 1)) \cup {j}
    BY <1>1
<1>3. GivenUpTo(batch, j) = GivenUpTo(batch, j - 1) \cup Tokens(batch[j])
    BY <1>2 DEF GivenUpTo
<1> QED BY <1>3 DEF Given

LEMMA GivenAre ==
    ASSUME NEW batch \in Seq(Seq(Parts)), NEW j \in 0 .. Len(batch), NEW s, NEW q \in Given(GivenUpTo(batch, j), s)
    PROVE  /\ q \in Positions
           /\ \E l \in DOMAIN batch : l <= j /\ \E t \in Tokens(batch[l]) : s \in t.seqs /\ t.pos = q
<1>1. PICK l \in 1 .. j : \E t \in Tokens(batch[l]) : s \in t.seqs /\ q = t.pos
    BY DEF Given, GivenUpTo
<1>2. l \in DOMAIN batch /\ l <= j
    OBVIOUS
<1>3. \A t \in Tokens(batch[l]) : t.pos \in Positions
    BY <1>2, TokensTyped DEF AnyTokens
<1> QED BY <1>1, <1>2, <1>3

\* The positions before the batch come before those of its tokens.
LEMMA HeldBefore ==
    ASSUME State \in GoodStates, NEW s \in Seqs, NEW q \in PositionsOf(v_cells[seq_to_stream(s)], s)
    PROVE  q \in Positions /\ q < NextPos(s) /\ NextPos(s) - 1 \in PositionsOf(v_cells[seq_to_stream(s)], s)
<1>1. PICK m \in Streams : m = seq_to_stream(s)
    BY StreamOf
<1>2. Consistent(v_cells[m])
    BY Stream
<1>3. q \in Positions
    BY <1>1, <1>2, PresentIs
<1>4. PICK z : z = seq_pos_max(v_cells[m], s) /\ z \in PositionsOf(v_cells[m], s) /\ q <= z
    BY <1>1, <1>2, EndsOf
<1>5. z \in Positions
    BY <1>2, <1>4, PresentIs
<1>6. NextPos(s) = z + 1
    BY <1>1, <1>4 DEF NextPos
<1>7. z \in Nat /\ q \in Nat
    BY <1>3, <1>5, KvCellsAssumption DEF Positions
<1> QED BY <1>1, <1>3, <1>4, <1>6, <1>7

\* One micro batch more.
LEMMA PassedMore ==
    ASSUME State \in GoodStates, NEW batch \in Seq(Seq(Parts)), InSequence(batch), NEW j \in DOMAIN batch,
           NEW S \in StillStates, NEW T \in StillStates, NEW idxs \in Slots(batch[j]),
           Applies(S, T, batch[j], idxs), Spent(S, batch[j], idxs),
           NEW r \in Removed, Lost(S, GivenUpTo(batch, j - 1), r), Passed(batch, j - 1, r)
    PROVE  \E u \in Removed : Lost(T, GivenUpTo(batch, j), u) /\ Passed(batch, j, u)
<1>1. PICK ub \in Seq(Parts) : ub = batch[j]
    OBVIOUS
<1>2. j \in Nat \ {0} /\ j - 1 \in 0 .. Len(batch)
    OBVIOUS
<1>3. PICK rmd \in Removed :
          /\ Overwrites(S, rmd, ub, idxs, DOMAIN ub)
          /\ \A s \in Seqs : PositionsOf(T.v[seq_to_stream(s)], s) =
                 {q \in PositionsOf(S.v[seq_to_stream(s)], s) \cup Given(Tokens(ub), s) : q > rmd[s]}
    BY <1>1, AppliedPositions
<1> DEFINE u == [s \in Seqs |-> IF rmd[s] > r[s] THEN rmd[s] ELSE r[s]]
<1>4. u \in Removed
    BY DEF Removed
<1>5. ASSUME NEW s \in Seqs
      PROVE  /\ rmd[s] \in Int /\ r[s] \in Int /\ rmd[s] >= -1 /\ r[s] >= -1
             /\ u[s] = IF rmd[s] > r[s] THEN rmd[s] ELSE r[s]
    BY KvCellsAssumption DEF Removed, Positions
<1> HIDE DEF u
<1>6. ASSUME NEW s \in Seqs
      PROVE  PositionsOf(T.v[seq_to_stream(s)], s) =
                 {q \in PositionsOf(v_cells[seq_to_stream(s)], s) \cup Given(GivenUpTo(batch, j), s) : q > u[s]}
    <2>1. PICK B : B = PositionsOf(v_cells[seq_to_stream(s)], s)
        OBVIOUS
    <2>2. PICK G : G = Given(GivenUpTo(batch, j - 1), s)
        OBVIOUS
    <2>3. PICK H : H = Given(Tokens(ub), s)
        OBVIOUS
    <2>4. PICK a, b, c \in Int : a = rmd[s] /\ b = r[s] /\ c = u[s] /\ c = IF a > b THEN a ELSE b
        BY <1>5
    <2>5. B \subseteq Int
        BY <2>1, HeldBefore, KvCellsAssumption DEF Positions
    <2>6. G \subseteq Int
        BY <1>2, <2>2, GivenAre, KvCellsAssumption DEF Positions
    <2>7. H \subseteq Int
        BY <1>1, <2>3, TokensTyped, KvCellsAssumption DEF Given, AnyTokens, Positions
    <2>8. \A q \in H : q > b
        <3> SUFFICES ASSUME NEW t \in Tokens(ub), s \in t.seqs
                     PROVE  t.pos > b
            BY <2>3 DEF Given
        <3>1. t.pos \in Nat
            BY <1>1, TokensTyped, KvCellsAssumption DEF AnyTokens, Positions
        <3>2. CASE b = -1
            BY <3>1, <3>2
        <3>3. CASE b # -1
            <4>1. j >= j - 1
                BY <1>2
            <4>2. b < t.pos
                BY <1>1, <2>4, <3>3, <4>1 DEF Passed
            <4> QED BY <2>4, <3>1, <4>2
        <3> QED BY <3>2, <3>3
    <2>9. PositionsOf(S.v[seq_to_stream(s)], s) = {q \in B \cup G : q > b}
        BY <2>1, <2>2, <2>4 DEF Lost
    <2>10. PositionsOf(T.v[seq_to_stream(s)], s) = {q \in {x \in B \cup G : x > b} \cup H : q > a}
        BY <1>3, <2>3, <2>4, <2>9
    <2>11. Given(GivenUpTo(batch, j), s) = G \cup H
        BY <1>1, <2>2, <2>3, GivenMore
    <2>12. {q \in {x \in B \cup G : x > b} \cup H : q > a} = {q \in B \cup (G \cup H) : q > c}
        <3>1. ASSUME NEW q
              PROVE  q \in {x \in B \cup G : x > b} /\ q > a => q \in B \cup (G \cup H) /\ q > c
            BY <2>4
        <3>2. ASSUME NEW q \in B \cup (G \cup H), q > c
              PROVE  q \in {x \in B \cup G : x > b} \cup H /\ q > a
            <4>1. q \in Int
                BY <2>5, <2>6, <2>7
            <4>2. q > a /\ q > b
                BY <2>4, <3>2, <4>1
            <4> QED BY <4>2
        <3>3. ASSUME NEW q \in H, q > a
              PROVE  q \in B \cup (G \cup H) /\ q > c
            <4>1. q > b
                BY <2>8
            <4> QED BY <2>4, <3>3, <4>1
        <3> QED BY <3>1, <3>2, <3>3
    <2> QED BY <2>1, <2>4, <2>10, <2>11, <2>12
<1>7. ASSUME NEW s \in Seqs, u[s] # -1, NEW l \in DOMAIN batch, l >= j,
             NEW t \in Tokens(batch[l]), s \in t.seqs
      PROVE  u[s] < t.pos /\ is_masked_swa(u[s], t.pos)
    <2>1. l \in Nat /\ l >= j - 1 /\ t.pos \in Nat
        <3>1. batch[l] \in Seq(Parts) /\ l \in Nat
            OBVIOUS
        <3> QED BY <1>2, <1>7, <3>1, TokensTyped, KvCellsAssumption DEF AnyTokens, Positions
    <2>2. CASE u[s] = r[s]
        BY <1>7, <2>1, <2>2 DEF Passed
    <2>3. CASE u[s] # r[s]
        <3>1. u[s] = rmd[s] /\ rmd[s] # -1
            BY <1>5, <1>7, <2>3
        <3>2. PICK i \in Cells : /\ Touched(ub, idxs, DOMAIN ub, seq_to_stream(s), i)
                                 /\ Has(S, s, i) /\ rmd[s] = At(S, s, i)
            BY <1>3, <3>1 DEF Overwrites
        <3>3. PICK q \in PositionsOf(S.v[seq_to_stream(s)], s) :
                  At(S, s, i) <= q /\ is_masked_swa(At(S, s, i), q + 1)
            BY <1>1, <3>2 DEF Spent
        <3>4. q \in PositionsOf(v_cells[seq_to_stream(s)], s) \cup Given(GivenUpTo(batch, j - 1), s)
            BY DEF Lost
        <3>5. q \in Nat /\ q < t.pos
            <4>1. CASE q \in PositionsOf(v_cells[seq_to_stream(s)], s)
                <5>1. q \in Positions /\ q < NextPos(s)
                    BY <4>1, HeldBefore
                <5>2. NextPos(s) <= t.pos
                    BY <1>7 DEF InSequence
                <5> QED BY <2>1, <5>1, <5>2, NextPosNat, KvCellsAssumption DEF Positions
            <4>2. CASE q \in Given(GivenUpTo(batch, j - 1), s)
                <5>1. PICK k \in DOMAIN batch : /\ k <= j - 1 /\ q \in Positions
                                                /\ \E v \in Tokens(batch[k]) : s \in v.seqs /\ v.pos = q
                    BY <1>2, <4>2, GivenAre
                <5>2. l > k
                    BY <1>2, <1>7, <2>1, <5>1
                <5>3. q < t.pos
                    BY <1>7, <5>1, <5>2 DEF InSequence
                <5> QED BY <5>1, <5>3, KvCellsAssumption DEF Positions
            <4> QED BY <3>4, <4>1, <4>2
        <3>6. PICK x \in Nat : x = u[s] /\ x = At(S, s, i)
            BY <1>5, <3>1, <3>2
        <3>7. x <= q /\ x < q + 1 /\ q + 1 <= t.pos /\ q + 1 \in Nat
            BY <2>1, <3>3, <3>5, <3>6
        <3>8. is_masked_swa(x, t.pos)
            BY <2>1, <3>3, <3>6, <3>7, MaskGrows
        <3> QED BY <2>1, <3>5, <3>6, <3>7, <3>8
    <2> QED BY <2>2, <2>3
<1>8. Lost(T, GivenUpTo(batch, j), u)
    BY <1>6 DEF Lost
<1>9. Passed(batch, j, u)
    BY <1>7 DEF Passed
<1> QED BY <1>4, <1>8, <1>9

\* A token of micro batch j sees its window in the state that j leaves.
LEMMA WindowSeen ==
    ASSUME State \in GoodStates, NEW batch \in Seq(Seq(Parts)), NEW j \in DOMAIN batch, NEW T,
           NEW u \in Removed, Lost(T, GivenUpTo(batch, j), u), Passed(batch, j, u),
           NEW tok \in Tokens(batch[j])
    PROVE  Sees(T, Updated, GivenUpTo(batch, j), tok)
<1> SUFFICES ASSUME NEW s \in tok.seqs, NEW m, m = seq_to_stream(s),
                    NEW q \in PositionsOf(Updated.v[m], s) \cup Given(GivenUpTo(batch, j), s),
                    q < tok.pos, ~is_masked_swa(q, tok.pos)
             PROVE  q \in PositionsOf(T.v[m], s)
    BY DEF Sees, Given
<1>1. batch[j] \in Seq(Parts) /\ j \in 0 .. Len(batch)
    OBVIOUS
<1>2. tok.pos \in Nat /\ s \in Seqs
    BY <1>1, TokensTyped, KvCellsAssumption DEF AnyTokens, Positions
<1>3. PositionsOf(Updated.v[m], s) = PositionsOf(v_cells[m], s)
    BY <1>2, StreamOf, UpdatedCells DEF PositionsOf
<1>4. q \in Nat
    <2>1. CASE q \in PositionsOf(v_cells[m], s)
        BY <1>2, <2>1, HeldBefore, KvCellsAssumption DEF Positions
    <2>2. CASE q \in Given(GivenUpTo(batch, j), s)
        BY <1>1, <2>2, GivenAre, KvCellsAssumption DEF Positions
    <2> QED BY <1>3, <2>1, <2>2
<1>5. u[s] \in Int /\ u[s] >= -1
    BY <1>2, KvCellsAssumption DEF Removed, Positions
<1>6. q > u[s]
    <2> SUFFICES ASSUME q <= u[s]
                 PROVE  FALSE
        BY <1>4, <1>5
    <2>1. PICK x \in Nat : x = u[s] /\ x # -1
        BY <1>4, <1>5
    <2>2. j >= j
        OBVIOUS
    <2>3. x < tok.pos /\ is_masked_swa(x, tok.pos)
        BY <1>2, <2>1, <2>2 DEF Passed
    <2>4. is_masked_swa(q, tok.pos)
        BY <1>2, <1>4, <2>1, <2>3, MaskGrows
    <2> QED BY <2>4
<1> QED BY <1>2, <1>3, <1>6 DEF Lost

\* The sequence of the runs: a[n] is what n micro batches make of b.
Computed(a, b, batch, slots, k) ==
    /\ a[0] = b
    /\ \A n \in 1 .. k : a[n] = Compute(a[n - 1], batch[n], slots[n])
    /\ \A n \in 0 .. k : a[n] \in Runs

\* The loop over the micro batches of a batch, step by step.
LEMMA ComputedLoop ==
    ASSUME NEW batch \in Seq(Seq(Parts)), NEW p \in Prepared(batch), p.ok, NEW b \in Runs,
           NEW k \in 0 .. Len(batch), NEW q \in Seq(DOMAIN batch), q = [j \in 1 .. k |-> j]
    PROVE  \E a : /\ Computed(a, b, batch, p.slots, k)
                  /\ FoldLeft(LAMBDA acc, j : Compute(acc, batch[j], p.slots[j]), b, q) = a[k]
<1> DEFINE M == DOMAIN q
           P == [r \in SUBSET M |-> Runs]
           ch == Latest(M)
           step == [r \in SUBSET M |-> [d \in P[r \ {ch[r]}] |-> Compute(d, batch[q[ch[r]]], p.slots[q[ch[r]]])]]
           Eq(g) == g = [r \in SUBSET M |-> IF r = {} THEN b
                            ELSE Compute(g[r \ {Max(r)}], batch[q[Max(r)]], p.slots[q[Max(r)]])]
<1>0. \A r \in SUBSET M : ch[r] = Max(r)
    BY DEF Latest
<1>1. IsFiniteSet(M) /\ Chooses(ch, M)
    <2>1. M = 1 .. Len(q) /\ Len(q) \in Nat
        OBVIOUS
    <2> QED BY <2>1, LatestChooses
<1>2. ASSUME NEW x \in DOMAIN batch, NEW d \in Runs
      PROVE  Compute(d, batch[x], p.slots[x]) \in Runs
    <2>1. batch[x] \in Seq(Parts) /\ p.slots[x] \in Slots(batch[x])
        BY DEF Prepared, Fits
    <2> QED BY <2>1, ComputeKeeps
<1>12. ASSUME NEW r \in SUBSET M, NEW x \in r, NEW d \in P[r \ {x}]
       PROVE  Compute(d, batch[q[x]], p.slots[q[x]]) \in P[r]
    <2>1. d \in Runs /\ q[x] \in DOMAIN batch
        OBVIOUS
    <2> QED BY <1>2, <2>1
<1>3. b \in P[{}]
    OBVIOUS
<1> HIDE DEF P, ch
<1>4. PICK h : Folded(h, M, ch, b, step) /\ \A r \in SUBSET M : h[r] \in P[r]
    <2>1. \A r \in SUBSET M : r # {} => \A d \in P[r \ {ch[r]}] : step[r][d] \in P[r]
        BY <1>1, <1>12 DEF Chooses
    <2> HIDE DEF step
    <2> QED BY <1>1, <1>3, <2>1, FoldRuns
<1>5. Eq(h)
    <2>1. \A r \in SUBSET M : r # {} =>
              step[r][h[r \ {ch[r]}]] = Compute(h[r \ {ch[r]}], batch[q[ch[r]]], p.slots[q[ch[r]]])
        BY <1>4
    <2>2. \A r \in SUBSET M : r # {} =>
              step[r][h[r \ {ch[r]}]] =
                  Compute(h[r \ {Max(r)}], batch[q[Max(r)]], p.slots[q[Max(r)]])
        BY <1>0, <2>1
    <2>3. h = [r \in SUBSET M |-> IF r = {} THEN b ELSE step[r][h[r \ {ch[r]}]]]
        BY <1>4 DEF Folded
    <2> HIDE DEF step
    <2> QED BY <2>2, <2>3
<1>6. PICK g : Eq(g) /\ FoldLeft(LAMBDA acc, j : Compute(acc, batch[j], p.slots[j]), b, q) = g[M]
    <2>1. FoldLeft(LAMBDA acc, j : Compute(acc, batch[j], p.slots[j]), b, q) = (CHOOSE g : Eq(g))[M]
        BY Zenon DEF FoldLeft, MapThenFoldSet
    <2> HIDE DEF Eq
    <2> QED BY <1>5, <2>1
<1> DEFINE a == [n \in 0 .. k |-> g[1 .. n]]
<1>7. k \in Nat /\ M = 1 .. k /\ a[k] = g[M] /\ \A n \in 1 .. k : n \in DOMAIN batch /\ q[n] = n
    OBVIOUS
<1>8. a[0] = b
    <2>1. g[{}] = b
        BY <1>6
    <2>2. 1 .. 0 = {} /\ a[0] = g[1 .. 0]
        BY <1>7
    <2> HIDE DEF Eq, a
    <2> QED BY <2>1, <2>2
<1>9. ASSUME NEW n \in 1 .. k
      PROVE  a[n] = Compute(a[n - 1], batch[n], p.slots[n])
    <2>0. n \in Nat \ {0} /\ \A l \in 1 .. n : l \in 1 .. k
        BY <1>7
    <2>1. 1 .. n \in SUBSET M /\ 1 .. n # {}
        <3>1. n \in 1 .. n
            BY <2>0
        <3> HIDE DEF M
        <3> QED BY <1>7, <2>0, <3>1
    <2>2. Max(1 .. n) = n /\ (1 .. n) \ {n} = 1 .. (n - 1) /\ q[n] = n
        BY <1>7, <2>0, LatestOf
    <2>3. g[1 .. n] = Compute(g[(1 .. n) \ {Max(1 .. n)}], batch[q[Max(1 .. n)]], p.slots[q[Max(1 .. n)]])
        BY <1>6, <2>1
    <2>4. a[n] = g[1 .. n] /\ a[n - 1] = g[1 .. (n - 1)]
        BY <1>7, <2>0
    <2> HIDE DEF Eq, a
    <2> QED BY <2>2, <2>3, <2>4
<1> HIDE DEF a, Eq, M
<1>10. ASSUME NEW n \in 0 .. k
       PROVE  a[n] \in Runs
    <2> DEFINE T == {l \in Nat : l <= k => a[l] \in Runs}
    <2>1. 0 \in T
        BY <1>8
    <2>2. ASSUME NEW l \in Nat, l \in T
          PROVE  l + 1 \in T
        <3> SUFFICES ASSUME l + 1 <= k
                     PROVE  a[l + 1] \in Runs
            OBVIOUS
        <3>1. l + 1 \in 1 .. k /\ (l + 1) - 1 = l /\ a[l] \in Runs
            BY <1>7, <2>2
        <3>2. a[l + 1] = Compute(a[l], batch[l + 1], p.slots[l + 1])
            BY <1>9, <3>1
        <3> HIDE DEF T
        <3> QED BY <1>2, <1>7, <3>1, <3>2
    <2>3. n \in T
        <3>1. n \in Nat
            OBVIOUS
        <3> HIDE DEF T
        <3> QED BY <2>1, <2>2, <3>1, Counting
    <2> QED BY <2>3
<1>11. Computed(a, b, batch, p.slots, k)
    BY <1>8, <1>9, <1>10 DEF Computed
<1> QED BY <1>6, <1>7, <1>11

\* After n micro batches nothing was blind, the cells are those of the trial y,
\* and what is lost does not matter any more.
Tracked(acc, y, batch, n) ==
    /\ acc.given = GivenUpTo(batch, n) /\ ~acc.blind /\ Like(acc.S, y)
    /\ \E r \in Removed : Lost(acc.S, acc.given, r) /\ Passed(batch, n, r)

LEMMA TrackStep ==
    ASSUME State \in GoodStates, NEW batch \in Seq(Seq(Parts)), InSequence(batch), AllApart(batch),
           NEW j \in DOMAIN batch, NEW y \in StillStates, NEW slot, slot = find_slot(y, batch[j]),
           slot # <<>>, NEW acc \in Runs, Tracked(acc, y, batch, j - 1),
           NEW run, run = Compute(acc, batch[j], slot)
    PROVE  Tracked(run, apply_ubatch(y, batch[j], slot), batch, j)
<1>1. PICK ub \in Seq(Parts) : ub = batch[j] /\ Apart(ub)
    BY DEF AllApart
<1>2. slot \in Slots(ub)
    <2>1. y \in States
        BY DEF StillStates, GoodStates
    <2> QED BY <1>1, <2>1, FindSlotGives
<1>3. PICK z : z = apply_ubatch(y, ub, slot) /\ z \in StillStates /\ Applies(y, z, ub, slot)
    BY <1>1, <1>2, ApplyKeeps DEF Kinds
<1>4. PICK S \in StillStates : S = acc.S
    BY DEF Runs
<1>5. PICK T : T = apply_ubatch(S, ub, slot) /\ T \in StillStates /\ Applies(S, T, ub, slot)
    BY <1>1, <1>2, ApplyKeeps DEF Kinds
<1>6. /\ run.S = T /\ run.given = acc.given \cup Tokens(ub)
      /\ run.blind = (acc.blind \/ \E tok \in Tokens(ub) : ~Sees(T, Updated, acc.given \cup Tokens(ub), tok))
    BY <1>1, <1>4, <1>5 DEF Compute, Runs
<1>7. acc.given = GivenUpTo(batch, j - 1) /\ ~acc.blind /\ Like(S, y)
    BY <1>4 DEF Tracked
<1>8. run.given = GivenUpTo(batch, j)
    BY <1>1, <1>6, <1>7, GivenMore
<1>9. Like(T, z)
    BY <1>1, <1>2, <1>3, <1>5, <1>7, AppliesSame
<1>10. Spent(S, ub, slot)
    BY <1>1, <1>7, FindSlotSpent, LikeSpent
<1>11. PICK r \in Removed : Lost(S, GivenUpTo(batch, j - 1), r) /\ Passed(batch, j - 1, r)
    BY <1>4, <1>7 DEF Tracked
<1>12. PICK u \in Removed : Lost(T, GivenUpTo(batch, j), u) /\ Passed(batch, j, u)
    BY <1>1, <1>2, <1>5, <1>10, <1>11, PassedMore
<1>13. \A tok \in Tokens(batch[j]) : Sees(T, Updated, GivenUpTo(batch, j), tok)
    BY <1>12, WindowSeen
<1>14. ~run.blind
    BY <1>1, <1>6, <1>7, <1>8, <1>13
<1> QED BY <1>1, <1>3, <1>6, <1>8, <1>9, <1>12, <1>14 DEF Tracked

\* The state that the computation starts from, if prepare() has restored it.
LEMMA TrackStarts ==
    ASSUME State \in GoodStates, NEW S \in StillStates, ~Unrestored(S), NEW batch \in Seq(Seq(Parts)),
           NEW b, b = [S |-> S, K |-> KeysUpdated, given |-> {}, blind |-> FALSE]
    PROVE  Tracked(b, Updated, batch, 0)
<1>1. ASSUME NEW m \in Streams
      PROVE  /\ S.v[m].pos = v_cells[m].pos /\ S.v[m].seq = v_cells[m].seq
             /\ Updated.v[m].pos = v_cells[m].pos /\ Updated.v[m].seq = v_cells[m].seq
             /\ Still(S.v[m]) /\ Still(Updated.v[m])
    BY UpdatedCells, UpdatedStill DEF Unrestored, StillStates
<1>2. Like(S, Updated)
    BY <1>1 DEF Like, Cell, Still
<1>3. GivenUpTo(batch, 0) = {}
    BY DEF GivenUpTo
<1> DEFINE r == [s \in Seqs |-> -1]
<1>4. r \in Removed /\ \A s \in Seqs : r[s] = -1
    BY DEF Removed
<1> HIDE DEF r
<1>5. Passed(batch, 0, r)
    BY <1>4 DEF Passed
<1>6. ASSUME NEW s \in Seqs
      PROVE  PositionsOf(S.v[seq_to_stream(s)], s) =
                 {q \in PositionsOf(v_cells[seq_to_stream(s)], s) \cup Given({}, s) : q > r[s]}
    <2>1. PositionsOf(S.v[seq_to_stream(s)], s) = PositionsOf(v_cells[seq_to_stream(s)], s)
        BY <1>1, StreamOf DEF PositionsOf
    <2>2. Given({}, s) = {}
        BY DEF Given
    <2>3. ASSUME NEW q \in PositionsOf(v_cells[seq_to_stream(s)], s)
          PROVE  q > r[s]
        <3>1. q \in Positions
            BY HeldBefore
        <3> QED BY <1>4, <3>1, KvCellsAssumption DEF Positions
    <2> QED BY <2>1, <2>2, <2>3
<1>7. Lost(S, {}, r)
    BY <1>6 DEF Lost
<1> QED BY <1>2, <1>3, <1>4, <1>5, <1>7 DEF Tracked

\* A batch that fits, from cells that prepare() has restored: the computation goes
\* through the states of the trial.
LEMMA TrackRuns ==
    ASSUME CacheInv, NEW batch \in Batches, batch \in Seq(Ubatches),
           batch \in Seq(Seq(Parts)), NEW p, p = prepare(Updated, batch),
           p.ok, ~Unrestored(p.S)
    PROVE  \E x : /\ Trial(x, Updated, batch, Len(batch))
                  /\ \A k \in 1 .. Len(batch) : p.slots[k] = find_slot(x[k - 1], batch[k])
                  /\ \A k \in 0 .. Len(batch) : /\ ComputeFirst(p, batch, k) \in Runs
                                                /\ Tracked(ComputeFirst(p, batch, k), x[k], batch, k)
<1>1. State \in GoodStates /\ Updated \in StillStates
    BY UpdatedStill DEF CacheInv
<1>2. p \in Prepared(batch) /\ p.S \in StillStates
    BY <1>1, PrepareGives DEF Prepared
<1>3. PICK x : /\ Trial(x, Updated, batch, Len(batch))
               /\ \A k \in 1 .. Len(batch) : p.slots[k] = find_slot(x[k - 1], batch[k])
    BY <1>1, TrialFits
<1>4. InSequence(batch) /\ AllApart(batch)
    BY <1>1, BatchesInSequence, BatchesApart
<1>5. PICK b : b = [S |-> p.S, K |-> KeysUpdated, given |-> {}, blind |-> FALSE]
    OBVIOUS
<1>6. b \in Runs /\ Tracked(b, Updated, batch, 0)
    <2>1. KeysUpdated \in KeysType
        BY <1>1, UpdatedKeys DEF CacheInv, GoodStates, States, State
    <2>2. b \in Runs
        BY <1>2, <1>5, <2>1 DEF Runs
    <2> QED BY <1>1, <1>2, <1>5, <2>2, TrackStarts
<1>7. ASSUME NEW k \in 0 .. Len(batch)
      PROVE  ComputeFirst(p, batch, k) \in Runs /\ Tracked(ComputeFirst(p, batch, k), x[k], batch, k)
    <2>1. PICK q \in Seq(DOMAIN batch) : q = [j \in 1 .. k |-> j]
        <3>1. k \in Nat /\ \A j \in 1 .. k : j \in DOMAIN batch
            OBVIOUS
        <3>2. PICK q : q = [j \in 1 .. k |-> j]
            OBVIOUS
        <3>3. q = [j \in 1 .. k |-> q[j]] /\ \A j \in 1 .. k : q[j] \in DOMAIN batch
            BY <3>1, <3>2
        <3>4. q \in Seq(DOMAIN batch)
            BY <3>1, <3>3, Listing
        <3> QED BY <3>2, <3>4
    <2>2. PICK a : /\ Computed(a, b, batch, p.slots, k)
                   /\ FoldLeft(LAMBDA acc, j : Compute(acc, batch[j], p.slots[j]), b, q) = a[k]
        BY <1>2, <1>6, <2>1, ComputedLoop
    <2>3. ComputeFirst(p, batch, k) = a[k]
        BY <1>5, <2>1, <2>2 DEF ComputeFirst
    <2>4. ASSUME NEW n \in Nat, n + 1 <= k, Tracked(a[n], x[n], batch, n)
          PROVE  Tracked(a[n + 1], x[n + 1], batch, n + 1)
        <3>1. PICK j \in DOMAIN batch : j = n + 1 /\ j - 1 = n
            <4>1. n + 1 \in DOMAIN batch /\ (n + 1) - 1 = n
                BY <2>4
            <4> QED BY <4>1
        <3>2. j \in 1 .. k /\ j \in 1 .. Len(batch) /\ j - 1 \in 0 .. k /\ j - 1 \in 0 .. Len(batch)
            BY <2>4, <3>1
        <3>3. a[j] = Compute(a[j - 1], batch[j], p.slots[j]) /\ a[j - 1] \in Runs
            BY <2>2, <3>2 DEF Computed
        <3>4. x[j - 1] \in StillStates
            BY <1>3, <3>2 DEF Trial
        <3>5. PICK slot : slot = find_slot(x[j - 1], batch[j])
            OBVIOUS
        <3>6. slot = p.slots[j] /\ slot # <<>> /\ x[j] = apply_ubatch(x[j - 1], batch[j], slot)
            BY <1>3, <3>2, <3>5 DEF Trial
        <3>7. Tracked(a[j - 1], x[j - 1], batch, j - 1)
            BY <2>4, <3>1
        <3>8. Tracked(a[j], apply_ubatch(x[j - 1], batch[j], slot), batch, j)
            BY <1>1, <1>4, <3>3, <3>4, <3>5, <3>6, <3>7, TrackStep
        <3> QED BY <3>1, <3>6, <3>8
    <2> DEFINE Z == {n \in Nat : n <= k => Tracked(a[n], x[n], batch, n)}
    <2>5. 0 \in Z
        BY <1>3, <1>6, <2>2 DEF Computed, Trial
    <2>6. \A n \in Nat : n \in Z => n + 1 \in Z
        BY <2>4
    <2>7. k \in Z
        <3>1. k \in Nat
            OBVIOUS
        <3> HIDE DEF Z
        <3> QED BY <2>5, <2>6, <3>1, Counting
    <2>8. k \in 0 .. k
        OBVIOUS
    <2>9. a[k] \in Runs
        BY <2>2, <2>8 DEF Computed
    <2>10. Tracked(a[k], x[k], batch, k)
        <3>1. k <= k
            OBVIOUS
        <3> QED BY <2>7, <3>1
    <2> QED BY <2>3, <2>9, <2>10
<1> QED BY <1>3, <1>7

-----------------------------------------------------------------------------
(***************************************************************************)
(* What decode() leaves                                                    *)
(***************************************************************************)
\* If a batch was computed, as a whole or up to the micro batch that failed, and
\* prepare() had restored the cells: nothing was blind, and the positions of the
\* cache are those of Tracked, less what the removal of micro batch k takes.
Kept(S, batch, k) == \E r \in Removed : Lost(S, GivenUpTo(batch, k), r)

LEMMA DecodeLeaves ==
    ASSUME CacheInv, NEW batch \in Batches, Decode(batch),
           outcome'.call \in {"ok", "failed"}, deviation' # "unrestored"
    PROVE  /\ ~outcome'.blind
           /\ \E S \in StillStates, k \in 0 .. Len(batch) :
                  /\ Kept(S, batch, k)
                  /\ \/ v_cells' = S.v
                     \/ k \in DOMAIN batch /\ v_cells' = RemoveFailed(S, batch[k]).v
<1>1. State \in GoodStates
    BY DEF CacheInv
<1>2. batch \in Seq(Ubatches) /\ batch \in Seq(Seq(Parts))
    BY <1>1, DecodeTyped
<1>3. PICK p : /\ p = prepare(Updated, batch)
               /\ \/ DecodeOk(batch, p)
                  \/ DecodeNoSlot(batch, p)
                  \/ \E k \in DOMAIN batch, wrote \in BOOLEAN : DecodeFails(batch, p, k, wrote)
    BY DEF Decode
<1>4. ~DecodeNoSlot(batch, p)
    BY DEF DecodeNoSlot, Decoded
<1>5. Len(batch) \in Nat /\ DOMAIN batch = 1 .. Len(batch)
    BY <1>2
<1>6. CASE DecodeOk(batch, p)
    <2>1. p.ok /\ ~Unrestored(p.S)
        BY <1>6 DEF DecodeOk
    <2>2. PICK run : run = ComputeFirst(p, batch, Len(batch)) /\ Decoded(run.S, run.K, "ok", 0, run.blind)
        BY <1>6 DEF DecodeOk
    <2>3. Len(batch) \in 0 .. Len(batch)
        BY <1>5
    <2>4. run \in Runs /\ \E y : Tracked(run, y, batch, Len(batch))
        BY <1>2, <1>3, <2>1, <2>2, <2>3, TrackRuns
    <2>5. v_cells' = run.S.v /\ outcome'.blind = run.blind
        BY <2>2 DEF Decoded, Install
    <2> QED BY <2>3, <2>4, <2>5 DEF Tracked, Runs, Kept
<1>7. ASSUME NEW k \in DOMAIN batch, NEW wrote \in BOOLEAN, DecodeFails(batch, p, k, wrote)
      PROVE  /\ ~outcome'.blind
             /\ \E S \in StillStates : Kept(S, batch, k) /\ v_cells' = RemoveFailed(S, batch[k]).v
    <2>1. p.ok /\ ~Unrestored(p.S)
        BY <1>7 DEF DecodeFails
    <2>2. PICK run, last : /\ run = ComputeFirst(p, batch, k - 1)
                           /\ last = Compute(run, batch[k], p.slots[k])
                           /\ Decoded(RemoveFailed(last.S, batch[k]), IF wrote THEN last.K ELSE run.K,
                                      "failed", 0, run.blind)
        BY <1>7 DEF DecodeFails
    <2>3. k - 1 \in 0 .. Len(batch) /\ k \in 1 .. Len(batch)
        BY <1>5
    <2>4. PICK x : /\ Trial(x, Updated, batch, Len(batch))
                   /\ p.slots[k] = find_slot(x[k - 1], batch[k])
                   /\ run \in Runs /\ Tracked(run, x[k - 1], batch, k - 1)
        BY <1>2, <1>3, <2>1, <2>2, <2>3, TrackRuns
    <2>5. x[k - 1] \in StillStates /\ find_slot(x[k - 1], batch[k]) # <<>>
        BY <2>3, <2>4 DEF Trial
    <2>6. PICK slot : slot = p.slots[k] /\ slot = find_slot(x[k - 1], batch[k]) /\ slot # <<>>
        BY <2>4, <2>5
    <2>7. InSequence(batch) /\ AllApart(batch)
        BY <1>1, BatchesInSequence, BatchesApart
    <2>8. \E y : Tracked(last, y, batch, k)
        BY <1>1, <1>2, <2>2, <2>4, <2>5, <2>6, <2>7, TrackStep
    <2>9. last.S \in StillStates
        <3>1. batch[k] \in Seq(Parts) /\ slot \in Slots(batch[k])
            <4>1. x[k - 1] \in States
                BY <2>5 DEF StillStates, GoodStates
            <4>2. batch[k] \in Seq(Parts)
                BY <1>2
            <4> QED BY <2>6, <4>1, <4>2, FindSlotGives
        <3> QED BY <2>2, <2>4, <2>6, <3>1, ComputeKeeps DEF Runs
    <2>10. v_cells' = RemoveFailed(last.S, batch[k]).v /\ outcome'.blind = run.blind
        BY <2>2 DEF Decoded, Install
    <2> QED BY <2>4, <2>8, <2>9, <2>10 DEF Tracked, Kept
<1>8. \A k \in DOMAIN batch : k \in 0 .. Len(batch)
    BY <1>5
<1> QED BY <1>3, <1>4, <1>6, <1>7, <1>8

\* Every token is computed with all the positions of its window that were in the
\* cache before the batch, or in the batch before it: what a micro batch overwrites
\* or purges is masked for every token that is still to come.
THEOREM WindowIsSeen == Spec => []TokensSeeWindow
<1>1. Init => TokensSeeWindow
    BY DEF Init, TokensSeeWindow, Quiet
<1>2. CacheInv /\ TokensSeeWindow /\ [Next]_vars => TokensSeeWindow'
    <2> SUFFICES ASSUME CacheInv, TokensSeeWindow, [Next]_vars
                 PROVE  TokensSeeWindow'
        OBVIOUS
    <2>1. CASE UNCHANGED vars
        BY <2>1 DEF vars, TokensSeeWindow
    <2>2. CASE Next /\ outcome' = Quiet
        BY <2>2 DEF TokensSeeWindow, Quiet
    <2>3. CASE Next /\ outcome' # Quiet
        <3>1. PICK batch \in Batches : Decode(batch)
            BY <2>3, OnlyDecode
        <3>2. CASE outcome'.call \in {"ok", "failed"}
            BY <3>1, <3>2, DecodeLeaves DEF TokensSeeWindow
        <3>3. CASE outcome'.call \notin {"ok", "failed"}
            <4>1. outcome'.blind = FALSE
                BY <3>1, <3>3 DEF Decode, DecodeOk, DecodeNoSlot, DecodeFails, Decoded
            <4> QED BY <4>1 DEF TokensSeeWindow
        <3> QED BY <3>2, <3>3
    <2> QED BY <2>1, <2>2, <2>3
<1> QED BY <1>1, <1>2, CacheInvariant, PTL DEF Spec

\* What was there and what was given make one interval, which is cut from below.
LEMMA KeptWhole ==
    ASSUME State \in GoodStates, NEW batch \in Seq(Seq(Parts)), InSequence(batch),
           NEW k \in 0 .. Len(batch), NEW S, Kept(S, batch, k), NEW s \in Seqs,
           NEW m, m = seq_to_stream(s), NoHoles(v_cells[m], s)
    PROVE  NoHoles(S.v[m], s)
<1>1. PICK r \in Removed : Lost(S, GivenUpTo(batch, k), r)
    BY DEF Kept
<1>2. PICK B : B = PositionsOf(v_cells[m], s)
    OBVIOUS
<1>3. PICK G : G = Given(GivenUpTo(batch, k), s)
    OBVIOUS
<1>4. PICK c \in Int : c = r[s]
    BY KvCellsAssumption DEF Removed, Positions
<1>5. PICK n \in Nat : n = NextPos(s)
    BY NextPosNat
<1>6. PositionsOf(S.v[m], s) = {q \in B \cup G : q > c}
    BY <1>1, <1>2, <1>3, <1>4 DEF Lost
<1>7. ASSUME NEW q \in B
      PROVE  q \in Nat /\ q < n /\ n - 1 \in B /\ \A p \in B : p .. q \subseteq B
    <2>1. q \in Positions /\ q < n /\ n - 1 \in B
        BY <1>2, <1>5, HeldBefore
    <2>2. \A p \in B : p .. q \subseteq B
        BY <1>2 DEF NoHoles
    <2> QED BY <2>1, <2>2, KvCellsAssumption DEF Positions
<1>8. ASSUME NEW q \in G
      PROVE  q \in Nat /\ n <= q /\ n .. q \subseteq G
    <2>1. PICK l \in DOMAIN batch : /\ l <= k /\ q \in Positions
                                    /\ \E t \in Tokens(batch[l]) : s \in t.seqs /\ t.pos = q
        BY <1>3, GivenAre
    <2>2. PICK t \in Tokens(batch[l]) : s \in t.seqs /\ t.pos = q
        BY <2>1
    <2>3. n <= q
        BY <1>5, <2>2 DEF InSequence
    <2>4. ASSUME NEW p \in n .. q
          PROVE  p \in G
        <3>1. PICK j \in DOMAIN batch : j <= l /\ \E v \in Tokens(batch[j]) : s \in v.seqs /\ v.pos = p
            BY <1>5, <2>2, <2>4 DEF InSequence
        <3>2. j \in 1 .. k
            BY <2>1, <3>1
        <3> QED BY <1>3, <3>1, <3>2 DEF Given, GivenUpTo
    <2>5. q \in Nat
        BY <2>1, KvCellsAssumption DEF Positions
    <2> QED BY <2>3, <2>4, <2>5
<1>9. ASSUME NEW p \in B \cup G, NEW q \in B \cup G, NEW x \in p .. q
      PROVE  x \in B \cup G
    <2>0. p \in Nat /\ q \in Nat
        BY <1>7, <1>8
    <2>1. p <= x /\ x <= q /\ x \in Nat
        BY <2>0
    <2>2. CASE q \in B
        <3>1. q < n
            BY <1>7, <2>2
        <3>2. p \in B
            BY <1>8, <2>0, <2>1, <3>1
        <3> QED BY <1>7, <2>2, <3>2
    <2>3. CASE q \in G /\ x >= n
        <3>1. x \in n .. q
            BY <2>1, <2>3
        <3> QED BY <1>8, <2>3, <3>1
    <2>4. CASE x < n
        <3>1. p \in B
            BY <1>8, <2>0, <2>1, <2>4
        <3>2. n - 1 \in B /\ x \in p .. n - 1
            BY <1>7, <2>0, <2>1, <2>4, <3>1
        <3> QED BY <1>7, <3>1, <3>2
    <2> QED BY <2>1, <2>2, <2>3, <2>4
<1> SUFFICES ASSUME NEW p \in B \cup G, NEW q \in B \cup G, p > c, q > c, NEW x \in p .. q
             PROVE  x \in B \cup G /\ x > c
    BY <1>6 DEF NoHoles
<1>10. p \in Nat /\ q \in Nat
    BY <1>7, <1>8
<1>11. x > c
    BY <1>10
<1> QED BY <1>9, <1>11

\* Removing a micro batch cuts from above.
LEMMA RemovedWhole ==
    ASSUME NEW S \in StillStates, NEW ub \in Seq(Parts), NEW T, T = RemoveFailed(S, ub),
           NEW s \in Seqs, NEW m, m = seq_to_stream(s), NoHoles(S.v[m], s)
    PROVE  NoHoles(T.v[m], s)
<1>1. Remains(S, T) /\ Cleared(S, T, ub, Firsts(ub))
    BY RemoveFailedKeeps
<1>2. \A i \in Cells : Has(S, s, i) => At(S, s, i) \in Positions
    BY HeldAt DEF StillStates
<1>3. \A i \in Cells : Has(T, s, i) => Has(S, s, i) /\ At(T, s, i) = At(S, s, i)
    BY <1>1, RemainsAt
<1>4. ASSUME s \notin Firsts(ub)
      PROVE  PositionsOf(T.v[m], s) = PositionsOf(S.v[m], s)
    <2>1. \A i \in Cells : Has(T, s, i) <=> Has(S, s, i)
        BY <1>1, <1>4 DEF Cleared
    <2> QED BY <1>3, <2>1 DEF PositionsOf, Has, At
<1>5. ASSUME s \in Firsts(ub)
      PROVE  \E f \in Nat : PositionsOf(T.v[m], s) = {q \in PositionsOf(S.v[m], s) : q < f}
    <2>1. PICK X : X = {tok.pos : tok \in {t \in Tokens(ub) : s = Least(t.seqs)}}
        OBVIOUS
    <2>2. X # {}
        BY <1>5, <2>1 DEF Firsts
    <2>3. X \subseteq Nat
        BY <2>1, TokensTyped, KvCellsAssumption DEF AnyTokens, Positions
    <2>4. PICK f \in Nat : f = FirstPos(ub, s)
        BY <2>1, <2>2, <2>3, LeastOf DEF FirstPos
    <2>5. ASSUME NEW i \in Cells
          PROVE  Has(T, s, i) <=> Has(S, s, i) /\ At(S, s, i) < f
        <3>1. Has(T, s, i) <=> Has(S, s, i) /\ ~(At(S, s, i) >= f /\ At(S, s, i) < MaxPos + 1)
            BY <1>1, <1>5, <2>4 DEF Cleared, pos_in, At
        <3>2. CASE Has(S, s, i)
            <4>1. PICK q \in Nat : q = At(S, s, i) /\ q < MaxPos + 1
                BY <1>2, <3>2, KvCellsAssumption DEF Positions
            <4> QED BY <3>1, <4>1
        <3> QED BY <3>1, <3>2
    <2>6. PositionsOf(T.v[m], s) = {q \in PositionsOf(S.v[m], s) : q < f}
        <3>1. \A q : q \in PositionsOf(S.v[m], s) <=> \E i \in Cells : Has(S, s, i) /\ q = At(S, s, i)
            BY DEF PositionsOf, Has, At
        <3>2. \A q : q \in PositionsOf(T.v[m], s) <=> \E i \in Cells : Has(T, s, i) /\ q = At(T, s, i)
            BY DEF PositionsOf, Has, At
        <3> QED BY <1>3, <2>5, <3>1, <3>2
    <2> QED BY <2>6
<1>6. PositionsOf(S.v[m], s) \subseteq Nat
    <2>1. PICK j \in Streams : j = m /\ Consistent(S.v[j])
        BY StreamOf DEF StillStates, GoodStates, Sound
    <2> QED BY <2>1, PresentIs, KvCellsAssumption DEF Positions
<1>7. CASE s \notin Firsts(ub)
    BY <1>4, <1>7 DEF NoHoles
<1>8. CASE s \in Firsts(ub)
    <2>1. PICK f \in Nat : PositionsOf(T.v[m], s) = {q \in PositionsOf(S.v[m], s) : q < f}
        BY <1>5, <1>8
    <2> SUFFICES ASSUME NEW p \in PositionsOf(S.v[m], s), NEW q \in PositionsOf(S.v[m], s),
                        p < f, q < f, NEW x \in p .. q
                 PROVE  x \in PositionsOf(S.v[m], s) /\ x < f
        BY <2>1 DEF NoHoles
    <2>2. p \in Nat /\ q \in Nat
        BY <1>6
    <2>3. x < f
        BY <2>2
    <2> QED BY <2>3 DEF NoHoles
<1> QED BY <1>7, <1>8

\* A call of decode makes no hole in the positions of a sequence, whether it ends or
\* fails half-way, unless the placement on trial has lost cells: it adds positions
\* at the end, and takes some only from either end.
THEOREM DecodeKeepsWhole == Spec => DecodeMakesNoHoles
<1>1. CacheInv /\ [Next]_vars =>
          [outcome'.call \in {"ok", "failed"} /\ deviation' # "unrestored" =>
               \A s \in Seqs : LET m == seq_to_stream(s) IN
                   NoHoles(v_cells[m], s) => NoHoles(v_cells'[m], s)]_vars
    <2> SUFFICES ASSUME CacheInv, Next, outcome'.call \in {"ok", "failed"}, deviation' # "unrestored",
                        NEW s \in Seqs, NEW m, m = seq_to_stream(s), NoHoles(v_cells[m], s)
                 PROVE  NoHoles(v_cells'[m], s)
        OBVIOUS
    <2>1. outcome' # Quiet
        BY DEF Quiet
    <2>2. PICK batch \in Batches : Decode(batch)
        BY <2>1, OnlyDecode
    <2>3. State \in GoodStates /\ batch \in Seq(Seq(Parts)) /\ InSequence(batch)
        BY <2>2, DecodeTyped, BatchesInSequence DEF CacheInv
    <2>4. PICK S \in StillStates, k \in 0 .. Len(batch) :
              /\ Kept(S, batch, k)
              /\ \/ v_cells' = S.v
                 \/ k \in DOMAIN batch /\ v_cells' = RemoveFailed(S, batch[k]).v
        BY <2>2, DecodeLeaves
    <2>5. NoHoles(S.v[m], s)
        BY <2>3, <2>4, KeptWhole
    <2>6. CASE v_cells' = S.v
        BY <2>5, <2>6
    <2>7. CASE k \in DOMAIN batch /\ v_cells' = RemoveFailed(S, batch[k]).v
        <3>1. PICK ub \in Seq(Parts) : ub = batch[k]
            BY <2>3, <2>7
        <3>2. PICK T : T = RemoveFailed(S, ub)
            OBVIOUS
        <3>3. NoHoles(T.v[m], s)
            BY <2>5, <3>2, RemovedWhole
        <3> QED BY <2>7, <3>1, <3>2, <3>3
    <2> QED BY <2>4, <2>6, <2>7
<1> QED BY <1>1, CacheInvariant, PTL DEF Spec, DecodeMakesNoHoles
=============================================================================
