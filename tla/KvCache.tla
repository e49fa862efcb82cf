------------------------------ MODULE KvCache ------------------------------
(***************************************************************************)
(* The unified and the per-sequence KV cache, llama_kv_cache of            *)
(* src/src/llama-kv-cache.cpp, and the part of llama_context::decode that  *)
(* drives it (src/src/llama-context.cpp).                                  *)
(*                                                                         *)
(* The tensors are abstracted to keys: keys[m][i] is the position at which *)
(* the key stored in cell i of stream m is rotated (-1: never written).    *)
(* A key has to be rotated at the position that the meta data claim; the   *)
(* operations on sequences only edit the meta data, and the next decode    *)
(* catches up by copying whole streams (sc_info) and by the K-shift.       *)
(*                                                                         *)
(* A context is used by one thread, so an API call is one step.  A step    *)
(* threads a state S = [v |-> cells of each stream, h |-> head of each     *)
(* stream] through the code's calls.                                       *)
(***************************************************************************)
EXTENDS KvCells, Sequences, SequencesExt

CONSTANTS
    Unified,    \* TRUE: all sequences share stream 0; FALSE: one stream each
    SwaType,    \* "none", "standard", "chunked" or "symmetric"
    NSwa,       \* size of the sliding window
    NUbatch,    \* tokens in one micro batch
    MaxBatch,   \* bound: tokens in one batch
    Shifts,     \* the values of delta seq_add is called with
    MaxCopies,  \* bound: stream copies pending at a time
    StateIO     \* whether the run saves and restores sequences

ASSUME KvCacheAssumption ==
    /\ Unified \in BOOLEAN /\ StateIO \in BOOLEAN
    /\ SwaType \in {"none", "standard", "chunked", "symmetric"}
    /\ {NSwa, NUbatch, MaxBatch} \subseteq Nat \ {0}
    /\ MaxCopies \in Nat
    /\ Shifts \subseteq Int \ {0}

seq_to_stream(s) == IF Unified THEN 0 ELSE s
Streams == {seq_to_stream(s) : s \in Seqs}

\* The streams are numbered from 0.
ASSUME StreamsAssumption == \A m \in Streams : 0 .. m \subseteq Streams

VARIABLES
    v_cells,   \* the cells of each stream
    v_heads,   \* where the search for a slot starts in each stream
    sc_info,   \* stream copies to be done by the next update: <<src, dst>>
    keys,      \* history of the K tensor
    saved,     \* a saved sequence: its positions and keys, in cell order
    deviation, \* which known deviation, if any, has been taken (see below)
    outcome    \* result of the last call, for the properties on decode

vars == <<v_cells, v_heads, sc_info, keys, saved, deviation, outcome>>

Quiet == [call |-> "other", n |-> 0, blind |-> FALSE]
Nothing == [pos |-> <<>>, key |-> <<>>]

Init ==
    /\ v_cells = [m \in Streams |-> Empty]
    /\ v_heads = [m \in Streams |-> 0]
    /\ sc_info = <<>>
    /\ keys = [m \in Streams |-> [i \in Cells |-> -1]]
    /\ saved = Nothing
    /\ deviation = "none"
    /\ outcome = Quiet

(***************************************************************************)
(* Helpers                                                                 *)
(***************************************************************************)
State == [v |-> v_cells, h |-> v_heads]

\* A loop over the cells of M.  What it does to one cell does not decide what
\* it does to another, so the order of the loop does not matter.
ForCells(op(_, _), c, M) == FoldSet(LAMBDA i, d : op(d, i), c, M)

\* The cells of stream m within [p0, p1) that hold s.
Matching(S, m, s, p0, p1) ==
    {i \in Cells : pos_in(S.v[m], i, p0, p1) /\ s \in S.v[m].seq[i]}

PositionsOf(c, s) == {c.pos[i] : i \in {j \in Cells : s \in c.seq[j]}}

Freed(c, d) == {i \in Cells : c.pos[i] # -1 /\ d.pos[i] = -1}

\* "If we freed up a slot, set head to it so searching can start there."
PullHead(S, m, c) ==
    LET F == Freed(S.v[m], c)
        head == IF F # {} /\ Least(F) < S.h[m] THEN Least(F) ELSE S.h[m]
    IN  [v |-> [S.v EXCEPT ![m] = c], h |-> [S.h EXCEPT ![m] = head]]

SeqRmIn(S, s, p0, p1) ==
    LET m == seq_to_stream(s)
    IN  PullHead(S, m, ForCells(LAMBDA c, i : seq_rm(c, i, s), S.v[m],
                                Matching(S, m, s, p0, p1)))

is_masked_swa(p0, p1) ==
    CASE SwaType = "none"      -> FALSE
      [] SwaType = "standard"  -> p1 - p0 >= NSwa
      [] SwaType = "chunked"   -> p0 < (p1 \div NSwa) * NSwa
      [] SwaType = "symmetric" -> p1 - p0 \notin -(NSwa \div 2) .. NSwa \div 2

(***************************************************************************)
(* Finding a slot and putting a micro batch into it.  A micro batch is a   *)
(* sequence of parts, one for each stream it touches; a part is a stream   *)
(* and its tokens, and a token a position and the set of its sequences.    *)
(***************************************************************************)
\* Mutant: the mask is taken one position too far.
CanUseEarly(c, i) ==
    \/ is_empty(c, i)
    \/ \E s \in Seqs : /\ c.seq[i] = {s}
                       /\ is_masked_swa(c.pos[i], seq_pos_max(c, s) + 2)

\* The cell is empty, or all its only sequence will ever ask of it is masked.
CanUse(c, i) ==
    \/ is_empty(c, i)
    \/ \E s \in Seqs : /\ c.seq[i] = {s}
                       /\ is_masked_swa(c.pos[i], seq_pos_max(c, s) + 1)

SearchFrom(c, head, n) == IF head > Cardinality(c.used) + 2 * n THEN 0 ELSE head

\* The k-th smallest element of K.
Nth(K, k) == CHOOSE i \in K : Cardinality({j \in K : j <= i}) = k

\* Mutant: the search does not wrap around.
FindCellsToEnd(c, head, n) ==
    LET usable == {i \in SearchFrom(c, head, n) .. Size - 1 : CanUse(c, i)}
    IN  IF Cardinality(usable) < n THEN <<>> ELSE [k \in 1 .. n |-> Nth(usable, k)]

\* The first n usable cells from the head on, cyclically; <<>> if there are
\* fewer.
FindCells(c, head, n) ==
    LET From(j) == (SearchFrom(c, head, n) + j) % Size
        usable == {j \in Cells : CanUse(c, From(j))}
    IN  IF Cardinality(usable) < n THEN <<>> ELSE [k \in 1 .. n |-> From(Nth(usable, k))]

find_slot(S, ub) ==
    LET idxs == [k \in DOMAIN ub |->
                     FindCells(S.v[ub[k].strm], S.h[ub[k].strm], Len(ub[k].toks))]
    IN  IF \E k \in DOMAIN ub : idxs[k] = <<>> THEN <<>> ELSE idxs

\* One token into one cell.  A cell that is reused is cleared first; rmd[s]
\* is the largest position of s that was overwritten.
Put(acc, i, tok) ==
    LET c == acc.c
        old == IF is_empty(c, i) THEN {} ELSE c.seq[i]
        freed == IF is_empty(c, i) THEN c ELSE rm(c, i)
    IN  [c |-> FoldSet(LAMBDA s, d : seq_add(d, i, s), pos_set(freed, i, tok.pos),
                       tok.seqs),
         rmd |-> [s \in Seqs |-> IF s \in old /\ c.pos[i] > acc.rmd[s]
                                 THEN c.pos[i] ELSE acc.rmd[s]]]

PutPart(acc, part, idxs) ==
    LET done == FoldLeft(LAMBDA a, k : Put(a, idxs[k], part.toks[k]),
                         [c |-> acc.S.v[part.strm], rmd |-> acc.rmd],
                         [k \in DOMAIN idxs |-> k])
    IN  [S |-> [acc.S EXCEPT !.v[part.strm] = done.c], rmd |-> done.rmd]

\* Mutant: the older positions stay.
PurgeNot(S, s, last) == S

\* "We want to preserve the invariant that all positions between [pos_min,
\* pos_max] for each sequence will be present in the cache."
Purge(S, s, last) ==
    LET first == seq_pos_min(S.v[seq_to_stream(s)], s)
    IN  IF last # -1 /\ first <= last THEN SeqRmIn(S, s, first, last + 1) ELSE S

apply_ubatch(S, ub, idxs) ==
    LET put == FoldLeft(LAMBDA a, k : PutPart(a, ub[k], idxs[k]),
                        [S |-> S, rmd |-> [s \in Seqs |-> -1]],
                        [k \in DOMAIN ub |-> k])
        T == FoldSet(LAMBDA s, R : Purge(R, s, put.rmd[s]), put.S, Seqs)
        ends == [m \in {ub[k].strm : k \in DOMAIN ub} |->
                    Last(idxs[CHOOSE k \in DOMAIN ub : ub[k].strm = m]) + 1]
    IN  [T EXCEPT !.h = [m \in Streams |-> IF m \in DOMAIN ends
                                           THEN ends[m] ELSE T.h[m]]]

(***************************************************************************)
(* prepare(): place the micro batches one after another to see whether     *)
(* they fit, then put back what the chosen cells held before.              *)
(***************************************************************************)
TryUbatch(acc, ub) ==
    LET idxs == find_slot(acc.S, ub)
    IN  IF ~acc.ok \/ idxs = <<>> THEN [acc EXCEPT !.ok = FALSE]
        ELSE [ok |-> TRUE, S |-> apply_ubatch(acc.S, ub, idxs),
              stack |-> Append(acc.stack, [before |-> acc.S, ub |-> ub, idxs |-> idxs])]

\* v_heads_old has the heads of all streams, but is read at the index of the
\* part: if the parts are not those of the streams 0, 1, ..., the stream gets
\* the head of another one.
RestorePart(S, st, k) ==
    LET m == st.ub[k].strm
        old == st.before.v[m]
        c == FoldLeft(LAMBDA d, i : set(d, i, old.pos[i], old.seq[i]),
                      S.v[m], st.idxs[k])
    IN  [v |-> [S.v EXCEPT ![m] = c], h |-> [S.h EXCEPT ![m] = st.before.h[k - 1]]]

Restore(S, st) ==
    FoldLeft(LAMBDA R, k : RestorePart(R, st, k), S, [k \in DOMAIN st.ub |-> k])

prepare(S, ubatches) ==
    LET tried == FoldLeft(TryUbatch, [ok |-> TRUE, S |-> S, stack |-> <<>>], ubatches)
    IN  [ok |-> tried.ok,
         S |-> FoldLeft(Restore, tried.S, Reverse(tried.stack)),
         slots |-> [k \in DOMAIN tried.stack |-> tried.stack[k].idxs]]

(***************************************************************************)
(* The operations on sequences.  They change only the meta data.           *)
(***************************************************************************)
Install(S) == v_cells' = S.v /\ v_heads' = S.h

Done == outcome' = Quiet

\* clear(true) also zeroes the buffers; an empty cell's key is never read.
\* Pending stream copies stay pending.  With the cells go the keys that a
\* deviation has spoiled.
Clear ==
    /\ Install([v |-> [m \in Streams |-> Empty], h |-> [m \in Streams |-> 0]])
    /\ deviation' = "none"
    /\ Done
    /\ UNCHANGED <<sc_info, keys, saved>>

SeqRm(s, p0, p1) ==
    /\ Install(SeqRmIn(State, s, p0, p1))
    /\ Done
    /\ UNCHANGED <<sc_info, keys, saved, deviation>>

\* seq_id = -1: the cells of every stream, whatever sequences they hold.
SeqRmAny(p0, p1) ==
    LET Hit(m) == {i \in Cells : pos_in(v_cells[m], i, p0, p1)}
    IN  /\ Install(FoldSet(LAMBDA m, S : PullHead(S, m, ForCells(rm, S.v[m], Hit(m))),
                           State, Streams))
        /\ Done
        /\ UNCHANGED <<sc_info, keys, saved, deviation>>

\* Within a stream the cells are shared.  The code asserts that the
\* destination is not in them yet.
SeqCpShare(src, dst, p0, p1) ==
    LET m == seq_to_stream(src)
        M == Matching(State, m, src, p0, p1)
    IN  /\ src # dst /\ seq_to_stream(dst) = m
        /\ \A i \in M : dst \notin v_cells[m].seq[i]
        /\ v_cells' = [v_cells EXCEPT ![m] = ForCells(LAMBDA c, i : seq_add(c, i, dst), @, M)]
        /\ Done
        /\ UNCHANGED <<v_heads, sc_info, keys, saved, deviation>>

\* Mutant: the pending shift is not passed on to the copy.
CopyCellPlain(c, i, from, dst) == seq_add(pos_set(c, i, from.pos[i]), i, dst)

\* Cell i of the other stream gets the position before the pending shift and
\* then the same shift, so that the key to be copied will be shifted with it.
CopyCell(c, i, from, dst) ==
    LET d == from.shift[i]
        placed == seq_add(pos_set(c, i, from.pos[i] - d), i, dst)
    IN  IF d # 0 THEN pos_add(placed, i, d) ELSE placed

\* Across streams the whole sequence is copied: now the meta data, and the
\* buffers with the next update.  The code asserts pos - shift >= 0.
SeqCpStream(src, dst) ==
    LET m == seq_to_stream(src)
        n == seq_to_stream(dst)
        M == {i \in Cells : src \in v_cells[m].seq[i]}
    IN  /\ m # n
        /\ Len(sc_info) < MaxCopies
        /\ \A i \in M : v_cells[m].pos[i] - v_cells[m].shift[i] \in Positions
        /\ sc_info' = Append(sc_info, <<m, n>>)
        /\ v_cells' = [v_cells EXCEPT ![n] =
                           ForCells(LAMBDA c, i : CopyCell(c, i, v_cells[m], dst), Empty, M)]
        /\ v_heads' = [v_heads EXCEPT ![n] = v_heads[m]]
        /\ Done
        /\ UNCHANGED <<keys, saved, deviation>>

SeqKeep(s) ==
    LET m == seq_to_stream(s)
    IN  /\ Install(PullHead(State, m,
                       ForCells(LAMBDA c, i : seq_keep(c, i, s), v_cells[m], Cells)))
        /\ Done
        /\ UNCHANGED <<sc_info, keys, saved, deviation>>

\* A position pushed below zero frees its cell.  Bound: MaxPos.
SeqAdd(s, p0, p1, d) ==
    LET m == seq_to_stream(s)
        M == Matching(State, m, s, p0, p1)
        c == ForCells(LAMBDA x, i : pos_add(x, i, d), v_cells[m], M)
        F == Freed(v_cells[m], c)
    IN  /\ \A i \in M : v_cells[m].pos[i] + d <= MaxPos
        /\ v_cells' = [v_cells EXCEPT ![m] =
                           ForCells(LAMBDA x, i : pos_add(x, i, d), @, M)]
        /\ v_heads' = [v_heads EXCEPT ![m] = IF F # {} THEN Least(F) ELSE 0]
        /\ Done
        /\ UNCHANGED <<sc_info, keys, saved, deviation>>

\* At least one position is really divided.
SeqDiv(s, p0, p1, d) ==
    LET m == seq_to_stream(s)
        M == Matching(State, m, s, p0, p1)
    IN  /\ \E i \in M : v_cells[m].pos[i] # 0
        /\ v_cells' = [v_cells EXCEPT ![m] = ForCells(LAMBDA c, i : pos_div(c, i, d), @, M)]
        /\ deviation' = "divided"
        /\ Done
        /\ UNCHANGED <<v_heads, sc_info, keys, saved>>

(***************************************************************************)
(* The pending update: copy the streams, then rotate the keys of the used  *)
(* cells by their shifts and forget the shifts.                            *)
(***************************************************************************)
KeysCopied == FoldLeft(LAMBDA K, cp : [K EXCEPT ![cp[2]] = K[cp[1]]], keys, sc_info)

KeysUpdated ==
    [m \in Streams |-> [i \in Cells |->
        IF is_empty(v_cells[m], i) THEN -1
        ELSE KeysCopied[m][i] + v_cells[m].shift[i]]]

HasShift == \E m \in Streams : v_cells[m].has_shift

\* The state that memory_update() leaves to the rest of decode.
Updated ==
    [v |-> [m \in Streams |-> IF HasShift THEN reset_shift(v_cells[m]) ELSE v_cells[m]],
     h |-> v_heads]

UpdatePending == sc_info # <<>> \/ HasShift

(***************************************************************************)
(* decode()                                                                *)
(***************************************************************************)
\* The positions of a batch continue those of its sequences.
NextPos(s) == seq_pos_max(v_cells[seq_to_stream(s)], s) + 1

\* The tokens of s among the first k - 1 of a batch, which is given by the
\* sequences of each token.
Earlier(sets, s, k) == Cardinality({j \in 1 .. k - 1 : s \in sets[j]})

TokensOf(sets) ==
    [k \in DOMAIN sets |->
        LET s == Least(sets[k])
        IN  [pos |-> NextPos(s) + Earlier(sets, s, k), seqs |-> sets[k]]]

\* The lists of sequence sets in which the tokens of a sequence can have
\* consecutive positions.  Bound: MaxBatch.
Lists ==
    {sets \in UNION {[1 .. n -> (SUBSET Seqs) \ {{}}] : n \in 1 .. MaxBatch} :
        \A k \in DOMAIN sets : \A s, t \in sets[k] : Earlier(sets, s, k) = Earlier(sets, t, k)}

\* Sequences in one token are coupled: they must agree on their first and last
\* position in the cache.
Accepted(sets) ==
    \A k \in DOMAIN sets : \A s, t \in sets[k] :
        s # t => /\ seq_pos_min(v_cells[0], s) = seq_pos_min(v_cells[0], t)
                 /\ seq_pos_max(v_cells[0], s) = seq_pos_max(v_cells[0], t)

\* split_simple(): slices of at most NUbatch tokens, in the order of the batch.
Slices(m, toks) ==
    [k \in 1 .. (Len(toks) + NUbatch - 1) \div NUbatch |->
        <<[strm |-> m, toks |-> SubSeq(toks, (k - 1) * NUbatch + 1,
              IF k * NUbatch < Len(toks) THEN k * NUbatch ELSE Len(toks))]>>]

\* n tokens of the sequence s.
Run(s, n) == TokensOf([k \in 1 .. n |-> {s}])

\* split_equal() takes one token of each of two sequences into one micro batch
\* if the second sequence is the next one, and into two otherwise.
SplitPair(s, t) ==
    LET a == [strm |-> s, toks |-> Run(s, 1)]
        b == [strm |-> t, toks |-> Run(t, 1)]
    IN  IF t = s + 1 THEN <<<<a, b>>>> ELSE <<<<a>>, <<b>>>>

\* Bound: with streams a batch has tokens of one sequence or one
\* token of each of two.
Batches ==
    IF Unified
    THEN {Slices(0, TokensOf(sets)) : sets \in {q \in Lists : Accepted(q)}}
    ELSE {Slices(s, Run(s, n)) : s \in Seqs, n \in 1 .. MaxBatch}
         \cup {SplitPair(r[1], r[2]) : r \in {q \in Seqs \X Seqs : q[1] # q[2]}}

Tokens(ub) == UNION {ToSet(ub[k].toks) : k \in DOMAIN ub}
NTokens(batch) == FoldLeft(LAMBDA n, ub :
    n + FoldLeft(LAMBDA l, part : l + Len(part.toks), 0, ub), 0, batch)

\* Computing a micro batch writes the keys of its cells.
WriteKeys(K, ub, idxs) ==
    FoldLeft(LAMBDA L, k : [L EXCEPT ![ub[k].strm] = [i \in Cells |->
                 IF \E j \in DOMAIN idxs[k] : idxs[k][j] = i
                 THEN ub[k].toks[CHOOSE j \in DOMAIN idxs[k] : idxs[k][j] = i].pos
                 ELSE L[ub[k].strm][i]]],
             K, [k \in DOMAIN ub |-> k])

\* A token attends to the positions of its sequence that are not masked for
\* it: those there before the batch, and those of the batch so far.
Sees(S, before, given, tok) ==
    \A s \in tok.seqs : LET m == seq_to_stream(s) IN
        \A q \in PositionsOf(before.v[m], s) \cup {t.pos : t \in {u \in given : s \in u.seqs}} :
            q < tok.pos /\ ~is_masked_swa(q, tok.pos) => q \in PositionsOf(S.v[m], s)

Compute(acc, ub, idxs) ==
    LET S == apply_ubatch(acc.S, ub, idxs)
        given == acc.given \cup Tokens(ub)
    IN  [acc EXCEPT !.S = S, !.K = WriteKeys(@, ub, idxs), !.given = given,
             !.blind = @ \/ \E tok \in Tokens(ub) : ~Sees(S, Updated, given, tok)]

ComputeFirst(p, batch, k) ==
    FoldLeft(LAMBDA acc, j : Compute(acc, batch[j], p.slots[j]),
             [S |-> p.S, K |-> KeysUpdated, given |-> {}, blind |-> FALSE],
             [j \in 1 .. k |-> j])

\* prepare() left other cells than it found.
Unrestored(S) ==
    \E m \in Streams : S.v[m].pos # v_cells[m].pos \/ S.v[m].seq # v_cells[m].seq

\* "remove all positions of that ubatch from the memory module": only the
\* first sequence of each token is looked at.
RemoveFailed(S, ub) ==
    LET Firsts == {Least(tok.seqs) : tok \in Tokens(ub)}
        From(s) == Least({tok.pos : tok \in {t \in Tokens(ub) : s = Least(t.seqs)}})
    IN  FoldSet(LAMBDA s, R : SeqRmIn(R, s, From(s), MaxPos + 1), S, Firsts)

\* No copy is pending after the update, so that the keys of empty cells are
\* not read any more.
Blanked(K, S) ==
    [m \in Streams |-> [i \in Cells |-> IF is_empty(S.v[m], i) THEN -1 ELSE K[m][i]]]

Decoded(S, K, result, n, blind) ==
    /\ Install(S)
    /\ keys' = Blanked(K, S)
    /\ outcome' = [call |-> result, n |-> n, blind |-> blind]
    /\ sc_info' = <<>>
    /\ UNCHANGED saved

\* The batch does not fit: decode returns 1, after the update.
DecodeNoSlot(batch, p) ==
    /\ ~p.ok
    /\ Decoded(p.S, KeysUpdated, "no_slot", NTokens(batch), FALSE)
    /\ deviation' = IF Unrestored(p.S) THEN "unrestored" ELSE deviation

DecodeOk(batch, p) ==
    LET run == ComputeFirst(p, batch, Len(batch))
    IN  /\ p.ok
        /\ Decoded(run.S, run.K, "ok", 0, run.blind)
        /\ deviation' = IF Unrestored(p.S) THEN "unrestored" ELSE deviation

\* The computation of micro batch k fails or is aborted, before or after the
\* keys of its cells are written.
DecodeFails(batch, p, k, wrote) ==
    LET run == ComputeFirst(p, batch, k - 1)
        last == Compute(run, batch[k], p.slots[k])
        coupled == \E tok \in Tokens(batch[k]) : Cardinality(tok.seqs) > 1
    IN  /\ p.ok
        /\ Decoded(RemoveFailed(last.S, batch[k]), IF wrote THEN last.K ELSE run.K,
                   "failed", 0, run.blind)
        /\ deviation' = IF Unrestored(p.S) THEN "unrestored"
                        ELSE IF coupled THEN "coupled" ELSE deviation

\* Bound: MaxPos.
Decode(batch) ==
    /\ \A k \in DOMAIN batch : \A tok \in Tokens(batch[k]) : tok.pos <= MaxPos
    /\ \E p \in {prepare(Updated, batch)} :
           \/ DecodeOk(batch, p)
           \/ DecodeNoSlot(batch, p)
           \/ \E k \in DOMAIN batch, wrote \in BOOLEAN : DecodeFails(batch, p, k, wrote)

(***************************************************************************)
(* Saving and restoring one sequence.  Neither waits for the pending       *)
(* update.  The caller saves no sequence with pending shifts or copies;    *)
(* restoring one into the source or the destination of a pending copy is a *)
(* deviation.                                                              *)
(***************************************************************************)
\* state_write(): the cells of s that are not masked, in order.
SaveSeq(s) ==
    LET m == seq_to_stream(s)
        c == v_cells[m]
        Kept == {i \in Cells : /\ ~is_empty(c, i) /\ s \in c.seq[i]
                               /\ ~is_masked_swa(c.pos[i], seq_pos_max(c, s))}
        order == [k \in 1 .. Cardinality(Kept) |-> Nth(Kept, k)]
    IN  /\ StateIO
        /\ saved' = [pos |-> [k \in DOMAIN order |-> c.pos[order[k]]],
                     key |-> [k \in DOMAIN order |-> keys[m][order[k]]]]
        /\ ~UpdatePending
        /\ Done
        /\ UNCHANGED <<v_cells, v_heads, sc_info, keys, deviation>>

\* state_read() into s: drop what s had, find a slot for the saved cells, put
\* them there and read their keys.  Without a slot s stays empty.
LoadSeq(s) ==
    LET m == seq_to_stream(s)
        toks == [k \in DOMAIN saved.pos |-> [pos |-> saved.pos[k], seqs |-> {s}]]
        ub == <<[strm |-> m, toks |-> toks]>>
        S == SeqRmIn(State, s, 0, MaxPos + 1)
        slot == find_slot(S, ub)
        Index(i) == CHOOSE k \in DOMAIN slot[1] : slot[1][k] = i
    IN  /\ StateIO
        /\ saved # Nothing
        /\ deviation' = IF \E k \in DOMAIN sc_info : m \in ToSet(sc_info[k])
                        THEN "pending" ELSE deviation
        /\ Done
        /\ \/ /\ slot = <<>>
              /\ Install(S)
              /\ UNCHANGED keys
           \/ /\ slot # <<>>
              /\ Install(apply_ubatch(S, ub, slot))
              /\ keys' = [keys EXCEPT ![m] = [i \in Cells |->
                             IF i \in ToSet(slot[1]) THEN saved.key[Index(i)] ELSE @[i]]]
        /\ UNCHANGED <<sc_info, saved>>

Ranges == {r \in Positions \X (1 .. MaxPos + 1) : r[1] < r[2]}

Operation ==
    \/ \E s \in Seqs : SeqKeep(s) \/ SaveSeq(s) \/ LoadSeq(s)
    \/ \E r \in Ranges :
        \/ SeqRmAny(r[1], r[2])
        \/ \E s \in Seqs : SeqRm(s, r[1], r[2]) \/ SeqDiv(s, r[1], r[2], 2)
        \/ \E s, t \in Seqs : SeqCpShare(s, t, r[1], r[2])
        \/ \E s \in Seqs, d \in Shifts : SeqAdd(s, r[1], r[2], d)
    \/ \E s, t \in Seqs : SeqCpStream(s, t)
    \/ \E batch \in Batches : Decode(batch)

\* Bound: after a deviation the cache is cleared before it is used again.
Next ==
    \/ Clear
    \/ deviation = "none" /\ Operation

Spec == Init /\ [][Next]_vars

(***************************************************************************)
(* Properties                                                              *)
(***************************************************************************)

\* The set of used cells and the position counts of every sequence, kept by
\* hand in each method, agree with the cells; a used cell belongs to at least
\* one sequence, and only to sequences of its stream; a shift is pending only
\* with has_shift.
CellsConsistent ==
    \A m \in Streams : LET c == v_cells[m] IN
        /\ Consistent(c)
        /\ \A i \in c.used : /\ c.seq[i] # {}
                             /\ \A s \in c.seq[i] : seq_to_stream(s) = m
        /\ (\E i \in Cells : c.shift[i] # 0) => c.has_shift

\* Once the pending copies and shifts are done, the key of every used cell is
\* rotated at the position that the meta data give it - unless one of the
\* deviations has been taken.
KeysRotated ==
    \A m \in Streams : \A i \in v_cells[m].used : KeysUpdated[m][i] = v_cells[m].pos[i]

KeysMatch == deviation = "none" => KeysRotated

NoHoles(c, s) == LET P == PositionsOf(c, s)
                 IN  \A p, q \in P : p .. q \subseteq P

\* A call of decode makes no hole in the positions of a sequence, even if it
\* overwrites masked cells or its computation fails half-way - unless the
\* placement on trial has already lost cells in the middle.
DecodeMakesNoHoles ==
    [][outcome'.call \in {"ok", "failed"} /\ deviation' # "unrestored" =>
           \A s \in Seqs : LET m == seq_to_stream(s) IN
               NoHoles(v_cells[m], s) => NoHoles(v_cells'[m], s)]_vars

\* Every token is computed with all the positions of its window that were in
\* the cache, or in the batch before it.
TokensSeeWindow == deviation # "unrestored" => ~outcome.blind

\* decode reports a full cache only if there are fewer empty cells, in some
\* stream, than tokens in the batch, wherever the search started.
NoSlotOnlyWhenFull ==
    [][outcome'.call = "no_slot" =>
           \E m \in Streams : Size - Cardinality(v_cells[m].used) < outcome'.n]_vars

\* "iterate backwards and restore the cells to their original state"
\* (llama-kv-cache.cpp, prepare): placing a batch on trial, whether it fits or
\* not, leaves the cells as they were.
PrepareRestores == deviation # "unrestored"

=============================================================================
