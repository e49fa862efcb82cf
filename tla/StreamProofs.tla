---------------------------- MODULE StreamProofs ----------------------------
(***************************************************************************)
(* Proofs about StreamSession and StreamManager, for any capacity of the   *)
(* ring, any chunk sizes and any requests: first the rings; then the map,  *)
(* which sessions can be found and who closes those that cannot; last the  *)
(* readers, and that the sessions implement the append-only logs of        *)
(* ReplayLog (ReplayRefines).  There finalize() seals a log, write()       *)
(* appends to it unless it is sealed, and what read_from() delivers is     *)
(* consecutive, because the last byte a reader has received is its offset  *)
(* (ReaderOK) and the place of a byte in the ring gives its number         *)
(* (RingKeepsTail).                                                        *)
(***************************************************************************)
EXTENDS StreamManager, TLAPS

Session == [buffer : Seq(Nat), prefix_dropped : Nat, done : BOOLEAN, cancelled : BOOLEAN]

\* The ring holds the newest bytes, and is full once it has dropped any.
KeepsTail(s) ==
    /\ \A i \in 1 .. Len(s.buffer) : s.buffer[i] = s.prefix_dropped + i
    /\ s.prefix_dropped > 0 => Len(s.buffer) = CapBytes

Bounded(s) == Len(s.buffer) <= CapBytes

-----------------------------------------------------------------------------
(* Sequences.                                                              *)

LEMMA TailOf ==
    ASSUME NEW q \in Seq(Nat), NEW m \in 1 .. Len(q) + 1
    PROVE  /\ SubSeq(q, m, Len(q)) \in Seq(Nat)
           /\ Len(SubSeq(q, m, Len(q))) = Len(q) + 1 - m
           /\ \A i \in 1 .. Len(q) + 1 - m : SubSeq(q, m, Len(q))[i] = q[m - 1 + i]
    OBVIOUS

LEMMA Joined ==
    ASSUME NEW p \in Seq(Nat), NEW q \in Seq(Nat)
    PROVE  /\ p \o q \in Seq(Nat)
           /\ Len(p \o q) = Len(p) + Len(q)
           /\ \A i \in 1 .. Len(p) : (p \o q)[i] = p[i]
           /\ \A i \in Len(p) + 1 .. Len(p) + Len(q) : (p \o q)[i] = q[i - Len(p)]
    OBVIOUS

LEMMA Numbered ==
    ASSUME NEW k \in Nat, NEW n \in Nat
    PROVE  /\ [i \in 1 .. n |-> k + i] \in Seq(Nat)
           /\ Len([i \in 1 .. n |-> k + i]) = n
           /\ \A i \in 1 .. n : [j \in 1 .. n |-> k + j][i] = k + i
    OBVIOUS

\* Dropping the first d of the numbers k + 1, k + 2, ... and appending the next ones.
LEMMA Slide ==
    ASSUME NEW k \in Nat, NEW q \in Seq(Nat), \A i \in 1 .. Len(q) : q[i] = k + i,
           NEW r \in Seq(Nat), \A i \in 1 .. Len(r) : r[i] = k + Len(q) + i,
           NEW d \in 0 .. Len(q)
    PROVE  LET b == SubSeq(q, d + 1, Len(q)) \o r IN
           /\ b \in Seq(Nat) /\ Len(b) = Len(q) - d + Len(r)
           /\ \A i \in 1 .. Len(b) : b[i] = k + d + i
<1> DEFINE a == SubSeq(q, d + 1, Len(q))
           b == a \o r
<1>1. /\ a \in Seq(Nat) /\ Len(a) = Len(q) - d
      /\ \A i \in 1 .. Len(a) : a[i] = q[d + i]
    <2>1. d + 1 \in 1 .. Len(q) + 1
        OBVIOUS
    <2> QED BY <2>1, TailOf
<1>2. \A i \in 1 .. Len(a) : a[i] = k + d + i
    BY <1>1
<1>3. b = a \o r
    OBVIOUS
<1> HIDE DEF a, b
<1>n. Len(a) \in Nat /\ Len(r) \in Nat /\ Len(q) \in Nat
    BY <1>1
<1>j. /\ a \o r \in Seq(Nat) /\ Len(a \o r) = Len(a) + Len(r)
      /\ \A i \in 1 .. Len(a) : (a \o r)[i] = a[i]
      /\ \A i \in Len(a) + 1 .. Len(a) + Len(r) : (a \o r)[i] = r[i - Len(a)]
    <2>1. a \in Seq(Nat)
        BY <1>1
    <2> QED BY <2>1, Joined, Zenon
<1>4. /\ b \in Seq(Nat) /\ Len(b) = Len(a) + Len(r)
      /\ \A i \in 1 .. Len(a) : b[i] = a[i]
      /\ \A i \in Len(a) + 1 .. Len(a) + Len(r) : b[i] = r[i - Len(a)]
    BY <1>j, <1>3, Zenon
<1>5. \A i \in 1 .. Len(b) : b[i] = k + d + i
    <2> TAKE i \in 1 .. Len(b)
    <2>1. CASE i <= Len(a)
        <3>1. i \in 1 .. Len(a)
            BY <2>1, <1>n
        <3>2. b[i] = a[i] /\ a[i] = k + d + i
            BY <3>1, <1>2, <1>4, Zenon
        <3> QED BY <3>2
    <2>2. CASE i > Len(a)
        <3>1. i - Len(a) \in 1 .. Len(r) /\ b[i] = r[i - Len(a)]
            <4>1. i \in Len(a) + 1 .. Len(a) + Len(r) /\ i - Len(a) \in 1 .. Len(r)
                BY <2>2, <1>n, <1>4
            <4> QED BY <4>1, <1>4, Zenon
        <3>2. r[i - Len(a)] = k + Len(q) + (i - Len(a))
            BY <3>1
        <3> QED BY <3>1, <3>2, <1>1
    <2>3. i <= Len(a) \/ i > Len(a)
        BY <1>n, <1>4
    <2> QED BY <2>1, <2>2, <2>3
<1> QED BY <1>1, <1>4, <1>5 DEF a, b

-----------------------------------------------------------------------------
(* The operations of a session.                                            *)

\* What AppendChunk makes of a prefix p and a buffer q.
NewPrefix(p, q, data) ==
    IF Len(data) >= CapBytes THEN p + Len(q) + (Len(data) - CapBytes)
    ELSE p + (IF Len(q) + Len(data) > CapBytes THEN (Len(q) + Len(data)) - CapBytes ELSE 0)
NewBuffer(q, data) ==
    IF Len(data) >= CapBytes THEN SubSeq(data, Len(data) - CapBytes + 1, Len(data))
    ELSE SubSeq(q, (IF Len(q) + Len(data) > CapBytes THEN (Len(q) + Len(data)) - CapBytes ELSE 0) + 1,
                Len(q)) \o data

\* Both branches of append() keep the newest bytes of p + Len(q) + Len(data).
LEMMA RingAppend ==
    ASSUME NEW p \in Nat, NEW q \in Seq(Nat), NEW data \in Seq(Nat),
           \A i \in 1 .. Len(q) : q[i] = p + i,
           p > 0 => Len(q) = CapBytes,
           Len(q) <= CapBytes,
           \A i \in 1 .. Len(data) : data[i] = p + Len(q) + i
    PROVE  LET x == NewPrefix(p, q, data)
               b == NewBuffer(q, data)
           IN
           /\ x \in Nat /\ b \in Seq(Nat)
           /\ \A i \in 1 .. Len(b) : b[i] = x + i
           /\ x > 0 => Len(b) = CapBytes
           /\ Len(b) <= CapBytes
           /\ x + Len(b) = p + Len(q) + Len(data)
<1> DEFINE x == NewPrefix(p, q, data)
           b == NewBuffer(q, data)
<1>0. CapBytes \in Nat /\ CapBytes > 0 /\ Len(q) \in Nat /\ Len(data) \in Nat
    BY CapAssumption
<1>1. CASE Len(data) >= CapBytes
    <2> DEFINE skip == Len(data) - CapBytes
    <2>1. skip \in Nat /\ skip + 1 \in 1 .. Len(data) + 1 /\ Len(data) = skip + CapBytes
        BY <1>0, <1>1
    <2>2. x = p + Len(q) + skip /\ b = SubSeq(data, skip + 1, Len(data))
        BY <1>1 DEF NewPrefix, NewBuffer
    <2> HIDE DEF skip, x, b
    <2>3. b \in Seq(Nat) /\ Len(b) = CapBytes /\ \A i \in 1 .. CapBytes : b[i] = data[skip + i]
        <3> DEFINE c == SubSeq(data, skip + 1, Len(data))
        <3>1. /\ c \in Seq(Nat) /\ Len(c) = Len(data) + 1 - (skip + 1)
              /\ \A i \in 1 .. Len(data) + 1 - (skip + 1) : c[i] = data[(skip + 1) - 1 + i]
            BY <2>1, TailOf
        <3>2. Len(data) + 1 - (skip + 1) = CapBytes
            BY <2>1, <1>0
        <3>3. \A i \in 1 .. CapBytes : (skip + 1) - 1 + i = skip + i
            BY <2>1
        <3> HIDE DEF c
        <3>4. c \in Seq(Nat) /\ Len(c) = CapBytes
            BY <3>1, <3>2
        <3>5. \A i \in 1 .. CapBytes : c[i] = data[skip + i]
            BY <3>1, <3>2, <3>3
        <3>6. b = c
            BY <2>2 DEF c
        <3> QED BY <3>4, <3>5, <3>6
    <2>4. \A i \in 1 .. Len(b) : b[i] = x + i
        <3> TAKE i \in 1 .. Len(b)
        <3>1. skip + i \in 1 .. Len(data) /\ b[i] = data[skip + i]
            BY <2>1, <2>3, <1>0
        <3>2. data[skip + i] = p + Len(q) + (skip + i)
            BY <3>1
        <3> QED BY <3>1, <3>2, <2>1, <2>2, <1>0
    <2>5. x \in Nat /\ x + Len(b) = p + Len(q) + Len(data)
        <3>1. Len(b) = CapBytes
            BY <2>3
        <3>2. x = p + Len(q) + skip
            BY <2>2
        <3> QED BY <1>0, <2>1, <3>1, <3>2
    <2> QED BY <2>3, <2>4, <2>5, <1>0 DEF x, b
<1>2. CASE Len(data) < CapBytes
    <2> DEFINE drop == IF Len(q) + Len(data) > CapBytes THEN (Len(q) + Len(data)) - CapBytes ELSE 0
    <2>1. /\ drop \in 0 .. Len(q)
          /\ drop > 0 => Len(q) + Len(data) - drop = CapBytes
          /\ drop = 0 => Len(q) + Len(data) <= CapBytes
        BY <1>0, <1>2
    <2>2. x = p + drop /\ b = SubSeq(q, drop + 1, Len(q)) \o data
        <3>1. ~(Len(data) >= CapBytes)
            BY <1>0, <1>2
        <3> QED BY <3>1 DEF NewPrefix, NewBuffer
    <2> HIDE DEF drop, x, b
    <2>3. /\ b \in Seq(Nat) /\ Len(b) = Len(q) - drop + Len(data)
          /\ \A i \in 1 .. Len(b) : b[i] = p + drop + i
        <3> DEFINE c == SubSeq(q, drop + 1, Len(q)) \o data
        <3>1. /\ c \in Seq(Nat) /\ Len(c) = Len(q) - drop + Len(data)
              /\ \A i \in 1 .. Len(c) : c[i] = p + drop + i
            BY <2>1, Slide
        <3> HIDE DEF c
        <3>2. b = c
            BY <2>2 DEF c
        <3> QED BY <3>1, <3>2
    <2>4. \A i \in 1 .. Len(b) : b[i] = x + i
        BY <2>2, <2>3
    <2>5. x \in Nat /\ Len(b) <= CapBytes /\ x + Len(b) = p + Len(q) + Len(data)
        <3>1. Len(b) = Len(q) - drop + Len(data) /\ x = p + drop
            BY <2>2, <2>3
        <3> QED BY <1>0, <2>1, <3>1
    <2>6. x > 0 => Len(b) = CapBytes
        <3>1. Len(b) = Len(q) - drop + Len(data) /\ x = p + drop
            BY <2>2, <2>3
        <3> QED BY <1>0, <2>1, <3>1
    <2> QED BY <2>3, <2>4, <2>5, <2>6 DEF x, b
<1> QED BY <1>0, <1>1, <1>2

\* append() of the next bytes, however many, keeps the ring's promise; a session that is
\* not finalized grows by them.
LEMMA AppendKeepsTail ==
    ASSUME NEW s \in Session, KeepsTail(s), Bounded(s), ~s.done,
           NEW data \in Seq(Nat), \A i \in 1 .. Len(data) : data[i] = TotalSize(s) + i
    PROVE  LET t == AppendChunk(s, data) IN
           t \in Session /\ KeepsTail(t) /\ Bounded(t)
           /\ TotalSize(t) = TotalSize(s) + Len(data) /\ ~t.done /\ t.cancelled = s.cancelled
<1> DEFINE p == s.prefix_dropped
           q == s.buffer
           x == NewPrefix(p, q, data)
           b == NewBuffer(q, data)
           t == AppendChunk(s, data)
<1>1. p \in Nat /\ q \in Seq(Nat)
    BY DEF Session
<1>2. t = [s EXCEPT !.prefix_dropped = x, !.buffer = b]
    <2>1. CASE Len(data) >= CapBytes
        BY <2>1 DEF AppendChunk, NewPrefix, NewBuffer
    <2>2. CASE ~(Len(data) >= CapBytes)
        BY <2>2 DEF AppendChunk, NewPrefix, NewBuffer
    <2> QED BY <2>1, <2>2
<1>3. /\ \A i \in 1 .. Len(q) : q[i] = p + i
      /\ p > 0 => Len(q) = CapBytes
      /\ Len(q) <= CapBytes
      /\ \A i \in 1 .. Len(data) : data[i] = p + Len(q) + i
    BY DEF KeepsTail, Bounded, TotalSize
<1> HIDE DEF p, q
<1>4. /\ x \in Nat /\ b \in Seq(Nat)
      /\ \A i \in 1 .. Len(b) : b[i] = x + i
      /\ x > 0 => Len(b) = CapBytes
      /\ Len(b) <= CapBytes
      /\ x + Len(b) = p + Len(q) + Len(data)
    BY <1>1, <1>3, RingAppend
<1> HIDE DEF x, b, t
<1>5. /\ t \in Session /\ t.buffer = b /\ t.prefix_dropped = x
      /\ t.done = s.done /\ t.cancelled = s.cancelled
    <2> DEFINE u == [s EXCEPT !.prefix_dropped = x, !.buffer = b]
    <2>0. x \in Nat /\ b \in Seq(Nat)
        BY <1>4
    <2>1. /\ u \in Session /\ u.buffer = b /\ u.prefix_dropped = x
          /\ u.done = s.done /\ u.cancelled = s.cancelled
        BY ONLY s \in Session, <2>0 DEF Session
    <2> QED BY <2>1, <1>2
<1>6. KeepsTail(t) /\ Bounded(t)
    BY <1>4, <1>5 DEF KeepsTail, Bounded
<1>7. TotalSize(t) = TotalSize(s) + Len(data)
    BY <1>4, <1>5 DEF TotalSize, p, q
<1> QED BY <1>5, <1>6, <1>7 DEF t

\* finalize() and cancel() leave the bytes alone; nothing enters a finalized session.
LEMMA CloseKeepsTail ==
    ASSUME NEW s \in Session
    PROVE  /\ Finalize(s) \in Session /\ Cancel(s) \in Session
           /\ Finalize(s).buffer = s.buffer /\ Cancel(s).buffer = s.buffer
           /\ Finalize(s).prefix_dropped = s.prefix_dropped
           /\ Cancel(s).prefix_dropped = s.prefix_dropped
           /\ Finalize(s).done /\ Cancel(s).done = s.done
           /\ Finalize(s).cancelled = s.cancelled /\ Cancel(s).cancelled
    BY DEF Session, Finalize, Cancel

LEMMA AppendWhenDone == ASSUME NEW s, s.done, NEW d PROVE AppendChunk(s, d) = s
    BY DEF AppendChunk
-----------------------------------------------------------------------------
(* The sessions of the manager.                                            *)

PcNames == PostPcs \cup {"open", "read", "cancel", "finalize"}

\* A session that is not finalized holds, or has dropped, every byte the request has
\* generated but the chunk in hand, which exists only between next() and write().
PostOK(p) ==
    /\ KeepsTail(sess[p]) /\ Bounded(sess[p])
    /\ chunk[p].size <= generated[p]
    /\ pc[p] # "write" => chunk[p].size = 0
    /\ ~sess[p].done => TotalSize(sess[p]) + chunk[p].size = generated[p]

RingTypes ==
    /\ sess \in [Posts -> Session]
    /\ pc \in [Threads -> PcNames]
    /\ generated \in [Posts -> Nat]
    /\ chunk \in [Posts -> [size : Nat, last : BOOLEAN]]

RingInv == RingTypes /\ \A p \in Posts : PostOK(p)

\* Steps that generate and write nothing: all but next() and write().
Quiet ==
    /\ UNCHANGED <<generated, chunk>>
    /\ pc' \in [Threads -> PcNames]
    /\ \A p \in Posts : pc[p] = "write" => pc'[p] = "write"
    /\ sess' \in [Posts -> Session]
    /\ \A p \in Posts : sess'[p] \in {sess[p], Finalize(sess[p]), Cancel(sess[p])}

LEMMA CloseKeepsPost ==
    ASSUME NEW s \in Session, KeepsTail(s), Bounded(s),
           NEW t \in {s, Finalize(s), Cancel(s)}
    PROVE  KeepsTail(t) /\ Bounded(t) /\ TotalSize(t) = TotalSize(s) /\ (~t.done => ~s.done)
<1>1. t.buffer = s.buffer /\ t.prefix_dropped = s.prefix_dropped /\ (~t.done => ~s.done)
    BY CloseKeepsTail
<1> QED BY <1>1 DEF KeepsTail, Bounded, TotalSize

LEMMA QuietKeeps == RingInv /\ Quiet => RingInv'
<1> SUFFICES ASSUME RingInv, Quiet PROVE RingInv'
    OBVIOUS
<1>1. RingTypes'
    BY DEF RingInv, RingTypes, Quiet
<1>2. ASSUME NEW p \in Posts PROVE PostOK(p)'
    <2>1. /\ sess[p] \in Session /\ KeepsTail(sess[p]) /\ Bounded(sess[p])
          /\ sess'[p] \in {sess[p], Finalize(sess[p]), Cancel(sess[p])}
        BY <1>2 DEF RingInv, RingTypes, PostOK, Quiet
    <2>2. /\ KeepsTail(sess'[p]) /\ Bounded(sess'[p])
          /\ TotalSize(sess'[p]) = TotalSize(sess[p]) /\ (~sess'[p].done => ~sess[p].done)
        BY <2>1, CloseKeepsPost
    <2>3. chunk'[p] = chunk[p] /\ generated'[p] = generated[p] /\ (pc[p] = "write" => pc'[p] = "write")
        BY <1>2 DEF Quiet
    <2>4. PostOK(p)
        BY <1>2 DEF RingInv
    <2>5. (KeepsTail(sess[p]))' = KeepsTail(sess'[p]) /\ (Bounded(sess[p]))' = Bounded(sess'[p])
          /\ (TotalSize(sess[p]))' = TotalSize(sess'[p])
        BY DEF KeepsTail, Bounded, TotalSize
    <2> QED BY <2>2, <2>3, <2>4, <2>5 DEF PostOK
<1> QED BY <1>1, <1>2 DEF RingInv

\* A thread that is not at "write", or not a POST, and goes elsewhere.
LEMMA Moves ==
    ASSUME RingInv, NEW t \in Threads, NEW l \in PcNames, Goto(t, l),
           t \in Posts => pc[t] # "write"
    PROVE  /\ pc' \in [Threads -> PcNames]
           /\ \A p \in Posts : pc[p] = "write" => pc'[p] = "write"
    BY DEF RingInv, RingTypes, Goto, Threads

\* A step on one session, if there is one.
LEMMA Closes ==
    ASSUME RingInv, NEW x, sess' = [sess EXCEPT ![x] = Cancel(@)]
                           \/ sess' = [sess EXCEPT ![x] = Finalize(@)] \/ sess' = sess
    PROVE  /\ sess' \in [Posts -> Session]
           /\ \A p \in Posts : sess'[p] \in {sess[p], Finalize(sess[p]), Cancel(sess[p])}
<1>1. \A s \in Session : Finalize(s) \in Session /\ Cancel(s) \in Session
    BY CloseKeepsTail
<1>2. sess \in [Posts -> Session]
    BY DEF RingInv, RingTypes
<1> QED BY <1>1, <1>2

LEMMA CloserIsQuiet ==
    ASSUME RingInv, NEW t \in Posts \cup Deletes, CancelTarget(t) \/ FinalizeTarget(t)
    PROVE  Quiet
<1>0. t \in Threads
    BY DEF Threads
<1>1. CASE CancelTarget(t)
    <2>1. pc[t] \in {"cancelPrevious", "cancel"}
        BY <1>1 DEF CancelTarget, AfterCancel
    <2>2. AfterCancel[pc[t]] \in PcNames
        BY <2>1 DEF AfterCancel, PcNames, PostPcs
    <2>3. Goto(t, AfterCancel[pc[t]]) /\ pc[t] # "write"
        BY <1>1, <2>1 DEF CancelTarget
    <2>4. /\ pc' \in [Threads -> PcNames]
          /\ \A p \in Posts : pc[p] = "write" => pc'[p] = "write"
        BY <1>0, <2>2, <2>3, Moves
    <2>5. sess' = [sess EXCEPT ![target[t]] = Cancel(@)] /\ UNCHANGED <<generated, chunk>>
        BY <1>1 DEF CancelTarget, postVars
    <2> QED BY <2>4, <2>5, Closes DEF Quiet
<1>2. CASE FinalizeTarget(t)
    <2>1. pc[t] \in {"finalizePrevious", "finalize", "finalizeEvicted"}
        BY <1>2 DEF FinalizeTarget, AfterFinalize
    <2>2. AfterFinalize[pc[t]] \in PcNames
        BY <2>1 DEF AfterFinalize, PcNames, PostPcs
    <2>3. Goto(t, AfterFinalize[pc[t]]) /\ pc[t] # "write"
        BY <1>2, <2>1 DEF FinalizeTarget
    <2>4. /\ pc' \in [Threads -> PcNames]
          /\ \A p \in Posts : pc[p] = "write" => pc'[p] = "write"
        BY <1>0, <2>2, <2>3, Moves
    <2>5. sess' = [sess EXCEPT ![target[t]] = Finalize(@)] /\ UNCHANGED <<generated, chunk>>
        BY <1>2 DEF FinalizeTarget, postVars
    <2> QED BY <2>4, <2>5, Closes DEF Quiet
<1> QED BY <1>1, <1>2

LEMMA PostIsQuiet ==
    ASSUME RingInv, NEW p \in Posts,
           \/ SetReq(p) \/ Reject(p) \/ Abort(p) \/ FirstResult(p) \/ Drain(p)
           \/ Evict(p) \/ Destroy(p)
    PROVE  Quiet
<1>0. p \in Threads
    BY DEF Threads
<1>1. \E l \in PcNames : Goto(p, l) /\ pc[p] # "write"
    BY DEF SetReq, Reject, Abort, FirstResult, Drain, Evict, Destroy, PcNames, PostPcs
<1>2. /\ pc' \in [Threads -> PcNames]
      /\ \A q \in Posts : pc[q] = "write" => pc'[q] = "write"
    BY <1>0, <1>1, Moves
<1>3. /\ sess' = [sess EXCEPT ![p] = Finalize(@)] \/ sess' = sess
      /\ UNCHANGED <<generated, chunk>>
    BY DEF SetReq, Reject, Abort, FirstResult, Drain, Evict, Destroy, postVars
<1> QED BY <1>2, <1>3, Closes DEF Quiet

LEMMA GetIsQuiet ==
    ASSUME RingInv, NEW r \in Gets, Lookup(r) \/ GetStep(r)
    PROVE  Quiet
<1>0. r \in Threads /\ r \notin Posts
    BY RequestsAssumption DEF Threads
<1>1. /\ \E l \in PcNames : Goto(r, l)
      /\ sess' = sess /\ UNCHANGED <<generated, chunk>>
    BY DEF Lookup, GetStep, Open, ReadChunk, ReadEnd, PcNames, PostPcs, postVars
<1>2. /\ pc' \in [Threads -> PcNames]
      /\ \A p \in Posts : pc[p] = "write" => pc'[p] = "write"
    BY <1>0, <1>1, Moves
<1> QED BY <1>1, <1>2, Closes DEF Quiet

LEMMA DeleteIsQuiet ==
    ASSUME RingInv, NEW d \in Deletes, Delete(d)
    PROVE  Quiet
<1>0. d \in Threads /\ pc[d] # "write"
    BY DEF Threads, Delete
<1>1. /\ \E l \in PcNames : Goto(d, l)
      /\ sess' = sess /\ UNCHANGED <<generated, chunk>>
    BY DEF Delete, PcNames, PostPcs, postVars
<1>2. /\ pc' \in [Threads -> PcNames]
      /\ \A p \in Posts : pc[p] = "write" => pc'[p] = "write"
    BY <1>0, <1>1, Moves
<1> QED BY <1>1, <1>2, Closes DEF Quiet

LEMMA OthersAreQuiet ==
    ASSUME RingInv,
           \/ \E t \in Closing : Disconnect(t)
           \/ CollectGarbage \/ StopGc \/ FinalizeSnapshot \/ StopHttp \/ UNCHANGED vars
    PROVE  Quiet
<1>1. pc' = pc /\ UNCHANGED <<generated, chunk>>
    BY DEF Disconnect, CollectGarbage, StopGc, FinalizeSnapshot, StopHttp, vars, postVars
<1>2. sess' = sess \/ \E x : sess' = [sess EXCEPT ![x] = Finalize(@)]
    BY DEF Disconnect, CollectGarbage, StopGc, FinalizeSnapshot, StopHttp, vars
<1>3. /\ sess' \in [Posts -> Session]
      /\ \A p \in Posts : sess'[p] \in {sess[p], Finalize(sess[p]), Cancel(sess[p])}
    BY <1>2, Closes
<1> QED BY <1>1, <1>3 DEF Quiet, RingInv, RingTypes

\* The end of next(): n bytes were generated and are in hand.
LEMMA NextKeeps ==
    ASSUME RingInv, NEW p \in Posts, pc[p] # "write",
           NEW n \in Nat, NEW last \in BOOLEAN,
           chunk' = [chunk EXCEPT ![p] = [size |-> n, last |-> last]],
           generated' = [generated EXCEPT ![p] = @ + n],
           Goto(p, "write"), sess' = sess
    PROVE  RingInv'
<1>1. RingTypes
    BY DEF RingInv
<1>2. /\ chunk' \in [Posts -> [size : Nat, last : BOOLEAN]] /\ generated' \in [Posts -> Nat]
      /\ pc' \in [Threads -> PcNames]
    <2>1. chunk' \in [Posts -> [size : Nat, last : BOOLEAN]]
        BY <1>1 DEF RingTypes
    <2>2. generated' \in [Posts -> Nat]
        BY <1>1 DEF RingTypes
    <2>3. pc' \in [Threads -> PcNames]
        BY <1>1 DEF RingTypes, Goto, PcNames, PostPcs
    <2> QED BY <2>1, <2>2, <2>3
<1>3. RingTypes'
    BY <1>1, <1>2 DEF RingTypes
<1>4. ASSUME NEW q \in Posts PROVE PostOK(q)'
    <2>1. PostOK(q) /\ sess[q] \in Session /\ generated[q] \in Nat
        BY <1>1 DEF RingInv, RingTypes
    <2>2. /\ (KeepsTail(sess[q]))' = KeepsTail(sess[q]) /\ (Bounded(sess[q]))' = Bounded(sess[q])
          /\ (TotalSize(sess[q]))' = TotalSize(sess[q]) /\ sess'[q] = sess[q]
        BY DEF KeepsTail, Bounded, TotalSize
    <2>3. CASE q = p
        <3>1. chunk'[p].size = n /\ generated'[p] = generated[p] + n /\ pc'[p] = "write"
            BY <1>1 DEF RingTypes, Goto, Threads
        <3>2. TotalSize(sess[p]) \in Nat
            BY <2>1, <2>3 DEF Session, TotalSize
        <3>3. ~sess[p].done => TotalSize(sess[p]) = generated[p]
            BY <2>1, <2>3, <3>2 DEF PostOK
        <3>4. n <= generated[p] + n /\ (~sess[p].done => TotalSize(sess[p]) + n = generated[p] + n)
            BY <2>1, <2>3, <3>3
        <3> QED BY <2>1, <2>2, <2>3, <3>1, <3>4 DEF PostOK
    <2>4. CASE q # p
        <3>1. chunk'[q] = chunk[q] /\ generated'[q] = generated[q] /\ pc'[q] = pc[q]
            BY <1>1, <2>4 DEF RingTypes, Goto, Threads
        <3> QED BY <2>1, <2>2, <3>1 DEF PostOK
    <2> QED BY <2>3, <2>4
<1> QED BY <1>3, <1>4 DEF RingInv

LEMMA ProducerKeeps ==
    ASSUME RingInv, NEW p \in Posts, CallNext(p) \/ Poll(p) \/ Result(p)
    PROVE  RingInv'
<1>0. RingTypes
    BY DEF RingInv
<1>1. CASE CallNext(p) /\ ~ShouldStop(p)
    <2>1. p \in Threads /\ Goto(p, "await") /\ pc[p] # "write" /\ "await" \in PcNames
          /\ sess' = sess /\ UNCHANGED <<generated, chunk>>
        BY <1>1 DEF CallNext, Threads, PcNames, PostPcs
    <2>2. /\ pc' \in [Threads -> PcNames]
          /\ \A q \in Posts : pc[q] = "write" => pc'[q] = "write"
        BY <2>1, Moves
    <2>3. Quiet
        BY <2>1, <2>2, Closes DEF Quiet
    <2> QED BY <2>3, QuietKeeps
<1>2. CASE (CallNext(p) /\ ShouldStop(p)) \/ Poll(p)
    <2>1. /\ chunk' = [chunk EXCEPT ![p] = [size |-> 0, last |-> TRUE]] /\ generated' = generated
          /\ pc[p] # "write" /\ Goto(p, "write") /\ sess' = sess
        BY <1>2 DEF CallNext, Poll, LastChunk
    <2>2. generated' = [generated EXCEPT ![p] = @ + 0]
        BY <2>1, <1>0 DEF RingTypes
    <2> QED BY <2>1, <2>2, NextKeeps
<1>3. CASE Result(p)
    <2>1. PICK n \in Chunks \cup {0}, last \in BOOLEAN :
             /\ chunk' = [chunk EXCEPT ![p] = [size |-> n, last |-> last]]
             /\ generated' = [generated EXCEPT ![p] = @ + n]
        BY <1>3 DEF Result
    <2>2. n \in Nat
        BY RequestsAssumption
    <2>3. pc[p] # "write" /\ Goto(p, "write") /\ sess' = sess
        BY <1>3 DEF Result
    <2> QED BY <2>1, <2>2, <2>3, NextKeeps
<1> QED BY <1>1, <1>2, <1>3

\* write(): the chunk enters the ring, unless the session is finalized.
LEMMA WriteKeeps ==
    ASSUME RingInv, NEW p \in Posts, WriteChunk(p)
    PROVE  RingInv'
<1> DEFINE s     == sess[p]
           n     == chunk[p].size
           first == generated[p] - n
           data  == [i \in 1 .. n |-> first + i]
           t     == AppendChunk(s, data)
<1>1. RingTypes /\ PostOK(p) /\ s \in Session /\ n \in Nat /\ generated[p] \in Nat /\ first \in Nat
    BY DEF RingInv, RingTypes, PostOK
<1>2. /\ sess' = [sess EXCEPT ![p] = t] /\ chunk' = [chunk EXCEPT ![p] = NoChunk]
      /\ generated' = generated
    BY DEF WriteChunk
<1>3. /\ data \in Seq(Nat) /\ Len(data) = n
      /\ \A i \in 1 .. n : data[i] = first + i
    <2> HIDE DEF n, first
    <2> QED BY <1>1, Numbered
<1>4. /\ t \in Session /\ KeepsTail(t) /\ Bounded(t)
      /\ ~t.done => TotalSize(t) = generated[p]
    <2>1. CASE s.done
        <3>1. t = s
            BY <2>1, AppendWhenDone
        <3> QED BY <1>1, <2>1, <3>1 DEF PostOK
    <2>2. CASE ~s.done
        <3>1. TotalSize(s) \in Nat /\ TotalSize(s) = first
            <4>1. TotalSize(s) \in Nat
                BY <1>1 DEF Session, TotalSize
            <4>2. TotalSize(s) + n = generated[p]
                BY <1>1, <2>2 DEF PostOK
            <4> QED BY <4>1, <4>2, <1>1
        <3>2. \A i \in 1 .. Len(data) : data[i] = TotalSize(s) + i
            BY <3>1, <1>3
        <3>3. KeepsTail(s) /\ Bounded(s)
            BY <1>1 DEF PostOK
        <3> HIDE DEF data, s
        <3>4. /\ t \in Session /\ KeepsTail(t) /\ Bounded(t)
              /\ TotalSize(t) = TotalSize(s) + Len(data)
            BY <1>1, <1>3, <2>2, <3>2, <3>3, AppendKeepsTail
        <3> QED BY <3>1, <3>4, <1>1, <1>3
    <2> QED BY <2>1, <2>2
<1> HIDE DEF t, data
<1>5. /\ sess' \in [Posts -> Session] /\ chunk' \in [Posts -> [size : Nat, last : BOOLEAN]]
      /\ pc' \in [Threads -> PcNames]
    <2>1. sess' \in [Posts -> Session]
        BY <1>1, <1>2, <1>4 DEF RingTypes
    <2>2. chunk' \in [Posts -> [size : Nat, last : BOOLEAN]]
        BY <1>1, <1>2 DEF RingTypes, NoChunk
    <2>3. pc' \in [Threads -> PcNames]
        BY <1>1 DEF RingTypes, WriteChunk, Goto, PcNames, PostPcs
    <2> QED BY <2>1, <2>2, <2>3
<1>6. RingTypes'
    BY <1>1, <1>2, <1>5 DEF RingTypes
<1>7. ASSUME NEW q \in Posts PROVE PostOK(q)'
    <2>1. /\ (KeepsTail(sess[q]))' = KeepsTail(sess'[q]) /\ (Bounded(sess[q]))' = Bounded(sess'[q])
          /\ (TotalSize(sess[q]))' = TotalSize(sess'[q])
        BY DEF KeepsTail, Bounded, TotalSize
    <2>2. CASE q = p
        <3>1. sess'[q] = t /\ chunk'[q].size = 0 /\ generated'[q] = generated[p]
            BY <1>1, <1>2, <2>2 DEF RingTypes, NoChunk
        <3>2. ~t.done => TotalSize(t) + 0 = generated[p]
            BY <1>1, <1>4
        <3>3. 0 <= generated[p]
            BY <1>1
        <3> QED BY <1>4, <2>1, <3>1, <3>2, <3>3 DEF PostOK
    <2>3. CASE q # p
        <3>1. sess'[q] = sess[q] /\ chunk'[q] = chunk[q] /\ generated'[q] = generated[q]
            BY <1>1, <1>2, <2>3 DEF RingTypes
        <3>2. pc'[q] = pc[q]
            BY <1>1, <2>3 DEF RingTypes, WriteChunk, Goto, Threads
        <3>3. PostOK(q)
            BY DEF RingInv
        <3> QED BY <2>1, <3>1, <3>2, <3>3 DEF PostOK
    <2> QED BY <2>2, <2>3
<1> QED BY <1>6, <1>7 DEF RingInv

LEMMA RingInit == Init => RingInv
<1> SUFFICES ASSUME Init PROVE RingInv
    OBVIOUS
<1>1. Fresh \in Session /\ KeepsTail(Fresh) /\ Bounded(Fresh) /\ TotalSize(Fresh) = 0
    BY CapAssumption DEF Fresh, Session, KeepsTail, Bounded, TotalSize
<1>2. RingTypes
    BY <1>1 DEF Init, RingTypes, NoChunk, PcNames, PostPcs
<1>3. ASSUME NEW p \in Posts PROVE PostOK(p)
    BY <1>1 DEF Init, PostOK, NoChunk
<1> QED BY <1>2, <1>3 DEF RingInv

LEMMA RingNext == RingInv /\ [Next]_vars => RingInv'
<1> SUFFICES ASSUME RingInv, [Next]_vars PROVE RingInv'
    OBVIOUS
<1>1. ASSUME NEW p \in Posts, PostStep(p) \/ SetReq(p) \/ Reject(p) \/ FirstResult(p)
                              \/ Result(p) \/ Drain(p)
      PROVE  RingInv'
    <2>1. CASE CancelTarget(p) \/ FinalizeTarget(p)
        BY <2>1, CloserIsQuiet, QuietKeeps
    <2>2. CASE SetReq(p) \/ Reject(p) \/ Abort(p) \/ FirstResult(p) \/ Drain(p)
               \/ Evict(p) \/ Destroy(p)
        BY <2>2, PostIsQuiet, QuietKeeps
    <2>3. CASE CallNext(p) \/ Poll(p) \/ Result(p)
        BY <2>3, ProducerKeeps
    <2>4. CASE WriteChunk(p)
        BY <2>4, WriteKeeps
    <2> QED BY <1>1, <2>1, <2>2, <2>3, <2>4 DEF PostStep
<1>2. ASSUME NEW r \in Gets, Lookup(r) \/ GetStep(r) PROVE RingInv'
    BY <1>2, GetIsQuiet, QuietKeeps
<1>3. ASSUME NEW d \in Deletes, Delete(d) \/ CancelTarget(d) \/ FinalizeTarget(d) PROVE RingInv'
    BY <1>3, DeleteIsQuiet, CloserIsQuiet, QuietKeeps
<1>4. CASE \/ \E t \in Closing : Disconnect(t)
           \/ CollectGarbage \/ StopGc \/ FinalizeSnapshot \/ StopHttp \/ UNCHANGED vars
    BY <1>4, OthersAreQuiet, QuietKeeps
<1> QED BY <1>1, <1>2, <1>3, <1>4 DEF Next

THEOREM RingInvariant == Spec => []RingInv
<1> QED BY RingInit, RingNext, PTL DEF Spec

\* append() keeps the newest bytes and counts those it lost, for any capacity, any sizes of
\* chunks and any interleaving of producers, readers, deletions, collection and shutdown.
THEOREM RingIsCorrect == Spec => []RingKeepsTail
<1>1. RingInv => RingKeepsTail
    BY DEF RingInv, PostOK, KeepsTail, RingKeepsTail
<1> QED BY <1>1, RingInvariant, PTL

\* No session ever holds more than STREAM_SESSION_MAX_BYTES bytes.
THEOREM RingBounded == Spec => [](\A p \in Posts : Len(sess[p].buffer) <= CapBytes)
<1>1. RingInv => \A p \in Posts : Len(sess[p].buffer) <= CapBytes
    BY DEF RingInv, PostOK, Bounded
<1> QED BY <1>1, RingInvariant, PTL

-----------------------------------------------------------------------------
(* The map of the sessions; its proofs rest on the invariant of the rings.  *)

ClosingPcs == {"cancelPrevious", "finalizePrevious", "cancel", "finalize", "finalizeEvicted"}

InMap(p) == sessions[Conv[p]] = p

MapTypes ==
    /\ sessions \in [Convs -> Posts \cup {None}]
    /\ target \in [Threads -> Posts \cup {None}]
    /\ ended \in [Posts -> BOOLEAN]
    /\ snapshot \subseteq Posts
    /\ \A p \in Posts : pc[p] \in PostPcs
    /\ \A r \in Gets : pc[r] \in {"new", "open", "read", "end"}
    /\ \A d \in Deletes : pc[d] \in {"new", "cancel", "finalize", "end"}

\* A conversation maps to a session of its own.
MapOK == \A c \in Convs : sessions[c] \in Posts => Conv[sessions[c]] = c

\* A session in the map was not cancelled, nor finalized by another thread than its
\* producer, which has then finished the generation.
FoundOK(p) ==
    InMap(p) =>
       /\ pc[p] \notin {"new", "finalizeEvicted"} /\ ~sess[p].cancelled
       /\ sess[p].done => pc[p] = "end"
       /\ pc[p] = "write" /\ chunk[p].last => ended[p]
       /\ pc[p] \in {"destroy", "end"} => ended[p] /\ TotalSize(sess[p]) = generated[p]

\* A session that no request has created yet is untouched.
NewOK(p) == pc[p] = "new" => ~sess[p].done /\ ~sess[p].cancelled

\* What a thread is closing has left the map for good.
CloserOK(t) ==
    pc[t] \in ClosingPcs =>
       target[t] \in Posts /\ pc[target[t]] # "new" /\ ~InMap(target[t])

\* stop_gc finalizes what it took out of the map, and takes it out once.
SnapshotOK ==
    /\ \A p \in snapshot : pc[p] # "new" /\ ~InMap(p)
    /\ stopping = "no" => snapshot = {}

ClosedBy(p, t) == target[t] = p /\ pc[t] \in ClosingPcs

\* OutsideIsClosing for one session.
OutsideOK(p) ==
    pc[p] \notin {"new", "end"} /\ ~sess[p].done /\ ~InMap(p) =>
       p \in snapshot \/ \E t \in Posts \cup Deletes : ClosedBy(p, t)

MapInv ==
    /\ RingInv /\ MapTypes /\ MapOK /\ SnapshotOK
    /\ \A p \in Posts : FoundOK(p) /\ OutsideOK(p) /\ NewOK(p)
    /\ \A t \in Posts \cup Deletes : CloserOK(t)

LEMMA ThreadsDiffer ==
    /\ Posts \subseteq Threads /\ Gets \subseteq Threads /\ Deletes \subseteq Threads
    /\ Posts \cap Gets = {} /\ Posts \cap Deletes = {} /\ Gets \cap Deletes = {}
    /\ None \notin Posts /\ \A t \in Threads : Conv[t] \in Convs
    BY RequestsAssumption DEF Threads

LEMMA Closers == DOMAIN AfterCancel \cup DOMAIN AfterFinalize = ClosingPcs
    BY DEF AfterCancel, AfterFinalize, ClosingPcs

\* The steps of a POST that touch neither the map nor a session.
PostQuiet(p) ==
    \/ Reject(p) \/ Abort(p) \/ FirstResult(p)
    \/ CallNext(p) \/ Poll(p) \/ Drain(p) \/ Result(p)

LEMMA PostQuietKeeps ==
    ASSUME MapInv, RingInv', NEW p \in Posts, PostQuiet(p)
    PROVE  MapInv'
<1>0. /\ pc \in [Threads -> PcNames] /\ MapTypes /\ RingInv
      /\ UNCHANGED <<sessions, sess, target, snapshot, stopping>>
      /\ pc[p] \in {"prepare", "next", "await"}
    BY DEF MapInv, RingInv, RingTypes, PostQuiet, Reject, Abort, FirstResult, CallNext, Poll, Drain,
           Result, postVars, stopVars
<1>1. \E l \in {"evict", "next", "write", "await", "destroy"} : pc' = [pc EXCEPT ![p] = l]
    BY DEF PostQuiet, Reject, Abort, FirstResult, CallNext, Poll, Drain, Result, Goto
<1>2. /\ ended' \in [Posts -> BOOLEAN] /\ \A q \in Posts \ {p} : ended'[q] = ended[q]
      /\ \A q \in Posts \ {p} : generated'[q] = generated[q]
      /\ \A q \in Posts \ {p} : chunk'[q] = chunk[q]
    BY <1>0 DEF MapTypes, RingInv, RingTypes, PostQuiet, Reject, Abort, FirstResult, CallNext, Poll, Drain,
           Result, postVars
<1>3. MapTypes'
    BY <1>0, <1>1, <1>2, ThreadsDiffer DEF MapTypes, PostPcs
<1>4. MapOK' /\ SnapshotOK'
    BY <1>0, <1>1, ThreadsDiffer DEF MapInv, MapOK, SnapshotOK, InMap
<1>5. ASSUME NEW t \in Posts \cup Deletes PROVE CloserOK(t)'
    BY <1>0, <1>1, ThreadsDiffer DEF MapInv, CloserOK, InMap, ClosingPcs
<1>6. ASSUME NEW q \in Posts PROVE OutsideOK(q)'
    <2>1. OutsideOK(q)
        BY DEF MapInv
    <2>2. \A t \in Posts \cup Deletes : ClosedBy(q, t) => ClosedBy(q, t)'
        BY <1>0, <1>1, ThreadsDiffer DEF ClosedBy, ClosingPcs
    <2> QED BY <1>0, <1>1, <2>1, <2>2, ThreadsDiffer DEF OutsideOK, InMap
<1>7. ASSUME NEW q \in Posts PROVE FoundOK(q)'
    <2>1. FoundOK(q)
        BY DEF MapInv
    <2>2. CASE q # p
        BY <1>0, <1>1, <1>2, <2>1, <2>2, ThreadsDiffer DEF FoundOK, InMap, TotalSize
    <2>3. CASE q = p
        <3>1. ASSUME InMap(q), pc'[q] = "destroy" PROVE FALSE
            BY <3>1, <2>1, <2>3, <1>0 DEF FoundOK, PostQuiet, Reject, Abort, FirstResult, CallNext,
               Poll, Drain, Result, Goto, ShouldStop
        <3>2. ASSUME InMap(q), pc'[q] = "write", chunk'[q].last PROVE ended'[q]
            BY <3>2, <2>1, <2>3, <1>0, ThreadsDiffer DEF FoundOK, PostQuiet, Reject, Abort, FirstResult, CallNext,
               Poll, Drain, Result, Goto, ShouldStop, RingInv, RingTypes, MapTypes
        <3> QED BY <1>0, <1>1, <2>1, <2>3, <3>1, <3>2, ThreadsDiffer DEF FoundOK, InMap
    <2> QED BY <2>2, <2>3
<1>n. ASSUME NEW q \in Posts PROVE NewOK(q)'
    BY <1>0, <1>1, ThreadsDiffer DEF MapInv, NewOK
<1> QED BY <1>3, <1>4, <1>5, <1>6, <1>7, <1>n DEF MapInv

LEMMA SessionFacts ==
    ASSUME NEW s \in Session
    PROVE  /\ Finalize(s).done /\ Finalize(s).cancelled = s.cancelled
           /\ TotalSize(Finalize(s)) = TotalSize(s)
           /\ Cancel(s).done = s.done /\ Cancel(s).cancelled /\ TotalSize(Cancel(s)) = TotalSize(s)
           /\ \A d : AppendChunk(s, d).done = s.done /\ AppendChunk(s, d).cancelled = s.cancelled
<1>1. \A d : AppendChunk(s, d).done = s.done /\ AppendChunk(s, d).cancelled = s.cancelled
    BY DEF AppendChunk, Session
<1> QED BY <1>1, CloseKeepsTail DEF TotalSize

\* write() and the end of a request: they change only the POST's own session.
LEMMA OwnKeeps ==
    ASSUME MapInv, RingInv', NEW p \in Posts, WriteChunk(p) \/ Destroy(p)
    PROVE  MapInv'
<1>0. /\ pc \in [Threads -> PcNames] /\ sess \in [Posts -> Session] /\ MapTypes /\ RingInv
      /\ UNCHANGED <<sessions, target, snapshot, stopping, ended, generated>>
      /\ pc[p] \in {"write", "destroy"}
    BY DEF MapInv, RingInv, RingTypes, WriteChunk, Destroy, postVars, stopVars
<1>1. \E l \in {"next", "destroy", "end"} : pc' = [pc EXCEPT ![p] = l]
    BY DEF WriteChunk, Destroy, Goto
<1>2. /\ \A q \in Posts \ {p} : sess'[q] = sess[q] /\ chunk'[q] = chunk[q]
      /\ sess'[p].cancelled = sess[p].cancelled
      /\ WriteChunk(p) => sess'[p].done = sess[p].done
      /\ Destroy(p) => sess'[p].done /\ TotalSize(sess'[p]) = TotalSize(sess[p])
    <2>1. sess[p] \in Session
        BY <1>0
    <2>2. CASE WriteChunk(p)
        <3>1. PICK d : sess' = [sess EXCEPT ![p] = AppendChunk(@, d)]
            BY <2>2 DEF WriteChunk
        <3>2. sess'[p] = AppendChunk(sess[p], d) /\ \A q \in Posts \ {p} : sess'[q] = sess[q]
            BY <3>1, <1>0
        <3>3. \A q \in Posts \ {p} : chunk'[q] = chunk[q]
            BY <2>2, <1>0 DEF WriteChunk, RingInv, RingTypes
        <3>4. ~Destroy(p)
            BY <2>2 DEF WriteChunk, Destroy
        <3> QED BY <2>1, <3>2, <3>3, <3>4, SessionFacts
    <2>3. CASE Destroy(p)
        <3>1. sess'[p] = Finalize(sess[p]) /\ \A q \in Posts \ {p} : sess'[q] = sess[q]
            BY <2>3, <1>0 DEF Destroy
        <3>2. chunk' = chunk /\ ~WriteChunk(p)
            BY <2>3 DEF Destroy, WriteChunk, postVars
        <3> QED BY <2>1, <3>1, <3>2, SessionFacts
    <2> QED BY <2>2, <2>3
<1>3. MapTypes'
    BY <1>0, <1>1, ThreadsDiffer DEF MapTypes, PostPcs
<1>4. MapOK' /\ SnapshotOK'
    BY <1>0, <1>1, ThreadsDiffer DEF MapInv, MapOK, SnapshotOK, InMap
<1>5. ASSUME NEW t \in Posts \cup Deletes PROVE CloserOK(t)'
    BY <1>0, <1>1, ThreadsDiffer DEF MapInv, CloserOK, InMap, ClosingPcs
<1>6. ASSUME NEW q \in Posts PROVE OutsideOK(q)'
    <2>1. OutsideOK(q)
        BY DEF MapInv
    <2>2. \A t \in Posts \cup Deletes : ClosedBy(q, t) => ClosedBy(q, t)'
        BY <1>0, <1>1, ThreadsDiffer DEF ClosedBy, ClosingPcs
    <2>3. CASE q # p
        BY <1>0, <1>1, <1>2, <2>1, <2>2, <2>3, ThreadsDiffer DEF OutsideOK, InMap
    <2>4. CASE q = p
        <3>1. ~sess'[q].done => ~sess[q].done
            BY <1>2, <2>4
        <3>2. pc[q] \notin {"new", "end"}
            BY <1>0, <2>4
        <3> QED BY <1>0, <2>1, <2>2, <3>1, <3>2 DEF OutsideOK, InMap
    <2> QED BY <2>3, <2>4
<1>7. ASSUME NEW q \in Posts PROVE FoundOK(q)'
    <2>1. FoundOK(q)
        BY DEF MapInv
    <2>2. CASE q # p
        <3>1. sess'[q] = sess[q] /\ chunk'[q] = chunk[q] /\ pc'[q] = pc[q] /\ generated'[q] = generated[q]
              /\ ended'[q] = ended[q] /\ InMap(q)' = InMap(q)
            BY <1>0, <1>1, <1>2, <2>2, ThreadsDiffer DEF InMap
        <3>2. (TotalSize(sess[q]))' = TotalSize(sess[q])
            BY <3>1 DEF TotalSize
        <3> QED BY <2>1, <3>1, <3>2 DEF FoundOK
    <2>3. CASE q = p /\ WriteChunk(p)
        <3>1. ASSUME InMap(q) PROVE ~sess'[q].done
            BY <3>1, <1>0, <1>2, <2>1, <2>3 DEF FoundOK, WriteChunk
        <3>2. ASSUME InMap(q), pc'[q] = "destroy"
              PROVE  ended'[q] /\ (TotalSize(sess[q]))' = generated'[q]
            <4>1. chunk[q].last /\ pc[q] = "write"
                BY <3>2, <2>3, <1>0, ThreadsDiffer DEF WriteChunk, Goto
            <4>2. ended[q] /\ chunk'[q].size = 0
                BY <3>2, <4>1, <2>1, <2>3, <1>0 DEF FoundOK, WriteChunk, NoChunk, RingInv, RingTypes
            <4>3. PostOK(q)' /\ (TotalSize(sess[q]))' \in Nat
                BY DEF RingInv, RingTypes, Session, TotalSize
            <4> QED BY <1>0, <3>1, <3>2, <4>2, <4>3 DEF PostOK
        <3>3. pc'[q] \in {"next", "destroy"}
            BY <2>3, <1>0, ThreadsDiffer DEF WriteChunk, Goto
        <3> QED BY <1>0, <1>2, <2>1, <2>3, <3>1, <3>2, <3>3 DEF FoundOK, InMap
    <2>4. CASE q = p /\ Destroy(p)
        <3>1. pc[q] = "destroy" /\ pc'[q] = "end"
            BY <2>4, <1>0, ThreadsDiffer DEF Destroy, Goto
        <3>2. (TotalSize(sess[q]))' = TotalSize(sess[q])
            BY <1>2, <2>4 DEF TotalSize
        <3> QED BY <1>0, <1>2, <2>1, <2>4, <3>1, <3>2 DEF FoundOK, InMap
    <2> QED BY <2>2, <2>3, <2>4
<1>n. ASSUME NEW q \in Posts PROVE NewOK(q)'
    BY <1>0, <1>1, <1>2, ThreadsDiffer DEF MapInv, NewOK
<1> QED BY <1>3, <1>4, <1>5, <1>6, <1>7, <1>n DEF MapInv

\* Threads that close a session, and stop_gc.
LEMMA CloserKeeps ==
    ASSUME MapInv, RingInv', NEW u \in Posts \cup Deletes, CancelTarget(u) \/ FinalizeTarget(u)
    PROVE  MapInv'
<1>0. /\ pc \in [Threads -> PcNames] /\ sess \in [Posts -> Session] /\ MapTypes /\ RingInv
      /\ UNCHANGED <<sessions, snapshot, stopping, ended, generated, chunk>> /\ u \in Threads
    BY ThreadsDiffer DEF MapInv, RingInv, RingTypes, CancelTarget, FinalizeTarget, postVars, stopVars
<1>1. pc[u] \in ClosingPcs
    BY Closers DEF CancelTarget, FinalizeTarget
<1>2. /\ target[u] \in Posts /\ pc[target[u]] # "new" /\ ~InMap(target[u])
    BY <1>1 DEF MapInv, CloserOK
<1>3. /\ sess'[target[u]] \in {Cancel(sess[target[u]]), Finalize(sess[target[u]])}
      /\ \A q \in Posts \ {target[u]} : sess'[q] = sess[q]
    BY <1>0, <1>2 DEF CancelTarget, FinalizeTarget
<1>4. \E l \in {"finalizePrevious", "finalize", "prepare", "end", "destroy"} :
         /\ pc' = [pc EXCEPT ![u] = l]
         /\ u \in Posts => l # "finalize"
         /\ u \in Posts => l # "end"
         /\ u \in Deletes => l \in {"finalize", "end"}
         /\ l \in ClosingPcs => target' = target
    <2>1. CASE CancelTarget(u)
        <3>1. pc[u] \in {"cancelPrevious", "cancel"} /\ target' = target
              /\ pc' = [pc EXCEPT ![u] = AfterCancel[pc[u]]]
            BY <2>1 DEF CancelTarget, AfterCancel, Goto
        <3>2. u \in Posts => pc[u] # "cancel"
            BY <1>0 DEF MapTypes, PostPcs
        <3>3. u \in Deletes => pc[u] = "cancel"
            BY <1>0, <3>1 DEF MapTypes
        <3>4. pc[u] = "cancel" => AfterCancel[pc[u]] = "finalize"
            BY DEF AfterCancel
        <3>5. pc[u] = "cancelPrevious" => AfterCancel[pc[u]] = "finalizePrevious"
            BY DEF AfterCancel
        <3> QED BY <3>1, <3>2, <3>3, <3>4, <3>5
    <2>2. CASE FinalizeTarget(u)
        <3>1. pc[u] \in {"finalizePrevious", "finalize", "finalizeEvicted"}
              /\ pc' = [pc EXCEPT ![u] = AfterFinalize[pc[u]]]
            BY <2>2 DEF FinalizeTarget, AfterFinalize, Goto
        <3>2. u \in Posts => pc[u] # "finalize"
            BY <1>0 DEF MapTypes, PostPcs
        <3>3. u \in Deletes => pc[u] = "finalize"
            BY <1>0, <3>1 DEF MapTypes
        <3>4. /\ pc[u] = "finalize" => AfterFinalize[pc[u]] = "end"
              /\ pc[u] = "finalizePrevious" => AfterFinalize[pc[u]] = "prepare"
              /\ pc[u] = "finalizeEvicted" => AfterFinalize[pc[u]] = "destroy"
            BY DEF AfterFinalize
        <3> QED BY <3>1, <3>2, <3>3, <3>4 DEF ClosingPcs
    <2> QED BY <2>1, <2>2
<1>5. target' \in [Threads -> Posts \cup {None}] /\ \A t \in Threads \ {u} : target'[t] = target[t]
    BY <1>0 DEF MapTypes, CancelTarget, FinalizeTarget
<1>6. MapTypes'
    <2>1. PICK l \in {"finalizePrevious", "finalize", "prepare", "end", "destroy"} :
             /\ pc' = [pc EXCEPT ![u] = l]
             /\ u \in Posts => l # "finalize" /\ l # "end"
             /\ u \in Deletes => l \in {"finalize", "end"}
        BY <1>4
    <2>2. \A t \in Threads : pc'[t] = IF t = u THEN l ELSE pc[t]
        BY <1>0, <2>1
    <2>3. ASSUME NEW p \in Posts PROVE pc'[p] \in PostPcs
        BY <1>0, <2>1, <2>2, ThreadsDiffer DEF MapTypes, PostPcs
    <2>4. ASSUME NEW r \in Gets PROVE pc'[r] \in {"new", "open", "read", "end"}
        BY <1>0, <2>2, ThreadsDiffer DEF MapTypes
    <2>5. ASSUME NEW d \in Deletes PROVE pc'[d] \in {"new", "cancel", "finalize", "end"}
        BY <1>0, <2>1, <2>2, ThreadsDiffer DEF MapTypes
    <2> QED BY <1>0, <1>5, <2>3, <2>4, <2>5 DEF MapTypes
<1>7. MapOK' /\ SnapshotOK'
    BY <1>0, <1>4, ThreadsDiffer DEF MapInv, MapOK, SnapshotOK, InMap
<1>8. ASSUME NEW t \in Posts \cup Deletes PROVE CloserOK(t)'
    <2>1. CloserOK(t)
        BY DEF MapInv
    <2>2. \A x \in Threads : pc[x] # "new" => pc'[x] # "new"
        BY <1>0, <1>4
    <2>3. pc'[t] \in ClosingPcs => pc[t] \in ClosingPcs /\ target'[t] = target[t]
        <3>1. CASE t = u
            BY <3>1, <1>0, <1>1, <1>4
        <3>2. CASE t # u
            BY <3>2, <1>0, <1>4, <1>5, ThreadsDiffer
        <3> QED BY <3>1, <3>2
    <2> QED BY <1>0, <2>1, <2>2, <2>3, ThreadsDiffer DEF CloserOK, InMap
<1>9. ASSUME NEW q \in Posts PROVE OutsideOK(q)'
    <2>1. OutsideOK(q)
        BY DEF MapInv
    <2>2. ~sess'[q].done => ~sess[q].done
        BY <1>0, <1>2, <1>3, SessionFacts
    <2>3. pc'[q] \notin {"new", "end"} => pc[q] \notin {"new", "end"}
        BY <1>0, <1>1, <1>4, ThreadsDiffer DEF ClosingPcs
    <2>4. \A t \in (Posts \cup Deletes) \ {u} : ClosedBy(q, t) => ClosedBy(q, t)'
        BY <1>0, <1>4, <1>5, ThreadsDiffer DEF ClosedBy
    <2>5. ClosedBy(q, u) /\ ~sess'[q].done => ClosedBy(q, u)'
        <3>1. CASE CancelTarget(u)
            <4>1. pc[u] \in {"cancelPrevious", "cancel"} /\ target' = target
                  /\ pc' = [pc EXCEPT ![u] = AfterCancel[pc[u]]]
                BY <3>1 DEF CancelTarget, AfterCancel, Goto
            <4>2. pc'[u] \in {"finalizePrevious", "finalize"}
                BY <4>1, <1>0 DEF AfterCancel
            <4> QED BY <4>1, <4>2 DEF ClosedBy, ClosingPcs
        <3>2. CASE FinalizeTarget(u)
            <4>1. sess'[target[u]] = Finalize(sess[target[u]])
                BY <3>2, <1>0, <1>2 DEF FinalizeTarget
            <4> QED BY <4>1, <1>0, <1>2, SessionFacts DEF ClosedBy
        <3> QED BY <3>1, <3>2
    <2> QED BY <1>0, <2>1, <2>2, <2>3, <2>4, <2>5 DEF OutsideOK, InMap
<1>10. ASSUME NEW q \in Posts PROVE FoundOK(q)'
    <2>1. FoundOK(q)
        BY DEF MapInv
    <2>2. CASE ~InMap(q)
        BY <1>0, <2>2 DEF FoundOK, InMap
    <2>3. CASE InMap(q)
        <3>1. q # target[u] /\ sess'[q] = sess[q]
            BY <1>2, <1>3, <2>3
        <3>2. (TotalSize(sess[q]))' = TotalSize(sess[q])
            BY <3>1 DEF TotalSize
        <3>3. CASE q # u
            <4>1. pc'[q] = pc[q]
                BY <1>0, <1>4, <3>3, ThreadsDiffer
            <4> QED BY <1>0, <2>1, <3>1, <3>2, <4>1 DEF FoundOK, InMap
        <3>4. CASE q = u
            <4>1. pc[q] # "finalizeEvicted" /\ ~sess[q].done
                BY <1>1, <2>1, <2>3, <3>4 DEF FoundOK, ClosingPcs
            <4>2. pc'[q] \in {"finalizePrevious", "prepare"}
                <5>1. pc[q] \in {"cancelPrevious", "finalizePrevious"}
                    BY <1>0, <1>1, <3>4, <4>1 DEF ClosingPcs, MapTypes, PostPcs
                <5>2. pc'[q] = IF pc[q] = "cancelPrevious" THEN "finalizePrevious" ELSE "prepare"
                    BY <5>1, <3>4, <1>0 DEF CancelTarget, FinalizeTarget, AfterCancel, AfterFinalize, Goto
                <5> QED BY <5>2
            <4> QED BY <1>0, <2>1, <2>3, <3>1, <4>1, <4>2 DEF FoundOK, InMap
        <3> QED BY <3>3, <3>4
    <2> QED BY <2>2, <2>3
<1>n. ASSUME NEW q \in Posts PROVE NewOK(q)'
    <2>1. NewOK(q)
        BY DEF MapInv
    <2>2. pc'[q] = "new" => pc[q] = "new"
        BY <1>0, <1>4, ThreadsDiffer
    <2>3. pc'[q] = "new" => sess'[q] = sess[q]
        BY <1>2, <1>3, <2>2
    <2> QED BY <2>1, <2>2, <2>3 DEF NewOK
<1> QED BY <1>6, <1>7, <1>8, <1>9, <1>10, <1>n DEF MapInv

\* create_or_replace: the session it replaces is what the thread closes next.
LEMMA SetReqKeeps ==
    ASSUME MapInv, RingInv', NEW p \in Posts, SetReq(p)
    PROVE  MapInv'
<1> DEFINE old == sessions[Conv[p]]
<1>0. /\ pc \in [Threads -> PcNames] /\ sess \in [Posts -> Session] /\ MapTypes /\ RingInv /\ MapOK
      /\ UNCHANGED <<sess, snapshot, stopping, ended, generated, chunk>>
      /\ p \in Threads /\ Conv[p] \in Convs /\ pc[p] = "new"
    BY ThreadsDiffer DEF MapInv, RingInv, RingTypes, SetReq, postVars, stopVars
<1>1. /\ sessions' = [sessions EXCEPT ![Conv[p]] = p] /\ target' = [target EXCEPT ![p] = old]
      /\ pc' = [pc EXCEPT ![p] = IF old = None THEN "prepare" ELSE "cancelPrevious"]
    BY DEF SetReq, Goto
<1>2. ~InMap(p) /\ \A q \in Posts : InMap(q) => pc[q] # "new"
    BY <1>0 DEF MapInv, FoundOK
<1>3. InMap(p)' /\ \A q \in Posts \ {p} : InMap(q)' => InMap(q)
    BY <1>0, <1>1, ThreadsDiffer DEF InMap, MapTypes
<1>4. \A q \in Posts \ {p} : InMap(q) /\ ~InMap(q)' => q = old
    BY <1>0, <1>1, ThreadsDiffer DEF InMap, MapTypes
<1>5. old \in Posts \cup {None} /\ old # p /\ (old \in Posts => InMap(old) /\ pc[old] # "new")
    BY <1>0, <1>2, ThreadsDiffer DEF InMap, MapTypes, MapOK
<1>6. MapTypes'
    BY <1>0, <1>1, <1>5, ThreadsDiffer DEF MapTypes, PostPcs
<1>7. MapOK' /\ SnapshotOK'
    <2>1. MapOK'
        BY <1>0, <1>1, ThreadsDiffer DEF MapOK, MapTypes
    <2>2. SnapshotOK'
        BY <1>0, <1>1, <1>3, ThreadsDiffer DEF MapInv, SnapshotOK, MapTypes
    <2> QED BY <2>1, <2>2
<1>8. ASSUME NEW t \in Posts \cup Deletes PROVE CloserOK(t)'
    <2>1. CASE t = p
        <3>1. pc'[t] \in ClosingPcs => old # None
            BY <2>1, <1>0, <1>1 DEF ClosingPcs
        <3>2. target'[t] = old
            BY <2>1, <1>0, <1>1 DEF MapTypes
        <3>3. old \in Posts => sessions'[Conv[old]] # old
            <4>1. old \in Posts => Conv[old] = Conv[p]
                BY <1>0 DEF MapOK
            <4> QED BY <4>1, <1>0, <1>1, <1>5 DEF MapTypes
        <3>4. old \in Posts => pc'[old] = pc[old]
            BY <1>0, <1>1, <1>5, ThreadsDiffer
        <3> HIDE DEF old
        <3>5. pc'[t] \in ClosingPcs =>
                 target'[t] \in Posts /\ pc'[target'[t]] # "new"
                 /\ sessions'[Conv[target'[t]]] # target'[t]
            BY <1>5, <3>1, <3>2, <3>3, <3>4
        <3> QED BY <3>5 DEF CloserOK, InMap
    <2>2. CASE t # p
        <3>1. t \in Threads /\ pc'[t] = pc[t] /\ target'[t] = target[t] /\ CloserOK(t)
            BY <2>2, <1>0, <1>1, ThreadsDiffer DEF MapTypes, MapInv
        <3>2. pc[t] \in ClosingPcs => target[t] # p
            BY <3>1, <1>0 DEF CloserOK
        <3>3. pc[t] \in ClosingPcs => ~InMap(target[t])'
            BY <3>1, <3>2, <1>3 DEF CloserOK
        <3> QED BY <3>1, <3>2, <3>3, <1>0, <1>1, ThreadsDiffer DEF CloserOK, InMap
    <2> QED BY <2>1, <2>2
<1>9. ASSUME NEW q \in Posts PROVE OutsideOK(q)'
    <2>1. OutsideOK(q)
        BY DEF MapInv
    <2>2. CASE q = p
        BY <1>3, <2>2 DEF OutsideOK
    <2>3. CASE q # p
        <3>1. pc'[q] = pc[q] /\ sess'[q] = sess[q]
            BY <2>3, <1>0, <1>1, ThreadsDiffer
        <3>2. \A t \in Posts \cup Deletes : ClosedBy(q, t) => ClosedBy(q, t)'
            BY <1>0, <1>1, ThreadsDiffer DEF ClosedBy, ClosingPcs, MapTypes
        <3>3. q = old => ClosedBy(q, p)'
            BY <1>0, <1>1, ThreadsDiffer DEF ClosedBy, ClosingPcs, MapTypes
        <3> QED BY <1>0, <1>4, <2>1, <2>3, <3>1, <3>2, <3>3 DEF OutsideOK
    <2> QED BY <2>2, <2>3
<1>10. ASSUME NEW q \in Posts PROVE FoundOK(q)'
    <2>1. FoundOK(q)
        BY DEF MapInv
    <2>2. (TotalSize(sess[q]))' = TotalSize(sess[q])
        BY <1>0 DEF TotalSize
    <2>3. CASE q # p
        <3>1. pc'[q] = pc[q]
            BY <2>3, <1>0, <1>1, ThreadsDiffer
        <3> QED BY <1>0, <1>3, <2>1, <2>2, <2>3, <3>1 DEF FoundOK
    <2>4. CASE q = p
        <3>1. pc'[q] \in {"prepare", "cancelPrevious"}
            BY <2>4, <1>0, <1>1
        <3>2. ~sess[q].done /\ ~sess[q].cancelled
            BY <2>4, <1>0 DEF MapInv, NewOK
        <3> QED BY <1>0, <3>1, <3>2 DEF FoundOK
    <2> QED BY <2>3, <2>4
<1>n. ASSUME NEW q \in Posts PROVE NewOK(q)'
    BY <1>0, <1>1, ThreadsDiffer DEF MapInv, NewOK
<1> QED BY <1>6, <1>7, <1>8, <1>9, <1>10, <1>n DEF MapInv

\* evict and evict_and_cancel: the thread that takes a session out closes it next.
LEMMA TakeOutKeeps ==
    ASSUME MapInv, RingInv', NEW u \in Posts \cup Deletes,
           (u \in Posts /\ Evict(u)) \/ (u \in Deletes /\ Delete(u))
    PROVE  MapInv'
<1> DEFINE old == sessions[Conv[u]]
<1>0. /\ pc \in [Threads -> PcNames] /\ sess \in [Posts -> Session] /\ MapTypes /\ RingInv /\ MapOK
      /\ UNCHANGED <<sess, snapshot, stopping, ended, generated, chunk>>
      /\ u \in Threads /\ Conv[u] \in Convs
      /\ pc[u] \notin ClosingPcs /\ (u \in Posts => pc[u] = "evict")
    BY ThreadsDiffer DEF MapInv, RingInv, RingTypes, Evict, Delete, postVars, stopVars, ClosingPcs
<1>1. /\ sessions' = [sessions EXCEPT ![Conv[u]] = None] /\ target' = [target EXCEPT ![u] = old]
      /\ \E l \in {"finalizeEvicted", "cancel", "destroy", "end"} :
            /\ pc' = [pc EXCEPT ![u] = l]
            /\ u \in Posts => l \in {"finalizeEvicted", "destroy"}
            /\ u \in Deletes => l \in {"cancel", "end"}
            /\ l \in ClosingPcs <=> old # None
    BY ThreadsDiffer DEF Evict, Delete, Goto, ClosingPcs
<1>2. \A q \in Posts : InMap(q) => pc[q] # "new"
    BY DEF MapInv, FoundOK
<1>3. /\ \A q \in Posts : InMap(q)' => InMap(q)
      /\ u \in Posts => ~InMap(u)'
    BY <1>0, <1>1, ThreadsDiffer DEF InMap, MapTypes
<1>4. \A q \in Posts : InMap(q) /\ ~InMap(q)' => q = old
    BY <1>0, <1>1, ThreadsDiffer DEF InMap, MapTypes
<1>5. old \in Posts \cup {None} /\ (old \in Posts => InMap(old) /\ pc[old] # "new")
    BY <1>0, <1>2, ThreadsDiffer DEF InMap, MapTypes, MapOK
<1>6. MapTypes'
    BY <1>0, <1>1, <1>5, ThreadsDiffer DEF MapTypes, PostPcs
<1>a. \A q \in Threads : pc[q] # "new" => pc'[q] # "new"
    BY <1>0, <1>1
<1>b. \A q \in Posts : q # u => pc'[q] = pc[q]
    BY <1>0, <1>1, ThreadsDiffer
<1>7. MapOK' /\ SnapshotOK'
    <2>1. MapOK'
        BY <1>0, <1>1, ThreadsDiffer DEF MapOK, MapTypes
    <2>2. SnapshotOK'
        BY <1>0, <1>3, <1>a, ThreadsDiffer DEF MapInv, SnapshotOK, MapTypes
    <2> QED BY <2>1, <2>2
<1>8. ASSUME NEW t \in Posts \cup Deletes PROVE CloserOK(t)'
    <2>1. CASE t = u
        <3>1. pc'[t] \in ClosingPcs => old # None
            BY <2>1, <1>0, <1>1
        <3>2. target'[t] = old
            BY <2>1, <1>0, <1>1 DEF MapTypes
        <3>3. old \in Posts => sessions'[Conv[old]] # old
            <4>1. old \in Posts => Conv[old] = Conv[u]
                BY <1>0 DEF MapOK
            <4> QED BY <4>1, <1>0, <1>1, ThreadsDiffer DEF MapTypes
        <3>4. old \in Posts => pc'[old] # "new"
            BY <1>5, <1>a, ThreadsDiffer
        <3> HIDE DEF old
        <3>5. pc'[t] \in ClosingPcs =>
                 target'[t] \in Posts /\ pc'[target'[t]] # "new"
                 /\ sessions'[Conv[target'[t]]] # target'[t]
            BY <1>5, <3>1, <3>2, <3>3, <3>4
        <3> QED BY <3>5 DEF CloserOK, InMap
    <2>2. CASE t # u
        <3>1. t \in Threads /\ pc'[t] = pc[t] /\ target'[t] = target[t] /\ CloserOK(t)
            BY <2>2, <1>0, <1>1, ThreadsDiffer DEF MapTypes, MapInv
        <3>2. pc[t] \in ClosingPcs => ~InMap(target[t])'
            BY <3>1, <1>3 DEF CloserOK
        <3> QED BY <3>1, <3>2, <1>a, ThreadsDiffer DEF CloserOK, InMap
    <2> QED BY <2>1, <2>2
<1>9. ASSUME NEW q \in Posts PROVE OutsideOK(q)'
    <2>1. OutsideOK(q)
        BY DEF MapInv
    <2>2. \A t \in Posts \cup Deletes : ClosedBy(q, t) => ClosedBy(q, t)'
        BY <1>0, <1>1, ThreadsDiffer DEF ClosedBy, MapTypes
    <2>3. q = old => ClosedBy(q, u)'
        BY <1>0, <1>1, ThreadsDiffer DEF ClosedBy, MapTypes
    <2>4. pc'[q] \notin {"new", "end"} => pc[q] \notin {"new", "end"}
        BY <1>0, <1>1, <1>b
    <2> QED BY <1>0, <1>4, <2>1, <2>2, <2>3, <2>4 DEF OutsideOK
<1>10. ASSUME NEW q \in Posts PROVE FoundOK(q)'
    <2>1. FoundOK(q)
        BY DEF MapInv
    <2>2. (TotalSize(sess[q]))' = TotalSize(sess[q])
        BY <1>0 DEF TotalSize
    <2>3. InMap(q)' => InMap(q) /\ pc'[q] = pc[q]
        BY <1>3, <1>b
    <2> QED BY <1>0, <2>1, <2>2, <2>3 DEF FoundOK
<1>n. ASSUME NEW q \in Posts PROVE NewOK(q)'
    <2>1. pc'[q] = "new" => pc[q] = "new"
        BY <1>a, ThreadsDiffer
    <2> QED BY <1>0, <2>1 DEF MapInv, NewOK
<1> QED BY <1>6, <1>7, <1>8, <1>9, <1>10, <1>n DEF MapInv

\* The collector takes out finalized sessions; stop_gc takes out all and remembers them.
LEMMA SweepKeeps ==
    ASSUME MapInv, RingInv', CollectGarbage \/ StopGc
    PROVE  MapInv'
<1>0. /\ sess \in [Posts -> Session] /\ MapTypes /\ RingInv /\ MapOK
      /\ UNCHANGED <<sess, ended, generated, chunk, pc, target>> /\ stopping = "no"
    BY DEF MapInv, RingInv, RingTypes, CollectGarbage, StopGc, postVars
<1>1. /\ sessions' \in [Convs -> Posts \cup {None}]
      /\ \A c \in Convs : sessions'[c] = sessions[c] \/ sessions'[c] = None
    BY <1>0 DEF CollectGarbage, StopGc, MapTypes
<1>2. \A q \in Posts : InMap(q)' => InMap(q)
    BY <1>1, ThreadsDiffer DEF InMap
<1>3. snapshot' \subseteq Posts /\ \A q \in snapshot' : pc[q] # "new" /\ ~InMap(q)'
    <2>1. CASE CollectGarbage
        BY <2>1, <1>0 DEF CollectGarbage, stopVars, MapInv, SnapshotOK
    <2>2. CASE StopGc
        <3>1. \A q \in Posts : ~InMap(q)'
            BY <2>2, ThreadsDiffer DEF StopGc, InMap
        <3>2. \A q \in snapshot' : q \in Posts /\ InMap(q)
            BY <2>2, <1>0 DEF StopGc, MapTypes, MapOK, InMap
        <3>3. \A q \in Posts : InMap(q) => pc[q] # "new"
            BY DEF MapInv, FoundOK
        <3> QED BY <3>1, <3>2, <3>3
    <2> QED BY <2>1, <2>2
<1>4. stopping' = "no" => snapshot' = {}
    BY DEF MapInv, SnapshotOK, CollectGarbage, StopGc, stopVars
<1>5. \A q \in Posts : InMap(q) /\ ~InMap(q)' /\ ~sess[q].done => q \in snapshot'
    <2>1. CASE CollectGarbage
        BY <2>1, <1>0, ThreadsDiffer DEF CollectGarbage, InMap
    <2>2. CASE StopGc
        BY <2>2, <1>0, ThreadsDiffer DEF StopGc, InMap
    <2> QED BY <2>1, <2>2
<1>6. snapshot \subseteq snapshot'
    BY <1>0 DEF MapInv, SnapshotOK, CollectGarbage, stopVars
<1>7. MapTypes'
    BY <1>0, <1>1, <1>3 DEF MapTypes
<1>8. MapOK' /\ SnapshotOK'
    BY <1>0, <1>1, <1>3, <1>4, ThreadsDiffer DEF MapOK, SnapshotOK
<1>9. ASSUME NEW t \in Posts \cup Deletes PROVE CloserOK(t)'
    <2>1. CloserOK(t)
        BY DEF MapInv
    <2>2. \A q \in Posts : ~InMap(q) => sessions'[Conv[q]] # q
        BY <1>2 DEF InMap
    <2> QED BY <1>0, <2>1, <2>2 DEF CloserOK, InMap
<1>10. ASSUME NEW q \in Posts PROVE OutsideOK(q)'
    <2>1. OutsideOK(q)
        BY DEF MapInv
    <2> QED BY <1>0, <1>5, <1>6, <2>1 DEF OutsideOK, ClosedBy
<1>11. ASSUME NEW q \in Posts PROVE FoundOK(q)' /\ NewOK(q)'
    <2>1. FoundOK(q) /\ NewOK(q)
        BY DEF MapInv
    <2>2. (TotalSize(sess[q]))' = TotalSize(sess[q])
        BY <1>0 DEF TotalSize
    <2> QED BY <1>0, <1>2, <2>1, <2>2 DEF FoundOK, NewOK
<1> QED BY <1>7, <1>8, <1>9, <1>10, <1>11 DEF MapInv

LEMMA FinalizeSnapshotKeeps ==
    ASSUME MapInv, RingInv', FinalizeSnapshot
    PROVE  MapInv'
<1>0. /\ sess \in [Posts -> Session] /\ MapTypes /\ RingInv
      /\ UNCHANGED <<sessions, ended, generated, chunk, pc, target, stopping>>
    BY DEF MapInv, RingInv, RingTypes, FinalizeSnapshot, postVars
<1>1. PICK p \in snapshot : sess' = [sess EXCEPT ![p] = Finalize(@)] /\ snapshot' = snapshot \ {p}
    BY DEF FinalizeSnapshot
<1>2. p \in Posts /\ pc[p] # "new" /\ ~InMap(p)
    BY <1>0 DEF MapInv, SnapshotOK, MapTypes
<1>3. sess'[p].done /\ \A q \in Posts \ {p} : sess'[q] = sess[q]
    BY <1>0, <1>1, <1>2, SessionFacts
<1>4. MapTypes' /\ MapOK' /\ SnapshotOK'
    BY <1>0, <1>1 DEF MapInv, MapTypes, MapOK, SnapshotOK, InMap
<1>5. ASSUME NEW t \in Posts \cup Deletes PROVE CloserOK(t)'
    BY <1>0 DEF MapInv, CloserOK, InMap
<1>6. ASSUME NEW q \in Posts PROVE OutsideOK(q)' /\ FoundOK(q)' /\ NewOK(q)'
    <2>1. OutsideOK(q) /\ FoundOK(q) /\ NewOK(q)
        BY DEF MapInv
    <2>2. CASE q = p
        BY <1>0, <1>2, <1>3, <2>2 DEF OutsideOK, FoundOK, NewOK, InMap
    <2>3. CASE q # p
        <3>1. (TotalSize(sess[q]))' = TotalSize(sess[q]) /\ sess'[q] = sess[q]
            BY <1>3, <2>3 DEF TotalSize
        <3> QED BY <1>0, <1>1, <2>1, <2>3, <3>1 DEF OutsideOK, FoundOK, NewOK, InMap, ClosedBy
    <2> QED BY <2>2, <2>3
<1> QED BY <1>4, <1>5, <1>6 DEF MapInv

\* Readers, clients and the HTTP server change nothing of this.
LEMMA OthersKeep ==
    ASSUME MapInv, RingInv',
           \/ \E r \in Gets : Lookup(r) \/ GetStep(r)
           \/ \E t \in Closing : Disconnect(t)
           \/ StopHttp \/ UNCHANGED vars
    PROVE  MapInv'
<1>0. /\ pc \in [Threads -> PcNames] /\ MapTypes
      /\ UNCHANGED <<sessions, sess, ended, generated, chunk, snapshot>>
    BY DEF MapInv, RingInv, RingTypes, Lookup, GetStep, Open, ReadChunk, ReadEnd, Disconnect, StopHttp,
           vars, postVars, stopVars
<1>1. stopping' = stopping \/ stopping' = "http"
    BY DEF Lookup, GetStep, Open, ReadChunk, ReadEnd, Disconnect, StopHttp, vars, stopVars
<1>2. /\ \A t \in Posts \cup Deletes : pc'[t] = pc[t] /\ target'[t] = target[t]
      /\ MapTypes'
    <2>1. CASE \E r \in Gets : Lookup(r) \/ GetStep(r)
        <3>1. PICK r \in Gets : Lookup(r) \/ GetStep(r)
            BY <2>1
        <3>2. \E l \in {"end", "open", "read"} : pc' = [pc EXCEPT ![r] = l]
            BY <3>1 DEF Lookup, GetStep, Open, ReadChunk, ReadEnd, Goto
        <3>3. target' = target \/ target' = [target EXCEPT ![r] = sessions[Conv[r]]]
            BY <3>1 DEF Lookup, GetStep, Open, ReadChunk, ReadEnd
        <3>4. sessions[Conv[r]] \in Posts \cup {None}
            BY <1>0, ThreadsDiffer DEF MapTypes
        <3>5. target' \in [Threads -> Posts \cup {None}]
              /\ \A t \in Posts \cup Deletes : pc'[t] = pc[t] /\ target'[t] = target[t]
            BY <1>0, <3>2, <3>3, <3>4, ThreadsDiffer DEF MapTypes
        <3>6. \A x \in Gets : pc'[x] \in {"new", "open", "read", "end"}
            BY <1>0, <3>2, ThreadsDiffer DEF MapTypes
        <3> QED BY <1>0, <3>5, <3>6 DEF MapTypes
    <2>2. CASE (\E t \in Closing : Disconnect(t)) \/ StopHttp \/ UNCHANGED vars
        <3>1. pc' = pc /\ target' = target
            BY <2>2 DEF Disconnect, StopHttp, vars
        <3> QED BY <1>0, <3>1 DEF MapTypes
    <2> QED BY <2>1, <2>2
<1>3. MapOK' /\ SnapshotOK'
    BY <1>0, <1>1, <1>2 DEF MapInv, MapOK, SnapshotOK, InMap, MapTypes
<1>4. ASSUME NEW t \in Posts \cup Deletes PROVE CloserOK(t)'
    BY <1>0, <1>2 DEF MapInv, CloserOK, InMap
<1>5. ASSUME NEW q \in Posts PROVE OutsideOK(q)' /\ FoundOK(q)' /\ NewOK(q)'
    <2>1. OutsideOK(q) /\ FoundOK(q) /\ NewOK(q)
        BY DEF MapInv
    <2>2. (TotalSize(sess[q]))' = TotalSize(sess[q])
        BY <1>0 DEF TotalSize
    <2> QED BY <1>0, <1>2, <2>1, <2>2 DEF OutsideOK, FoundOK, NewOK, InMap, ClosedBy
<1> QED BY <1>3, <1>4, <1>5, <1>2 DEF MapInv

LEMMA MapInit == Init => MapInv
<1> SUFFICES ASSUME Init PROVE MapInv
    OBVIOUS
<1>1. MapTypes /\ MapOK /\ SnapshotOK
    BY ThreadsDiffer DEF Init, MapTypes, MapOK, SnapshotOK, PostPcs
<1>2. ASSUME NEW p \in Posts PROVE FoundOK(p) /\ OutsideOK(p) /\ NewOK(p)
    BY ThreadsDiffer DEF Init, FoundOK, OutsideOK, NewOK, InMap, Fresh
<1>3. ASSUME NEW t \in Posts \cup Deletes PROVE CloserOK(t)
    BY ThreadsDiffer DEF Init, CloserOK, ClosingPcs
<1> QED BY <1>1, <1>2, <1>3, RingInit DEF MapInv

LEMMA MapNext == MapInv /\ [Next]_vars => MapInv'
<1> SUFFICES ASSUME MapInv, [Next]_vars PROVE MapInv'
    OBVIOUS
<1>0. RingInv'
    BY RingNext DEF MapInv
<1>1. ASSUME NEW p \in Posts, PostStep(p) \/ SetReq(p) \/ Reject(p) \/ FirstResult(p)
                              \/ Result(p) \/ Drain(p)
      PROVE  MapInv'
    <2>1. CASE CancelTarget(p) \/ FinalizeTarget(p)
        BY <1>0, <2>1, CloserKeeps
    <2>2. CASE PostQuiet(p)
        BY <1>0, <2>2, PostQuietKeeps
    <2>3. CASE WriteChunk(p) \/ Destroy(p)
        BY <1>0, <2>3, OwnKeeps
    <2>4. CASE SetReq(p)
        BY <1>0, <2>4, SetReqKeeps
    <2>5. CASE Evict(p)
        BY <1>0, <2>5, TakeOutKeeps
    <2> QED BY <1>1, <2>1, <2>2, <2>3, <2>4, <2>5 DEF PostStep, PostQuiet
<1>2. ASSUME NEW d \in Deletes, Delete(d) \/ CancelTarget(d) \/ FinalizeTarget(d) PROVE MapInv'
    BY <1>0, <1>2, TakeOutKeeps, CloserKeeps
<1>3. CASE CollectGarbage \/ StopGc
    BY <1>0, <1>3, SweepKeeps
<1>4. CASE FinalizeSnapshot
    BY <1>0, <1>4, FinalizeSnapshotKeeps
<1>5. CASE \/ \E r \in Gets : Lookup(r) \/ GetStep(r)
           \/ \E t \in Closing : Disconnect(t)
           \/ StopHttp \/ UNCHANGED vars
    BY <1>0, <1>5, OthersKeep
<1> QED BY <1>1, <1>2, <1>3, <1>4, <1>5 DEF Next

THEOREM MapInvariant == Spec => []MapInv
<1> QED BY MapInit, MapNext, PTL DEF Spec

\* A running session that has left the map is being finalized by a thread or by stop_gc.
THEOREM OutsideSessionsAreClosing == Spec => []OutsideIsClosing
<1>1. MapInv => OutsideIsClosing
    BY Closers DEF MapInv, OutsideOK, OutsideIsClosing, InMap, ClosedBy
<1> QED BY <1>1, MapInvariant, PTL

\* A finalized session that can still be found holds the whole generation.
THEOREM FoundSessionsAreWhole == Spec => []FoundIsWhole
<1>1. ASSUME MapInv, NEW c \in Convs, sessions[c] # None, sess[sessions[c]].done
      PROVE  LET p == sessions[c] IN
             pc[p] = "end" /\ ended[p] /\ TotalSize(sess[p]) = generated[p]
    <2>1. sessions[c] \in Posts /\ InMap(sessions[c])
        BY <1>1 DEF MapInv, MapTypes, MapOK, InMap
    <2>2. FoundOK(sessions[c])
        BY <1>1, <2>1 DEF MapInv
    <2> QED BY <1>1, <2>1, <2>2 DEF FoundOK
<1>2. MapInv => FoundIsWhole
    BY <1>1 DEF FoundIsWhole
<1> QED BY <1>2, MapInvariant, PTL

-----------------------------------------------------------------------------
ShutdownTypes == closed \subseteq Threads /\ stopping \in {"no", "finalizing", "http"}

LEMMA ShutdownNext == ShutdownTypes /\ [Next]_vars => ShutdownTypes'
<1> SUFFICES ASSUME ShutdownTypes, [Next]_vars PROVE ShutdownTypes'
    OBVIOUS
<1>1. closed' = closed \/ \E t \in Closing : closed' = closed \cup {t}
    BY DEF Next, PostStep, GetStep, CancelTarget, FinalizeTarget, SetReq, Reject, Abort, FirstResult,
           CallNext, Drain, Result, Poll, WriteChunk, Evict, Destroy, Lookup, Open, ReadChunk,
           ReadEnd, Delete, CollectGarbage, StopGc, FinalizeSnapshot, StopHttp, Disconnect, vars
<1>2. stopping' \in {stopping, "finalizing", "http"}
    BY DEF Next, PostStep, GetStep, CancelTarget, FinalizeTarget, SetReq, Reject, Abort, FirstResult,
           CallNext, Drain, Result, Poll, WriteChunk, Evict, Destroy, Lookup, Open, ReadChunk,
           ReadEnd, Delete, CollectGarbage, StopGc, FinalizeSnapshot, StopHttp, Disconnect, vars,
           stopVars
<1>3. Closing \subseteq Threads
    BY RequestsAssumption DEF Threads
<1> QED BY <1>1, <1>2, <1>3 DEF ShutdownTypes

\* The map, the sessions, the threads and the shutdown keep their types.
THEOREM StreamTypes == Spec => []TypeOK
<1>1. Init => ShutdownTypes
    BY DEF Init, ShutdownTypes
<1>2. MapInv /\ ShutdownTypes => TypeOK
    <2> SUFFICES ASSUME MapInv, ShutdownTypes PROVE TypeOK
        OBVIOUS
    <2>1. ASSUME NEW p \in Posts
          PROVE  /\ sess[p].buffer \in Seq(Nat) /\ Len(sess[p].buffer) <= CapBytes
                 /\ sess[p].prefix_dropped \in Nat
                 /\ sess[p].done \in BOOLEAN /\ sess[p].cancelled \in BOOLEAN
        BY DEF MapInv, RingInv, RingTypes, PostOK, Bounded, Session
    <2>2. MapTypes /\ generated \in [Posts -> Nat]
        BY DEF MapInv, RingInv, RingTypes
    <2> QED BY <2>1, <2>2 DEF MapTypes, ShutdownTypes, TypeOK
<1> QED BY <1>1, <1>2, ShutdownNext, MapInvariant, PTL DEF Spec
-----------------------------------------------------------------------------
(* The readers, and the refinement: every step of the program is a step of   *)
(* the append-only logs, or leaves logs and readers as they are.             *)

LogSize   == [p \in Posts |-> TotalSize(sess[p])]
LogSealed == [p \in Posts |-> sess[p].done]

\* What a reader has received ends just before its offset; it has received nothing until
\* it reads, and it reads a session.
ReaderOK(r) ==
    /\ pc[r] \in {"open", "read"} => target[r] \in Posts
    /\ pc[r] \in {"new", "open"} => got[r] = <<>>
    /\ got[r] # <<>> => got[r][Len(got[r])] = offset[r]

ReaderTypes == offset \in [Gets -> Nat] /\ got \in [Gets -> Seq(Nat)]

ReplayInv == MapInv /\ ReaderTypes /\ \A r \in Gets : ReaderOK(r)

\* A step that is not a reader's own leaves it alone.
ReaderAlone(r) ==
    got'[r] = got[r] /\ offset'[r] = offset[r] /\ pc'[r] = pc[r] /\ target'[r] = target[r]

LEMMA AloneKeeps ==
    ASSUME NEW r \in Gets, ReaderOK(r), ReaderAlone(r)
    PROVE  ReaderOK(r)'
    BY DEF ReaderOK, ReaderAlone

LEMMA ThreadStep ==
    ASSUME MapInv, NEW t \in Threads, NEW r \in Gets, r # t,
           \/ t \in Posts /\ (PostStep(t) \/ SetReq(t) \/ Reject(t) \/ FirstResult(t)
                              \/ Result(t) \/ Drain(t))
           \/ t \in Deletes /\ (Delete(t) \/ CancelTarget(t) \/ FinalizeTarget(t))
    PROVE  ReaderAlone(r)
<1>1. pc \in [Threads -> PcNames] /\ target \in [Threads -> Posts \cup {None}] /\ r \in Threads
    BY ThreadsDiffer DEF MapInv, MapTypes, RingInv, RingTypes
<1>2. got' = got /\ offset' = offset
    BY DEF PostStep, CancelTarget, FinalizeTarget, SetReq, Reject, Abort, FirstResult, CallNext,
           Drain, Result, Poll, WriteChunk, Evict, Destroy, Delete, getVars
<1>3. \E l : pc' = [pc EXCEPT ![t] = l]
    BY DEF PostStep, CancelTarget, FinalizeTarget, SetReq, Reject, Abort, FirstResult, CallNext,
           Drain, Result, Poll, WriteChunk, Evict, Destroy, Delete, Goto
<1>4. target' = target \/ \E q : target' = [target EXCEPT ![t] = q]
    BY DEF PostStep, CancelTarget, FinalizeTarget, SetReq, Reject, Abort, FirstResult, CallNext,
           Drain, Result, Poll, WriteChunk, Evict, Destroy, Delete
<1>5. pc'[r] = pc[r]
    BY <1>1, <1>3
<1>6. target'[r] = target[r]
    BY <1>1, <1>4
<1> QED BY <1>2, <1>5, <1>6 DEF ReaderAlone

\* The steps of no thread.
Outside ==
    \/ \E t \in Closing : Disconnect(t)
    \/ CollectGarbage \/ StopGc \/ FinalizeSnapshot \/ StopHttp \/ UNCHANGED vars

LEMMA OutsideStep ==
    ASSUME Outside
    PROVE  UNCHANGED <<pc, target, got, offset>>
    BY DEF Outside, Disconnect, CollectGarbage, StopGc, FinalizeSnapshot, StopHttp, vars, getVars

\* The bytes read_from copies: the numbers that follow the offset, up to the end.
LEMMA AvailableBytes ==
    ASSUME NEW s \in Session, KeepsTail(s), NEW o \in Nat, s.prefix_dropped <= o, o < TotalSize(s)
    PROVE  LET n == TotalSize(s) - o IN
           n \in Nat \ {0} /\ Available(s, o) = [i \in 1 .. n |-> o + i]
<1> DEFINE q == s.buffer
           d == s.prefix_dropped
           e == TotalSize(s)
           n == e - o
           m == o - d + 1
<1>1. q \in Seq(Nat) /\ d \in Nat /\ Len(q) \in Nat
    BY DEF Session
<1>2. \A i \in 1 .. Len(q) : q[i] = d + i
    BY DEF KeepsTail
<1>3. /\ n = d + Len(q) - o /\ n \in Nat \ {0}
      /\ m \in 1 .. Len(q) + 1 /\ Len(q) + 1 - m = n /\ m - 1 = o - d
    <2>1. e = d + Len(q) /\ d <= o /\ o < e
        BY DEF TotalSize
    <2> HIDE DEF q, d, e
    <2> QED BY <1>1, <2>1
<1>4. PICK a : a = SubSeq(q, m, Len(q))
    OBVIOUS
<1> HIDE DEF q, d, e, n, m
<1>5. a \in Seq(Nat) /\ Len(a) = n /\ \A i \in 1 .. n : a[i] = q[(m - 1) + i]
    BY <1>1, <1>3, <1>4, TailOf
<1>6. ASSUME NEW i \in 1 .. n PROVE a[i] = o + i
    <2>1. (m - 1) + i \in 1 .. Len(q) /\ d + ((m - 1) + i) = o + i
        BY <1>1, <1>3
    <2>2. q[(m - 1) + i] = d + ((m - 1) + i)
        BY <1>2, <2>1
    <2> QED BY <1>5, <2>1, <2>2
<1>7. a = [i \in 1 .. n |-> o + i]
    <2>1. DOMAIN a = 1 .. n /\ a = [i \in DOMAIN a |-> a[i]]
        BY <1>5
    <2> QED BY <2>1, <1>6
<1>8. Available(s, o) = a
    BY <1>4 DEF Available, q, d, m
<1> QED BY <1>3, <1>7, <1>8 DEF n, e

\* Receiving the bytes after o: the last one received is the last one copied.
LEMMA Received ==
    ASSUME NEW g \in Seq(Nat), NEW o \in Nat, NEW n \in Nat \ {0}
    PROVE  LET h == g \o [i \in 1 .. n |-> o + i] IN
           h \in Seq(Nat) /\ h[Len(h)] = o + n
<1>1. PICK a : a = [i \in 1 .. n |-> o + i]
    OBVIOUS
<1>2. a \in Seq(Nat) /\ Len(a) = n /\ a[n] = o + n
    BY <1>1, Numbered
<1>3. PICK h : h = g \o a
    OBVIOUS
<1>4. h \in Seq(Nat) /\ Len(h) = Len(g) + Len(a)
      /\ \A i \in Len(g) + 1 .. Len(g) + Len(a) : h[i] = a[i - Len(g)]
    BY <1>2, <1>3, Joined
<1>5. h[Len(h)] = a[n]
    <2>1. Len(g) \in Nat
        OBVIOUS
    <2>2. Len(g) + n \in Len(g) + 1 .. Len(g) + Len(a) /\ (Len(g) + n) - Len(g) = n
        BY <1>2, <2>1
    <2> QED BY <1>2, <1>4, <2>2
<1> QED BY <1>1, <1>2, <1>3, <1>4, <1>5

\* A reader's own step keeps its promise; what it receives is the next piece of a log.
LEMMA ReadStep ==
    ASSUME ReplayInv, NEW r \in Gets, Lookup(r) \/ GetStep(r)
    PROVE  /\ ReaderTypes' /\ ReaderOK(r)'
           /\ \A x \in Gets \ {r} : ReaderAlone(x)
           /\ got' = got \/ Log!Deliver(r)
<1>1. /\ pc \in [Threads -> PcNames] /\ target \in [Threads -> Posts \cup {None}]
      /\ sess \in [Posts -> Session] /\ ReaderTypes /\ ReaderOK(r) /\ r \in Threads
      /\ Gets \subseteq Threads /\ None \notin Posts
    BY ThreadsDiffer DEF ReplayInv, MapInv, MapTypes, RingInv, RingTypes
<1>2. CASE Lookup(r)
    <2>1. PICK from \in Offsets : offset' = [offset EXCEPT ![r] = from]
        BY <1>2 DEF Lookup
    <2>2. from \in Nat
        BY RequestsAssumption
    <2>3. /\ got' = got /\ pc[r] = "new" /\ got[r] = <<>>
          /\ \E l \in {"end", "open"} : pc' = [pc EXCEPT ![r] = l]
          /\ target' = [target EXCEPT ![r] = sessions[Conv[r]]]
          /\ pc'[r] = "open" => target'[r] # None
        BY <1>1, <1>2 DEF Lookup, Goto, ReaderOK
    <2>4. sessions[Conv[r]] \in Posts \cup {None}
        BY <1>1, ThreadsDiffer DEF ReplayInv, MapInv, MapTypes
    <2>5. pc'[r] \in {"end", "open"} /\ target'[r] \in Posts \cup {None}
        BY <1>1, <2>3, <2>4
    <2>6. ReaderTypes'
        BY <1>1, <2>1, <2>2, <2>3 DEF ReaderTypes
    <2>7. ReaderOK(r)'
        BY <2>3, <2>5 DEF ReaderOK
    <2>8. \A x \in Gets \ {r} : ReaderAlone(x)
        BY <1>1, <2>1, <2>3 DEF ReaderAlone, ReaderTypes
    <2> QED BY <2>3, <2>6, <2>7, <2>8
<1>3. CASE Open(r) \/ ReadEnd(r)
    <2>1. /\ got' = got /\ offset' = offset /\ target' = target
          /\ pc[r] \in {"open", "read"}
          /\ \E l \in {"end", "read"} : pc' = [pc EXCEPT ![r] = l]
        BY <1>3 DEF Open, ReadEnd, Goto, getVars
    <2>2. ReaderTypes'
        BY <1>1, <2>1 DEF ReaderTypes
    <2>3. ReaderOK(r)'
        BY <1>1, <2>1 DEF ReaderOK
    <2>4. \A x \in Gets \ {r} : ReaderAlone(x)
        BY <1>1, <2>1 DEF ReaderAlone
    <2> QED BY <2>1, <2>2, <2>3, <2>4
<1>4. CASE ReadChunk(r)
    <2> DEFINE p == target[r]
               s == sess[p]
               o == offset[r]
               e == TotalSize(s)
    <2>1. /\ pc[r] = "read" /\ s.prefix_dropped <= o /\ o < e
          /\ got' = [got EXCEPT ![r] = @ \o Available(s, o)]
          /\ offset' = [offset EXCEPT ![r] = e]
          /\ \E l \in {"end", "read"} : pc' = [pc EXCEPT ![r] = l]
          /\ UNCHANGED <<sess, target>>
        BY <1>4 DEF ReadChunk, Goto
    <2>2. p \in Posts /\ s \in Session /\ KeepsTail(s) /\ o \in Nat /\ got[r] \in Seq(Nat)
        <3>1. p \in Posts
            BY <1>1, <2>1 DEF ReaderOK
        <3> QED BY <1>1, <3>1 DEF ReplayInv, MapInv, RingInv, PostOK, ReaderTypes
    <2>3. e \in Nat
        BY <2>2 DEF Session, TotalSize
    <2> HIDE DEF s, o
    <2>4. e - o \in Nat \ {0} /\ Available(s, o) = [i \in 1 .. e - o |-> o + i]
        BY <2>1, <2>2, AvailableBytes
    <2> HIDE DEF e
    <2>5. PICK n \in Nat \ {0} : n = e - o
        BY <2>4
    <2>6. o + n = e
        BY <2>2, <2>3, <2>5
    <2>7. PICK h : h = got[r] \o [i \in 1 .. n |-> o + i]
        OBVIOUS
    <2>8. h \in Seq(Nat) /\ h[Len(h)] = e
        BY <2>2, <2>6, <2>7, Received
    <2>9. got' = [got EXCEPT ![r] = h]
        BY <2>1, <2>4, <2>5, <2>7
    <2>10. got'[r] = h /\ offset'[r] = e /\ pc'[r] \in {"end", "read"} /\ target'[r] = p
        BY <1>1, <2>1, <2>9 DEF ReaderTypes
    <2>11. ReaderTypes'
        <3>1. offset' \in [Gets -> Nat]
            BY <1>1, <2>1, <2>3 DEF ReaderTypes
        <3>2. got' \in [Gets -> Seq(Nat)]
            BY <1>1, <2>8, <2>9 DEF ReaderTypes
        <3> QED BY <3>1, <3>2 DEF ReaderTypes
    <2>12. ReaderOK(r)'
        BY <2>2, <2>8, <2>10 DEF ReaderOK
    <2>13. \A x \in Gets \ {r} : ReaderAlone(x)
        BY <1>1, <2>1, <2>9 DEF ReaderAlone, ReaderTypes
    <2>14. Log!Deliver(r)
        <3>1. LogSize[p] = e /\ LogSize' = LogSize /\ LogSealed' = LogSealed
            BY <2>1, <2>2 DEF LogSize, LogSealed, e, s, TotalSize
        <3>2. o + 1 \in 1 .. e /\ e \in 1 .. e /\ o + 1 <= e /\ e - (o + 1) + 1 = n
            BY <2>1, <2>2, <2>3, <2>6
        <3>3. got[r] # <<>> => o + 1 = got[r][Len(got[r])] + 1
            BY <1>1 DEF ReaderOK, o
        <3>4. [i \in 1 .. n |-> o + i] = [i \in 1 .. e - (o + 1) + 1 |-> (o + 1) + i - 1]
            BY <2>2, <3>2
        <3>5. got' = [got EXCEPT ![r] = @ \o [i \in 1 .. e - (o + 1) + 1 |-> (o + 1) + i - 1]]
            BY <2>7, <2>9, <3>4
        <3>6. \E a \in 1 .. LogSize[p], b \in 1 .. LogSize[p] :
                 /\ a <= b
                 /\ got[r] # <<>> => a = got[r][Len(got[r])] + 1
                 /\ got' = [got EXCEPT ![r] = @ \o [i \in 1 .. b - a + 1 |-> a + i - 1]]
            BY <3>1, <3>2, <3>3, <3>5
        <3> QED BY <2>2, <3>1, <3>6 DEF Log!Deliver, LogSize, LogSealed
    <2> QED BY <2>11, <2>12, <2>13, <2>14
<1> QED BY <1>2, <1>3, <1>4 DEF GetStep

LEMMA ReplayNext == ReplayInv /\ [Next]_vars => ReplayInv'
<1> SUFFICES ASSUME ReplayInv, [Next]_vars PROVE ReplayInv'
    OBVIOUS
<1>0. MapInv'
    BY MapNext DEF ReplayInv
<1>1. ASSUME NEW r \in Gets, Lookup(r) \/ GetStep(r) PROVE ReplayInv'
    <2>1. /\ ReaderTypes' /\ ReaderOK(r)'
          /\ \A x \in Gets \ {r} : ReaderAlone(x)
        BY <1>1, ReadStep
    <2>2. ASSUME NEW x \in Gets \ {r} PROVE ReaderOK(x)'
        BY <2>1, AloneKeeps DEF ReplayInv
    <2> QED BY <1>0, <2>1, <2>2 DEF ReplayInv
<1>2. ASSUME NEW t \in Threads \ Gets,
             \/ t \in Posts /\ (PostStep(t) \/ SetReq(t) \/ Reject(t) \/ FirstResult(t)
                                \/ Result(t) \/ Drain(t))
             \/ t \in Deletes /\ (Delete(t) \/ CancelTarget(t) \/ FinalizeTarget(t))
      PROVE  ReplayInv'
    <2>1. ASSUME NEW x \in Gets PROVE ReaderAlone(x)
        BY <1>2, ThreadStep DEF ReplayInv
    <2>2. ASSUME NEW x \in Gets PROVE ReaderOK(x)'
        BY <2>1, AloneKeeps DEF ReplayInv
    <2>3. got' = got /\ offset' = offset
        BY <1>2 DEF PostStep, CancelTarget, FinalizeTarget, SetReq, Reject, Abort, FirstResult,
               CallNext, Drain, Result, Poll, WriteChunk, Evict, Destroy, Delete, getVars
    <2>4. ReaderTypes'
        BY <2>3 DEF ReplayInv, ReaderTypes
    <2> QED BY <1>0, <2>2, <2>4 DEF ReplayInv
<1>3. CASE Outside
    <2>1. UNCHANGED <<pc, target, got, offset>>
        BY <1>3, OutsideStep
    <2>2. ASSUME NEW x \in Gets PROVE ReaderOK(x)'
        BY <2>1, AloneKeeps DEF ReplayInv, ReaderAlone
    <2>3. ReaderTypes'
        BY <2>1 DEF ReplayInv, ReaderTypes
    <2> QED BY <1>0, <2>2, <2>3 DEF ReplayInv
<1>4. \A t \in Posts \cup Deletes : t \in Threads \ Gets
    BY ThreadsDiffer
<1> QED BY <1>1, <1>2, <1>3, <1>4 DEF Next, Outside

THEOREM ReadersInvariant == Spec => []ReplayInv
<1>1. Init => ReplayInv
    <2> SUFFICES ASSUME Init PROVE ReplayInv
        OBVIOUS
    <2>1. \A r \in Gets : got[r] = <<>> /\ pc[r] = "new"
        BY ThreadsDiffer DEF Init
    <2>2. ReaderTypes
        BY DEF Init, ReaderTypes
    <2> QED BY <2>1, <2>2, MapInit DEF ReplayInv, ReaderOK
<1> QED BY <1>1, ReplayNext, PTL DEF Spec

\* A step on one session and no reader: the log grows, is sealed, or stays as it is.
LogStep ==
    \/ \E p \in Posts : Log!Write(p) \/ Log!Seal(p)
    \/ LogSize' = LogSize /\ LogSealed' = LogSealed /\ got' = got

LEMMA OneSession ==
    ASSUME sess \in [Posts -> Session], NEW p \in Posts, NEW t \in Session, got' = got,
           sess' = [sess EXCEPT ![p] = t],
           \/ t.done = sess[p].done /\ TotalSize(t) = TotalSize(sess[p])
           \/ t.done /\ TotalSize(t) = TotalSize(sess[p])
           \/ ~sess[p].done /\ ~t.done /\ TotalSize(t) > TotalSize(sess[p])
    PROVE  LogStep
<1>1. /\ LogSize' = [LogSize EXCEPT ![p] = TotalSize(t)] /\ LogSize'[p] = TotalSize(t)
      /\ LogSealed' = [LogSealed EXCEPT ![p] = t.done]
      /\ LogSize[p] = TotalSize(sess[p]) /\ LogSealed[p] = sess[p].done
    BY DEF LogSize, LogSealed, TotalSize
<1>2. /\ TotalSize(t) \in Nat /\ t.done \in BOOLEAN
      /\ sess[p].done \in BOOLEAN /\ LogSize = [q \in Posts |-> LogSize[q]]
      /\ LogSealed = [q \in Posts |-> LogSealed[q]]
    BY DEF Session, TotalSize, LogSize, LogSealed
<1>3. CASE t.done = sess[p].done /\ TotalSize(t) = TotalSize(sess[p])
    BY <1>1, <1>2, <1>3 DEF LogStep
<1>4. CASE t.done /\ ~sess[p].done /\ TotalSize(t) = TotalSize(sess[p])
    <2>1. LogSize' = LogSize /\ LogSealed' = [LogSealed EXCEPT ![p] = TRUE] /\ ~LogSealed[p]
        BY <1>1, <1>2, <1>4
    <2> QED BY <2>1 DEF LogStep, Log!Seal, LogSize, LogSealed
<1>5. CASE ~sess[p].done /\ ~t.done /\ TotalSize(t) > TotalSize(sess[p])
    <2>1. LogSealed' = LogSealed /\ ~LogSealed[p]
          /\ LogSize' = [LogSize EXCEPT ![p] = LogSize'[p]]
          /\ LogSize'[p] \in Nat /\ LogSize'[p] > LogSize[p]
        BY <1>1, <1>2, <1>5
    <2> QED BY <2>1 DEF LogStep, Log!Write, LogSize, LogSealed
<1> QED BY <1>2, <1>3, <1>4, <1>5

\* finalize() seals a log that is not sealed, cancel() leaves it alone.
LEMMA CloseIsLogStep ==
    ASSUME sess \in [Posts -> Session], NEW x, got' = got,
           sess' = [sess EXCEPT ![x] = Cancel(@)] \/ sess' = [sess EXCEPT ![x] = Finalize(@)]
    PROVE  LogStep
<1>1. CASE x \notin Posts
    <2>1. sess' = sess
        BY <1>1
    <2> QED BY <2>1 DEF LogStep, LogSize, LogSealed, TotalSize
<1>2. CASE x \in Posts
    <2>1. PICK t \in {Cancel(sess[x]), Finalize(sess[x])} : sess' = [sess EXCEPT ![x] = t]
        BY <1>2
    <2>2. t \in Session /\ TotalSize(t) = TotalSize(sess[x]) /\ (t.done = sess[x].done \/ t.done)
        BY <1>2, SessionFacts, CloseKeepsTail
    <2> QED BY <1>2, <2>1, <2>2, OneSession
<1> QED BY <1>1, <1>2

\* write() appends the chunk in hand to a log that is not sealed.
LEMMA WriteIsLogStep ==
    ASSUME RingInv, NEW p \in Posts, WriteChunk(p)
    PROVE  LogStep
<1> DEFINE s     == sess[p]
           n     == chunk[p].size
           first == generated[p] - n
           data  == [i \in 1 .. n |-> first + i]
           t     == AppendChunk(s, data)
<1>1. RingTypes /\ PostOK(p) /\ s \in Session /\ n \in Nat /\ generated[p] \in Nat /\ first \in Nat
    BY DEF RingInv, RingTypes, PostOK
<1>2. sess' = [sess EXCEPT ![p] = t] /\ got' = got
    BY DEF WriteChunk, getVars
<1>3. CASE s.done
    <2>1. t = s
        BY <1>3, AppendWhenDone
    <2> HIDE DEF t
    <2>2. sess' = sess
        BY <1>1, <1>2, <2>1 DEF RingTypes
    <2> QED BY <1>2, <2>2 DEF LogStep, LogSize, LogSealed, TotalSize
<1>4. CASE ~s.done
    <2>1. /\ data \in Seq(Nat) /\ Len(data) = n
          /\ \A i \in 1 .. n : data[i] = first + i
        <3> HIDE DEF n, first
        <3> QED BY <1>1, Numbered
    <2>2. TotalSize(s) \in Nat /\ TotalSize(s) = first
        <3>1. TotalSize(s) \in Nat
            BY <1>1 DEF Session, TotalSize
        <3>2. TotalSize(s) + n = generated[p]
            BY <1>1, <1>4 DEF PostOK
        <3> QED BY <3>1, <3>2, <1>1
    <2>3. \A i \in 1 .. Len(data) : data[i] = TotalSize(s) + i
        BY <2>1, <2>2
    <2>4. KeepsTail(s) /\ Bounded(s)
        BY <1>1 DEF PostOK
    <2>5. t \in Session /\ TotalSize(t) = TotalSize(s) + n /\ ~t.done
        <3> HIDE DEF data, s
        <3> QED BY <1>1, <2>1, <1>4, <2>3, <2>4, AppendKeepsTail
    <2> HIDE DEF t, data, n
    <2>6. TotalSize(t) > TotalSize(s) \/ (TotalSize(t) = TotalSize(s) /\ t.done = s.done)
        BY <1>1, <1>4, <2>2, <2>5 DEF Session
    <2>7. sess \in [Posts -> Session]
        BY <1>1 DEF RingTypes
    <2> QED BY <1>2, <1>4, <2>5, <2>6, <2>7, OneSession
<1> QED BY <1>3, <1>4

LEMMA ReplayStep ==
    ASSUME ReplayInv, [Next]_vars
    PROVE  Log!ReplayNext \/ UNCHANGED <<LogSize, LogSealed, got>>
<1>0. MapInv /\ RingInv /\ sess \in [Posts -> Session]
    BY DEF ReplayInv, MapInv, RingInv, RingTypes
<1>1. LogStep => Log!ReplayNext \/ UNCHANGED <<LogSize, LogSealed, got>>
    BY DEF LogStep, Log!ReplayNext
<1>2. ASSUME UNCHANGED <<sess, got>> PROVE LogStep
    BY <1>2 DEF LogStep, LogSize, LogSealed, TotalSize
<1>3. ASSUME NEW t, CancelTarget(t) \/ FinalizeTarget(t) PROVE LogStep
    BY <1>0, <1>3, CloseIsLogStep DEF CancelTarget, FinalizeTarget, getVars
<1>4. ASSUME NEW p \in Posts, PostStep(p) \/ SetReq(p) \/ Reject(p) \/ FirstResult(p)
                              \/ Result(p) \/ Drain(p)
      PROVE  LogStep
    <2>1. CASE WriteChunk(p)
        BY <1>0, <2>1, WriteIsLogStep
    <2>2. CASE Destroy(p)
        BY <1>0, <2>2, CloseIsLogStep DEF Destroy, getVars
    <2>3. CASE \/ SetReq(p) \/ Reject(p) \/ FirstResult(p) \/ Result(p) \/ Drain(p)
               \/ Abort(p) \/ CallNext(p) \/ Poll(p) \/ Evict(p)
        BY <1>2, <2>3 DEF SetReq, Reject, FirstResult, Result, Drain, Abort, CallNext, Poll, Evict,
               getVars
    <2> QED BY <1>3, <1>4, <2>1, <2>2, <2>3 DEF PostStep
<1>5. ASSUME NEW d \in Deletes, Delete(d) PROVE LogStep
    BY <1>2, <1>5 DEF Delete, getVars
<1>6. ASSUME Outside PROVE LogStep
    <2>1. CASE FinalizeSnapshot
        BY <1>0, <2>1, CloseIsLogStep DEF FinalizeSnapshot, getVars
    <2>2. CASE \/ \E t \in Closing : Disconnect(t)
               \/ CollectGarbage \/ StopGc \/ StopHttp \/ UNCHANGED vars
        BY <1>2, <2>2 DEF Disconnect, CollectGarbage, StopGc, StopHttp, vars, getVars
    <2> QED BY <1>6, <2>1, <2>2 DEF Outside
<1>7. ASSUME NEW r \in Gets, Lookup(r) \/ GetStep(r)
      PROVE  LogStep \/ Log!Deliver(r)
    <2>1. sess' = sess
        BY <1>7 DEF Lookup, GetStep, Open, ReadChunk, ReadEnd
    <2>2. got' = got \/ Log!Deliver(r)
        BY <1>7, ReadStep
    <2> QED BY <1>2, <2>1, <2>2
<1>8. (\E r \in Gets : Log!Deliver(r)) => Log!ReplayNext
    BY DEF Log!ReplayNext
<1> QED BY <1>1, <1>3, <1>4, <1>5, <1>6, <1>7, <1>8 DEF Next, Outside

\* Readers receive consecutive bytes of one append-only log, each once, whatever is
\* appended, dropped, replaced, deleted or finalized meanwhile.
THEOREM ReplayRefines == Spec => ReplaysTheLog
<1>1. Init => Log!ReplayInit
    BY DEF Init, Log!ReplayInit, Fresh, TotalSize
<1>2. ReplayInv /\ [Next]_vars => [Log!ReplayNext]_<<LogSize, LogSealed, got>>
    BY ReplayStep
<1>3. [Log!ReplayNext]_<<LogSize, LogSealed, got>> =>
          [Log!ReplayNext]_<<[p \in Posts |-> TotalSize(sess[p])],
                             [p \in Posts |-> sess[p].done], got>>
    BY DEF LogSize, LogSealed
<1> QED BY <1>1, <1>2, <1>3, ReadersInvariant, PTL DEF Spec, ReplaysTheLog, Log!ReplaySpec
=============================================================================
