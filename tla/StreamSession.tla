--------------------------- MODULE StreamSession ---------------------------
(***************************************************************************)
(* stream_session (tools/server/server-stream.cpp 75-225): the ring buffer *)
(* of one generation.  The operators are the methods, each one critical    *)
(* section of the session's mutex.                                         *)
(***************************************************************************)
EXTENDS Integers, Sequences

CONSTANT CapBytes   \* STREAM_SESSION_MAX_BYTES

ASSUME CapAssumption == CapBytes \in Nat \ {0}

Fresh == [buffer |-> <<>>, prefix_dropped |-> 0, done |-> FALSE, cancelled |-> FALSE]

\* Bytes that ever entered the session.
TotalSize(s) == s.prefix_dropped + Len(s.buffer)

\* Mutants: what is cut off from an oversized chunk is not counted; a finalized session
\* still grows.
AppendNoSkip(s, data) ==
    IF s.done THEN s
    ELSE LET kept == s.buffer \o data IN
         IF Len(kept) <= CapBytes THEN [s EXCEPT !.buffer = kept]
         ELSE [s EXCEPT !.buffer = SubSeq(kept, Len(kept) - CapBytes + 1, Len(kept)),
                        !.prefix_dropped = @ + Len(s.buffer)]
AppendAfterDone(s, data) ==
    LET kept == s.buffer \o data
        drop == IF Len(kept) > CapBytes THEN Len(kept) - CapBytes ELSE 0
    IN  [s EXCEPT !.buffer = SubSeq(kept, drop + 1, Len(kept)),
                  !.prefix_dropped = @ + drop]

\* An oversized chunk replaces the buffer by its tail; otherwise the oldest bytes make room.
AppendChunk(s, data) ==
    IF s.done THEN s
    ELSE IF Len(data) >= CapBytes
    THEN LET skip == Len(data) - CapBytes IN
         [s EXCEPT !.prefix_dropped = @ + Len(s.buffer) + skip,
                   !.buffer = SubSeq(data, skip + 1, Len(data))]
    ELSE LET needed  == Len(s.buffer) + Len(data)
             to_drop == IF needed > CapBytes THEN needed - CapBytes ELSE 0
         IN  [s EXCEPT !.prefix_dropped = @ + to_drop,
                       !.buffer = SubSeq(s.buffer, to_drop + 1, Len(s.buffer)) \o data]

Finalize(s) == [s EXCEPT !.done = TRUE]

Cancel(s) == [s EXCEPT !.cancelled = TRUE]

\* What read_from copies for an offset inside the buffer.
Available(s, offset) == SubSeq(s.buffer, offset - s.prefix_dropped + 1, Len(s.buffer))
=============================================================================
