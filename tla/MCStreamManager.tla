-------------------------- MODULE MCStreamManager --------------------------
(* Small instances of StreamManager for TLC. *)
EXTENDS StreamManager

CONSTANTS p1, p2, g1, d1, c1

OneConversation == [t \in Posts \cup Gets \cup Deletes |-> c1]

\* A generation that overruns a ring of two bytes, with chunks below, at and above its size,
\* and one without output, whose last chunk is empty.
LongAndEmpty == [p \in Posts |-> IF p = p1 THEN 3 ELSE 0]
=============================================================================
