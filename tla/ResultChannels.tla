--------------------------- MODULE ResultChannels ---------------------------
(***************************************************************************)
(* What server_response promises: one ordered channel per task id.  While  *)
(* the channel is open the server adds results, the reader of the task     *)
(* takes them in order; a closed channel takes no more results and what is *)
(* left in it is discarded, never read.                                    *)
(***************************************************************************)
EXTENDS Sequences

CONSTANTS TaskIds, Results   \* the task ids, and the results a task can send

VARIABLES open, chan         \* the open channels; what is in each

ChanInit == open = {} /\ chan = [t \in TaskIds |-> <<>>]

Open == \E S \in SUBSET TaskIds : open' = open \cup S /\ UNCHANGED chan

Close == \E S \in SUBSET open : open' = open \ S /\ UNCHANGED chan

Send(t) ==
    /\ t \in open
    /\ \E v \in Results : chan' = [chan EXCEPT ![t] = Append(@, v)]
    /\ UNCHANGED open

Receive(t) ==
    /\ t \in open /\ chan[t] # <<>>
    /\ chan' = [chan EXCEPT ![t] = Tail(@)]
    /\ UNCHANGED open

Discard(t) ==
    /\ t \notin open
    /\ chan' = [chan EXCEPT ![t] = <<>>]
    /\ UNCHANGED open

ChanNext ==
    \/ Open \/ Close
    \/ \E t \in TaskIds : Send(t) \/ Receive(t) \/ Discard(t)

ChanSpec == ChanInit /\ [][ChanNext]_<<open, chan>>
=============================================================================
