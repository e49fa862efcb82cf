--------------------------- MODULE StreamManager ---------------------------
(***************************************************************************)
(* Resumable streaming of the HTTP server (tools/server/server-stream.cpp):*)
(*   - stream_session_manager: the map from conversation to session;       *)
(*   - the POST requests with a conversation id.  Each creates a session,  *)
(*     which is named like the request, and tees its output into it        *)
(*     (server_res_spipe, and handle_completions_impl that drives it);     *)
(*   - the GET requests that replay a session and the DELETE requests;     *)
(*   - the garbage collector and the shutdown.                             *)
(* A step is one critical section of map_mu or of a session's mutex, or    *)
(* one access to the atomic cancelled flag.  Bytes of a session are the    *)
(* numbers 1, 2, ... in the order they are generated.                      *)
(***************************************************************************)
EXTENDS StreamSession, FiniteSets

CONSTANTS Posts, Gets, Deletes,  \* the requests, each one thread
          Convs, Conv,           \* the conversation of every request
          Failing,               \* the POSTs that may end before they stream
          Closing,               \* the requests whose connection may be closed
          Offsets,               \* the values of the parameter "from"
          Chunks,                \* the sizes of a chunk
          MaxBytes,              \* bound: bytes generated by one request
          None

ASSUME RequestsAssumption ==
    /\ Conv \in [Posts \cup Gets \cup Deletes -> Convs]
    /\ Posts \cap Gets = {} /\ Posts \cap Deletes = {} /\ Gets \cap Deletes = {}
    /\ Failing \subseteq Posts /\ Closing \subseteq Posts \cup Gets
    /\ Offsets \subseteq Nat /\ Chunks \subseteq Nat \ {0} /\ MaxBytes \in [Posts -> Nat]
    /\ None \notin Posts /\ IsFiniteSet(Posts)

VARIABLES sessions,   \* the map: the session of each conversation, or None
          sess,       \* every session
          pc,         \* where each thread is
          target,     \* the session a thread holds, or None
          generated,  \* the bytes the request has generated
          chunk,      \* the chunk next_orig returned: its size, and whether it is the last
          ended,      \* the generation came to its own end
          closed,     \* the connections that are closed (req.should_stop)
          offset,     \* the reader's position
          got,        \* what the reader has received
          stopping,   \* the progress of clean_up()
          snapshot    \* the sessions stop_gc has still to finalize

postVars == <<generated, chunk, ended>>
getVars  == <<offset, got>>
stopVars == <<stopping, snapshot>>
vars == <<sessions, sess, pc, target, postVars, closed, getVars, stopVars>>

Threads == Posts \cup Gets \cup Deletes

NoChunk   == [size |-> 0, last |-> FALSE]
LastChunk == [size |-> 0, last |-> TRUE]

Goto(t, l) == pc' = [pc EXCEPT ![t] = l]

-----------------------------------------------------------------------------
Init ==
    /\ sessions = [c \in Convs |-> None]
    /\ sess = [p \in Posts |-> Fresh]
    /\ pc = [t \in Threads |-> "new"]
    /\ target = [t \in Threads |-> None]
    /\ generated = [p \in Posts |-> 0]
    /\ chunk = [p \in Posts |-> NoChunk]
    /\ ended = [p \in Posts |-> FALSE]
    /\ closed = {}
    /\ offset = [r \in Gets |-> 0] /\ got = [r \in Gets |-> <<>>]
    /\ stopping = "no" /\ snapshot = {}

-----------------------------------------------------------------------------
(* Closing a session                                                       *)

\* Where a thread continues after cancel() and finalize(): create_or_replace closes the
\* previous session, evict_and_cancel the deleted one, evict does not cancel.
AfterCancel   == [cancelPrevious |-> "finalizePrevious", cancel |-> "finalize"]
AfterFinalize == [finalizePrevious |-> "prepare", finalize |-> "end",
                  finalizeEvicted |-> "destroy"]

CancelTarget(t) ==
    /\ pc[t] \in DOMAIN AfterCancel
    /\ sess' = [sess EXCEPT ![target[t]] = Cancel(@)]
    /\ Goto(t, AfterCancel[pc[t]])
    /\ UNCHANGED <<sessions, target, postVars, closed, getVars, stopVars>>

FinalizeTarget(t) ==
    /\ pc[t] \in DOMAIN AfterFinalize
    /\ sess' = [sess EXCEPT ![target[t]] = Finalize(@)]
    /\ target' = [target EXCEPT ![t] = None]
    /\ Goto(t, AfterFinalize[pc[t]])
    /\ UNCHANGED <<sessions, postVars, closed, getVars, stopVars>>

-----------------------------------------------------------------------------
(* POST                                                                    *)

\* set_req: create_or_replace installs the fresh session under the lock of the map and
\* then closes the one it replaces.
SetReq(p) ==
    /\ pc[p] = "new" /\ stopping # "http"
    /\ sessions' = [sessions EXCEPT ![Conv[p]] = p]
    /\ target' = [target EXCEPT ![p] = sessions[Conv[p]]]
    /\ Goto(p, IF sessions[Conv[p]] = None THEN "prepare" ELSE "cancelPrevious")
    /\ UNCHANGED <<sess, postVars, closed, getVars, stopVars>>

\* The request waits for its first result.  It may end without streaming: parameters are
\* refused, the first result is an error, or it asked for no stream.
Reject(p) ==
    /\ pc[p] = "prepare" /\ p \in Failing
    /\ Goto(p, "evict")
    /\ UNCHANGED <<sessions, sess, target, postVars, closed, getVars, stopVars>>

\* rd.next(req.should_stop): here the connection is polled, not the cancelled flag.
Abort(p) ==
    /\ pc[p] = "prepare" /\ p \in closed
    /\ Goto(p, "evict")
    /\ UNCHANGED <<sessions, sess, target, postVars, closed, getVars, stopVars>>

FirstResult(p) ==
    /\ pc[p] = "prepare"
    /\ Goto(p, "next")
    /\ UNCHANGED <<sessions, sess, target, postVars, closed, getVars, stopVars>>

\* Mutant: should_stop looks at the connection as well.
ShouldStopOnClose(p) == sess[p].cancelled \/ p \in closed
ShouldStop(p) == sess[p].cancelled

\* next(): should_stop is tested before a result is waited for.
CallNext(p) ==
    /\ pc[p] = "next"
    /\ IF ShouldStop(p) THEN chunk' = [chunk EXCEPT ![p] = LastChunk] /\ Goto(p, "write")
                        ELSE Goto(p, "await") /\ UNCHANGED chunk
    /\ UNCHANGED <<sessions, sess, target, generated, ended, closed, getVars, stopVars>>

\* on_complete after the socket is gone or the server stops: the loop that drains the
\* generation does not call next_orig once the session is cancelled.
Drain(p) ==
    /\ pc[p] = "next" /\ (p \in closed \/ stopping = "http")
    /\ Goto(p, IF ShouldStop(p) THEN "destroy" ELSE "await")
    /\ UNCHANGED <<sessions, sess, target, postVars, closed, getVars, stopVars>>

\* A result arrives, cancelled or not; the last chunk may be empty.
Result(p) ==
    /\ pc[p] = "await"
    /\ \E n \in Chunks \cup {0}, last \in BOOLEAN :
          /\ n = 0 => last
          /\ generated[p] + n <= MaxBytes[p]
          /\ chunk' = [chunk EXCEPT ![p] = [size |-> n, last |-> last]]
          /\ generated' = [generated EXCEPT ![p] = @ + n]
          /\ ended' = [ended EXCEPT ![p] = last]
    /\ Goto(p, "write")
    /\ UNCHANGED <<sessions, sess, target, closed, getVars, stopVars>>

\* Mutant: the wait is ended by the connection only.
PollConnection(p) ==
    /\ pc[p] = "await" /\ p \in closed
    /\ chunk' = [chunk EXCEPT ![p] = LastChunk]
    /\ Goto(p, "write")
    /\ UNCHANGED <<sessions, sess, target, generated, ended, closed, getVars, stopVars>>

\* The wait times out and should_stop holds.
Poll(p) ==
    /\ pc[p] = "await" /\ ShouldStop(p)
    /\ chunk' = [chunk EXCEPT ![p] = LastChunk]
    /\ Goto(p, "write")
    /\ UNCHANGED <<sessions, sess, target, generated, ended, closed, getVars, stopVars>>

\* The chunk enters the ring before the socket; a finalized session refuses it, which the
\* producer ignores.
WriteChunk(p) ==
    /\ pc[p] = "write"
    /\ LET first == generated[p] - chunk[p].size IN
       sess' = [sess EXCEPT ![p] = AppendChunk(@, [i \in 1 .. chunk[p].size |-> first + i])]
    /\ chunk' = [chunk EXCEPT ![p] = NoChunk]
    /\ Goto(p, IF chunk[p].last THEN "destroy" ELSE "next")
    /\ UNCHANGED <<sessions, target, generated, ended, closed, getVars, stopVars>>

\* on_complete of a request that never streamed: evict() looks the session up by its
\* conversation.
Evict(p) ==
    /\ pc[p] = "evict"
    /\ sessions' = [sessions EXCEPT ![Conv[p]] = None]
    /\ target' = [target EXCEPT ![p] = sessions[Conv[p]]]
    /\ Goto(p, IF sessions[Conv[p]] = None THEN "destroy" ELSE "finalizeEvicted")
    /\ UNCHANGED <<sess, postVars, closed, getVars, stopVars>>

\* ~stream_pipe_producer
Destroy(p) ==
    /\ pc[p] = "destroy"
    /\ sess' = [sess EXCEPT ![p] = Finalize(@)]
    /\ Goto(p, "end")
    /\ UNCHANGED <<sessions, target, postVars, closed, getVars, stopVars>>

PostStep(p) ==
    \/ CancelTarget(p) \/ FinalizeTarget(p)
    \/ Abort(p) \/ CallNext(p) \/ Poll(p) \/ WriteChunk(p) \/ Evict(p) \/ Destroy(p)

-----------------------------------------------------------------------------
(* GET                                                                     *)

Lookup(r) ==
    /\ pc[r] = "new" /\ stopping # "http"
    /\ target' = [target EXCEPT ![r] = sessions[Conv[r]]]
    /\ \E from \in Offsets : offset' = [offset EXCEPT ![r] = from]
    /\ Goto(r, IF sessions[Conv[r]] = None THEN "end" ELSE "open")
    /\ UNCHANGED <<sessions, sess, postVars, closed, got, stopVars>>

\* An offset below the dropped prefix is answered with 400.
Open(r) ==
    /\ pc[r] = "open"
    /\ Goto(r, IF offset[r] < sess[target[r]].prefix_dropped THEN "end" ELSE "read")
    /\ UNCHANGED <<sessions, sess, target, postVars, closed, getVars, stopVars>>

\* read_from copies what there is and returns to the HTTP server, which ends the response
\* when it is shutting down.
ReadChunk(r) ==
    LET s == sess[target[r]] IN
    /\ pc[r] = "read" /\ r \notin closed
    /\ s.prefix_dropped <= offset[r] /\ offset[r] < TotalSize(s)
    /\ got' = [got EXCEPT ![r] = @ \o Available(s, offset[r])]
    /\ offset' = [offset EXCEPT ![r] = TotalSize(s)]
    /\ Goto(r, IF stopping = "http" THEN "end" ELSE "read")
    /\ UNCHANGED <<sessions, sess, target, postVars, closed, stopVars>>

\* Mutant: the end of the session is not looked at.
ReadEndOnClose(r) ==
    LET s == sess[target[r]] IN
    /\ pc[r] = "read" /\ (r \in closed \/ offset[r] < s.prefix_dropped)
    /\ Goto(r, "end")
    /\ UNCHANGED <<sessions, sess, target, postVars, closed, getVars, stopVars>>

\* It returns without data when the connection is closed, the offset is lost (the handler
\* ignores the status) or the session is finalized and read to its end; otherwise it waits.
ReadEnd(r) ==
    LET s == sess[target[r]] IN
    /\ pc[r] = "read"
    /\ \/ r \in closed
       \/ offset[r] < s.prefix_dropped
       \/ s.done /\ offset[r] >= TotalSize(s)
    /\ Goto(r, "end")
    /\ UNCHANGED <<sessions, sess, target, postVars, closed, getVars, stopVars>>

GetStep(r) == Open(r) \/ ReadChunk(r) \/ ReadEnd(r)

-----------------------------------------------------------------------------
(* DELETE, garbage collection, shutdown and the clients                    *)

\* evict_and_cancel; CancelTarget and FinalizeTarget follow.
Delete(d) ==
    /\ pc[d] = "new" /\ stopping # "http"
    /\ sessions' = [sessions EXCEPT ![Conv[d]] = None]
    /\ target' = [target EXCEPT ![d] = sessions[Conv[d]]]
    /\ Goto(d, IF sessions[Conv[d]] = None THEN "end" ELSE "cancel")
    /\ UNCHANGED <<sess, postVars, closed, getVars, stopVars>>

\* Completed sessions expire; to finalize them once more changes nothing.
CollectGarbage ==
    /\ stopping = "no"
    /\ \E E \in (SUBSET {c \in Convs : sessions[c] # None /\ sess[sessions[c]].done}) \ {{}} :
          sessions' = [c \in Convs |-> IF c \in E THEN None ELSE sessions[c]]
    /\ UNCHANGED <<sess, pc, target, postVars, closed, getVars, stopVars>>

\* Mutant: the sessions are dropped without being finalized.
StopGcDropping ==
    /\ stopping = "no"
    /\ stopping' = "finalizing" /\ snapshot' = {}
    /\ sessions' = [c \in Convs |-> None]
    /\ UNCHANGED <<sess, pc, target, postVars, closed, getVars>>

\* stop_gc: the collector has ended; all sessions are taken out of the map.
StopGc ==
    /\ stopping = "no"
    /\ stopping' = "finalizing"
    /\ snapshot' = {sessions[c] : c \in Convs} \ {None}
    /\ sessions' = [c \in Convs |-> None]
    /\ UNCHANGED <<sess, pc, target, postVars, closed, getVars>>

FinalizeSnapshot ==
    /\ \E p \in snapshot : sess' = [sess EXCEPT ![p] = Finalize(@)] /\ snapshot' = snapshot \ {p}
    /\ UNCHANGED <<sessions, pc, target, postVars, closed, getVars, stopping>>

\* ctx_http.stop() follows in clean_up().
StopHttp ==
    /\ stopping = "finalizing" /\ snapshot = {}
    /\ stopping' = "http"
    /\ UNCHANGED <<sessions, sess, pc, target, postVars, closed, getVars, snapshot>>

Disconnect(t) ==
    /\ t \notin closed /\ pc[t] \notin {"new", "end"}
    /\ closed' = closed \cup {t}
    /\ UNCHANGED <<sessions, sess, pc, target, postVars, getVars, stopVars>>

Next ==
    \/ \E p \in Posts :
          PostStep(p) \/ SetReq(p) \/ Reject(p) \/ FirstResult(p) \/ Result(p) \/ Drain(p)
    \/ \E r \in Gets : Lookup(r) \/ GetStep(r)
    \/ \E d \in Deletes : Delete(d) \/ CancelTarget(d) \/ FinalizeTarget(d)
    \/ \E t \in Closing : Disconnect(t)
    \/ CollectGarbage \/ StopGc \/ FinalizeSnapshot \/ StopHttp

Spec == Init /\ [][Next]_vars

\* The threads run; nothing is assumed of the results, the clients or the shutdown.
FairSpec ==
    /\ Spec
    /\ \A p \in Posts : WF_vars(PostStep(p))
    /\ \A r \in Gets : WF_vars(GetStep(r))
    /\ \A d \in Deletes : WF_vars(CancelTarget(d) \/ FinalizeTarget(d))
    /\ WF_vars(FinalizeSnapshot)

-----------------------------------------------------------------------------
(* Properties                                                              *)

PostPcs == {"new", "cancelPrevious", "finalizePrevious", "prepare", "next", "await", "write",
            "evict", "finalizeEvicted", "destroy", "end"}

\* The map, the sessions, the threads and the shutdown keep their types, and a ring never
\* holds more than its capacity.
TypeOK ==
    /\ sessions \in [Convs -> Posts \cup {None}]
    /\ \A p \in Posts :
          /\ sess[p].buffer \in Seq(Nat) /\ Len(sess[p].buffer) <= CapBytes
          /\ sess[p].prefix_dropped \in Nat
          /\ sess[p].done \in BOOLEAN /\ sess[p].cancelled \in BOOLEAN
          /\ pc[p] \in PostPcs
    /\ \A r \in Gets : pc[r] \in {"new", "open", "read", "end"}
    /\ \A d \in Deletes : pc[d] \in {"new", "cancel", "finalize", "end"}
    /\ target \in [Threads -> Posts \cup {None}]
    /\ generated \in [Posts -> Nat] /\ ended \in [Posts -> BOOLEAN]
    /\ closed \subseteq Threads /\ snapshot \subseteq Posts
    /\ stopping \in {"no", "finalizing", "http"}

\* append() keeps the newest bytes, as many as the capacity allows, and prefix_dropped is
\* the number of those it lost: offsets of readers stay valid whatever the chunk sizes.
RingKeepsTail ==
    \A p \in Posts : LET s == sess[p] IN
       /\ \A i \in 1 .. Len(s.buffer) : s.buffer[i] = s.prefix_dropped + i
       /\ s.prefix_dropped > 0 => Len(s.buffer) = CapBytes

\* "One conv = at most one live session": a running session that is not in the map is
\* about to be finalized by the thread that took it out (create_or_replace, evict,
\* evict_and_cancel, stop_gc).
OutsideIsClosing ==
    \A p \in Posts :
       pc[p] \notin {"new", "end"} /\ ~sess[p].done /\ sessions[Conv[p]] # p =>
          \/ p \in snapshot
          \/ \E t \in Posts \cup Deletes :
                target[t] = p /\ pc[t] \in DOMAIN AfterCancel \cup DOMAIN AfterFinalize

\* A finished session that a client can still find (get, lookup) holds the whole output of
\* a generation that came to its own end, although the client of the POST may have left;
\* so the garbage collector never takes a session from a running producer.
FoundIsWhole ==
    \A c \in Convs : sessions[c] # None /\ sess[sessions[c]].done =>
       LET p == sessions[c] IN
       pc[p] = "end" /\ ended[p] /\ TotalSize(sess[p]) = generated[p]

\* Readers receive consecutive bytes of one append-only log, each once, whatever is
\* appended, dropped, replaced, deleted or finalized meanwhile.
Log == INSTANCE ReplayLog WITH
    Logs <- Posts, Readers <- Gets,
    size <- [p \in Posts |-> TotalSize(sess[p])],
    sealed <- [p \in Posts |-> sess[p].done]
ReplaysTheLog == Log!ReplaySpec

\* "cancel [...] the producer polls": a streaming generation whose session is cancelled
\* ends, with or without its client, and even if no result arrives any more.
CancelEndsStream ==
    \A p \in Posts : sess[p].cancelled /\ pc[p] \in {"next", "await", "write"} ~> pc[p] = "end"

\* The comment in evict_and_cancel says the opposite: "this does not interrupt the
\* underlying generation itself, which keeps running to its own natural stop condition
\* (EOS/max_tokens)".  A request that is about to finish its stream would then have seen its
\* generation end.  It has not: its response is destroyed with the reader of its results,
\* which posts CANCEL for the tasks that still run (server_response_reader::stop).
CancelDoesNotInterrupt ==
    \A p \in Posts : pc[p] = "write" /\ chunk[p].last => ended[p]

\* A reader of a session that was replaced, evicted, deleted, collected or dropped by
\* stop_gc comes to an end, whether or not its producer does.
ReadersReturn ==
    \A r \in Gets : pc[r] = "read" /\ sessions[Conv[r]] # target[r] ~> pc[r] = "end"

=============================================================================
