--------------------------- MODULE ServerResponse ---------------------------
(***************************************************************************)
(* The results of the HTTP server: server_response (the set of waiting     *)
(* task ids and the one queue of results, tools/server/server-queue.cpp    *)
(* 385-509) and its users:                                                 *)
(*   - server_response_reader, one per request, with one or more tasks,    *)
(*     read by wait_for_all or streamed chunk by chunk;                    *)
(*   - the inference, which sends results and handles the CANCELs.         *)
(* Every critical section of mutex_results is one step.                    *)
(***************************************************************************)
EXTENDS Integers, FiniteSets, SequencesExt

CONSTANTS Readers,     \* the HTTP threads
          TaskIds,
          IdsOf,       \* id_tasks of each reader
          Streaming,   \* the readers that stream
          Closing,     \* the readers whose connection may be closed
          Failing,     \* the tasks that may end with an error
          Endless,     \* the tasks whose generation has no limit
          MaxPartials, \* bound: partial results of a task that is not endless
          MaxResults   \* bound: length of queue_results

ASSUME ReadersAssumption ==
    /\ IdsOf \in [Readers -> (SUBSET TaskIds) \ {{}}]
    /\ \A r, s \in Readers : r # s => IdsOf[r] \cap IdsOf[s] = {}
    /\ IsFiniteSet(TaskIds)
    /\ Streaming \subseteq Readers /\ Closing \subseteq Readers
    /\ Failing \subseteq TaskIds /\ Endless \subseteq TaskIds
    /\ MaxPartials \in Nat /\ MaxResults \in Nat

VARIABLES waiting_task_ids, queue_results,
          cv,          \* the readers blocked in condition_results.wait_for
          readerPc,
          results,     \* the tasks whose final result the reader has received
          cancelled,
          removing,    \* the ids stop() has still to remove one by one
          closed,      \* should_stop(): the connection is closed
          task,        \* the life of each task in the queue and in the slots
          partials,    \* the number of partial results it has sent
          cancels      \* the tasks a CANCEL has been posted for

responseVars == <<waiting_task_ids, queue_results, cv>>
readerVars   == <<readerPc, results, cancelled, removing>>
taskVars     == <<task, partials, cancels>>
vars == <<responseVars, readerVars, closed, taskVars>>

Result == [id : TaskIds, kind : {"partial", "final", "error"}, n : 0 .. MaxPartials]

-----------------------------------------------------------------------------
Init ==
    /\ waiting_task_ids = {} /\ queue_results = <<>> /\ cv = {}
    /\ readerPc = [r \in Readers |-> "new"]
    /\ results = [r \in Readers |-> {}]
    /\ cancelled = [r \in Readers |-> FALSE]
    /\ removing = [r \in Readers |-> {}]
    /\ closed = [r \in Readers |-> FALSE]
    /\ task = [t \in TaskIds |-> "none"]
    /\ partials = [t \in TaskIds |-> 0]
    /\ cancels = {}

Goto(r, pc) == readerPc' = [readerPc EXCEPT ![r] = pc]

\* received_count is the number of final results.
HasNextLess(r) == ~cancelled[r] /\ Cardinality(results[r]) + 1 < Cardinality(IdsOf[r])  \* mutant
HasNext(r) == ~cancelled[r] /\ Cardinality(results[r]) < Cardinality(IdsOf[r])

\* Mutant: the ids of the child tasks are not added.
RegisterFirst(r) ==
    /\ readerPc[r] = "new"
    /\ \E t \in IdsOf[r] : waiting_task_ids' = waiting_task_ids \cup {t}
    /\ Goto(r, "post")
    /\ UNCHANGED <<queue_results, cv, results, cancelled, removing, closed, taskVars>>

\* add_waiting_task_ids comes before the tasks are posted.
Register(r) ==
    /\ readerPc[r] = "new"
    /\ waiting_task_ids' = waiting_task_ids \cup IdsOf[r]
    /\ Goto(r, "post")
    /\ UNCHANGED <<queue_results, cv, results, cancelled, removing, closed, taskVars>>

PostTasks(r) ==
    /\ readerPc[r] = "post"
    /\ task' = [t \in TaskIds |-> IF t \in IdsOf[r] THEN "posted" ELSE task[t]]
    /\ Goto(r, "next")
    /\ UNCHANGED <<responseVars, results, cancelled, removing, closed, partials, cancels>>

\* No further result is asked for: all are there, or a streaming request sees between
\* two chunks that the connection is closed.
Leave(r) ==
    /\ readerPc[r] = "next"
    /\ ~HasNext(r) \/ (r \in Streaming /\ closed[r])
    /\ Goto(r, "stop")
    /\ UNCHANGED <<responseVars, results, cancelled, removing, closed, taskVars>>

Mine(r) == {i \in DOMAIN queue_results : queue_results[i].id \in IdsOf[r]}

Take(r, i) ==
    /\ queue_results' = RemoveAt(queue_results, i)
    /\ UNCHANGED <<waiting_task_ids, cv, cancelled, removing>>

\* Mutant: the newest result first.
ReceiveLast(r) ==
    \E i \in Mine(r) :
       /\ \A j \in Mine(r) : i >= j
       /\ Take(r, i)
       /\ results' = IF queue_results[i].kind = "final"
                     THEN [results EXCEPT ![r] = @ \cup {queue_results[i].id}] ELSE results
       /\ Goto(r, IF queue_results[i].kind = "error" THEN "stop" ELSE "next")

\* Mutant: an error does not stop the reader.
ReceiveOnly(r) ==
    \E i \in Mine(r) :
       /\ \A j \in Mine(r) : i <= j
       /\ Take(r, i)
       /\ results' = IF queue_results[i].kind = "final"
                     THEN [results EXCEPT ![r] = @ \cup {queue_results[i].id}] ELSE results
       /\ Goto(r, "next")

\* recv_with_timeout takes the first result of the reader's tasks; next() counts the
\* final ones and stops at an error.
Receive(r) ==
    \E i \in Mine(r) :
       /\ \A j \in Mine(r) : i <= j
       /\ Take(r, i)
       /\ results' = IF queue_results[i].kind = "final"
                     THEN [results EXCEPT ![r] = @ \cup {queue_results[i].id}] ELSE results
       /\ Goto(r, IF queue_results[i].kind = "error" THEN "stop" ELSE "next")

Wait(r) ==
    /\ Mine(r) = {}
    /\ cv' = cv \cup {r}
    /\ Goto(r, "waiting")
    /\ UNCHANGED <<waiting_task_ids, queue_results, results, cancelled, removing>>

Recv(r) ==
    /\ \/ readerPc[r] = "next" /\ HasNext(r) /\ ~(r \in Streaming /\ closed[r])
       \/ readerPc[r] = "scan"
       \/ readerPc[r] = "waiting" /\ r \notin cv
    /\ Receive(r) \/ Wait(r)
    /\ UNCHANGED <<closed, taskVars>>

\* wait_for reports a timeout, also when the notification comes just after it ...
Timeout(r) ==
    /\ readerPc[r] = "waiting"
    /\ cv' = cv \ {r}
    /\ Goto(r, "polled")
    /\ UNCHANGED <<waiting_task_ids, queue_results, results, cancelled, removing, closed, taskVars>>

\* ... and next() asks should_stop().
Poll(r) ==
    /\ readerPc[r] = "polled"
    /\ Goto(r, IF closed[r] THEN "stop" ELSE "scan")
    /\ UNCHANGED <<responseVars, results, cancelled, removing, closed, taskVars>>

\* stop(): all ids leave the waiting set; what was not received is cancelled.
Stop(r) ==
    /\ readerPc[r] = "stop"
    /\ waiting_task_ids' = waiting_task_ids \ IdsOf[r]
    /\ \/ /\ HasNext(r)
          /\ cancelled' = [cancelled EXCEPT ![r] = TRUE]
          /\ removing' = [removing EXCEPT ![r] = IdsOf[r]]
          /\ Goto(r, "purge")
       \/ /\ ~HasNext(r)
          /\ Goto(r, "done")
          /\ UNCHANGED <<cancelled, removing>>
    /\ UNCHANGED <<queue_results, cv, results, closed, taskVars>>

\* What is at the positions K of a queue, in order: the place of a position is the number
\* of those that do not come after it.
Place(K, i) == Cardinality({k \in K : k <= i})
At(q, K) == [j \in 1 .. Cardinality(K) |-> q[CHOOSE i \in K : Place(K, i) = j]]

OwnedBy(q, t) == {i \in DOMAIN q : q[i].id = t}

\* The queue without the results of task t (std::remove_if and erase), the others in order.
Without(q, t) == At(q, DOMAIN q \ OwnedBy(q, t))

\* Mutant: the results that are already there stay in the queue.
RemoveOneOnly(r) ==
    /\ readerPc[r] = "purge"
    /\ \E t \in removing[r] :
         /\ waiting_task_ids' = waiting_task_ids \ {t}
         /\ removing' = [removing EXCEPT ![r] = @ \ {t}]
    /\ UNCHANGED <<queue_results, cv, readerPc, results, cancelled, closed, taskVars>>

\* remove_waiting_task_id of one id.
RemoveOne(r) ==
    /\ readerPc[r] = "purge"
    /\ \E t \in removing[r] :
         /\ waiting_task_ids' = waiting_task_ids \ {t}
         /\ queue_results' = Without(queue_results, t)
         /\ removing' = [removing EXCEPT ![r] = @ \ {t}]
    /\ UNCHANGED <<cv, readerPc, results, cancelled, closed, taskVars>>

\* The CANCEL tasks are posted together.
PostCancels(r) ==
    /\ readerPc[r] = "purge" /\ removing[r] = {}
    /\ cancels' = cancels \cup IdsOf[r]
    /\ Goto(r, "done")
    /\ UNCHANGED <<responseVars, results, cancelled, removing, closed, task, partials>>

Reader(r) ==
    \/ Register(r) \/ PostTasks(r) \/ Leave(r) \/ Recv(r) \/ Timeout(r) \/ Poll(r)
    \/ Stop(r) \/ RemoveOne(r) \/ PostCancels(r)

Close(r) ==
    /\ r \in Closing /\ ~closed[r]
    /\ closed' = [closed EXCEPT ![r] = TRUE]
    /\ UNCHANGED <<responseVars, readerVars, taskVars>>

-----------------------------------------------------------------------------
(* The inference.                                                          *)

\* server_response::send: dropped unless somebody waits for the task.
Send(res) ==
    \/ /\ res.id \in waiting_task_ids
       /\ queue_results' = Append(queue_results, res)
       /\ cv' = {}
    \/ res.id \notin waiting_task_ids /\ UNCHANGED <<queue_results, cv>>

Partial(t) ==
    /\ task[t] = "posted"
    /\ Len(queue_results) < MaxResults
    /\ t \in Endless \/ partials[t] < MaxPartials
    /\ partials' = [partials EXCEPT ![t] = (@ + 1) % (MaxPartials + 1)]
    /\ Send([id |-> t, kind |-> "partial", n |-> partials'[t]])
    /\ UNCHANGED <<waiting_task_ids, readerVars, closed, task, cancels>>

Final(t) ==
    /\ task[t] = "posted" /\ t \notin Endless
    /\ \E kind \in {"final"} \cup (IF t \in Failing THEN {"error"} ELSE {}) :
         /\ Send([id |-> t, kind |-> kind, n |-> 0])
         /\ task' = [task EXCEPT ![t] = kind]
    /\ UNCHANGED <<waiting_task_ids, readerVars, closed, partials, cancels>>

HandleCancel(t) ==
    /\ t \in cancels /\ task[t] = "posted"
    /\ task' = [task EXCEPT ![t] = "cancelled"]
    /\ UNCHANGED <<responseVars, readerVars, closed, partials, cancels>>

Next ==
    \/ \E r \in Readers : Reader(r) \/ Close(r)
    \/ \E t \in TaskIds : Partial(t) \/ Final(t) \/ HandleCancel(t)

Spec == Init /\ [][Next]_vars

\* Threads are scheduled, generations with a limit end, endless ones go on, CANCELs
\* are handled.
FairSpec ==
    /\ Spec
    /\ \A r \in Readers : WF_vars(Reader(r))
    /\ \A t \in TaskIds : /\ WF_vars(Partial(t)) /\ WF_vars(HandleCancel(t))
                          /\ SF_vars(Final(t))

-----------------------------------------------------------------------------
(* Properties.                                                             *)

\* Type invariant.
TypeOK ==
    /\ waiting_task_ids \subseteq TaskIds /\ queue_results \in Seq(Result)
    /\ cv \subseteq Readers
    /\ readerPc \in [Readers -> {"new", "post", "next", "scan", "waiting", "polled", "stop",
                                "purge", "done"}]
    /\ results \in [Readers -> SUBSET TaskIds] /\ cancelled \in [Readers -> BOOLEAN]
    /\ removing \in [Readers -> SUBSET TaskIds] /\ closed \in [Readers -> BOOLEAN]
    /\ task \in [TaskIds -> {"none", "posted", "final", "error", "cancelled"}]
    /\ partials \in [TaskIds -> 0 .. MaxPartials] /\ cancels \subseteq TaskIds

Queued(t, kind) == \E i \in DOMAIN queue_results :
                      queue_results[i].id = t /\ queue_results[i].kind = kind

Reading(r) == readerPc[r] \in {"next", "scan", "waiting", "polled"}

\* The final result of a task is not lost on its way to a reader that still reads: it
\* is in the queue or has been received, exactly once (wait_for_all asserts "duplicate
\* result received").  send() drops results of tasks that are not in the waiting set.
FinalNotLost ==
    \A r \in Readers : \A t \in IdsOf[r] :
        /\ Reading(r) /\ task[t] = "final" => (t \in results[r] <=> ~Queued(t, "final"))
        /\ Reading(r) /\ task[t] = "error" => Queued(t, "error")

\* A reader that is gone leaves nothing behind: no id in the waiting set, no result in
\* the queue (recv() of another reader would spin on it), whatever was sent while
\* stop() was removing the ids.
NothingLeftBehind ==
    \A r \in Readers : readerPc[r] = "done" =>
        \A t \in IdsOf[r] : /\ t \notin waiting_task_ids
                            /\ \A i \in DOMAIN queue_results : queue_results[i].id # t

\* A reader that is gone leaves no task running for nobody: its tasks have ended, or a
\* CANCEL is posted for them.
NoAbandonedTask ==
    \A r \in Readers : readerPc[r] = "done" =>
        \A t \in IdsOf[r] : task[t] = "final" \/ t \in cancels

\* server_response is one ordered channel per task id.
Channels == INSTANCE ResultChannels WITH
    Results <- [kind : {"partial", "final", "error"}, n : 0 .. MaxPartials],
    open <- waiting_task_ids,
    chan <- [t \in TaskIds |->
               LET own == At(queue_results, OwnedBy(queue_results, t))
               IN  [i \in DOMAIN own |-> [kind |-> own[i].kind, n |-> own[i].n]]]
OrderedChannels == Channels!ChanSpec

\* A request whose tasks all end is answered, although other readers share the queue,
\* the condition variable and its notifications.
RequestsAnswered ==
    \A r \in Readers : readerPc[r] = "next" /\ IdsOf[r] \cap Endless = {} ~> readerPc[r] = "done"

=============================================================================
