---------------------------- MODULE ServerModels ----------------------------
(***************************************************************************)
(* The router (tools/server/server-models.cpp): one child process for each *)
(* loaded model, at most models_max of them, and the queue of requests     *)
(* that wait for a slot (server_lru_sched).  HTTP threads run              *)
(* ensure_model_ready and proxy_request, or the load and unload routes; a  *)
(* child is watched by a monitoring and a stopping thread.  A step is one  *)
(* critical section of server_models::mutex, or what a child does.         *)
(* The list of models is fixed: reload, download and removal are left out. *)
(***************************************************************************)
EXTENDS Integers, Sequences, FiniteSets, SequencesExt

CONSTANTS Models, ModelsMax,
          Requests, Wants, Kind,  \* each request has a model, and is "proxy", "load" or "unload"
          Closing,                \* requests whose client may leave while they wait
          Crashing,               \* models whose process may fail
          NoModel

ASSUME ModelsAssumption ==
    /\ IsFiniteSet(Models) /\ IsFiniteSet(Requests) /\ NoModel \notin Models
    /\ ModelsMax \in Nat /\ ModelsMax > 0
    /\ Wants \in [Requests -> Models]
    /\ Kind \in [Requests -> {"proxy", "load", "unload"}]
    /\ Closing \subseteq Requests /\ Crashing \subseteq Models

VARIABLES status,     \* "unloaded", "loading", "ready" (LOADED or SLEEPING, which no code here tells apart)
          failed,     \* exit_code # 0
          req_count,
          lru,        \* the models by last_used, the oldest first
          stopping,   \* stopping_models
          queue,      \* of entry_t
          proc,       \* "none", "running", "dying" (told to exit, or killed), "exited", "joined"
          pc, queued,
          spawned,    \* did_load || saw_loading
          victim      \* the model to unload

children == <<status, failed, proc, stopping>>
locals   == <<pc, queued, spawned, victim>>
vars == <<children, req_count, lru, queue, locals>>

EntryType == [model : Models, n_waiters : Nat, slot_pending : BOOLEAN, loading : BOOLEAN]

-----------------------------------------------------------------------------
(* server_lru_sched                                                        *)

Up(m) == status[m] \in {"loading", "ready"}         \* is_running()
CountRunning == Cardinality({m \in Models : Up(m)})
HasCapacity == CountRunning < ModelsMax

Idle(m) == req_count[m] = 0 /\ status[m] = "ready"

\* The least recently used idle model other than the excluded one.
PickVictim(exclude) ==
    LET idle == SelectSeq(lru, LAMBDA m : m # exclude /\ Idle(m))
    IN  IF idle = <<>> THEN NoModel ELSE Head(idle)

Touch(m) == lru' = Append(SelectSeq(lru, LAMBDA x : x # m), m)

Listed(q, m) == \E i \in DOMAIN q : q[i].model = m
Position(q, m) == CHOOSE i \in DOMAIN q : q[i].model = m

\* Mutant: requests for one model do not share an entry.
JoinApart(q, m) ==
    Append(q, [model |-> m, n_waiters |-> 1, slot_pending |-> FALSE, loading |-> FALSE])
Join(q, m) ==
    IF Listed(q, m) THEN [q EXCEPT ![Position(q, m)].n_waiters = @ + 1]
    ELSE Append(q, [model |-> m, n_waiters |-> 1, slot_pending |-> FALSE, loading |-> FALSE])

\* Mutant: a waiter goes without a word.
LeaveSilently(q, m) == q
Leave(q, m) ==
    IF ~Listed(q, m) THEN q
    ELSE LET i == Position(q, m)
         IN  IF q[i].n_waiters <= 1 THEN RemoveAt(q, i) ELSE [q EXCEPT ![i].n_waiters = @ - 1]

MarkSlotPending(q, m) == [q EXCEPT ![Position(q, m)].slot_pending = TRUE]

MayClaim(m) == queue # <<>> /\ queue[1].model = m /\ ~queue[1].loading /\ HasCapacity

\* Mutant: after a load that did not go through the entry still counts as loading.
ClaimDoneStuck(q, m, ok) ==
    IF ~Listed(q, m) \/ ~ok THEN q ELSE RemoveAt(q, Position(q, m))
ClaimDone(q, m, ok) ==
    IF ~Listed(q, m) THEN q
    ELSE IF ok THEN RemoveAt(q, Position(q, m))
    ELSE [q EXCEPT ![Position(q, m)].loading = FALSE]

NeedsSlot(e) == ~e.slot_pending /\ ~e.loading

-----------------------------------------------------------------------------
\* Startup has loaded some models.
Init ==
    /\ \E up \in SUBSET Models :
          /\ Cardinality(up) <= ModelsMax
          /\ status = [m \in Models |-> IF m \in up THEN "ready" ELSE "unloaded"]
          /\ proc = [m \in Models |-> IF m \in up THEN "running" ELSE "none"]
    /\ failed = [m \in Models |-> FALSE]
    /\ req_count = [m \in Models |-> 0]
    /\ lru \in {s \in [1 .. Cardinality(Models) -> Models] : \A m \in Models : \E i \in DOMAIN s : s[i] = m}
    /\ stopping = {} /\ queue = <<>>
    /\ pc = [r \in Requests |-> "start"]
    /\ queued = [r \in Requests |-> FALSE] /\ spawned = [r \in Requests |-> FALSE]
    /\ victim = [r \in Requests |-> NoModel]

Goto(r, label) == pc' = [pc EXCEPT ![r] = label]

\* get_meta in ensure_model_ready and in the two routes.
Start(r) ==
    /\ pc[r] = "start"
    /\ LET m == Wants[r] IN
       CASE Kind[r] = "proxy" ->
              Goto(r, IF status[m] = "ready" THEN "proxy" ELSE "decide") /\ UNCHANGED victim
         [] Kind[r] = "load" -> Goto(r, IF Up(m) THEN "done" ELSE "make_room") /\ UNCHANGED victim
         [] Kind[r] = "unload" ->
              /\ Goto(r, IF Up(m) THEN "unload" ELSE "done")
              /\ victim' = [victim EXCEPT ![r] = IF Up(m) THEN m ELSE NoModel]
    /\ UNCHANGED <<children, req_count, lru, queue, queued, spawned>>

\* The first critical section of ensure_model_ready: load at once, queue, or just wait.
LoadNow(r) ==
    /\ pc[r] = "decide"
    /\ status[Wants[r]] = "unloaded" /\ HasCapacity /\ queue = <<>>
    /\ Goto(r, "make_room")
    /\ UNCHANGED <<children, req_count, lru, queue, queued, spawned, victim>>

EnterQueue(r) ==
    /\ pc[r] = "decide"
    /\ status[Wants[r]] = "unloaded" /\ (~HasCapacity \/ queue # <<>>)
    /\ queued' = [queued EXCEPT ![r] = TRUE]
    /\ LET m == Wants[r]
           v == IF HasCapacity THEN NoModel ELSE PickVictim(m)
       IN  /\ queue' = IF v = NoModel THEN Join(queue, m) ELSE MarkSlotPending(Join(queue, m), m)
           /\ Goto(r, IF v = NoModel THEN "wait" ELSE "evict")
           /\ victim' = [victim EXCEPT ![r] = v]
    /\ UNCHANGED <<children, req_count, lru, spawned>>

WaitOnly(r) ==
    /\ pc[r] = "decide" /\ status[Wants[r]] # "unloaded"
    /\ Goto(r, "wait")
    /\ UNCHANGED <<children, req_count, lru, queue, queued, spawned, victim>>

\* unload(victim): for this request, for the load in hand, after the last request, by the route.
Unload(r) ==
    /\ pc[r] \in {"evict", "lru_evict", "give_up", "unload"}
    /\ LET v == victim[r] IN
       /\ stopping' = IF Up(v) THEN stopping \cup {v} ELSE stopping
       /\ proc' = IF status[v] = "loading" /\ proc[v] = "running"
                  THEN [proc EXCEPT ![v] = "dying"] ELSE proc
       /\ victim' = IF pc[r] = "lru_evict" THEN victim ELSE [victim EXCEPT ![r] = NoModel]
    /\ Goto(r, CASE pc[r] = "evict" -> "wait"
                 [] pc[r] = "lru_evict" -> "lru_wait"
                 [] OTHER -> "done")
    /\ UNCHANGED <<status, failed, req_count, lru, queue, queued, spawned>>

\* Leaves the wait of ensure_model_ready: returned or thrown, the request leaves the queue.
StopWaiting(r, label) ==
    /\ Goto(r, label)
    /\ queue' = IF queued[r] THEN Leave(queue, Wants[r]) ELSE queue
    /\ queued' = [queued EXCEPT ![r] = FALSE]
    /\ spawned' = [spawned EXCEPT ![r] = FALSE]
    /\ UNCHANGED <<children, req_count, lru, victim>>

\* One turn of the wait, which polls every 200 ms; a turn that changes nothing is no step.
WaitReady(r) == pc[r] = "wait" /\ status[Wants[r]] = "ready" /\ StopWaiting(r, "proxy")

WaitLoading(r) ==
    /\ pc[r] = "wait" /\ status[Wants[r]] = "loading" /\ ~spawned[r]
    /\ spawned' = [spawned EXCEPT ![r] = TRUE]
    /\ UNCHANGED <<children, req_count, lru, queue, pc, queued, victim>>

\* The instance came back down, or it never came up and this request is not in the queue.
WaitUnloaded(r) ==
    /\ pc[r] = "wait" /\ status[Wants[r]] = "unloaded" /\ (spawned[r] \/ ~queued[r])
    /\ StopWaiting(r, IF spawned[r] /\ failed[Wants[r]] THEN "done" ELSE "proxy")

Cancel(r) ==
    /\ r \in Closing
    /\ pc[r] = "wait"
    /\ status[Wants[r]] = "loading" \/ (status[Wants[r]] = "unloaded" /\ queued[r] /\ ~spawned[r])
    /\ StopWaiting(r, "done")

Claim(r) ==
    /\ pc[r] = "wait" /\ status[Wants[r]] = "unloaded" /\ queued[r] /\ ~spawned[r]
    /\ MayClaim(Wants[r])
    /\ queue' = [queue EXCEPT ![1].loading = TRUE]
    /\ Goto(r, "make_room")
    /\ UNCHANGED <<children, req_count, lru, queued, spawned, victim>>

-----------------------------------------------------------------------------
(* load(): unload_lru, then the spawn                                      *)

MakeRoom(r) ==
    /\ pc[r] = "make_room"
    /\ LET v == IF HasCapacity THEN NoModel ELSE PickVictim(NoModel)
       IN  /\ victim' = [victim EXCEPT ![r] = v]
           /\ Goto(r, IF v = NoModel THEN "spawn" ELSE "lru_evict")
    /\ UNCHANGED <<children, req_count, lru, queue, queued, spawned>>

AwaitUnload(r) ==
    /\ pc[r] = "lru_wait" /\ status[victim[r]] = "unloaded"
    /\ victim' = [victim EXCEPT ![r] = NoModel]
    /\ Goto(r, "spawn")
    /\ UNCHANGED <<children, req_count, lru, queue, queued, spawned>>

\* Where load() returns to, normally or with an exception.
AfterLoad(r, ok) ==
    /\ Goto(r, CASE queued[r] -> IF ok THEN "claim_ok" ELSE "claim_failed"
                 [] ~queued[r] /\ (Kind[r] = "load" \/ ~ok) -> "done"
                 [] OTHER -> "wait")
    /\ spawned' = [spawned EXCEPT ![r] = ok /\ Kind[r] = "proxy"]

\* Mutant: the capacity that unload_lru saw is taken for granted.
SpawnUnchecked(r) ==
    /\ pc[r] = "spawn" /\ status[Wants[r]] = "unloaded"
    /\ LET m == Wants[r] IN
       /\ status' = [status EXCEPT ![m] = "loading"]
       /\ proc' = [proc EXCEPT ![m] = "running"]
       /\ req_count' = [req_count EXCEPT ![m] = 0]
       /\ Touch(m)
    /\ AfterLoad(r, TRUE)
    /\ UNCHANGED <<failed, stopping, queue, queued, victim>>

\* The new instance replaces the old one, its count of requests included.
Spawn(r) ==
    /\ pc[r] = "spawn" /\ status[Wants[r]] = "unloaded" /\ HasCapacity
    /\ LET m == Wants[r] IN
       /\ status' = [status EXCEPT ![m] = "loading"]
       /\ proc' = [proc EXCEPT ![m] = "running"]
       /\ req_count' = [req_count EXCEPT ![m] = 0]
       /\ Touch(m)
    /\ AfterLoad(r, TRUE)
    /\ UNCHANGED <<failed, stopping, queue, queued, victim>>

\* Somebody else has loaded the model; or "model limit reached", or the process cannot be created.
NoSpawn(r) ==
    /\ pc[r] = "spawn"
    /\ \/ Up(Wants[r]) /\ AfterLoad(r, TRUE)
       \/ ~Up(Wants[r]) /\ (~HasCapacity \/ Wants[r] \in Crashing) /\ AfterLoad(r, FALSE)
    /\ UNCHANGED <<children, req_count, lru, queue, queued, victim>>

FinishClaim(r) ==
    /\ pc[r] \in {"claim_ok", "claim_failed"}
    /\ LET ok == pc[r] = "claim_ok" IN
       /\ queue' = ClaimDone(queue, Wants[r], ok)
       /\ queued' = [queued EXCEPT ![r] = ~ok]
    /\ Goto(r, "wait")
    /\ UNCHANGED <<children, req_count, lru, spawned, victim>>

-----------------------------------------------------------------------------
(* proxy_request, its cleanup and on_model_idle                            *)

Proxy(r) ==
    /\ pc[r] = "proxy"
    /\ Goto(r, IF Up(Wants[r]) THEN "count" ELSE "done")
    /\ UNCHANGED <<children, req_count, lru, queue, queued, spawned, victim>>

Count(r) ==
    /\ pc[r] = "count"
    /\ req_count' = [req_count EXCEPT ![Wants[r]] = @ + 1]
    /\ Touch(Wants[r])
    /\ Goto(r, "active")
    /\ UNCHANGED <<children, queue, queued, spawned, victim>>

\* The child has answered, or the connection is gone.
Cleanup(r) ==
    /\ pc[r] = "active"
    /\ LET m == Wants[r] IN
       /\ req_count' = [req_count EXCEPT ![m] = IF @ > 0 THEN @ - 1 ELSE @]
       /\ Goto(r, IF req_count[m] = 1 THEN "idle" ELSE "done")
    /\ UNCHANGED <<children, lru, queue, queued, spawned, victim>>

\* A queued request needs the slot, none is on its way, and no queued request wants the model.
GivesUp(m) ==
    LET unserved == {i \in DOMAIN queue : NeedsSlot(queue[i])}
        promised == Len(queue) - Cardinality(unserved)
    IN  /\ unserved # {}
        /\ CountRunning - promised >= ModelsMax
        /\ ~Listed(queue, m) /\ Idle(m)

OnModelIdle(r) ==
    /\ pc[r] = "idle"
    /\ LET m == Wants[r]
           open == {i \in DOMAIN queue : ~queue[i].slot_pending}
       IN  IF GivesUp(m)
           THEN /\ \E i \in open : /\ \A j \in open : i <= j
                                   /\ queue' = [queue EXCEPT ![i].slot_pending = TRUE]
                /\ victim' = [victim EXCEPT ![r] = m]
                /\ Goto(r, "give_up")
           ELSE Goto(r, "done") /\ UNCHANGED <<queue, victim>>
    /\ UNCHANGED <<children, req_count, lru, queued, spawned>>

-----------------------------------------------------------------------------
(* A child and the threads that watch it                                   *)

\* handle_child_state of READY, which a child that is told to exit may have written before.
ReportReady(m) ==
    /\ status[m] = "loading" /\ proc[m] \in {"running", "dying"}
    /\ status' = [status EXCEPT ![m] = "ready"]
    /\ failed' = [failed EXCEPT ![m] = FALSE]
    /\ UNCHANGED <<proc, stopping, req_count, lru, queue, locals>>

\* The stopping thread finds its model in stopping_models; it kills a child that does not exit.
StopChild(m) ==
    /\ proc[m] = "running" /\ m \in stopping
    /\ proc' = [proc EXCEPT ![m] = "dying"]
    /\ UNCHANGED <<status, failed, stopping, req_count, lru, queue, locals>>

\* End of the output of the child; a child on its way out may have been killed.
Exit(m) ==
    /\ proc[m] = "dying" \/ (proc[m] = "running" /\ m \in Crashing)
    /\ proc' = [proc EXCEPT ![m] = "exited"]
    /\ failed' \in {[failed EXCEPT ![m] = f] : f \in {proc[m] = "running", TRUE}}
    /\ UNCHANGED <<status, stopping, req_count, lru, queue, locals>>

Reap(m) ==
    /\ proc[m] = "exited"
    /\ proc' = [proc EXCEPT ![m] = "joined"]
    /\ stopping' = stopping \ {m}
    /\ UNCHANGED <<status, failed, req_count, lru, queue, locals>>

\* Mutant: the status of a child that failed is left as it is.
ReportUnloadedIfClean(m) ==
    /\ proc[m] = "joined" /\ ~failed[m]
    /\ proc' = [proc EXCEPT ![m] = "none"]
    /\ status' = [status EXCEPT ![m] = "unloaded"]
    /\ UNCHANGED <<failed, stopping, req_count, lru, queue, locals>>

\* update_status(UNLOADED), after the stopping thread and the process are joined.
ReportUnloaded(m) ==
    /\ proc[m] = "joined"
    /\ proc' = [proc EXCEPT ![m] = "none"]
    /\ status' = [status EXCEPT ![m] = "unloaded"]
    /\ UNCHANGED <<failed, stopping, req_count, lru, queue, locals>>

ChildStep(m) ==
    \/ ReportReady(m) \/ StopChild(m) \/ Reap(m) \/ ReportUnloaded(m)
    \/ proc[m] = "dying" /\ Exit(m)

\* What a request does once it has been received.
RequestStep(r) ==
    \/ LoadNow(r) \/ EnterQueue(r) \/ WaitOnly(r) \/ Unload(r)
    \/ WaitReady(r) \/ WaitLoading(r) \/ WaitUnloaded(r) \/ Claim(r)
    \/ MakeRoom(r) \/ AwaitUnload(r) \/ Spawn(r) \/ NoSpawn(r) \/ FinishClaim(r)
    \/ Proxy(r) \/ Count(r) \/ Cleanup(r) \/ OnModelIdle(r)

Next ==
    \/ \E r \in Requests : Start(r) \/ RequestStep(r) \/ Cancel(r)
    \/ \E m \in Models : ChildStep(m) \/ Exit(m)

Spec == Init /\ [][Next]_vars

\* Threads run, a proxied request ends (timeout_read, timeout_write), a model that loads
\* gets ready or fails, a child that was told to exit does or is killed, and the creation
\* of a process that is tried again and again succeeds at last.
FairSpec ==
    /\ Spec
    /\ \A r \in Requests : WF_vars(RequestStep(r)) /\ SF_vars(Spawn(r))
    /\ \A m \in Models : WF_vars(ChildStep(m))

-----------------------------------------------------------------------------
(* Properties                                                              *)

\* The state of models, children, queue and requests keeps its type.
TypeOK ==
    /\ status \in [Models -> {"unloaded", "loading", "ready"}]
    /\ failed \in [Models -> BOOLEAN]
    /\ req_count \in [Models -> Nat]
    /\ lru \in Seq(Models) /\ stopping \subseteq Models
    /\ queue \in Seq(EntryType)
    /\ proc \in [Models -> {"none", "running", "dying", "exited", "joined"}]
    /\ pc \in [Requests -> {"start", "decide", "evict", "wait", "make_room", "lru_evict", "lru_wait",
                            "spawn", "claim_ok", "claim_failed", "proxy", "count", "active",
                            "idle", "give_up", "unload", "done"}]
    /\ queued \in [Requests -> BOOLEAN] /\ spawned \in [Requests -> BOOLEAN]
    /\ victim \in [Requests -> Models \cup {NoModel}]

\* However loads, evictions and crashes interleave, at most models_max children exist.
LimitHolds == Cardinality({m \in Models : proc[m] # "none"}) <= ModelsMax

\* Requests for one model share an entry, and no entry is left without a request that waits:
\* an abandoned entry at the head would block the queue for everybody.
EntriesHaveWaiters ==
    \A i \in DOMAIN queue :
       LET m == queue[i].model IN
       /\ queue[i].n_waiters <= Cardinality({r \in Requests : Wants[r] = m /\ queued[r]})
       /\ queue[i].n_waiters > 0
       /\ \A j \in DOMAIN queue : queue[j].model = m => i = j

\* A load in flight is somebody's: a head marked as loading has a request that performs it.
LoadIsOwned ==
    \A i \in DOMAIN queue :
       queue[i].loading =>
          \E r \in Requests :
             /\ Wants[r] = queue[i].model /\ queued[r]
             /\ pc[r] \in {"make_room", "lru_evict", "lru_wait", "spawn", "claim_ok", "claim_failed"}

\* A slot that is free is not kept from the queue: its head gets to load.
FreeSlotIsUsed == queue # <<>> /\ HasCapacity ~> (queue = <<>> \/ ~HasCapacity)

\* A model that is told to stop comes down, wherever its loading or a crash stands.
StoppedComesDown ==
    \A m \in Models : (m \in stopping /\ proc[m] \in {"running", "dying"}) ~> status[m] = "unloaded"

\* "if models_max is reached, the request waits in a queue until a slot frees up"
\* (server-models.h:287): a queued request does not wait for ever.
WaitersAreServed == \A r \in Requests : queued[r] ~> ~queued[r]
=============================================================================
