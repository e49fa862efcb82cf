---------------------------- MODULE ServerQueue ----------------------------
(***************************************************************************)
(* The task queue of the HTTP server (tools/server/server-queue.cpp) with  *)
(* the threads that share it:                                              *)
(*   - the main thread in server_queue::start_loop, which takes tasks,     *)
(*     runs server_context's callbacks and goes to sleep when idle;        *)
(*   - the worker thread, which takes tasks while the main thread is       *)
(*     inside yield_to_queue (a decode is running);                        *)
(*   - one HTTP thread per request, which waits for the server to be awake *)
(*     and posts its task, and may later post a CANCEL for it;             *)
(*   - the signal handler, which calls terminate().                        *)
(* The step of every thread is one critical section of mutex_tasks.  The   *)
(* condition variable condition_tasks is its set of waiting threads.       *)
(* The slots of server_context are abstracted to the set of tasks that     *)
(* occupy one; ServerSlots refines that part.                              *)
(***************************************************************************)
EXTENDS Integers, Sequences, FiniteSets

CONSTANTS Clients,     \* the requests, each served by an HTTP thread
          Kind,        \* the type of the task each request posts
          NSlots,      \* number of slots (n_parallel)
          MaySleep,    \* idle_sleep_ms >= 0: the idle timer may expire
          Cancellers,  \* requests whose connection may close before the answer
          Faults,      \* the failures that may happen
          Main, Worker,\* the two threads of the queue
          NoTask

\* Tasks that only read the server state; the only ones accepted while yielding.
ReadOnly == {"METRICS", "SLOT_GET"}
Requests == ReadOnly \cup {"COMPLETION"}

ASSUME ClientsAssumption ==
    /\ Kind \in [Clients -> Requests]
    /\ Cancellers \subseteq Clients
    /\ Main # Worker /\ Main \notin Clients /\ Worker \notin Clients
    /\ IsFiniteSet(Clients)
ASSUME BoundsAssumption ==
    /\ NSlots \in Nat \ {0}
    /\ MaySleep \in BOOLEAN
    /\ Faults \subseteq {"launch", "work", "worker"}

\* A CANCEL carries the id of its target, NEXT_RESPONSE belongs to the main thread.
Task == [type : Requests \cup {"CANCEL"}, id : Clients] \cup {[type |-> "NEXT_RESPONSE", id |-> Main]}
ASSUME NoTaskAssumption == NoTask \notin Task

TaskOf(c)    == [type |-> Kind[c],         id |-> c]
CancelOf(c)  == [type |-> "CANCEL",        id |-> c]
NextResponse == [type |-> "NEXT_RESPONSE", id |-> Main]

VARIABLES queue_tasks, queue_tasks_deferred, queue_tasks_unhandled,
          running, sleeping, req_stop_sleeping,
          busy, yielding, stop, exception,  \* struct worker_t
          cv,            \* the threads blocked in condition_tasks.wait
          workerWaits,   \* the worker is blocked in worker.cv.wait
          mainPc, mainTask, workerPc, workerTask,
          active,        \* the requests whose task occupies a slot
          settled,       \* the requests whose task left the server for good
          clientPc,
          signalled      \* terminate() has been called

queueVars  == <<queue_tasks, queue_tasks_deferred, queue_tasks_unhandled>>
sleepVars  == <<sleeping, req_stop_sleeping>>
yieldVars  == <<busy, yielding, stop, exception>>
mainVars   == <<mainPc, mainTask>>
workerVars == <<workerPc, workerTask, workerWaits>>
slotVars   == <<active, settled>>
envVars    == <<clientPc, signalled>>
vars == <<queueVars, running, sleepVars, yieldVars, cv, mainVars, workerVars,
          slotVars, envVars>>

Threads == Clients \cup {Main, Worker}

-----------------------------------------------------------------------------
(* Operations on the condition variable and on the deques.                 *)

NotifyOne == \/ cv = {} /\ cv' = {}
             \/ \E t \in cv : cv' = cv \ {t}
NotifyAll == cv' = {}

PushFront(s, t) == <<t>> \o s

IsTaskOf(t, c) == t.type \in Requests /\ t.id = c

\* cleanup_pending_task on one deque.  Ids are handed out once by get_new_id,
\* so remove_if finds at most one task (checked by TaskConservation).
Erase(s, c) ==
    IF \E i \in DOMAIN s : IsTaskOf(s[i], c)
    THEN LET i == CHOOSE j \in DOMAIN s : IsTaskOf(s[j], c)
         IN  SubSeq(s, 1, i - 1) \o SubSeq(s, i + 1, Len(s))
    ELSE s

Holds(s, c) == \E i \in DOMAIN s : IsTaskOf(s[i], c)

CleanupPendingTask(c) ==
    /\ queue_tasks_deferred'  = Erase(queue_tasks_deferred, c)
    /\ queue_tasks_unhandled' = Erase(queue_tasks_unhandled, c)
    /\ settled' = IF \/ Holds(queue_tasks, c)
                     \/ Holds(queue_tasks_deferred, c)
                     \/ Holds(queue_tasks_unhandled, c)
                  THEN settled \cup {c} ELSE settled

\* Mutant: a released slot takes no deferred task.
PopNothing == UNCHANGED <<queue_tasks, queue_tasks_deferred>> /\ NotifyOne

\* One deferred task goes back to the front of the queue.
PopDeferredTask ==
    /\ \/ /\ queue_tasks_deferred = <<>>
          /\ UNCHANGED <<queue_tasks, queue_tasks_deferred>>
       \/ /\ queue_tasks_deferred # <<>>
          /\ queue_tasks' = PushFront(queue_tasks, Head(queue_tasks_deferred))
          /\ queue_tasks_deferred' = Tail(queue_tasks_deferred)
    /\ NotifyOne

\* server_slot::release and its callback.
Release(c) ==
    /\ active' = active \ {c}
    /\ settled' = settled \cup {c}
    /\ PopDeferredTask

-----------------------------------------------------------------------------
Init ==
    /\ queue_tasks = <<>> /\ queue_tasks_deferred = <<>> /\ queue_tasks_unhandled = <<>>
    /\ running = FALSE /\ sleeping = FALSE /\ req_stop_sleeping = FALSE
    /\ busy = FALSE /\ yielding = FALSE /\ stop = FALSE /\ exception = FALSE
    /\ cv = {} /\ workerWaits = FALSE
    /\ mainPc = "start" /\ mainTask = NoTask
    /\ workerPc = "none" /\ workerTask = NoTask
    /\ active = {} /\ settled = {}
    /\ clientPc = [c \in Clients |-> "new"]
    /\ signalled = FALSE

-----------------------------------------------------------------------------
(* The HTTP threads and the signal handler.                                *)

\* The generator of every response waits for the server to be awake; the
\* metrics handler instead answers from its cache while the server sleeps.
CheckAwake(c) ==
    /\ clientPc[c] = "new"
    /\ \/ /\ ~sleeping
          /\ clientPc' = [clientPc EXCEPT ![c] = "ready"]
          /\ UNCHANGED <<req_stop_sleeping, cv>>
       \/ /\ sleeping /\ Kind[c] = "METRICS"
          /\ clientPc' = [clientPc EXCEPT ![c] = "cached"]
          /\ UNCHANGED <<req_stop_sleeping, cv>>
       \/ /\ sleeping /\ Kind[c] # "METRICS"
          /\ clientPc' = [clientPc EXCEPT ![c] = "nosleep"]
          /\ \/ req_stop_sleeping /\ cv' = cv \cup {c}
             \/ /\ ~req_stop_sleeping
                /\ \/ cv = {} /\ cv' = {c}
                   \/ \E t \in cv : cv' = (cv \ {t}) \cup {c}
          /\ req_stop_sleeping' = TRUE
    /\ UNCHANGED <<queueVars, running, sleeping, yieldVars, mainVars, workerVars,
                   slotVars, signalled>>

\* The predicate of the wait in wait_until_no_sleep, evaluated after a wakeup.
WakeClient(c) ==
    /\ clientPc[c] = "nosleep" /\ c \notin cv
    /\ \/ sleeping /\ cv' = cv \cup {c} /\ UNCHANGED clientPc
       \/ /\ ~sleeping /\ UNCHANGED cv
          /\ clientPc' = [clientPc EXCEPT ![c] = "ready"]
    /\ UNCHANGED <<queueVars, running, sleepVars, yieldVars, mainVars, workerVars,
                   slotVars, signalled>>

\* Mutant: nobody is notified of the new task.
PostSilently(c) ==
    /\ clientPc[c] = "ready"
    /\ clientPc' = [clientPc EXCEPT ![c] = "posted"]
    /\ queue_tasks' = Append(queue_tasks, TaskOf(c))
    /\ UNCHANGED <<queue_tasks_deferred, queue_tasks_unhandled, running, sleepVars, cv,
                   yieldVars, mainVars, workerVars, slotVars, signalled>>

\* server_queue::post of the request's task; read-only tasks go to the front.
Post(c) ==
    /\ clientPc[c] = "ready"
    /\ clientPc' = [clientPc EXCEPT ![c] = "posted"]
    /\ queue_tasks' = IF Kind[c] \in ReadOnly THEN PushFront(queue_tasks, TaskOf(c))
                                              ELSE Append(queue_tasks, TaskOf(c))
    /\ NotifyOne
    /\ UNCHANGED <<queue_tasks_deferred, queue_tasks_unhandled, running, sleepVars,
                   yieldVars, mainVars, workerVars, slotVars, signalled>>

\* server_response_reader::stop: post a CANCEL at the front of the queue.
PostCancel(c) ==
    /\ clientPc' = [clientPc EXCEPT ![c] = "gone"]
    /\ queue_tasks' = PushFront(Erase(queue_tasks, c), CancelOf(c))
    /\ CleanupPendingTask(c)
    /\ NotifyOne
    /\ UNCHANGED <<running, sleepVars, yieldVars, mainVars, workerVars, active, signalled>>

\* The connection is closed before the answer.
Disconnect(c) == c \in Cancellers /\ clientPc[c] = "posted" /\ PostCancel(c)

\* A metrics request does not wait for a server that has gone to sleep.
GiveUpMetrics(c) ==
    /\ Kind[c] = "METRICS" /\ clientPc[c] = "posted"
    /\ sleeping /\ c \notin settled
    /\ PostCancel(c)

Client(c) == CheckAwake(c) \/ WakeClient(c) \/ Post(c) \/ GiveUpMetrics(c)

\* The signal handler; it is installed before start_loop is called.
Terminate ==
    /\ ~signalled
    /\ signalled' = TRUE
    /\ running' = FALSE
    /\ NotifyAll
    /\ UNCHANGED <<queueVars, sleepVars, yieldVars, mainVars, workerVars, slotVars, clientPc>>

-----------------------------------------------------------------------------
(* The main thread: start_loop and process_new_tasks(false).               *)

\* Sets running, clears the worker's flags and spawns the worker.
StartLoop ==
    /\ mainPc = "start"
    /\ running' = TRUE
    /\ stop' = FALSE /\ busy' = FALSE /\ yielding' = FALSE
    /\ workerPc' = "idle"
    /\ mainPc' = "fetch"
    /\ UNCHANGED <<queueVars, sleepVars, exception, cv, mainTask, workerTask,
                   workerWaits, slotVars, envVars>>

MainFetch ==
    /\ mainPc = "fetch"
    /\ \/ /\ ~running
          /\ mainPc' = "stopping"
          /\ UNCHANGED <<queue_tasks, mainTask>>
       \/ /\ running /\ queue_tasks = <<>>
          /\ mainPc' = "update"
          /\ UNCHANGED <<queue_tasks, mainTask>>
       \/ /\ running /\ queue_tasks # <<>>
          /\ mainTask' = Head(queue_tasks)
          /\ queue_tasks' = Tail(queue_tasks)
          /\ mainPc' = "callback"
    /\ UNCHANGED <<queue_tasks_deferred, queue_tasks_unhandled, running, sleepVars,
                   yieldVars, cv, workerVars, slotVars, envVars>>

\* The callback is process_single_task(task, false): it never declines.
EndCallback ==
    /\ mainPc = "callback"
    /\ mainPc' = "fetch" /\ mainTask' = NoTask
    /\ UNCHANGED <<queue_tasks_unhandled, running, sleepVars, yieldVars, workerVars, envVars>>

MainAnswer ==
    /\ mainTask.type \in ReadOnly
    /\ settled' = settled \cup {mainTask.id}
    /\ UNCHANGED <<queue_tasks, queue_tasks_deferred, active, cv>>

Launch ==
    /\ mainTask.type = "COMPLETION"
    /\ Cardinality(active) < NSlots
    /\ \/ /\ active' = active \cup {mainTask.id}
          /\ UNCHANGED settled
       \/ /\ "launch" \in Faults      \* launch_slot_with_task sends an error
          /\ settled' = settled \cup {mainTask.id}
          /\ UNCHANGED active
    /\ UNCHANGED <<queue_tasks, queue_tasks_deferred, cv>>

\* Mutant: the task has been moved from before it is deferred.
DeferMovedFrom ==
    /\ mainTask.type = "COMPLETION"
    /\ Cardinality(active) >= NSlots
    /\ queue_tasks_deferred' = Append(queue_tasks_deferred, NoTask)
    /\ NotifyOne
    /\ UNCHANGED <<queue_tasks, slotVars>>

Defer ==
    /\ mainTask.type = "COMPLETION"
    /\ Cardinality(active) >= NSlots
    /\ queue_tasks_deferred' = Append(queue_tasks_deferred, mainTask)
    /\ NotifyOne
    /\ UNCHANGED <<queue_tasks, slotVars>>

HandleCancel ==
    /\ mainTask.type = "CANCEL"
    /\ \/ mainTask.id \in active /\ Release(mainTask.id)
       \/ /\ mainTask.id \notin active
          /\ UNCHANGED <<queue_tasks, queue_tasks_deferred, slotVars, cv>>

HandleNextResponse ==
    /\ mainTask.type = "NEXT_RESPONSE"
    /\ UNCHANGED <<queue_tasks, queue_tasks_deferred, slotVars, cv>>

MainCallback ==
    /\ EndCallback
    /\ MainAnswer \/ Launch \/ Defer \/ HandleCancel \/ HandleNextResponse

\* Mutant: no NEXT_RESPONSE is posted.
UpdateSlotsOnce ==
    /\ mainPc = "update"
    /\ mainPc' = IF active = {} THEN "wait" ELSE "batch"
    /\ UNCHANGED <<queueVars, cv, running, sleepVars, yieldVars, mainTask, workerVars,
                   slotVars, envVars>>

\* update_slots: return if every slot is idle, else post NEXT_RESPONSE and go on.
UpdateSlots ==
    /\ mainPc = "update"
    /\ \/ /\ active = {}
          /\ mainPc' = "wait"
          /\ UNCHANGED <<queue_tasks, cv>>
       \/ /\ active # {}
          /\ mainPc' = "batch"
          /\ queue_tasks' = Append(queue_tasks, NextResponse)
          /\ NotifyOne
    /\ UNCHANGED <<queue_tasks_deferred, queue_tasks_unhandled, running, sleepVars,
                   yieldVars, mainTask, workerVars, slotVars, envVars>>

\* A slot has sent its last result (batch), or is aborted after an exception.
FinishSlot(c) ==
    /\ mainPc \in {"batch", "abort"}
    /\ c \in active
    /\ Release(c)
    /\ UNCHANGED <<queue_tasks_unhandled, running, sleepVars, yieldVars, mainVars,
                   workerVars, envVars>>

UpdateDone ==
    /\ mainPc = "batch" \/ (mainPc = "abort" /\ active = {})
    /\ mainPc' = "wait"
    /\ UNCHANGED <<queueVars, running, sleepVars, yieldVars, cv, mainTask, workerVars,
                   slotVars, envVars>>

\* yield_to_queue up to the call of work(); worker.cv is notified.
YieldBegin ==
    /\ mainPc = "batch" /\ active # {}
    /\ busy' = TRUE /\ yielding' = TRUE
    /\ workerWaits' = FALSE
    /\ mainPc' = "work"
    /\ UNCHANGED <<queueVars, running, sleepVars, stop, exception, cv, mainTask,
                   workerPc, workerTask, slotVars, envVars>>

\* Mutant: rethrow before the declined tasks are back in the queue.
FinishYieldLosing(failed) ==
    /\ queue_tasks' = IF failed THEN queue_tasks ELSE queue_tasks_unhandled \o queue_tasks
    /\ queue_tasks_unhandled' = <<>>
    /\ exception' = FALSE
    /\ mainPc' = IF failed \/ exception THEN "abort" ELSE "batch"

\* Mutant: put the declined tasks back at the wrong end.
FinishYieldBehind(failed) ==
    /\ queue_tasks' = queue_tasks \o queue_tasks_unhandled
    /\ queue_tasks_unhandled' = <<>>
    /\ exception' = FALSE
    /\ mainPc' = IF failed \/ exception THEN "abort" ELSE "batch"

\* The declined tasks go back to the front in their order; an exception of the
\* work (failed) or of the worker is rethrown into update_slots.
FinishYield(failed) ==
    /\ queue_tasks' = queue_tasks_unhandled \o queue_tasks
    /\ queue_tasks_unhandled' = <<>>
    /\ exception' = FALSE
    /\ mainPc' = IF failed \/ exception THEN "abort" ELSE "batch"

\* Mutant: do not wait for the worker.
YieldEndNoWait ==
    /\ mainPc = "work"
    /\ yielding' = FALSE
    /\ FinishYield(FALSE)
    /\ cv' = {}
    /\ UNCHANGED <<queue_tasks_deferred, running, sleepVars, busy, stop, mainTask,
                   workerVars, slotVars, envVars>>

\* work() has returned or thrown: wait until the worker is done with its task.
YieldEnd ==
    /\ mainPc = "work"
    /\ yielding' = FALSE
    /\ \E failed \in {FALSE} \cup (IF "work" \in Faults THEN {TRUE} ELSE {}) :
         \/ /\ ~busy
            /\ FinishYield(failed)
            /\ cv' = {}
         \/ /\ busy
            /\ mainPc' = IF failed THEN "awaitFailed" ELSE "await"
            /\ cv' = {Main}
            /\ UNCHANGED <<queue_tasks, queue_tasks_unhandled, exception>>
    /\ UNCHANGED <<queue_tasks_deferred, running, sleepVars, busy, stop, mainTask,
                   workerVars, slotVars, envVars>>

YieldAwait ==
    /\ mainPc \in {"await", "awaitFailed"} /\ Main \notin cv
    /\ \/ /\ ~busy
          /\ FinishYield(mainPc = "awaitFailed")
          /\ UNCHANGED cv
       \/ /\ busy
          /\ cv' = cv \cup {Main}
          /\ UNCHANGED <<queue_tasks, queue_tasks_unhandled, exception, mainPc>>
    /\ UNCHANGED <<queue_tasks_deferred, running, sleepVars, busy, yielding, stop,
                   mainTask, workerVars, slotVars, envVars>>

\* One iteration of the waiting loop, mutex held; the idle timer has expired or not.
WaitLoop ==
    /\ mainPc = "wait"
    /\ \/ /\ ~running \/ queue_tasks # <<>>
          /\ mainPc' = "fetch"
          /\ UNCHANGED <<sleepVars, cv>>
       \/ /\ running /\ queue_tasks = <<>>
          /\ mainPc' = "idle"
          /\ cv' = cv \cup {Main}
          /\ UNCHANGED sleepVars
       \/ /\ running /\ queue_tasks = <<>> /\ MaySleep
          /\ sleeping' = TRUE /\ req_stop_sleeping' = FALSE
          /\ mainPc' = "sleep"
          /\ cv' = cv \cup {Main}
    /\ UNCHANGED <<queueVars, running, yieldVars, mainTask, workerVars, slotVars, envVars>>

\* wait_for(max_wait_time): notified (Main \notin cv) or timed out.
IdleWake ==
    /\ mainPc = "idle"
    /\ \/ /\ queue_tasks # <<>> \/ ~running
          /\ mainPc' = "fetch" /\ cv' = cv \ {Main}
       \/ /\ queue_tasks = <<>> /\ running /\ Main \notin cv
          /\ cv' = cv \cup {Main} /\ UNCHANGED mainPc
       \/ /\ queue_tasks = <<>> /\ running /\ Main \in cv
          /\ mainPc' = "wait" /\ cv' = cv \ {Main}
    /\ UNCHANGED <<queueVars, running, sleepVars, yieldVars, mainTask, workerVars,
                   slotVars, envVars>>

SleepWake ==
    /\ mainPc = "sleep" /\ Main \notin cv
    /\ \/ /\ ~running                       \* sleeping stays set
          /\ mainPc' = "fetch"
          /\ UNCHANGED <<sleepVars, cv>>
       \/ /\ running /\ req_stop_sleeping
          /\ req_stop_sleeping' = FALSE /\ sleeping' = FALSE
          /\ NotifyAll
          /\ mainPc' = "fetch"
       \/ /\ running /\ ~req_stop_sleeping
          /\ cv' = cv \cup {Main}
          /\ UNCHANGED <<sleepVars, mainPc>>
    /\ UNCHANGED <<queueVars, running, yieldVars, mainTask, workerVars, slotVars, envVars>>

\* Mutant: worker.cv is not notified.
StopWorkerSilently ==
    /\ mainPc = "stopping"
    /\ stop' = TRUE
    /\ NotifyAll
    /\ mainPc' = "join"
    /\ UNCHANGED <<queueVars, running, sleepVars, busy, yielding, exception, mainTask,
                   workerVars, slotVars, envVars>>

\* worker_stop and the join of the worker.
StopWorker ==
    /\ mainPc = "stopping"
    /\ stop' = TRUE
    /\ workerWaits' = FALSE
    /\ NotifyAll
    /\ mainPc' = "join"
    /\ UNCHANGED <<queueVars, running, sleepVars, busy, yielding, exception, mainTask,
                   workerPc, workerTask, slotVars, envVars>>

JoinWorker ==
    /\ mainPc = "join" /\ workerPc = "done"
    /\ mainPc' = "done"
    /\ UNCHANGED <<queueVars, running, sleepVars, yieldVars, cv, mainTask, workerVars,
                   slotVars, envVars>>

\* The steps the main thread takes on its own; FinishSlot and YieldEnd depend on
\* the inference and have their own fairness.
MainStep ==
    \/ StartLoop \/ MainFetch \/ MainCallback \/ UpdateSlots \/ YieldBegin \/ UpdateDone
    \/ YieldAwait \/ WaitLoop \/ IdleWake \/ SleepWake \/ StopWorker \/ JoinWorker

-----------------------------------------------------------------------------
(* The worker thread: worker_loop and process_new_tasks(true).             *)

\* The wait on worker.cv: for stop or busy.
WorkerIdle ==
    /\ workerPc = "idle" /\ ~workerWaits
    /\ \/ stop /\ workerPc' = "done" /\ UNCHANGED workerWaits
       \/ ~stop /\ busy /\ workerPc' = "fetch" /\ UNCHANGED workerWaits
       \/ ~stop /\ ~busy /\ workerWaits' = TRUE /\ UNCHANGED workerPc
    /\ UNCHANGED <<queueVars, running, sleepVars, yieldVars, cv, mainVars, workerTask,
                   slotVars, envVars>>

WorkerFetch ==
    /\ workerPc = "fetch"
    /\ \/ /\ ~running
          /\ workerPc' = "leave"
          /\ UNCHANGED <<queue_tasks, workerTask>>
       \/ /\ running /\ queue_tasks = <<>>
          /\ workerPc' = "check"
          /\ UNCHANGED <<queue_tasks, workerTask>>
       \/ /\ running /\ queue_tasks # <<>>
          /\ workerTask' = Head(queue_tasks)
          /\ queue_tasks' = Tail(queue_tasks)
          /\ workerPc' = "callback"
    /\ UNCHANGED <<queue_tasks_deferred, queue_tasks_unhandled, running, sleepVars,
                   yieldVars, cv, mainVars, workerWaits, slotVars, envVars>>

\* process_single_task(task, true): answers read-only tasks, declines the others.
WorkerCallback ==
    /\ workerPc = "callback"
    /\ workerTask' = NoTask
    /\ \/ /\ workerTask.type \in ReadOnly
          /\ settled' = settled \cup {workerTask.id}
          /\ \/ workerPc' = "fetch" /\ UNCHANGED exception
             \/ "worker" \in Faults /\ workerPc' = "leave" /\ exception' = TRUE
          /\ UNCHANGED queue_tasks_unhandled
       \/ /\ workerTask.type \notin ReadOnly
          /\ queue_tasks_unhandled' = Append(queue_tasks_unhandled, workerTask)
          /\ workerPc' = "fetch"
          /\ UNCHANGED <<settled, exception>>
    /\ UNCHANGED <<queue_tasks, queue_tasks_deferred, running, sleepVars, busy, yielding,
                   stop, cv, mainVars, workerWaits, active, envVars>>

\* Mutant: the worker leaves the yield at the first empty queue.
WorkerCheckOnce ==
    /\ workerPc = "check"
    /\ workerPc' = "leave"
    /\ UNCHANGED <<queueVars, running, sleepVars, yieldVars, cv, mainVars, workerTask,
                   workerWaits, slotVars, envVars>>

\* The queue was empty: leave if the yield is over, else wait for a task.
WorkerCheck ==
    /\ workerPc = "check"
    /\ \/ /\ stop \/ ~yielding
          /\ workerPc' = "leave" /\ UNCHANGED cv
       \/ /\ ~stop /\ yielding /\ (queue_tasks # <<>> \/ ~running)
          /\ workerPc' = "fetch" /\ UNCHANGED cv
       \/ /\ ~stop /\ yielding /\ queue_tasks = <<>> /\ running
          /\ workerPc' = "wait" /\ cv' = cv \cup {Worker}
    /\ UNCHANGED <<queueVars, running, sleepVars, yieldVars, mainVars, workerTask,
                   workerWaits, slotVars, envVars>>

WorkerWake ==
    /\ workerPc = "wait" /\ Worker \notin cv
    /\ \/ /\ stop \/ ~running \/ ~yielding \/ queue_tasks # <<>>
          /\ workerPc' = "fetch" /\ UNCHANGED cv
       \/ /\ ~stop /\ running /\ yielding /\ queue_tasks = <<>>
          /\ cv' = cv \cup {Worker} /\ UNCHANGED workerPc
    /\ UNCHANGED <<queueVars, running, sleepVars, yieldVars, mainVars, workerTask,
                   workerWaits, slotVars, envVars>>

WorkerLeave ==
    /\ workerPc = "leave"
    /\ busy' = FALSE
    /\ NotifyAll
    /\ workerPc' = "idle"
    /\ UNCHANGED <<queueVars, running, sleepVars, yielding, stop, exception, mainVars,
                   workerTask, workerWaits, slotVars, envVars>>

WorkerStep == WorkerIdle \/ WorkerFetch \/ WorkerCallback \/ WorkerCheck \/ WorkerWake
              \/ WorkerLeave

-----------------------------------------------------------------------------
Next ==
    \/ MainStep
    \/ YieldEnd
    \/ \E c \in Clients : FinishSlot(c)
    \/ WorkerStep
    \/ \E c \in Clients : Client(c) \/ Disconnect(c)
    \/ Terminate

\* Every thread is scheduled; a client may be slow to post but does post.
ThreadFairness ==
    /\ WF_vars(MainStep) /\ WF_vars(WorkerStep)
    /\ \A c \in Clients : WF_vars(Client(c))

\* Every generation ends (n_predict or the context bounds it).
SlotFairness == SF_vars(UpdateDone) /\ \A c \in Clients : SF_vars(FinishSlot(c))

Spec     == Init /\ [][Next]_vars
\* A decode may never return; FairSpec assumes that it does.
LiveSpec == Spec /\ ThreadFairness /\ SlotFairness
FairSpec == LiveSpec /\ WF_vars(YieldEnd)

-----------------------------------------------------------------------------
(* Properties.                                                             *)

MainPcs == {"start", "fetch", "callback", "update", "batch", "work", "await", "awaitFailed",
            "abort", "wait", "idle", "sleep", "stopping", "join", "done"}
WorkerPcs == {"none", "idle", "fetch", "callback", "check", "wait", "leave", "done"}
ClientPcs == {"new", "nosleep", "cached", "ready", "posted", "gone"}

\* Type invariant: the flags are booleans, the deques hold tasks, the threads are at
\* one of their program points.
FlagTypes ==
    /\ running \in BOOLEAN /\ sleeping \in BOOLEAN /\ req_stop_sleeping \in BOOLEAN
    /\ busy \in BOOLEAN /\ yielding \in BOOLEAN /\ stop \in BOOLEAN /\ exception \in BOOLEAN
    /\ workerWaits \in BOOLEAN /\ signalled \in BOOLEAN
DataTypes ==
    /\ queue_tasks \in Seq(Task)
    /\ queue_tasks_deferred \in Seq(Task)
    /\ queue_tasks_unhandled \in Seq(Task)
    /\ cv \subseteq Threads
    /\ mainPc \in MainPcs /\ mainTask \in Task \cup {NoTask}
    /\ workerPc \in WorkerPcs /\ workerTask \in Task \cup {NoTask}
    /\ active \subseteq Clients /\ settled \subseteq Clients
    /\ clientPc \in [Clients -> ClientPcs]
TypeOK == FlagTypes /\ DataTypes

InYield == mainPc \in {"work", "await", "awaitFailed"}

\* The worker handles tasks only while the main thread is inside yield_to_queue,
\* and every trace of a yield (busy, yielding, declined tasks, a stored exception)
\* is gone when yield_to_queue returns (server-queue.cpp:222-276).
WorkerConfined ==
    /\ workerPc \in {"fetch", "callback", "check", "wait", "leave"} => InYield
    /\ busy \/ yielding \/ exception \/ queue_tasks_unhandled # <<>> => InYield
    /\ workerTask # NoTask => busy
    /\ mainTask # NoTask => workerTask = NoTask

\* Two requests wait for the server to wake up.
TwoWait == \E c, d \in Clients : c # d /\ clientPc[c] = "nosleep" /\ clientPc[d] = "nosleep"

\* post, defer, pop_deferred_task and wait_until_no_sleep call notify_one on a
\* condition variable that the main thread, the worker and the HTTP threads share.
\* Still, where a thread waits, what it waits for has not happened - except that the
\* main thread may sleep on although it has been asked to wake up.  That takes two
\* requests that wait for it: one asks, and the other gets the notification, against
\* "only main thread is waiting on this" (server-queue.cpp:123).
NoLostWakeup ==
    /\ mainPc = "idle" /\ Main \in cv => queue_tasks = <<>> /\ running
    /\ mainPc = "sleep" /\ Main \in cv => running /\ (req_stop_sleeping => TwoWait)
    /\ mainPc \in {"await", "awaitFailed"} /\ Main \in cv => busy
    /\ workerPc = "wait" /\ Worker \in cv =>
           yielding /\ ~stop /\ (queue_tasks = <<>> /\ running)
    /\ workerPc = "idle" /\ workerWaits => ~busy /\ ~stop
    /\ \A c \in Clients : c \in cv => sleeping

\* A task is in exactly one place from its post on: in one deque, in the hands of one
\* thread, in a slot, or gone for good.  Deferring, declining and putting back,
\* cancelling and aborting neither lose nor duplicate it.
Copies(s, c) == Cardinality({i \in DOMAIN s : IsTaskOf(s[i], c)})
InHand(t, c) == IF t # NoTask /\ IsTaskOf(t, c) THEN 1 ELSE 0
TaskConservation ==
    \A c \in Clients :
        Copies(queue_tasks, c) + Copies(queue_tasks_deferred, c)
          + Copies(queue_tasks_unhandled, c) + InHand(mainTask, c) + InHand(workerTask, c)
          + (IF c \in active THEN 1 ELSE 0) + (IF c \in settled THEN 1 ELSE 0)
        = IF clientPc[c] \in {"posted", "gone"} THEN 1 ELSE 0

\* The main thread never rests, and the model is never unloaded by the sleeping
\* callbacks, while a slot has a generation to continue; nothing is handled while
\* the model is unloaded, also when terminate() interrupts the sleep.
RestsOnlyWhenIdle ==
    /\ mainPc \in {"idle", "sleep"} => active = {}
    /\ sleeping => /\ mainPc \in {"sleep", "fetch", "stopping", "join", "done"}
                   /\ workerTask = NoTask
                   /\ mainPc = "fetch" => ~running

\* The tasks in the order in which they will be handled: the worker has set some
\* aside, holds one, and the rest is still in the queue.
Line == queue_tasks_unhandled
        \o (IF workerTask = NoTask THEN <<>> ELSE <<workerTask>>) \o queue_tasks

Before(s, c, d) == \E i, j \in DOMAIN s : i < j /\ IsTaskOf(s[i], c) /\ IsTaskOf(s[j], d)

\* Waiting requests never overtake one another: the order of two waiting tasks is not
\* changed by declining tasks during a yield and putting them back.
NoOvertaking ==
    [][\A c, d \in Clients :
          Before(Line, c, d) /\ Holds(Line', c) /\ Holds(Line', d) => Before(Line', c, d)]_vars

-----------------------------------------------------------------------------
(* The inductive invariant behind WorkerConfined, NoLostWakeup and          *)
(* RestsOnlyWhenIdle; ServerQueueProofs proves it.                          *)

InWorkerLoop == workerPc \in {"fetch", "callback", "check", "wait", "leave"}

\* Where the threads are, against the flags of struct worker_t.
Handshake ==
    /\ InWorkerLoop => busy
    /\ busy => InYield
    /\ yielding <=> mainPc = "work"
    /\ exception => InYield
    /\ queue_tasks_unhandled # <<>> => InYield
    /\ workerTask # NoTask <=> workerPc = "callback"
    /\ mainTask # NoTask <=> mainPc = "callback"
    /\ workerPc = "none" <=> mainPc = "start"
    /\ stop => mainPc \in {"join", "done"}
    /\ workerPc = "done" => stop
    /\ workerWaits => workerPc = "idle" /\ ~busy /\ ~stop

\* The server is asleep only in the sleep of the main thread, or for ever once it
\* has been terminated there.
SleepControl ==
    /\ mainPc = "sleep" => sleeping
    /\ sleeping => \/ mainPc = "sleep"
                   \/ ~running /\ mainPc \in {"fetch", "stopping", "join", "done"}

\* Who can be in the wait set, and why nothing was missed.
WaitSet ==
    /\ Main \in cv => mainPc \in {"idle", "sleep", "await", "awaitFailed"}
    /\ Worker \in cv => workerPc = "wait" /\ yielding /\ queue_tasks = <<>> /\ running
    /\ \A c \in Clients : c \in cv => sleeping
    /\ Main \in cv /\ mainPc = "idle" => queue_tasks = <<>> /\ running
    /\ Main \in cv /\ mainPc \in {"await", "awaitFailed"} => busy

\* The requests that wait for the server to wake up, and what the main thread has
\* slept through.
Sleepers ==
    /\ \A c \in Clients : c \in cv => clientPc[c] = "nosleep"
    /\ Main \in cv /\ mainPc = "sleep" => running /\ (req_stop_sleeping => TwoWait)

\* While a slot is processing, the NEXT_RESPONSE that will bring the main thread back
\* is in the queue, or the worker has taken it out and will have it put back.
Has(s, t) == \E i \in DOMAIN s : s[i] = t
Continues ==
    /\ mainPc \in {"batch", "abort"} => Has(queue_tasks, NextResponse)
    /\ InYield => \/ Has(queue_tasks, NextResponse)
                  \/ Has(queue_tasks_unhandled, NextResponse)
                  \/ workerTask = NextResponse
    /\ mainPc = "wait" => active = {} \/ Has(queue_tasks, NextResponse)
    /\ mainPc \in {"idle", "sleep"} => active = {}

IInv == TypeOK /\ Handshake /\ SleepControl /\ WaitSet /\ Sleepers /\ Continues

Posted(c) == clientPc[c] = "posted" /\ mainPc # "start"
DecodesReturn == []<>(mainPc # "work")

\* Once the loop has started, terminate() ends it from wherever the threads are:
\* idle, asleep, in a decode with the worker busy; the worker is joined.
TerminateStops == DecodesReturn => (~running /\ mainPc # "start" ~> mainPc = "done")

\* Without cancellations and failed launches every request is served, however many
\* are deferred because all slots are taken or declined because of a decode, unless
\* the server falls asleep on it.
EveryTaskSettles ==
    DecodesReturn => \A c \in Clients : Posted(c) ~> c \in settled \/ ~running \/ sleeping

\* A read-only request is answered while the decode runs, even a decode that never
\* returns (server-queue.h: "return metrics while encode/decode is running").
AnsweredDuringYield ==
    \A c \in Clients : Kind[c] \in ReadOnly /\ Posted(c) /\ yielding
                         ~> c \in settled \/ ~yielding \/ ~running \/ exception

=============================================================================
