# A verification project for tulpar.cpp

tulpar.cpp is a performance fork of llama.cpp: an inference library (`src/`,
`ggml/`), helpers (`common/`) and an HTTP server (`tools/server`). The arithmetic
of inference is far beyond a model checker. What can be checked, and is hard to
test, is the control around it: the queues, result channels, stream buffers and
background threads that decide whether a request is answered, once, in order, and
whether the server stops when it is told to; the router that starts and stops
model processes; the bookkeeping of the KV cache, on which every answer depends;
and the thread pool that computes. The project models these parts.

Paths below are relative to the repository. `Q` is
`tools/server/server-queue.cpp`, `C` is `tools/server/server-context.cpp`, `S` is
`tools/server/server-stream.cpp`, `L` is `common/log.cpp`, `R` is
`tools/server/server-models.cpp`, `K` is `src/llama-kv-cache.cpp`, `H` is
`src/llama-kv-cells.h`, `X` is `src/llama-context.cpp` and `G` is
`ggml/src/ggml-cpu/ggml-cpu.c`.

## 1. Inventory

| component | state it keeps | operations | what is hard | correct when |
|---|---|---|---|---|
| task queue (`Q` 1-383) | `queue_tasks`, `queue_tasks_deferred`, `running`, `sleeping`, `req_stop_sleeping`, the worker's `yielding`/`busy`/`stop`, one mutex and one condition variable | post, defer, pop_deferred_task, cleanup_pending_task, wait_until_no_sleep, terminate, start_loop, yield_to_queue, worker_loop | two threads consume the same deque in turns; one condition variable for three kinds of waiters; exceptions in a yield | no task lost, duplicated or overtaken; no wakeup lost; the worker never runs beside the main thread; terminate ends the loop |
| results (`Q` 385-621) | `waiting_task_ids`, `queue_results`; per reader: ids, received count, cancelled | add/remove waiting ids, send, recv_with_timeout, next, wait_for_all, stop | one queue for all readers, polled connections, cancellation races with the last result | each result reaches its reader once and in order; nothing is left behind, no abandoned task keeps running |
| inference loop and slots (`C`) | slots (state, task, prompt, sampler), the batch, checkpoints, prompt cache | launch, defer, cancel, update_slots (pre_decode, decode, post_decode), slot save and restore, metrics | a decode yields to the queue; sub-batches when memory is short; parent and child slots; context shift, speculation | every launched task is finished and released; children copy complete memory |
| resumable streams (`S`) | map of sessions; per session a ring of bytes, `prefix_dropped`, `done`, `cancelled` | append, finalize, read_from, create_or_replace, evict, evict_and_cancel, garbage collection, stop; set_req, next, on_complete | sessions outlive connections; replace, delete, expiry and shutdown race with producer and readers | readers see consecutive bytes of one log; a finished session that can be found is whole; nobody hangs |
| logger (`L`) | ring of entries, head, tail, running | add, worker, pause, resume | printing outside the lock; pause from a full ring | nothing lost, torn or reordered; pause is a flush |
| router (`R`) | a process per model, its status and request count, the LRU order, the queue of requests that wait for a slot | load, unload, ensure_model_ready, proxy_request, monitoring threads | waiters that leave, victims given up twice, processes that die, coalesced loads | a bounded number of models; every waiter is served or refused |
| KV cells (`H`) | positions, shifts, sequence sets; the used set and the position counts of each sequence as indices | set, rm, seq_rm, seq_keep, seq_add, pos_add, pos_div | two indices kept in step by hand in every method | the indices always agree with the cells |
| KV cache (`K`) and decode (`X`) | cells and search head of each stream, pending copies and shifts, the keys in the tensors | clear, seq_rm/cp/keep/add/div, update, prepare, find_slot, apply_ubatch, save and load of a sequence | meta data change at once, tensors with the next decode; cells of a sliding window are reused; a decode fails half-way | every key is rotated at the position of its cell; a token sees its window; a failed or refused decode leaves nothing behind |
| CPU thread pool (`G`) | n_graph, barrier counters, chunk counter, stop, pause, abort | barrier, kickoff, poll and sleep, pause, resume, free, the loop over the nodes | workers poll without the mutex and sleep under it; a reusable barrier; parameters overwritten without a lock | no stage overlaps another, every item is computed once, every call returns |
| allocator, backend scheduler, GPU backends (`ggml/src`) | free blocks, tensor assignments | alloc, free, split | sequential algorithms over graphs of tensors | not modelled |
| the rest: chat templates, parsers, JSON schema, sampling, vocabulary, file formats, downloads, RPC, GPU backends, scripts | | | sequential, numerical or I/O | listed as not modelled in `PROJECT.json` with the reason |

How they interact: an HTTP thread creates a `server_res_generator`, which may wait
for the server to wake up (`wait_until_no_sleep`), registers its task ids with
`server_response`, posts tasks to `server_queue` and reads results until it is
done or its connection closes, when it posts CANCEL tasks to the front of the
queue. The main thread takes tasks in `start_loop`, launches or defers them, runs
`update_slots`, and hands the queue to the worker thread for the time of a long
`llama_decode` (`yield_to_queue`); the worker answers read-only tasks and puts the
others back. With a conversation id the HTTP thread tees what it sends into a
stream session, which GET and DELETE requests reach through the manager. All of
them log through one `common_log`. In router mode the HTTP threads go through
`server_models` instead, which starts one such server per model and proxies to it.
The main thread decodes through `llama_context`: pending updates of the KV cache,
a trial placement of the whole batch, then for each micro batch its cells and its
graph, which the CPU backend computes in the thread pool.

## 2. Modules

| module | models | runs |
|---|---|---|
| `ServerQueue` | the task queue, its clients, the main thread and the yield worker | `queue_safety`, `queue_live` |
| `ServerQueueProofs` | theorems about `ServerQueue` | (proofs) |
| `ServerResponse` | result queue, readers, senders | `response_safety` |
| `ServerResponseProofs` | theorems about `ServerResponse` and its refinement | (proofs) |
| `ResultChannels` | abstract: one ordered channel per task id | refined by `ServerResponse` |
| `StreamSession` | the ring buffer of a stream as operators on records | used by the next |
| `StreamManager` | sessions, POST/GET/DELETE, garbage collection, shutdown | `streams`, `stream_cancel` |
| `StreamProofs` | theorems about the rings, the map and the readers of `StreamManager`, and its refinement | (proofs) |
| `ReplayLog` | abstract: append-only logs, sealed once, read consecutively | refined by `StreamManager` |
| `LogWorker` | the asynchronous logger | `log_ring` |
| `LogWorkerProofs` | theorems about `LogWorker` | (proofs) |
| `ServerModels` | the router: requests, the slot queue, the processes and their watchers | `models_router`, `models_stranded` |
| `ServerModelsProofs` | theorems about `ServerModels` | (proofs) |
| `KvCells` | the methods of `llama_kv_cells` as operators on records | used by the next |
| `KvCache` | the KV cache over streams of `KvCells`, and the part of `decode` that drives it | `kv_unified`, `kv_streams`, `kv_prepare` |
| `KvProofs` | theorems about the methods of `KvCells` and the calls of `KvCache` | (proofs) |
| `KvDecodeProofs` | theorems about what `Decode` promises of the positions | (proofs) |
| `ThreadPool` | the CPU thread pool: barrier, workers, loop over the nodes | `pool` |
| `ThreadPoolProofs` | theorems about the phases of its threads and what they compute | (proofs) |

`MC...` modules only add model values and small functions for the constants. A
definition whose name a comment calls a mutant is a plausible bug; it is used by
no specification, only to show that the properties would notice it.

### ServerQueue

One step is one critical section of `mutex_tasks`. The set `cv` is the set of
threads blocked in `condition_tasks`; `notify_one` picks any of them, `notify_all`
empties it. The slots are abstracted to the set `active` of the tasks they run and
the number `NSlots`.

- HTTP threads: `CheckAwake`, `WakeClient` (the sleeping check, made when the
  response object is created, long before the post), `Post`, and `PostCancel` when
  the connection is closed. `/metrics` does not wait while the server sleeps (it is
  answered from what was cached); `GET /slots` waits like the others.
- Main thread (`start_loop`): `MainFetch`, `MainCallback` (answer, launch, defer,
  cancel, continue), `UpdateSlots`, `FinishSlot`, `UpdateDone`, then `WaitLoop`,
  `IdleWake`, `SleepWake`; during a decode `YieldBegin`, `YieldEnd`, `YieldAwait`; at
  the end `StopWorker`, `JoinWorker`.
- Worker (`worker_loop`): `WorkerIdle`, `WorkerFetch`, `WorkerCallback`,
  `WorkerCheck`, `WorkerWake`, `WorkerLeave`. Declined tasks stay in the worker's own
  list and are put in front of the queue when the yield ends.
- Exceptions: `Faults` says where they may come from: a failed launch, the work of
  a yield, a callback in the worker.

The idle timer is abstracted: whenever the main thread waits with idle slots the
timer may have expired. The preference of `pop_deferred_task` for tasks pinned to
a slot, and child tasks, are left out.

### ServerResponse

One step is one critical section of `mutex_results`. Readers are the requests:
`Register` and `PostTasks` (in this order), `Recv` (take the first own result or
wait), `Timeout`, `Poll` (should_stop), `Leave`, `Stop` and `RemoveOne`,
`PostCancels`. The inference sends `Partial` and `Final` results (final or error)
and handles cancels. `Streaming` readers leave between two chunks, the others read
until all final results are there. The refinement maps the open channels to the
waiting ids that stop() is not removing, and the channel of a task to its results
in the shared queue.

### StreamSession and StreamManager

`StreamSession` defines the ring as operators on a record, one per method:
`AppendChunk` (with its branch for a chunk as large as the ring), `Finalize`,
`Cancel`, `Available`. In `StreamManager` a session carries the name of the POST
that created it. The bytes of a session are numbers 1, 2, 3, ..., so that a gap, a
repetition or a shifted offset shows. Steps are the critical sections of the map
lock, those of a session, and accesses to the atomic flag; so `create_or_replace`
is three steps (install, cancel the old session, finalize it), and so on. A POST
waits for its first result polling its connection (`Abort`), then streams:
`CallNext`, `Result`, `Poll`, `WriteChunk`, and `Drain` when the HTTP server has given
up the socket. `Evict` is what `on_complete` does for a request that never
streamed. Readers: `Lookup`, `Open`, `ReadChunk`, `ReadEnd`; the wait of `read_from`
wakes every 200 ms, so it is modelled by the guard alone. Expiry may hit any
completed session at any time. The shutdown is `StopGc`, `FinalizeSnapshot`,
`StopHttp`, in the order of `clean_up()`.

### LogWorker

Threads log up to `MaxMessages` messages; one controller pauses and resumes,
because log.h calls both not thread-safe. Add, pause and the worker's bookkeeping
are critical sections, printing is one step per entry without the lock. Local
variables of an iteration of the worker are reset when it ends.

### ServerModels

One step is one critical section of the mutex of `server_models`, or something a
child process does. A request goes through `Start`, then `LoadNow`, `EnterQueue` or
`WaitOnly`, the wait loop (`StopWaiting`, `WaitReady`, `WaitLoading`, `WaitUnloaded`,
`Cancel`, `Claim`), the load (`MakeRoom`, `AwaitUnload`, `AfterLoad`, `Spawn`, `NoSpawn`,
`FinishClaim`) and, for a proxied request, `Proxy`, `Count` and `Cleanup`, whose last
step gives an idle model up to the queue (`OnModelIdle`). The queue is a sequence of
entries with the fields of the code. A process is "running", told to die ("dying"),
exited, or joined; `ReportReady`, `StopChild`, `Exit`, `Reap` and `ReportUnloaded` are
the steps of the child and of its monitoring thread. The least-recently-used order
is a sequence of models. The list of models is fixed.

### KvCells and KvCache

`KvCells` has one operator per method of the class, from a record of its fields to
the record it leaves. `KvCache` is a context used by one thread, so an API call is
one step: it threads the cells and search heads through the same calls as the code.
The tensors are abstracted to the position at which the key in each cell is
rotated (`keys`); computing a micro batch writes them, a stream copy copies them
and the K-shift adds the pending shift. `Decode` is the update, `prepare` (trial
placement of all micro batches and restoration in reverse order), then each micro
batch with `apply_ubatch`, and the removal of positions after a failure, which may
come at any micro batch, before or after its keys are written. The restoration takes
the search head of a stream from the saved heads by the index in the slot info, as
the code does (K:804), so that with several streams a head may come from another
stream. `Batches` are the batches a run decodes: in a unified cache every list of
tokens that `llama_batch_allocr::init` accepts, coupled sequences included, continuing
the positions in the cache, cut by `split_simple`; with streams, tokens of one sequence,
or one token of each of two, which `split_equal` puts into one micro batch if the second
sequence is the next one and into two otherwise. `SaveSeq` and
`LoadSeq` are `llama_state_seq_get_data` and `_set_data` for one sequence.

The model is faithful to four places where the code spoils the cache; the variable
`deviation` records that one was passed (a division, a failed batch of coupled
sequences, a load into a stream with a pending copy, a trial placement that is not
undone). Afterwards the properties are not claimed any more and only `Clear`
follows. What is assumed of the caller: a sequence is not saved while shifts or
copies are pending, and `seq_cp` within a stream is not called for cells that
already hold the destination (the code asserts it).

### ThreadPool

The pool as built without OpenMP. Each atomic access is a step (only `PollFlags` reads
two flags in one; a worker that misses a change reads both again in its next round of
polling), and memory is sequentially consistent: the relaxed accesses are ordered by the seq_cst operations
next to them. A critical section of the pool's mutex is one step, except that the
kickoff stores `n_graph` and broadcasts in two steps, between which the polling
workers read. A graph is a sequence of kinds of nodes; a fused node counts as one.
`done` records how often each slice and chunk was computed. The caller is one
thread; the wrap of the 16 bits of the graph number and a pause from another thread
during a computation are left out.

## 3. Runs

All bounds are constants of the cfg files. Deadlock is checked for the KV cache,
which can always be cleared. It is off elsewhere: each of these systems may
legitimately stop (terminated, shut down, or idle when the bounded clients have
finished); that nothing stops too early is the business
of the liveness properties.

| run | instance | shows |
|---|---|---|
| `queue_safety` | two completions that may be cancelled and a slots query, one slot, sleeping, all faults, symmetry on the completions | `WorkerConfined`, `NoLostWakeup`, `TaskConservation`, `RestsOnlyWhenIdle`, `NoOvertaking` |
| `queue_live` | two completions and a metrics query, one slot, sleeping, exceptions in yields | `TerminateStops`, `EveryTaskSettles`, `AnsweredDuringYield` |
| `response_safety` | a request with two tasks, one of which may fail, and an endless stream; both may be closed | `FinalNotLost`, `NothingLeftBehind`, `NoAbandonedTask`, the refinement `OrderedChannels`, `RequestsAnswered` |
| `streams` | two POSTs of one conversation, of three bytes in chunks of 1 to 3 and without output, a ring of two bytes, a GET, a DELETE; a client that closes, a request that fails | `RingKeepsTail`, the refinement `ReplaysTheLog`, `ReadersReturn`, `OutsideIsClosing`, `FoundIsWhole`, `CancelEndsStream` |
| `stream_cancel` | one POST and a DELETE | violation of "this does not interrupt the underlying generation itself" |
| `log_ring` | two threads with two messages each, a ring of three slots | `RingHoldsPending`, `PausedIsFlushed`, `AddReturns`, `EveryMessagePrinted` |
| `models_router` | one slot; two requests for one model, a load and an unload request for another; a client that leaves, a model that crashes | `LimitHolds`, `EntriesHaveWaiters`, `LoadIsOwned`, `FreeSlotIsUsed`, `StoppedComesDown` |
| `models_stranded` | one slot, three models, two requests | violation of "the request waits in a queue until a slot frees up" |
| `kv_unified` | three cells shared by two sequences, positions 0 to 3, a standard window of 2, micro batches of 2, batches of up to 3 tokens | `CellsConsistent`, `KeysMatch`, `TokensSeeWindow`, `DecodeMakesNoHoles`, `NoSlotOnlyWhenFull` |
| `kv_streams` | two streams of two cells without a window, micro batches of 1, batches of up to 2 tokens of one sequence or of both, stream copies, saving and loading | `KeysMatch`, `NoSlotOnlyWhenFull` |
| `kv_prepare` | as `kv_unified` | violation of "restore the cells to their original state" |
| `pool` | three threads, two graphs of a matrix multiplication of eight chunks, an empty and a plain node; 1 to 3 active threads; pause, abort, free | `StagesInOrder`, `QuietBetweenGraphs`, `ReturnsWhole`, `CallsReturn` |

Why the bounds are enough to see the interesting cases: one slot and two
completions make tasks wait and be deferred, a third consumer (slots or metrics
query) is what a yield exists for; two tasks of one request and one of another
make results of both interleave in one queue; a ring of two bytes is overrun by
chunks below, equal to and above its size; a log ring of two usable slots fills
up, wraps several times and is paused in every position. Two requests that share a
model coalesce, a third wants its slot and a fourth unloads it. Three cells with a
window of two are full after one batch, so that masked cells are reused, in the
middle of a batch too, and two sequences share, shift and free them in all orders;
with two streams the copies between them and the shifts are pending together, a trial
touches the second stream alone, and two micro batches are placed after one another. Three
threads with up to three active ones leave a worker out of one graph and bring it
into the next; eight chunks are enough not to be re-chunked for one or two threads,
and few enough to be for three.

### Fairness

Threads run: each internal step of a started operation is weakly fair (the
operating system schedules the threads, and mutexes are held briefly). Not
assumed: that clients send, cancel or disconnect, that the server is terminated,
that a decode returns (the properties of `queue_live` that need it say so by the
premise `DecodesReturn`; `AnsweredDuringYield` does without), that results arrive at a
stream, or that anybody resumes the logger. In `ServerQueue` a slot that is
processed often enough finishes (`SlotFairness`): n_predict and the context size
bound a generation. `response_safety` assumes that the inference keeps working on
posted tasks, except the endless one, which only its cancellation ends.
In `ServerModels` each request's own steps are weakly fair and its `Spawn` strongly
(a claimed load whose spawn fails is retried at once, in a loop that a chance of
success ends), as are the steps of each child and its watcher; that requests
start, clients leave or models crash is not assumed. In `ThreadPool` every thread
is weakly fair; the caller need not compute, pause or free; condition variables may
wake up for no reason.


## 4. What the code does not do

The first three are runs whose property TLC finds violated. The others are behaviours
of the models, described here without a run.

1. `models_stranded` (R:83, R:1400): a model that is being unloaded is still LOADED
   until its process exits, so two requests for different models may choose the same
   victim. Both entries are marked `slot_pending`, one slot comes free, the mark of
   the other is never reset and no other model is given up for it.
2. `kv_prepare` (K:795-806): the trial placement restores the chosen cells only, not
   those that the purge of `apply_ubatch` (K:1145-1163) emptied. In a sliding-window
   cache with several micro batches the tokens of the first micro batch are then
   computed without positions of their window, and if the batch does not fit or its
   computation fails these positions stay lost. A failure after the first micro batch
   can then leave a hole in the middle of a sequence (five cells, micro batches of one
   token); `TokensSeeWindow` and `DecodeMakesNoHoles` leave a decode out whose trial has
   lost cells, and cover every other.
3. `stream_cancel` (S:311): a comment says that cancelling a session does not interrupt
   its generation, which runs on to EOS or max_tokens. It does interrupt it: the producer
   polls the flag, its response is destroyed with the reader of the results, and this posts
   CANCEL (Q:602-621), as tools/server/README-dev.md:137 says and `CancelEndsStream` states.

Router:

4. `unload()` between the erasure from `stopping_models` (R:1122) and the status
   UNLOADED leaves a stale entry that stops the next instance at once.
5. A victim that was idle when it was chosen may have got a request before it is
   unloaded; a busy model is evicted.
6. `mapping[name] = move(inst)` (R:1168) resets `req_count` under an active request.
7. `unload_lru` waits for the status UNLOADED of its victim and can miss it when the
   victim is loaded again meanwhile: the load hangs.
8. A second, coalesced waiter that sleeps through the whole loading and failing of
   its model stays queued.

KV cache:

9. The trial placement saves the search heads of all streams (K:778),
   indexed by stream, and restores `v_heads_old[s]` with s the index in the slot info
   (K:804). A batch on stream 1 alone leaves stream 1 with the head of stream 0. Only where
   the next search starts depends on it: `NoSlotOnlyWhenFull` holds all the same.
10. `pos_div` accumulates `p_old - pos` (H:451), `pos_add` accumulates the opposite (H:420),
   although both are to be applied in one go (H:469): after `seq_div` the keys are
   rotated away from their positions (self-extend in `tools/completion`, `examples/passkey`).
11. A failed computation removes the positions of the first sequence of each token
   only (X:1826), although it is to "remove all positions of that ubatch" (X:1819): with
   tokens of coupled sequences the others keep theirs.
12. `llama_state_seq_set_data` into the source or destination stream of a pending copy
   is overwritten by the copy, or copied, at the next decode. `clear()` leaves pending
   copies pending. Saving while a shift or copy is pending stores stale keys.
13. `seq_add` on a cell shared by several sequences moves it for all of them; a second
   `seq_cp` onto the same sequence within a stream counts its positions twice where
   assertions are compiled out; a division followed by a copy to another stream can
   reach the assertion `pos >= 0` (K:520).

Server:

14. `wait_until_no_sleep` asks the sleeping main thread with `notify_one`, on the
   assumption "only main thread is waiting on this" (Q:123). A request that was woken by the
   end of a sleep, but does not run until the server sleeps again (a whole idle time later),
   waits on; the next request sets `req_stop_sleeping`, its notification may reach that
   waiter, and the main thread sleeps on until something else wakes it. `NoLostWakeup`
   allows the main thread this, when two requests wait, and nothing else.
15. `pause()` of the logger on a full ring (L:304) makes tail equal to head; the ring
   looks empty, a worker that has not yet read the tail sleeps for ever, `join()`
   hangs and the messages are lost. (`RingHoldsPending` and `EveryMessagePrinted` leave
   this case out by the history variable `wrapped`.)
16. A request that ends before it streams evicts by conversation id (S:639) and so
   finalizes the session of a newer request of that conversation.
17. Before the first token the connection, not the session, decides whether a
   generation goes on (C:4256), against tools/server/README-dev.md:135.
18. One deferred task is popped per released slot (Q:90-113); if it is cancelled, fails
   to launch or needs no slot, the others wait although every slot is idle.
19. A task posted after a stale sleeping check (Q:115-130) does not wake the server.
20. Results for other requests restart the timed wait (Q:462), so that a closed
   connection may go unnoticed, against server-queue.h:215.
21. `terminate()` during sleep leaves `sleeping` set, and a request in
   `wait_until_no_sleep` (Q:126) never returns; a `terminate()` before `start_loop()` is
   overwritten by `running = true` (Q:279); a task that `process_new_tasks` has popped
   is invisible to `cleanup_pending_task` when its CANCEL is posted; if it is then
   deferred, the CANCEL looks at the slots only and the task runs later, in vain.
22. A GET whose reader falls behind the ring after the 200 was sent ends like a
   complete replay, because the handler ignores `OFFSET_LOST` (S:489).
23. At shutdown the main loop has ended before `clean_up()`; a POST that waits for a
   result polls its connection or the cancelled flag, and `stop_gc` sets neither, so
   with an attached session `ctx_http` cannot be joined until a DELETE comes; a
   session created after `stop_gc` is finalized by its producer only.

## 5. Proofs

`ServerQueueProofs` proves, for any finite set of requests of any kinds, any number
of slots, with or without sleeping, cancellation and faults:

- `TypeCorrect`: Spec => []TypeOK;
- `WorkerIsConfined`: Spec => []WorkerConfined (the worker handles tasks only while
  the main thread is in a yield, and a finished yield leaves no declined task and
  no error behind);
- `WakeupsAreNotLost`: Spec => []NoLostWakeup (where a thread is blocked, what it waits for
  has not happened; excepted is the main thread asleep with a wake-up requested, which
  takes two requests that wait for it, item 14 of section 4);
- `RestIsIdle`: Spec => []RestsOnlyWhenIdle;
- `TasksAreConserved`: Spec => []TaskConservation (a posted task is in exactly one place
  until it has ended, whatever is deferred, declined, put back or cancelled);
- `OrderIsKept`: Spec => NoOvertaking, an action property;
- `Inductive`, on which they rest.

None of the first three invariants is inductive. `IInv` adds what ties the threads together:
`Handshake` (which program points of the main thread and of the worker can be
combined, and what `yielding`, `busy` and `stop` say of them), `SleepControl` (when
`sleeping` and `req_stop_sleeping` may be set), `WaitSet` (who can be in the wait set,
and that a waiter's predicate is false), `Sleepers` (only requests waiting for the
wake-up are in the wait set besides the two threads, the server is asleep then, and a
main thread that was asked in vain has two of them; `AskedInVain` is why), and `Continues` (a main thread that is
about to wait with a slot active has a NEXT_RESPONSE in the queue or among the
declined tasks: the reason why the loop never sleeps on unfinished work, through
a yield that declines and restores it).

Conservation is proved by counting, for each request, its copies in the two queues
(`Queued`), among the declined tasks, in the hands of the two threads (`Hands`) and
among the active and settled ones (`Placed`): the sum is one from the post on (`Due`) and
zero before. Each operation on a deque is a lemma about `Copies`. For the order, the
tasks that wait stand in one line: first the declined ones, then the one in the hands
of the worker, then the queue. `Ahead` compares two members (`InLine`) of that line;
conservation gives that each occurs once (`Once`), and so a step that takes tasks out,
appends at its end or moves a stretch of it to the place next to it turns no
pair around. The proof has one lemma per action and
part of the invariant; lemmas about the operators (notify, PushFront, Erase) come
first. Assumptions: the named ASSUMEs of `ServerQueue`, which only fix the types of
the constants and that the thread names differ from the clients.

`StreamProofs` proves, for any ring capacity, chunk sizes, requests and conversations:

- `RingIsCorrect`: Spec => []RingKeepsTail, and `RingBounded` (a ring never exceeds
  its capacity). The lemma `RingAppend` says it of the two branches of append() as a
  fact about sequences. It needs to know that a chunk holds the bytes that come
  next, hence `RingInv`: a session that is not finalized was given everything its
  request generated but the chunk in hand, and a chunk is in hand only between
  next() and write(). All other steps only finalize or cancel (`Quiet`).
- `FoundSessionsAreWhole`: Spec => []FoundIsWhole, and `OutsideSessionsAreClosing`:
  Spec => []OutsideIsClosing. Neither is inductive. `MapInv` adds: the map gives a
  conversation a session of its own (`MapOK`); what a thread or the shutdown is
  closing was created, has left the map and cannot return (`CloserOK`,
  `SnapshotOK`), since set_req only inserts the fresh session; hence a session in
  the map is not cancelled, is finalized by its own producer only, and a producer
  whose session is in the map stops only at the end of its generation (`FoundOK`).
- `StreamTypes`: Spec => []TypeOK.
- `ReplayRefines`: Spec => ReplaysTheLog, the refinement of `ReplayLog`, from
  `ReadersInvariant`. A finalize is Seal, a write is Append unless the session is
  finalized, cancelled or the chunk empty, `read_from` is Deliver, and everything else
  stutters. That a reader gets consecutive bytes needs `ReaderOK` (the last byte it got is
  the one just before its offset) and the numbering of the ring: the byte at place i is
  `prefix_dropped` + i, so what is read from the offset starts right after it.

One lemma per group of actions shows that the invariant is kept. Assumptions:
`CapAssumption` (the capacity is positive) and `RequestsAssumption` (the three kinds
of requests differ, each names a conversation, sizes and offsets are naturals).

`ServerResponseProofs` proves, for any readers with disjoint sets of tasks, any limits
on results and any closing and failing:

- `FinalsReachReaders`: Spec => []FinalNotLost;
- `ReadersLeaveNothing`: Spec => []NothingLeftBehind;
- `TasksAreNotAbandoned`: Spec => []NoAbandonedTask;
- `ResponseRefines`: Spec => OrderedChannels, the refinement of `ResultChannels`.

A reader that has counted all its final results stops without removing anything, so
that nothing of its tasks may be left in the queue. This rests on the order: the end
of a task is the last of its results (`EndsLast`, because nothing is sent for a task that
has ended), the reader takes the first of its results, and so no result of a task
is left once its final one is received (`Received`). A reader that stops early first
leaves the waiting set, so that `send()` drops what comes, and then removes the
results id by id (`Purging`). `Without`, what std::remove_if leaves of the queue, and the
channel of a task in the refinement are both a queue restricted to a set of its
positions (`At`), where the place of a position is found by counting (`Place`), not by
recursion, so that it can be reasoned about (`AtPicks`: the order is kept and nothing else
is lost). The types (`NextTypes`) are part of the invariant.

For the refinement, the queue before and after a step is compared position by position:
if an order-preserving correspondence joins the positions of a task's results in both
queues (`Alike`), its channel has not changed. So `send` appends to the channel of its
task, a reader takes the first of one of its channels, `remove_waiting_task_id` discards
a channel that is closed already, and no step touches the others. That a result is
sent, or received, on an open channel only is what `Registered` and `Purging` say.
Assumption: `ReadersAssumption`.

`LogWorkerProofs` proves, for any ring of two slots or more, any loggers and messages:

- `RingIsWhole`: Spec => []RingHoldsPending;
- `PauseFlushes`: Spec => []PausedIsFlushed;
- `LogInvariant`, on which they rest, and `LogTypes`: Spec => []TypeOK.

The invariant describes the ring from the slot that is printed next (`Front`): the
`Pending` slots from there on hold, in order, what was accepted and is not printed,
then the end mark of a pause (`Mark`). `RoomOK` says that the tail is just behind them
and that one slot stays free, but for a pause on a full ring: a message is dropped
before it takes the last slot, and the slots that the worker has printed but not yet
published (`Done`) count as taken. The range that the worker prints without the lock
ends at an older tail, hence within the pending slots. `ControlOK` says that the worker
ends only at an end mark that is behind everything accepted. `%` is reduced
to one subtraction first (`WrapIs`), which the provers can reason about.
Assumption: `LogAssumption`.

`ServerModelsProofs` proves, for any finite sets of models and requests, any limit, and
any crashes and clients that leave:

- `RouterLimit`: Spec => []LimitHolds. A model has a process exactly as long as its
  status counts as running (`ProcessOK`), and `load()` checks the capacity again in the
  critical section in which it starts the process;
- `RouterEntries`: Spec => []EntriesHaveWaiters, and `RouterLoads`: Spec => []LoadIsOwned.
  A request is counted only while it is between `enqueue` and the end of its wait
  (`RequestsOK`); one lemma for each operation of the queue says what becomes of
  the entries (`JoinEffect`, `LeaveEffect`, `ClaimDoneEffect`, `PromiseEffect`).

Assumption: `ModelsAssumption`.

`KvProofs` proves, for any number of cells, largest position, finite set of sequences,
window, size of the micro batches and copies between streams:

- one theorem for each method of `llama_kv_cells`, that it keeps `Consistent`: the set of
  used cells and the counts of positions per sequence agree with the cells
  (`SeqRmConsistent`, `SeqKeepConsistent`, `SeqAddConsistent`, `PosAddConsistent`,
  `PosDivConsistent`, `SetConsistent`, `RmConsistent`, and the smaller ones they rest on),
  and `PresentPositions`: the keys of the map of positions are the positions that occur;
- `CellsAgree`: Spec => []CellsConsistent, from the inductive `CacheInvariant`;
- `KeysAreRight`: Spec => []KeysMatch, from `KeysInv`, which is inductive with `CacheInv`.

The preconditions of the methods are the assertions of the code. The counts are
cardinalities of the sets `Holders`, and a method changes one cell, so each of these
sets gains or loses that cell or stays, and the count changes by one with it.

That the callers meet these preconditions is the second part. A stream is `Sound` when it
is consistent, its used cells belong to its own sequences, and a pending shift is
announced by `has_shift`. `GoodStates` have sound streams. That is not enough for
`prepare()`, which puts cells back with `set()`: `set()` restores the position but no shift,
so `StillStates` have no shift pending either, which holds inside a decode because
`update` comes first. Each method gets a second lemma (`...Effect`) that says what becomes of
its cell and that the other cells stay (`Alone`). The calls of `llama_kv_cache` loop over
cells, tokens, parts and micro batches as folds. A fold is the value at M of a function
on the subsets of M, and what each addition of an element keeps holds of M: an induction
over the subsets of one finite set that needs no operator as a parameter (`Grows`,
`FoldRuns`, `FoldKeeps`); every `...Loop` lemma is an instance. `Slots` and `Parts` say what
`find_slot` returns for what a micro batch asks, and `InOrder` that `prepare()` stacks its trials in the
order of the micro batches, so that its slots fit the micro batches they are then used for.

The third part follows the keys. `KeysMatch` speaks of the keys after the next update, so
`KeysInv` is about the keys after the pending copies: a key is at its position before the
shifts, `Rooted`. A call that edits the meta data only keeps the difference of position
and shift of each cell it leaves (`Based`), whatever else it does. A stream copy is one more
in the list of pending copies, so it takes the source's key along (`CopiedMore`); loading a
sequence writes keys under the list, which is harmless as no pending copy names that stream
(`CopiedLike`), and a saved sequence has its keys at its positions because it was saved with
no update pending (`SettledKeys`). Inside a decode the shifts are gone and the keys are at the
positions (`KeysAt`). `Applied` says cell by cell what a micro batch does: a cell holds its
token or nothing, any other cell what it held or nothing; `Wrote` says the same of the keys.
Both need that two parts of a micro batch are never in one stream (`BatchesApart`). When
the computation fails before the keys are written, no cell of the micro batch may be
left: the removal starts at the first position of each sequence (`Cleared`), which is enough
if no token has two sequences (`FailedKeys`); the deviation `coupled` is the other case.

`KvDecodeProofs` proves what a decode promises, for any cache, every modelled batch
(`Batches`, for any `MaxBatch` and `NUbatch`) and a failure at any micro batch:

- `NoSlotMeansFull`: Spec => NoSlotOnlyWhenFull;
- `WindowIsSeen`: Spec => []TokensSeeWindow;
- `DecodeKeepsWhole`: Spec => DecodeMakesNoHoles.

For the first, `TrialStops` names the states in which `prepare()` has tried the micro batches
before the one that found no slot. A search that fails has too few empty cells, because it
visits every cell (`FindCellsFails`, `WrapsAll`), and the micro batches before it have used no more
cells than they have tokens (`UsedGrows`, `TotalLoop`). Neither depends on the head at
which the search starts, which is not known once a trial has restored it (item 9 of
section 4): the proofs only use the type of the heads.

The other two need to know what a micro batch does exactly (`Applies`; `Applied` above says only
what it does at most): its tokens are put in, and then each sequence loses all positions
up to the last one that was overwritten. The cells were chosen for being masked in a
state of the trial (`Spent`), not in the state they are used in. But if `prepare()` has
restored the cells, both computations start with the same cells, and the same micro
batch in the same cells leaves the same (`AppliesSame`), so they go through the same states
(`Tracked`, by induction over the micro batches, `TrackRuns`). The invariant of the computation is
that each sequence s has lost exactly the positions up to some r[s] of those it had before the
batch and got from it (`Lost`), and that r[s] is masked for every token of s from this
micro batch on (`Passed`). A micro batch keeps it (`PassedMore`): if it overwrites something of s,
the overwritten position was masked for the position after the last one that s held, the
tokens to come lie behind that, and a mask only grows, for each of the four kinds of
window (`MaskGrows`). That the tokens of a batch go on without a gap and in the order of the
micro batches, however they are split, is `BatchesInSequence`. Then each token sees its window
(`WindowSeen`). For the holes: the positions before the batch, if they had none, and those of
the batch make one interval, of which a part at the front is lost (`KeptWhole`), and the
removal of a failed micro batch cuts off the end (`RemovedWhole`).

Assumptions: `KvCellsAssumption` and `KvCacheAssumption`, the types of the constants, and that
there are finitely many sequence ids (the code has at most `LLAMA_MAX_SEQ`), and
`StreamsAssumption`, that the streams are numbered from 0 as in the constructor (K:149-152):
the index in a slot info is then the number of some stream, so that the head that a
trial restores is the head of some stream, if not of the right one.

`ThreadPoolProofs` proves the three invariants of the run `pool` for any number of threads in the pool and in each graph, any sequence of
nodes, any number of chunks and of graphs, with pauses and aborts:

- `PoolQuiet`: Spec => []QuietBetweenGraphs, and `PoolTypeOK`: Spec => []TypeOK;
- `PoolStagesInOrder`: Spec => []StagesInOrder;
- `PoolReturnsWhole`: Spec => []ReturnsWhole.

What a barrier counts (`Counting`: `n_barrier` is the number of threads that spin,
and a thread that resets it leaves all the others spinning) is of use only if all
threads are at the same barrier. The barriers divide a graph into phases, `Busy(b, h)`:
all threads of the graph have passed the barrier before node b (h = 0) or in its
middle (h = 1) and not yet the next one. A worker that has not seen the graph
(`Late`) can only be in the first phase, which is why the main thread cannot get ahead
of it. Two threads of a phase arrive at the same barrier (`SameBarrier`), since both
read the same `abort` and skip the same empty nodes; so when the last one arrives the
barrier moves all of them into one next phase, or, at the end, into rest (`Passed`).
The key is that a spinning thread counts as being where it goes on as soon as
`n_barrier_passed` has changed, whether it has noticed or not (`Place`).
`Work(b, h)` adds what was computed: the stages before the phase are complete
(`Whole`), those behind are untouched, and of its own stage exactly the slices
of the threads past them (`SliceWork`), or exactly the chunks below `current_chunk`
that no thread holds (`ChunkWork`, which needs that the first chunk of thread t
is t and that `current_chunk` starts at the number of threads). Assumption:
`ThreadPoolAssumption`, the types of the constants.

Only model-checked: all liveness (fairness and ENABLED are out of reach of the prover).
Every invariant and every action property that a passing run checks has a theorem, and
so have the two refinements. The modules without a run of `TypeOK` keep the definition as
the documentation of their state.

## 6. Not modelled

- `ServerSlots` (slot states, sub-batches, parent and child slots, checkpoints,
  speculation) would be the next module: it needs the batch logic of `C` 2677-3700
  and composes with `ServerQueue` by its abstract set `active`.
- The reload, download and removal of models in the router, and its idle timers.
- Batches with streams beyond those of `Batches` (several tokens of several sequences),
  and a K-shift that fails (K:871-881): `update` returns there and the shifts stay pending.
- The branches of the matrix multiplication that hand the work to llamafile kernels
  (G:1295-1319, 1366-1387, built with `GGML_USE_LLAMAFILE`): a thread computes its share of
  the product there and returns, without packing or without chunks.
- Whole-cache state restore, cells shared between a target and a draft model, the
  recurrent and hybrid memories.
- Weak memory: the thread pool is checked under sequential consistency only.
- Tensor arithmetic, GPU kernels, sampling, vocabulary, file formats, grammars, chat
  templates and parsers: numerical or sequential data transformations, by far the
  largest part of the repository, in which there is no control to check.
