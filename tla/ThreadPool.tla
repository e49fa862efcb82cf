----------------------------- MODULE ThreadPool -----------------------------
(***************************************************************************)
(* The thread pool of the CPU backend, src/ggml/src/ggml-cpu/ggml-cpu.c,   *)
(* as it is built without OpenMP: the barrier, the start of a graph, the   *)
(* hybrid polling and sleeping of the workers, pause, resume and free, and *)
(* the loop over the nodes of a graph with the sharing of the chunks of a  *)
(* matrix multiplication.                                                  *)
(*                                                                         *)
(* Thread 0 is the caller of ggml_graph_compute(), the others are the      *)
(* workers.  Each atomic access to a shared variable is a step of its own, *)
(* but for the flags stop and pause, which a polling worker reads in one.  *)
(* Memory is sequentially consistent (the relaxed accesses of the code are *)
(* ordered by the seq_cst operations next to them).  What a tensor         *)
(* operation computes is left out, and so are the branches that hand a     *)
(* matrix multiplication to llamafile kernels: a node is one of            *)
(*                                                                         *)
(*   "empty"  a node without an operation (skipped, without a barrier)     *)
(*   "plain"  an operation of which thread t computes the slice t          *)
(*   "mulmat" a matrix multiplication: slice t of the second operand is    *)
(*            packed into the work buffer, and after a barrier the chunks  *)
(*            of the product are handed out by current_chunk               *)
(*                                                                         *)
(* so that node k has the stages 2k (slices) and 2k + 1 (chunks), and      *)
(* "done" counts how often each item of each stage was computed.           *)
(***************************************************************************)
EXTENDS Integers, Sequences, FiniteSets

CONSTANTS
    NThreads,   \* n_threads of the pool
    Graph,      \* the kinds of the nodes
    NChunks,    \* the chunks of a matrix multiplication, before re-chunking
    MaxGraphs,  \* how many graphs the caller computes
    MayAbort    \* whether the abort callback may ask for the end

ASSUME ThreadPoolAssumption ==
    /\ NThreads \in Nat \ {0}
    /\ Graph \in Seq({"empty", "plain", "mulmat"})
    /\ NChunks \in Nat \ {0}
    /\ MaxGraphs \in Nat
    /\ MayAbort \in BOOLEAN

Threads == 0 .. NThreads - 1
Workers == Threads \ {0}
NNodes == Len(Graph)
Stages == 0 .. 2 * NNodes - 1
\* The largest index of an item: a slice per thread, or a chunk.
Items == 0 .. NThreads + NChunks

VARIABLES
    n_graph,           \* number of the graph and of its threads (one atomic)
    n_barrier, n_barrier_passed, current_chunk,
    stop, pause, abort,
    locked,            \* the caller holds the mutex in the kickoff
    sleeping,          \* the workers that wait for the condition variable
    pc,                \* where each thread is
    last_graph,        \* the n_graph each worker has seen
    nth,               \* params.nth of each thread, n_threads of the caller
    node_n,            \* the node each thread works on
    mine,              \* the chunk each thread works on
    n_passed,          \* the n_barrier_passed each thread read at the barrier
    after,             \* where each thread goes on after the barrier
    done,              \* history: how often each item was computed
    graphs             \* bound: graphs that were started

shared == <<n_graph, n_barrier, n_barrier_passed, current_chunk, stop, pause, abort>>
vars == <<shared, locked, sleeping, pc, last_graph, nth, node_n, mine, n_passed,
          after, done, graphs>>

\* The program points of a thread that executes a graph.
Computing == {"start", "loop", "slice", "share", "pick", "chunk", "next"}
AtBarrier == {"read", "enter", "reset", "release", "spin"}
MainPc == {"idle", "kick", "wake", "join", "freed"}
WorkerPc == {"top", "pausing", "paused", "check", "poll", "polled", "lock",
             "waiting", "exited"}

(***************************************************************************)
(* The stages of a graph                                                   *)
(***************************************************************************)
\* ggml_compute_forward_mul_mat: too few chunks are scrapped for one per thread.
Chunks(n) == IF NChunks < n * 4 THEN n ELSE NChunks

ItemsOf(s, n) ==
    LET kind == Graph[(s \div 2) + 1]
    IN  IF kind = "empty" \/ (kind = "plain" /\ s % 2 = 1) THEN {}
        ELSE IF s % 2 = 0 THEN 0 .. n - 1 ELSE 0 .. Chunks(n) - 1

Complete(s, n) == \A i \in ItemsOf(s, n) : done[s][i] = 1

NothingDone == [s \in Stages |-> [i \in Items |-> 0]]
Record(s, i) == done' = [done EXCEPT ![s][i] = @ + 1]

Init ==
    /\ n_graph = [graph |-> 0, threads |-> 0]
    /\ n_barrier = 0 /\ n_barrier_passed = 0 /\ current_chunk = 0
    /\ stop = FALSE /\ pause \in BOOLEAN /\ abort = -1
    /\ locked = FALSE /\ sleeping = {}
    /\ pc = [t \in Threads |-> IF t = 0 THEN "idle" ELSE "top"]
    /\ last_graph = [t \in Threads |-> [graph |-> 0, threads |-> 0]]
    /\ nth = [t \in Threads |-> 0]
    /\ node_n = [t \in Threads |-> 0]
    /\ mine = [t \in Threads |-> 0]
    /\ n_passed = [t \in Threads |-> 0]
    /\ after = [t \in Threads |-> "exit"]
    /\ done = NothingDone
    /\ graphs = 0

Go(t, p) == pc' = [pc EXCEPT ![t] = p]

(***************************************************************************)
(* ggml_barrier                                                            *)
(***************************************************************************)
\* A barrier of one thread is passed at once.
Arrive(t, k) ==
    /\ IF n_graph.threads = 1 THEN Go(t, k) ELSE Go(t, "read")
    /\ after' = [after EXCEPT ![t] = k]

BarrierRead(t) ==
    /\ pc[t] = "read"
    /\ n_passed' = [n_passed EXCEPT ![t] = n_barrier_passed]
    /\ Go(t, "enter")
    /\ UNCHANGED <<shared, locked, sleeping, last_graph, nth, node_n, mine, after, done, graphs>>

BarrierEnter(t) ==
    /\ pc[t] = "enter"
    /\ n_barrier' = n_barrier + 1
    /\ Go(t, IF n_barrier = n_graph.threads - 1 THEN "reset" ELSE "spin")
    /\ UNCHANGED <<n_graph, n_barrier_passed, current_chunk, stop, pause, abort, locked,
                   sleeping, last_graph, nth, node_n, mine, n_passed, after, done, graphs>>

\* The last thread starts the next round of the barrier, and then lets the others go.
BarrierReset(t) ==
    /\ pc[t] = "reset"
    /\ n_barrier' = 0
    /\ Go(t, "release")
    /\ UNCHANGED <<n_graph, n_barrier_passed, current_chunk, stop, pause, abort, locked,
                   sleeping, last_graph, nth, node_n, mine, n_passed, after, done, graphs>>

BarrierRelease(t) ==
    /\ pc[t] = "release"
    /\ n_barrier_passed' = n_barrier_passed + 1
    /\ Go(t, after[t])
    /\ UNCHANGED <<n_graph, n_barrier, current_chunk, stop, pause, abort, locked, sleeping,
                   last_graph, nth, node_n, mine, n_passed, after, done, graphs>>

BarrierLeave(t) ==
    /\ pc[t] = "spin" /\ n_barrier_passed # n_passed[t]
    /\ Go(t, after[t])
    /\ UNCHANGED <<shared, locked, sleeping, last_graph, nth, node_n, mine, n_passed,
                   after, done, graphs>>

(***************************************************************************)
(* ggml_graph_compute_thread                                               *)
(***************************************************************************)
ThreadStart(t) ==
    /\ pc[t] = "start"
    /\ nth' = [nth EXCEPT ![t] = n_graph.threads]
    /\ node_n' = [node_n EXCEPT ![t] = 0]
    /\ Go(t, "loop")
    /\ UNCHANGED <<shared, locked, sleeping, last_graph, mine, n_passed, after, done, graphs>>

\* Mutant: no barrier at the end of the graph.
LoopNoBarrier(t) ==
    /\ pc[t] = "loop"
    /\ \/ /\ node_n[t] >= NNodes \/ abort = node_n[t]
          /\ Go(t, "exit")
          /\ UNCHANGED <<node_n, after>>
       \/ /\ node_n[t] < NNodes /\ abort # node_n[t]
          /\ Graph[node_n[t] + 1] = "empty"
          /\ node_n' = [node_n EXCEPT ![t] = @ + 1]
          /\ UNCHANGED <<pc, after>>
       \/ /\ node_n[t] < NNodes /\ abort # node_n[t]
          /\ Graph[node_n[t] + 1] # "empty"
          /\ Go(t, "slice")
          /\ UNCHANGED <<node_n, after>>
    /\ UNCHANGED <<shared, locked, sleeping, last_graph, nth, mine, n_passed, done, graphs>>

\* The head of the loop: the end of the graph, an abort, or the next node.
Loop(t) ==
    /\ pc[t] = "loop"
    /\ \/ /\ node_n[t] >= NNodes \/ abort = node_n[t]
          /\ Arrive(t, "exit")
          /\ UNCHANGED node_n
       \/ /\ node_n[t] < NNodes /\ abort # node_n[t]
          /\ Graph[node_n[t] + 1] = "empty"
          /\ node_n' = [node_n EXCEPT ![t] = @ + 1]
          /\ UNCHANGED <<pc, after>>
       \/ /\ node_n[t] < NNodes /\ abort # node_n[t]
          /\ Graph[node_n[t] + 1] # "empty"
          /\ Go(t, "slice")
          /\ UNCHANGED <<node_n, after>>
    /\ UNCHANGED <<shared, locked, sleeping, last_graph, nth, mine, n_passed, done, graphs>>

\* The slice of a plain operation, or of the operand that is packed.
Slice(t) ==
    /\ pc[t] = "slice"
    /\ Record(2 * node_n[t], t)
    /\ Go(t, IF Graph[node_n[t] + 1] = "plain" THEN "next" ELSE "share")
    /\ UNCHANGED <<shared, locked, sleeping, last_graph, nth, node_n, mine, n_passed,
                   after, graphs>>

\* Mutant: the first shared chunk is the last thread's own.
ShareOwn(t) ==
    /\ pc[t] = "share"
    /\ current_chunk' = IF t = 0 THEN nth[t] - 1 ELSE current_chunk
    /\ mine' = [mine EXCEPT ![t] = t]
    /\ Arrive(t, "pick")
    /\ UNCHANGED <<n_graph, n_barrier, n_barrier_passed, stop, pause, abort, locked,
                   sleeping, last_graph, nth, node_n, n_passed, done, graphs>>

\* Thread 0 makes the first chunk that belongs to nobody the next one.
Share(t) ==
    /\ pc[t] = "share"
    /\ current_chunk' = IF t = 0 THEN nth[t] ELSE current_chunk
    /\ mine' = [mine EXCEPT ![t] = t]
    /\ Arrive(t, "pick")
    /\ UNCHANGED <<n_graph, n_barrier, n_barrier_passed, stop, pause, abort, locked,
                   sleeping, last_graph, nth, node_n, n_passed, done, graphs>>

Pick(t) ==
    /\ pc[t] = "pick"
    /\ Go(t, IF mine[t] < Chunks(nth[t]) THEN "chunk" ELSE "next")
    /\ UNCHANGED <<shared, locked, sleeping, last_graph, nth, node_n, mine, n_passed,
                   after, done, graphs>>

\* Computes a chunk and takes another, unless every thread has exactly its own.
Chunk(t) ==
    /\ pc[t] = "chunk"
    /\ Record(2 * node_n[t] + 1, mine[t])
    /\ IF nth[t] >= Chunks(nth[t])
       THEN Go(t, "next") /\ UNCHANGED <<mine, current_chunk>>
       ELSE /\ mine' = [mine EXCEPT ![t] = current_chunk]
            /\ current_chunk' = current_chunk + 1
            /\ Go(t, "pick")
    /\ UNCHANGED <<n_graph, n_barrier, n_barrier_passed, stop, pause, abort, locked,
                   sleeping, last_graph, nth, node_n, n_passed, after, graphs>>

\* Mutant: the barrier is left out before a node that is skipped.
NextNodeSkip(t) ==
    /\ pc[t] = "next"
    /\ abort' \in IF t = 0 /\ MayAbort THEN {abort, node_n[t] + 1} ELSE {abort}
    /\ node_n' = [node_n EXCEPT ![t] = @ + 1]
    /\ IF node_n[t] + 1 < NNodes /\ Graph[node_n[t] + 2] # "empty"
       THEN Arrive(t, "loop")
       ELSE Go(t, "loop") /\ UNCHANGED after
    /\ UNCHANGED <<n_graph, n_barrier, n_barrier_passed, current_chunk, stop, pause, locked,
                   sleeping, last_graph, nth, mine, n_passed, done, graphs>>

\* After an operation: thread 0 asks the abort callback, and all wait for
\* each other, except after the last node, where the barrier at the end waits.
NextNode(t) ==
    /\ pc[t] = "next"
    /\ abort' \in IF t = 0 /\ MayAbort THEN {abort, node_n[t] + 1} ELSE {abort}
    /\ node_n' = [node_n EXCEPT ![t] = @ + 1]
    /\ IF node_n[t] + 1 < NNodes
       THEN Arrive(t, "loop")
       ELSE Go(t, "loop") /\ UNCHANGED after
    /\ UNCHANGED <<n_graph, n_barrier, n_barrier_passed, current_chunk, stop, pause, locked,
                   sleeping, last_graph, nth, mine, n_passed, done, graphs>>

\* ggml_graph_compute() returns, or the worker goes back to its loop.
Exit(t) ==
    /\ pc[t] = "exit"
    /\ Go(t, IF t = 0 THEN "idle" ELSE "top")
    /\ UNCHANGED <<shared, locked, sleeping, last_graph, nth, node_n, mine, n_passed,
                   after, done, graphs>>

(***************************************************************************)
(* The caller                                                              *)
(***************************************************************************)
\* ggml_graph_compute() resets the parameters that the workers read.
Compute(n) ==
    /\ pc[0] = "idle" /\ graphs < MaxGraphs
    /\ graphs' = graphs + 1
    /\ current_chunk' = 0 /\ abort' = -1
    /\ nth' = [nth EXCEPT ![0] = n]
    /\ done' = NothingDone
    /\ Go(0, "kick")
    /\ UNCHANGED <<n_graph, n_barrier, n_barrier_passed, stop, pause, locked, sleeping,
                   last_graph, node_n, mine, n_passed, after>>

Kickoff ==
    /\ pc[0] = "kick"
    /\ locked' = TRUE
    /\ n_graph' = [graph |-> n_graph.graph + 1, threads |-> nth[0]]
    /\ Go(0, "wake")
    /\ UNCHANGED <<n_barrier, n_barrier_passed, current_chunk, stop, pause, abort, sleeping,
                   last_graph, nth, node_n, mine, n_passed, after, done, graphs>>

\* Mutant: the broadcast is left to the resume of a paused pool.
KickoffWakePaused ==
    /\ pc[0] = "wake"
    /\ pause' = FALSE
    /\ sleeping' = IF pause THEN {} ELSE sleeping
    /\ locked' = FALSE
    /\ Go(0, "start")
    /\ UNCHANGED <<n_graph, n_barrier, n_barrier_passed, current_chunk, stop, abort,
                   last_graph, nth, node_n, mine, n_passed, after, done, graphs>>

\* The second half of the critical section: resume, broadcast, unlock.
KickoffWake ==
    /\ pc[0] = "wake"
    /\ pause' = FALSE
    /\ sleeping' = {}
    /\ locked' = FALSE
    /\ Go(0, "start")
    /\ UNCHANGED <<n_graph, n_barrier, n_barrier_passed, current_chunk, stop, abort,
                   last_graph, nth, node_n, mine, n_passed, after, done, graphs>>

PauseOrResume ==
    /\ pc[0] = "idle"
    /\ pause' = ~pause
    /\ sleeping' = {}
    /\ UNCHANGED <<n_graph, n_barrier, n_barrier_passed, current_chunk, stop, abort, locked,
                   pc, last_graph, nth, node_n, mine, n_passed, after, done, graphs>>

Free ==
    /\ pc[0] = "idle"
    /\ stop' = TRUE /\ pause' = FALSE
    /\ sleeping' = {}
    /\ Go(0, "join")
    /\ UNCHANGED <<n_graph, n_barrier, n_barrier_passed, current_chunk, abort, locked,
                   last_graph, nth, node_n, mine, n_passed, after, done, graphs>>

Join ==
    /\ pc[0] = "join" /\ \A w \in Workers : pc[w] = "exited"
    /\ Go(0, "freed")
    /\ UNCHANGED <<shared, locked, sleeping, last_graph, nth, node_n, mine, n_passed,
                   after, done, graphs>>

(***************************************************************************)
(* ggml_graph_compute_secondary_thread                                     *)
(***************************************************************************)
WorkerTop(w) ==
    /\ pc[w] = "top"
    /\ Go(w, IF pause THEN "pausing" ELSE "check")
    /\ UNCHANGED <<shared, locked, sleeping, last_graph, nth, node_n, mine, n_passed,
                   after, done, graphs>>

\* Under the mutex: sleeps if the pool is still paused.
WorkerPause(w) ==
    /\ pc[w] = "pausing" /\ ~locked
    /\ Go(w, IF pause THEN "paused" ELSE "top")
    /\ sleeping' = IF pause THEN sleeping \cup {w} ELSE sleeping
    /\ UNCHANGED <<shared, locked, last_graph, nth, node_n, mine, n_passed, after, done, graphs>>

WorkerResume(w) ==
    /\ pc[w] = "paused" /\ w \notin sleeping /\ ~locked
    /\ Go(w, "top")
    /\ UNCHANGED <<shared, locked, sleeping, last_graph, nth, node_n, mine, n_passed,
                   after, done, graphs>>

WorkerCheck(w) ==
    /\ pc[w] = "check"
    /\ Go(w, IF stop THEN "exited" ELSE "poll")
    /\ UNCHANGED <<shared, locked, sleeping, last_graph, nth, node_n, mine, n_passed,
                   after, done, graphs>>

\* A new n_graph: work for the worker if it is among the active threads.
\* (state->pending is never set where the code tests it first.)
TakeGraph(w, idle) ==
    /\ last_graph' = [last_graph EXCEPT ![w] = n_graph]
    /\ Go(w, IF w < n_graph.threads THEN "start" ELSE idle)

\* Polling reads stop and pause, here in one step, and then n_graph, without the mutex.
\* A worker whose two reads miss a free() reads them again in the next round of polling.
PollFlags(w) ==
    /\ pc[w] = "poll"
    /\ Go(w, IF stop \/ pause THEN "lock" ELSE "polled")
    /\ UNCHANGED <<shared, locked, sleeping, last_graph, nth, node_n, mine, n_passed,
                   after, done, graphs>>

PollGraph(w) ==
    /\ pc[w] = "polled"
    /\ \/ /\ n_graph # last_graph[w]
          /\ TakeGraph(w, "lock")
       \/ /\ n_graph = last_graph[w]
          /\ Go(w, "poll") \/ Go(w, "lock")
          /\ UNCHANGED last_graph
    /\ UNCHANGED <<shared, locked, sleeping, nth, node_n, mine, n_passed, after, done, graphs>>

\* Under the mutex: stop, pause, a new graph, or sleep.
WorkerLock(w) ==
    /\ pc[w] = "lock" /\ ~locked
    /\ \/ /\ stop \/ pause
          /\ Go(w, "top")
          /\ UNCHANGED <<sleeping, last_graph>>
       \/ /\ ~stop /\ ~pause /\ n_graph # last_graph[w]
          /\ TakeGraph(w, "top")
          /\ UNCHANGED sleeping
       \/ /\ ~stop /\ ~pause /\ n_graph = last_graph[w]
          /\ sleeping' = sleeping \cup {w}
          /\ Go(w, "waiting")
          /\ UNCHANGED last_graph
    /\ UNCHANGED <<shared, locked, nth, node_n, mine, n_passed, after, done, graphs>>

WorkerWake(w) ==
    /\ pc[w] = "waiting" /\ w \notin sleeping
    /\ Go(w, "lock")
    /\ UNCHANGED <<shared, locked, sleeping, last_graph, nth, node_n, mine, n_passed,
                   after, done, graphs>>

\* A condition variable may wake a thread for no reason.
SpuriousWake(w) ==
    /\ w \in sleeping
    /\ sleeping' = sleeping \ {w}
    /\ UNCHANGED <<shared, locked, pc, last_graph, nth, node_n, mine, n_passed, after,
                   done, graphs>>

(***************************************************************************)
(* The specification                                                       *)
(***************************************************************************)
ComputeStep(t) ==
    \/ BarrierRead(t) \/ BarrierEnter(t) \/ BarrierReset(t) \/ BarrierRelease(t)
    \/ BarrierLeave(t) \/ ThreadStart(t) \/ Loop(t) \/ Slice(t) \/ Share(t)
    \/ Pick(t) \/ Chunk(t) \/ NextNode(t) \/ Exit(t)

WorkerStep(w) ==
    \/ WorkerTop(w) \/ WorkerPause(w) \/ WorkerResume(w) \/ WorkerCheck(w)
    \/ PollFlags(w) \/ PollGraph(w) \/ WorkerLock(w) \/ WorkerWake(w)

MainStep == Kickoff \/ KickoffWake \/ Join

Next ==
    \/ \E t \in Threads : ComputeStep(t)
    \/ \E w \in Workers : WorkerStep(w) \/ SpuriousWake(w)
    \/ \E n \in 1 .. NThreads : Compute(n)
    \/ MainStep \/ PauseOrResume \/ Free

Spec == Init /\ [][Next]_vars

\* The operating system schedules every thread.
Fairness ==
    /\ \A t \in Threads : WF_vars(ComputeStep(t))
    /\ \A w \in Workers : WF_vars(WorkerStep(w))
    /\ WF_vars(MainStep)

FairSpec == Spec /\ Fairness

(***************************************************************************)
(* Properties                                                              *)
(***************************************************************************)
TypeOK ==
    /\ n_graph \in [graph : Nat, threads : 0 .. NThreads]
    /\ n_barrier \in 0 .. NThreads /\ n_barrier_passed \in Nat
    /\ current_chunk \in Nat
    /\ stop \in BOOLEAN /\ pause \in BOOLEAN /\ locked \in BOOLEAN
    /\ abort \in -1 .. NNodes
    /\ sleeping \subseteq Workers
    /\ pc \in [Threads -> Computing \cup AtBarrier \cup MainPc \cup WorkerPc \cup {"exit"}]
    /\ last_graph \in [Threads -> [graph : Nat, threads : 0 .. NThreads]]
    /\ nth \in [Threads -> 0 .. NThreads]
    /\ node_n \in [Threads -> 0 .. NNodes]
    /\ mine \in [Threads -> Nat]
    /\ n_passed \in [Threads -> Nat]
    /\ after \in [Threads -> {"loop", "pick", "exit"}]
    /\ graphs \in 0 .. MaxGraphs

(***************************************************************************)
(* What the barriers are for                                               *)
(***************************************************************************)
StageOf(t) == IF pc[t] = "chunk" THEN 2 * node_n[t] + 1 ELSE 2 * node_n[t]

\* Whoever computes an item finds every item of every earlier stage computed,
\* once, by whichever threads (the barriers of ggml_compute_forward_mul_mat
\* and ggml_graph_compute_thread).
StagesInOrder ==
    \A t \in Threads : pc[t] \in {"slice", "chunk"} =>
        \A s \in Stages : s < StageOf(t) => Complete(s, n_graph.threads)

\* "No worker threads should be accessing the parameters below at this stage"
\* (ggml_graph_compute): between two graphs, no worker executes the old one.
QuietBetweenGraphs ==
    pc[0] \in {"idle", "kick", "join", "freed"} => \A w \in Workers :
        /\ pc[w] \notin Computing
        /\ pc[w] \in AtBarrier => pc[w] = "spin" /\ n_passed[w] # n_barrier_passed

\* When ggml_graph_compute() returns, every item was computed exactly once, or,
\* after an abort, every item up to the node of the abort and none behind it.
Ended == IF abort = -1 THEN NNodes ELSE abort
ReturnsWhole ==
    pc[0] = "exit" => \A s \in Stages :
        IF s < 2 * Ended THEN Complete(s, n_graph.threads) ELSE \A i \in Items : done[s][i] = 0

\* ggml_graph_compute() and ggml_threadpool_free() return, however the workers
\* poll, sleep or are paused when they are called.
CallsReturn ==
    /\ pc[0] = "kick" ~> pc[0] = "idle"
    /\ pc[0] = "join" ~> pc[0] = "freed"
=============================================================================
