-------------------------- MODULE ThreadPoolProofs --------------------------
(***************************************************************************)
(* Between two graphs no worker of the thread pool executes the old one,   *)
(* and every item of a graph is computed exactly once, and none before the *)
(* stages it depends on, for any number of threads and chunks and any      *)
(* graph.                                                                  *)
(*                                                                         *)
(* The counter of the barrier counts the threads that spin at it           *)
(* (Counting), which says little unless all threads that compute are at    *)
(* the same barrier.  They are: the barriers divide a graph into phases,   *)
(* Busy(b, h), and all threads of the graph are in the same one (Phase),   *)
(* or have not seen the graph, which can only be in the first.  A thread   *)
(* that arrives at a barrier is where the others of its phase arrive too   *)
(* (SameBarrier), so that the barrier opens for all into the next phase    *)
(* (Passed).                                                               *)
(*                                                                         *)
(* What was computed follows the phase (WorkInv): the stages before it are *)
(* complete, those behind are untouched, and of its own stage exactly the  *)
(* slices of the threads that are past them (SliceWork), or the chunks     *)
(* that were handed out and are not held by a thread any more (ChunkWork). *)
(***************************************************************************)
EXTENDS ThreadPool, FiniteSetTheorems, TLAPS

(***************************************************************************)
(* The inductive invariant                                                 *)
(***************************************************************************)
\* The threads that compute the current graph.
Active == 0 .. n_graph.threads - 1

\* A thread spins at the barrier, before and after the barrier has opened;
\* once it has, the thread counts as being where it goes on.
Waits(t) == pc[t] = "spin" /\ n_passed[t] = n_barrier_passed
Released(t) == pc[t] = "spin" /\ n_passed[t] # n_barrier_passed
Place(t) == IF Released(t) THEN after[t] ELSE pc[t]

AtRest == WorkerPc \cup {"exit"}
MainAtRest == {"idle", "kick", "join", "freed", "exit"}
Inside == {"read", "enter", "reset", "release", "spin"}

\* From node b on, the nodes before j are skipped, and j is the first that is computed.
Skipped(b, j) ==
    /\ b <= j /\ j <= NNodes
    /\ \A i \in b .. j - 1 : Graph[i + 1] = "empty" /\ abort # i
First(b, j) ==
    /\ j < NNodes /\ Skipped(b, j)
    /\ Graph[j + 1] # "empty" /\ abort # j

\* Whether there is a barrier in the middle of node j.
Half(j) == IF Graph[j + 1] = "mulmat" THEN 1 ELSE 0
PastLast(j, b, h) == j = NNodes /\ First(b, j - 1) /\ h = Half(j - 1)

\* The barrier at which a thread arrives that has passed the barrier before
\* node b (h = 0) or in the middle of node b (h = 1).
Arrived(a, j, b, h) ==
    \/ a = "pick" /\ h = 0 /\ First(b, j) /\ Graph[j + 1] = "mulmat"
    \/ a = "loop" /\ j < NNodes /\ First(b, j - 1) /\ h = Half(j - 1)
    \/ a = "exit" /\ h = 0 /\ Skipped(b, j) /\ (j = NNodes \/ abort = j)
    \/ a = "exit" /\ PastLast(j, b, h)

\* Where a thread may be between that barrier and the next one.
Between(p, j, b, h) ==
    \/ p \in {"wake", "start"} /\ b = 0 /\ h = 0
    \/ p = "loop" /\ h = 0 /\ Skipped(b, j)
    \/ p = "loop" /\ PastLast(j, b, h)
    \/ p = "slice" /\ h = 0 /\ First(b, j)
    \/ p = "share" /\ h = 0 /\ First(b, j) /\ Graph[j + 1] = "mulmat"
    \/ p \in {"pick", "chunk"} /\ h = 1 /\ First(b, j) /\ Graph[j + 1] = "mulmat"
    \/ p = "next" /\ First(b, j) /\ h = Half(j)

\* A worker that has not seen the current graph.
Late(t) == t # 0 /\ Place(t) \in AtRest /\ last_graph[t] # n_graph

At(t, b, h) ==
    \/ Late(t) /\ b = 0 /\ h = 0
    \/ /\ t # 0 => last_graph[t] = n_graph
       /\ \/ Between(Place(t), node_n[t], b, h)
          \/ Place(t) \in Inside /\ Arrived(after[t], node_n[t], b, h)

\* All threads are between the same two barriers, or all are done.
Busy(b, h) == n_graph.threads >= 1 /\ \A t \in Active : At(t, b, h)
Quiet ==
    /\ Place(0) \in MainAtRest
    /\ \A t \in Active \ {0} : Place(t) \in AtRest /\ last_graph[t] = n_graph
Phase == Quiet \/ \E b \in 0 .. NNodes, h \in {0, 1} : Busy(b, h)

Seen ==
    /\ \A t \in Threads : last_graph[t].graph <= n_graph.graph
    /\ \A t \in Threads : n_passed[t] <= n_barrier_passed
    /\ pc[0] = "kick" => nth[0] >= 1

Unused == \A t \in Threads : t \notin Active /\ t # 0 => Place(t) \in AtRest

Last(t) == pc[t] \in {"reset", "release"}
Waiting == {t \in Threads : Waits(t)}
OthersWait(t) == \A u \in Active \ {t} : Waits(u)
Counting ==
    /\ \A t \in Threads : pc[t] = "enter" => n_passed[t] = n_barrier_passed
    /\ (\A t \in Threads : ~Last(t)) => n_barrier = Cardinality(Waiting)
    /\ \A t \in Threads : Last(t) =>
          /\ OthersWait(t)
          /\ n_barrier = IF pc[t] = "reset" THEN n_graph.threads ELSE 0

Inv == TypeOK /\ Seen /\ Unused /\ Phase /\ Counting

(***************************************************************************)
(* Facts about phases                                                      *)
(***************************************************************************)
LEMMA Constants ==
    /\ NThreads \in Nat \ {0} /\ NNodes \in Nat /\ MaxGraphs \in Nat /\ NChunks \in Nat \ {0}
    /\ \A i \in 0 .. NNodes - 1 : Graph[i + 1] \in {"empty", "plain", "mulmat"}
BY ThreadPoolAssumption DEF NNodes

Pcs == Computing \cup AtBarrier \cup MainPc \cup WorkerPc \cup {"exit"}

\* A thread goes on to a point of the program.
LEMMA NewPc ==
    ASSUME TypeOK, NEW t \in Threads, NEW p \in Pcs, Go(t, p)
    PROVE  pc' \in [Threads -> Pcs]
<1>1. pc \in [Threads -> Pcs]
    BY DEF TypeOK, Pcs
<1> QED BY <1>1 DEF Go

LEMMA PcsOK ==
    {"start", "loop", "slice", "share", "pick", "chunk", "next", "read", "exit", "lock",
     "poll", "top", "waiting"} \subseteq Pcs
BY DEF Pcs, Computing, AtBarrier, WorkerPc

\* Two threads of one phase arrive at the same barrier.
LEMMA SameBarrier ==
    ASSUME NEW b \in Nat, NEW h, NEW a, NEW j \in Nat, NEW c, NEW k \in Nat,
           Arrived(a, j, b, h)', Arrived(c, k, b, h)'
    PROVE  a = c /\ (a # "exit" => j = k)
<1>1. ASSUME NEW m \in Int, NEW n \in Int, First(b, m)', First(b, n)'
      PROVE  m = n
    BY <1>1, Constants DEF First, Skipped
<1>2. ASSUME NEW m \in Int, NEW n \in Nat, First(b, m)', Skipped(b, n)'
      PROVE  n # NNodes /\ abort' # n
    BY <1>2, Constants DEF First, Skipped
<1>3. ASSUME NEW m \in Int, First(b, m)'
      PROVE  m \in Nat /\ m < NNodes
    BY <1>3, Constants DEF First, Skipped
<1>4. \A m \in Int : Half(m) = 1 <=> Graph[m + 1] = "mulmat"
    BY DEF Half
<1>5. j - 1 \in Int /\ k - 1 \in Int /\ j \in Int /\ k \in Int /\ NNodes \in Nat
    BY Constants
<1> QED BY <1>1, <1>2, <1>3, <1>4, <1>5 DEF Arrived, PastLast

\* What the first thread in the phase b, h does next stays true for it, if
\* thread 0 asks for the end after the node that the phase computes.
LEMMA AbortBehind ==
    ASSUME NEW b \in Nat, NEW k \in Nat, First(b, k),
           abort' \in {abort, k + 1}
    PROVE  /\ \A j \in Nat : First(b, j) => First(b, j)'
           /\ \A j \in Nat : Skipped(b, j) => Skipped(b, j)'
<1>1. \A j \in Nat : Skipped(b, j) => j <= k
    BY Constants DEF First, Skipped
<1> QED BY <1>1, Constants DEF First, Skipped

\* All threads have left the barrier at which the phase b, h ends.
Together(b, h) ==
    /\ n_graph.threads >= 1
    /\ \A t \in Active : /\ Place(t) = after[t]
                         /\ Arrived(after[t], node_n[t], b, h)
                         /\ t # 0 => last_graph[t] = n_graph

\* The barrier opens: those who arrived together begin the next phase.
LEMMA Passed ==
    ASSUME TypeOK', NEW b \in Nat, NEW h \in {0, 1}, Together(b, h)'
    PROVE  \E j \in 0 .. NNodes :
              /\ after'[0] # "exit" => \A t \in Active' : node_n'[t] = j
              /\ \A t \in Active' : after'[t] = after'[0]
              /\ 0 \in Active' /\ node_n'[0] = j
              /\ \/ after'[0] = "exit" /\ Quiet'
                 \/ after'[0] = "pick" /\ Busy(j, 1)'
                 \/ after'[0] = "loop" /\ Busy(j, 0)'
<1>1. 0 \in Active' /\ Active' \subseteq Threads /\ (n_graph.threads >= 1)'
    <2>1. n_graph'.threads \in 0 .. NThreads
        BY DEF TypeOK
    <2>2. n_graph'.threads >= 1
        BY DEF Together
    <2> QED BY <2>1, <2>2, Constants DEF Active, Threads
<1>2. \A t \in Active' : after'[t] \in {"loop", "pick", "exit"} /\ node_n'[t] \in 0 .. NNodes
    BY <1>1 DEF TypeOK
<1> PICK j \in 0 .. NNodes : j = node_n'[0]
    BY <1>1, <1>2
<1>3. ASSUME NEW t \in Active'
      PROVE  after'[t] = after'[0] /\ (after'[0] # "exit" => node_n'[t] = j)
    <2>1. node_n'[t] \in Nat /\ node_n'[0] \in Nat
        BY <1>1, <1>2, Constants
    <2>2. Arrived(after[t], node_n[t], b, h)' /\ Arrived(after[0], node_n[0], b, h)'
        BY <1>1 DEF Together
    <2> QED BY <2>1, <2>2, SameBarrier
<1>4. Arrived(after[0], node_n[0], b, h)' /\ j \in 0 .. NNodes /\ NNodes \in Nat
    BY <1>1, <1>2, Constants DEF Together
<1>5. \A t \in Active' : Place(t)' = after'[0] /\ (t # 0 => last_graph'[t] = n_graph')
    BY <1>3 DEF Together
<1>6. CASE after'[0] = "exit"
    <2>1. Quiet'
        BY <1>1, <1>5, <1>6 DEF Quiet, MainAtRest, AtRest
    <2> QED BY <1>1, <1>3, <1>6, <2>1
<1>7. CASE after'[0] = "pick"
    <2>1. First(j, j)' /\ Graph[j + 1] = "mulmat"
        BY <1>4, <1>7 DEF Arrived, First, Skipped
    <2>2. ASSUME NEW t \in Active'
          PROVE  At(t, j, 1)'
        <3>1. Between("pick", j, j, 1)'
            BY <2>1 DEF Between
        <3> QED BY <1>3, <1>5, <1>7, <3>1 DEF At
    <2>3. Busy(j, 1)'
        BY <1>1, <2>2 DEF Busy
    <2> QED BY <1>1, <1>3, <1>7, <2>3
<1>8. CASE after'[0] = "loop"
    <2>1. Skipped(j, j)'
        BY <1>4 DEF Skipped
    <2>2. ASSUME NEW t \in Active'
          PROVE  At(t, j, 0)'
        <3>1. Between("loop", j, j, 0)'
            BY <2>1 DEF Between
        <3> QED BY <1>3, <1>5, <1>8, <3>1 DEF At
    <2>3. Busy(j, 0)'
        BY <1>1, <2>2 DEF Busy
    <2> QED BY <1>1, <1>3, <1>8, <2>3
<1> QED BY <1>1, <1>2, <1>6, <1>7, <1>8

(***************************************************************************)
(* What a step of one thread keeps                                         *)
(***************************************************************************)
\* The step of thread t changes nothing that the invariant says of another.
Moves(t) ==
    /\ n_graph' = n_graph /\ n_barrier_passed' = n_barrier_passed
    /\ \A u \in Threads \ {t} :
          /\ pc'[u] = pc[u] /\ after'[u] = after[u] /\ node_n'[u] = node_n[u]
          /\ last_graph'[u] = last_graph[u] /\ n_passed'[u] = n_passed[u]

LEMMA ActiveThreads ==
    ASSUME TypeOK
    PROVE  Active \subseteq Threads /\ 0 \in Threads /\ n_graph.threads \in 0 .. NThreads
<1>1. n_graph.threads \in 0 .. NThreads
    BY DEF TypeOK
<1> QED BY <1>1, Constants DEF Active, Threads

LEMMA Others ==
    ASSUME NEW t, Moves(t), NEW u \in Threads \ {t}
    PROVE  /\ Waits(u)' = Waits(u) /\ Place(u)' = Place(u) /\ Last(u)' = Last(u)
           /\ \A b, h : abort' = abort /\ At(u, b, h) => At(u, b, h)'
<1>1. Waits(u)' = Waits(u) /\ Released(u)' = Released(u) /\ Last(u)' = Last(u)
    BY DEF Moves, Waits, Released, Last
<1>2. Place(u)' = Place(u)
    BY <1>1 DEF Moves, Place
<1>3. ASSUME NEW b, NEW h, abort' = abort, At(u, b, h)
      PROVE  At(u, b, h)'
    BY <1>2, <1>3 DEF Moves, At, Late, Between, Arrived, PastLast, First, Skipped
<1> QED BY <1>1, <1>2, <1>3

LEMMA KeepsSeen ==
    ASSUME Inv, NEW t \in Threads, Moves(t),
           last_graph'[t] \in {last_graph[t], n_graph},
           n_passed'[t] \in {n_passed[t], n_barrier_passed},
           pc'[0] = "kick" => nth'[0] >= 1
    PROVE  Seen'
<1>1. n_graph.graph \in Nat /\ n_barrier_passed \in Nat
    BY DEF Inv, TypeOK
<1> QED BY <1>1 DEF Inv, Seen, Moves

LEMMA KeepsUnused ==
    ASSUME Inv, NEW t \in Threads, Moves(t),
           t \in Active \/ t = 0 \/ Place(t)' \in AtRest
    PROVE  Unused'
<1>1. Active' = Active
    BY DEF Active, Moves
<1> QED BY <1>1, Others DEF Inv, Unused

\* A step that does not begin a graph: the threads stay in their phase, or
\* leave it together.
Follows ==
    /\ Quiet => Quiet'
    /\ \A b \in 0 .. NNodes, h \in {0, 1} : Busy(b, h) => Busy(b, h)' \/ Together(b, h)'

LEMMA FollowsPhase ==
    ASSUME Inv, TypeOK', Follows
    PROVE  Phase'
<1>1. 0 \in {0, 1} /\ 1 \in {0, 1} /\ \A b \in 0 .. NNodes : b \in Nat
    BY Constants
<1>2. CASE Quiet
    BY <1>2 DEF Follows, Phase
<1>3. CASE ~Quiet
    <2>1. PICK b \in 0 .. NNodes, h \in {0, 1} : Busy(b, h)' \/ Together(b, h)'
        BY <1>3 DEF Inv, Phase, Follows
    <2>2. CASE Busy(b, h)'
        BY <2>2 DEF Phase
    <2>3. CASE Together(b, h)'
        BY <1>1, <2>3, Passed DEF Phase
    <2> QED BY <2>1, <2>2, <2>3
<1> QED BY <1>2, <1>3

LEMMA KeepsBusy ==
    ASSUME TypeOK, NEW t \in Threads, Moves(t), NEW b, NEW h,
           Busy(b, h), At(t, b, h)' \/ t \notin Active,
           \A u \in Active \ {t} : At(u, b, h) => At(u, b, h)'
    PROVE  Busy(b, h)'
<1>1. Active' = Active /\ n_graph'.threads = n_graph.threads
    BY DEF Active, Moves
<1> QED BY <1>1 DEF Busy

LEMMA KeepsQuiet ==
    ASSUME TypeOK, NEW t \in Threads, Moves(t), Quiet,
           t = 0 => Place(0)' \in MainAtRest,
           t \in Active \ {0} => Place(t)' \in AtRest /\ last_graph'[t] = n_graph
    PROVE  Quiet'
<1>1. Active' = Active /\ n_graph' = n_graph
    BY DEF Active, Moves
<1> QED BY <1>1, Others, ActiveThreads DEF Quiet, Moves

LEMMA KeepsCounting ==
    ASSUME Inv, NEW t \in Threads, Moves(t), n_barrier' = n_barrier,
           Waits(t)' <=> Waits(t), ~Last(t), ~Last(t)',
           pc'[t] = "enter" => n_passed'[t] = n_barrier_passed
    PROVE  Counting'
<1>1. Active' = Active /\ n_graph' = n_graph /\ n_barrier_passed' = n_barrier_passed
    BY DEF Active, Moves
<1>2. \A u \in Threads : (Waits(u)' <=> Waits(u)) /\ (Last(u)' <=> Last(u))
    BY Others
<1>3. Waiting' = Waiting
    BY <1>2 DEF Waiting
<1>4. ASSUME NEW u \in Threads, pc'[u] = "enter"
      PROVE  n_passed'[u] = n_barrier_passed'
    BY <1>1, <1>4 DEF Inv, Counting, Moves
<1>5. (\A u \in Threads : ~Last(u)') => n_barrier' = Cardinality(Waiting')
    BY <1>2, <1>3 DEF Inv, Counting
<1>6. ASSUME NEW u \in Threads, Last(u)'
      PROVE  /\ OthersWait(u)'
             /\ n_barrier' = IF pc'[u] = "reset" THEN n_graph'.threads ELSE 0
    <2>1. u # t /\ Last(u) /\ pc'[u] = pc[u]
        BY <1>2, <1>6 DEF Moves
    <2>2. \A v \in Active \ {u} : Waits(v)' <=> Waits(v)
        BY <1>2, ActiveThreads DEF Inv
    <2> QED BY <1>1, <2>1, <2>2 DEF Inv, Counting, OthersWait
<1> QED BY <1>4, <1>5, <1>6 DEF Counting

\* A thread that is on its way is one of the graph, and in the phase.
LEMMA OnItsWay ==
    ASSUME Inv, NEW t \in Threads, Place(t) \notin AtRest \cup MainAtRest
    PROVE  /\ t \in Active /\ ~Quiet
           /\ t # 0 => last_graph[t] = n_graph
           /\ \E b \in 0 .. NNodes, h \in {0, 1} : Busy(b, h)
           /\ \A b, h : Busy(b, h) =>
                 \/ Between(Place(t), node_n[t], b, h)
                 \/ Place(t) \in Inside /\ Arrived(after[t], node_n[t], b, h)
<1>1. t # 0 => t \in Active
    BY DEF Inv, Unused
<1>2. ~Quiet
    BY <1>1 DEF Quiet
<1>3. PICK b \in 0 .. NNodes, h \in {0, 1} : Busy(b, h)
    BY <1>2 DEF Inv, Phase
<1>4. t \in Active
    <2>1. n_graph.threads \in 0 .. NThreads /\ n_graph.threads >= 1
        BY <1>3, ActiveThreads DEF Inv, Busy
    <2> QED BY <1>1, <2>1 DEF Active
<1>5. ASSUME NEW c, NEW g, Busy(c, g)
      PROVE  /\ t # 0 => last_graph[t] = n_graph
             /\ \/ Between(Place(t), node_n[t], c, g)
                \/ Place(t) \in Inside /\ Arrived(after[t], node_n[t], c, g)
    BY <1>4, <1>5 DEF Busy, At, Late
<1> QED BY <1>2, <1>3, <1>4, <1>5

(***************************************************************************)
(* The barrier                                                             *)
(***************************************************************************)
LEMMA StaysInside ==
    ASSUME Inv, NEW t \in Threads, Moves(t), Place(t) \in Inside, Place(t)' \in Inside,
           after' = after, node_n' = node_n, last_graph' = last_graph, abort' = abort
    PROVE  Follows /\ Unused' /\ t \in Active
<1>1. Place(t) \notin AtRest \cup MainAtRest
    BY DEF AtRest, MainAtRest, WorkerPc, Inside
<1>2. t \in Active /\ ~Quiet /\ (t # 0 => last_graph[t] = n_graph)
    BY <1>1, OnItsWay
<1>3. ASSUME NEW b \in 0 .. NNodes, NEW h \in {0, 1}, Busy(b, h)
      PROVE  Busy(b, h)'
    <2>1. Arrived(after[t], node_n[t], b, h) \/ Between(Place(t), node_n[t], b, h)
        BY <1>1, <1>3, OnItsWay
    <2>2. Arrived(after[t], node_n[t], b, h)
        BY <2>1 DEF Between, Inside
    <2>3. Arrived(after[t], node_n[t], b, h)'
        BY <2>2 DEF Arrived, PastLast, First, Skipped
    <2>4. At(t, b, h)'
        BY <1>2, <2>3 DEF At, Moves
    <2> QED BY <1>3, <2>4, KeepsBusy, Others, ActiveThreads DEF Inv
<1> QED BY <1>2, <1>3, KeepsUnused DEF Follows

LEMMA ReadKeeps ==
    ASSUME Inv, NEW t \in Threads, BarrierRead(t)
    PROVE  Inv' /\ Follows
<1>1. TypeOK'
    BY DEF Inv, TypeOK, BarrierRead, shared, Go, AtBarrier
<1>2. Moves(t) /\ pc'[t] = "enter" /\ n_passed'[t] = n_barrier_passed
    BY DEF Inv, TypeOK, BarrierRead, shared, Go, Moves
<1>3. Place(t) = "read" /\ Place(t)' = "enter" /\ ~Waits(t) /\ ~Waits(t)' /\ ~Last(t) /\ ~Last(t)'
    BY <1>2 DEF BarrierRead, Place, Released, Waits, Last
<1>4. Seen'
    BY <1>2, KeepsSeen DEF BarrierRead, Inv, Seen, TypeOK, Go
<1>5. Counting'
    BY <1>2, <1>3, KeepsCounting DEF BarrierRead, shared
<1>6. Follows /\ Unused'
    <2>1. Place(t) \in Inside /\ Place(t)' \in Inside
        BY <1>3 DEF Inside
    <2> QED BY <1>2, <2>1, StaysInside DEF BarrierRead, shared
<1> QED BY <1>1, <1>4, <1>5, <1>6, FollowsPhase DEF Inv

\* A thread of the graph computes, and arrives at a barrier of its phase.
LEMMA Advances ==
    ASSUME Inv, TypeOK', NEW t \in Threads, Moves(t),
           n_barrier' = n_barrier, last_graph' = last_graph, n_passed' = n_passed,
           pc[t] \in Computing \cup {"wake"}, pc'[t] \in Computing \cup {"read", "exit"},
           t # 0 => nth'[0] = nth[0],
           \A b \in 0 .. NNodes, h \in {0, 1} :
               Busy(b, h) /\ Between(pc[t], node_n[t], b, h) =>
                   \/ /\ \A u \in Active \ {t} : At(u, b, h) => At(u, b, h)'
                      /\ \/ Between(pc[t], node_n[t], b, h)'
                         \/ pc'[t] = "read" /\ Arrived(after[t], node_n[t], b, h)'
                   \/ /\ n_graph.threads = 1 /\ pc'[t] = after'[t]
                      /\ Arrived(after[t], node_n[t], b, h)'
    PROVE  Inv' /\ Follows
<1>1. /\ Place(t) = pc[t] /\ Place(t)' = pc'[t]
      /\ ~Waits(t) /\ ~Waits(t)' /\ ~Last(t) /\ ~Last(t)'
    BY DEF Place, Released, Waits, Last, Computing
<1>2. Place(t) \notin AtRest \cup MainAtRest \cup Inside
    BY <1>1 DEF AtRest, MainAtRest, WorkerPc, Computing, Inside
<1>3. t \in Active /\ ~Quiet /\ (t # 0 => last_graph[t] = n_graph)
    BY <1>2, OnItsWay
<1>4. Seen'
    <2>1. pc'[0] = "kick" => nth'[0] >= 1
        BY ActiveThreads DEF Inv, Seen, Moves, Computing
    <2> QED BY <2>1, KeepsSeen
<1>5. Unused'
    BY <1>3, KeepsUnused
<1>6. Counting'
    BY <1>1, KeepsCounting DEF Computing
<1>7. ASSUME NEW b \in 0 .. NNodes, NEW h \in {0, 1}, Busy(b, h)
      PROVE  Busy(b, h)' \/ Together(b, h)'
    <2>1. Between(pc[t], node_n[t], b, h)
        BY <1>1, <1>2, <1>7, OnItsWay
    <2>2. CASE /\ \A u \in Active \ {t} : At(u, b, h) => At(u, b, h)'
               /\ \/ Between(pc[t], node_n[t], b, h)'
                  \/ pc'[t] = "read" /\ Arrived(after[t], node_n[t], b, h)'
        <3>1. At(t, b, h)'
            BY <1>1, <1>3, <2>2 DEF At, Inside, Moves
        <3> QED BY <1>7, <2>2, <3>1, KeepsBusy DEF Inv
    <2>3. CASE /\ n_graph.threads = 1 /\ pc'[t] = after'[t]
               /\ Arrived(after[t], node_n[t], b, h)'
        <3>1. Active = {0} /\ Active' = {0} /\ n_graph'.threads = 1
            BY <2>3 DEF Active, Moves
        <3>2. t = 0
            BY <1>3, <3>1
        <3> QED BY <1>1, <2>3, <3>1, <3>2 DEF Together
    <2> QED BY <1>7, <2>1, <2>2, <2>3
<1>8. Follows
    BY <1>3, <1>7 DEF Follows
<1> QED BY <1>4, <1>5, <1>6, <1>8, FollowsPhase DEF Inv

LEMMA StartKeeps ==
    ASSUME Inv, NEW t \in Threads, ThreadStart(t)
    PROVE  Inv' /\ Follows
<1>1. n_graph.threads \in 0 .. NThreads /\ 0 \in 0 .. NNodes /\ NNodes \in Nat
    BY ActiveThreads, Constants DEF Inv
<1>2. TypeOK'
    BY <1>1 DEF Inv, TypeOK, ThreadStart, shared, Go, Computing
<1>3. Moves(t) /\ pc'[t] = "loop" /\ node_n'[t] = 0 /\ abort' = abort
    BY DEF Inv, TypeOK, ThreadStart, shared, Go, Moves
<1>4. ASSUME NEW b \in 0 .. NNodes, NEW h \in {0, 1}, Between("start", node_n[t], b, h)
      PROVE  /\ \A u \in Active \ {t} : At(u, b, h) => At(u, b, h)'
             /\ Between(pc[t], node_n[t], b, h)'
    <2>1. b = 0 /\ h = 0
        BY <1>4 DEF Between
    <2>2. Between(pc[t], node_n[t], b, h)'
        BY <1>1, <1>3, <2>1 DEF Between, Skipped
    <2> QED BY <1>3, <2>2, Others, ActiveThreads DEF Inv
<1>5. t # 0 => nth'[0] = nth[0]
    BY DEF ThreadStart, Inv, TypeOK
<1> QED BY <1>2, <1>3, <1>4, <1>5, Advances DEF ThreadStart, shared, Computing

LEMMA LoopKeeps ==
    ASSUME Inv, NEW t \in Threads, Loop(t)
    PROVE  Inv' /\ Follows
<1>1. n_graph.threads \in 0 .. NThreads /\ NNodes \in Nat /\ node_n[t] \in 0 .. NNodes
    BY ActiveThreads, Constants DEF Inv, TypeOK
<1>2. TypeOK'
    BY <1>1 DEF Inv, TypeOK, Loop, Arrive, shared, Go, Computing, AtBarrier
<1>3. Moves(t) /\ abort' = abort /\ (t # 0 => nth'[0] = nth[0])
    BY DEF Inv, TypeOK, Loop, Arrive, shared, Go, Moves
<1>4. pc[t] = "loop" /\ pc'[t] \in Computing \cup {"read", "exit"}
    BY DEF Inv, TypeOK, Loop, Arrive, Go, Computing
<1>5. ASSUME NEW b \in 0 .. NNodes, NEW h \in {0, 1}, Between("loop", node_n[t], b, h)
      PROVE  \/ /\ \A u \in Active \ {t} : At(u, b, h) => At(u, b, h)'
                /\ \/ Between(pc[t], node_n[t], b, h)'
                   \/ pc'[t] = "read" /\ Arrived(after[t], node_n[t], b, h)'
             \/ /\ n_graph.threads = 1 /\ pc'[t] = after'[t]
                /\ Arrived(after[t], node_n[t], b, h)'
    <2> DEFINE j == node_n[t]
    <2>1. \A u \in Active \ {t} : At(u, b, h) => At(u, b, h)'
        BY <1>3, Others, ActiveThreads DEF Inv
    <2>2. CASE /\ j >= NNodes \/ abort = j
               /\ Arrive(t, "exit") /\ node_n' = node_n
        <3>1. Arrived("exit", j, b, h)
            BY <1>1, <1>5, <2>2 DEF Between, Arrived, PastLast, First, Skipped
        <3>2. after'[t] = "exit" /\ pc'[t] = IF n_graph.threads = 1 THEN "exit" ELSE "read"
            BY <2>2 DEF Arrive, Go, Inv, TypeOK
        <3>3. Arrived("exit", j, b, h)'
            BY <1>3, <2>2, <3>1 DEF Arrived, PastLast, First, Skipped
        <3> QED BY <2>1, <3>2, <3>3
    <2>3. CASE /\ j < NNodes /\ abort # j
               /\ Graph[j + 1] = "empty"
               /\ node_n' = [node_n EXCEPT ![t] = @ + 1]
               /\ UNCHANGED <<pc, after>>
        <3>1. pc'[t] = "loop" /\ node_n'[t] = j + 1
            BY <1>4, <2>3 DEF Inv, TypeOK
        <3>2. h = 0 /\ Skipped(b, j)
            BY <1>1, <1>5, <2>3 DEF Between, PastLast
        <3>3. Skipped(b, j + 1)
            BY <1>1, <2>3, <3>2 DEF Skipped
        <3>4. Between(pc[t], node_n[t], b, h)'
            BY <1>3, <3>1, <3>2, <3>3 DEF Between, Skipped
        <3> QED BY <2>1, <3>4
    <2>4. CASE /\ j < NNodes /\ abort # j
               /\ Graph[j + 1] # "empty"
               /\ Go(t, "slice")
               /\ UNCHANGED <<node_n, after>>
        <3>1. pc'[t] = "slice" /\ node_n'[t] = j
            BY <2>4 DEF Inv, TypeOK, Go
        <3>2. h = 0 /\ First(b, j)
            BY <1>1, <1>5, <2>4 DEF Between, PastLast, First
        <3>3. Between(pc[t], node_n[t], b, h)'
            BY <1>3, <3>1, <3>2 DEF Between, First, Skipped
        <3> QED BY <2>1, <3>3
    <2> QED BY <2>2, <2>3, <2>4 DEF Loop
<1> QED BY <1>2, <1>3, <1>4, <1>5, Advances DEF Loop, shared, Computing

LEMMA SliceKeeps ==
    ASSUME Inv, NEW t \in Threads, Slice(t)
    PROVE  Inv' /\ Follows
<1>1. TypeOK'
    BY DEF Inv, TypeOK, Slice, shared, Go, Computing
<1>2. /\ Moves(t) /\ abort' = abort /\ nth' = nth /\ node_n' = node_n
      /\ pc'[t] = IF Graph[node_n[t] + 1] = "plain" THEN "next" ELSE "share"
    BY DEF Inv, TypeOK, Slice, shared, Go, Moves
<1>3. ASSUME NEW b \in 0 .. NNodes, NEW h \in {0, 1}, Between("slice", node_n[t], b, h)
      PROVE  /\ \A u \in Active \ {t} : At(u, b, h) => At(u, b, h)'
             /\ Between(pc[t], node_n[t], b, h)'
    <2>1. h = 0 /\ First(b, node_n[t])
        BY <1>3 DEF Between
    <2>2. node_n[t] \in 0 .. NNodes - 1
        BY <2>1, Constants DEF Inv, TypeOK, First
    <2>3. Graph[node_n[t] + 1] \in {"plain", "mulmat"}
        BY <2>1, <2>2, Constants DEF First
    <2>4. First(b, node_n[t])'
        BY <1>2, <2>1 DEF First, Skipped
    <2>5. Between(pc[t], node_n[t], b, h)'
        BY <1>2, <2>1, <2>3, <2>4 DEF Between, Half
    <2> QED BY <1>2, <2>5, Others, ActiveThreads DEF Inv
<1> QED BY <1>1, <1>2, <1>3, Advances DEF Slice, shared, Computing

LEMMA ShareKeeps ==
    ASSUME Inv, NEW t \in Threads, Share(t)
    PROVE  Inv' /\ Follows
<1>1. TypeOK'
    <2>1. nth[t] \in Nat /\ t \in Nat
        BY Constants DEF Inv, TypeOK, Threads
    <2> QED BY <2>1 DEF Inv, TypeOK, Share, Arrive, shared, Go, Computing, AtBarrier
<1>2. /\ Moves(t) /\ abort' = abort /\ nth' = nth /\ node_n' = node_n /\ after'[t] = "pick"
      /\ pc'[t] = IF n_graph.threads = 1 THEN "pick" ELSE "read"
    BY DEF Inv, TypeOK, Share, Arrive, shared, Go, Moves
<1>3. ASSUME NEW b \in 0 .. NNodes, NEW h \in {0, 1}, Between("share", node_n[t], b, h)
      PROVE  /\ \A u \in Active \ {t} : At(u, b, h) => At(u, b, h)'
             /\ Arrived(after[t], node_n[t], b, h)'
    <2>1. h = 0 /\ First(b, node_n[t]) /\ Graph[node_n[t] + 1] = "mulmat"
        BY <1>3 DEF Between
    <2>2. First(b, node_n[t])'
        BY <1>2, <2>1 DEF First, Skipped
    <2>3. Arrived(after[t], node_n[t], b, h)'
        BY <1>2, <2>1, <2>2 DEF Arrived
    <2> QED BY <1>2, <2>3, Others, ActiveThreads DEF Inv
<1>4. pc'[t] = "read" \/ (n_graph.threads = 1 /\ pc'[t] = after'[t])
    BY <1>2
<1> QED BY <1>1, <1>2, <1>3, <1>4, Advances DEF Share, Computing

LEMMA PickKeeps ==
    ASSUME Inv, NEW t \in Threads, Pick(t) \/ Chunk(t)
    PROVE  Inv' /\ Follows
<1>1. TypeOK'
    <2>1. current_chunk \in Nat /\ current_chunk + 1 \in Nat
        BY DEF Inv, TypeOK
    <2>2. CASE Pick(t)
        BY <2>2 DEF Inv, TypeOK, Pick, shared, Go, Computing
    <2>3. CASE Chunk(t)
        <3>1. pc' \in [Threads -> Pcs]
            BY <2>3, NewPc, PcsOK DEF Chunk, Inv
        <3>2. mine' \in [Threads -> Nat] /\ current_chunk' \in Nat
            BY <2>1, <2>3 DEF Inv, TypeOK, Chunk
        <3> QED BY <2>3, <3>1, <3>2 DEF Inv, TypeOK, Chunk, Pcs
    <2> QED BY <2>2, <2>3
<1>2. /\ Moves(t) /\ abort' = abort /\ nth' = nth /\ node_n' = node_n
      /\ n_barrier' = n_barrier /\ last_graph' = last_graph /\ n_passed' = n_passed
      /\ pc[t] \in {"pick", "chunk"} /\ pc'[t] \in {"pick", "chunk", "next"}
    BY DEF Inv, TypeOK, Pick, Chunk, shared, Go, Moves
<1>3. ASSUME NEW b \in 0 .. NNodes, NEW h \in {0, 1}, Between(pc[t], node_n[t], b, h)
      PROVE  /\ \A u \in Active \ {t} : At(u, b, h) => At(u, b, h)'
             /\ Between(pc[t], node_n[t], b, h)'
    <2>1. h = 1 /\ First(b, node_n[t]) /\ Graph[node_n[t] + 1] = "mulmat"
        BY <1>2, <1>3 DEF Between
    <2>2. First(b, node_n[t])'
        BY <1>2, <2>1 DEF First, Skipped
    <2>3. Between(pc[t], node_n[t], b, h)'
        BY <1>2, <2>1, <2>2 DEF Between, Half
    <2> QED BY <1>2, <2>3, Others, ActiveThreads DEF Inv
<1> QED BY <1>1, <1>2, <1>3, Advances DEF Computing

LEMMA NextNodeKeeps ==
    ASSUME Inv, NEW t \in Threads, NextNode(t)
    PROVE  Inv' /\ Follows
<1> DEFINE j == node_n[t]
<1>1. j \in Nat /\ NNodes \in Nat /\ j <= NNodes
    BY Constants DEF Inv, TypeOK
<1>2. pc[t] = "next" /\ Place(t) = "next"
    BY DEF NextNode, Place, Released
<1>3. j < NNodes
    <2>1. Place(t) \notin AtRest \cup MainAtRest \cup Inside
        BY <1>2 DEF AtRest, MainAtRest, WorkerPc, Inside
    <2>2. PICK b, h : Between("next", j, b, h)
        BY <1>2, <2>1, OnItsWay
    <2> QED BY <2>2 DEF Between, First
<1>4. abort' \in {abort, j + 1} /\ node_n' = [node_n EXCEPT ![t] = j + 1] /\ node_n'[t] = j + 1
    BY DEF NextNode, Inv, TypeOK
<1>5. TypeOK'
    <2>1. abort' \in -1 .. NNodes /\ node_n' \in [Threads -> 0 .. NNodes]
        BY <1>1, <1>3, <1>4 DEF Inv, TypeOK
    <2>2. pc' \in [Threads -> Pcs]
        BY NewPc, PcsOK DEF NextNode, Arrive, Inv
    <2>3. after' \in [Threads -> {"loop", "pick", "exit"}]
        BY DEF NextNode, Arrive, Inv, TypeOK
    <2> QED BY <2>1, <2>2, <2>3 DEF Inv, TypeOK, NextNode, Pcs
<1>6. /\ Moves(t) /\ nth' = nth
      /\ IF j + 1 < NNodes
         THEN after'[t] = "loop" /\ pc'[t] = IF n_graph.threads = 1 THEN "loop" ELSE "read"
         ELSE pc'[t] = "loop"
    BY DEF Inv, TypeOK, NextNode, Arrive, shared, Go, Moves
<1>7. ASSUME NEW b \in 0 .. NNodes, NEW h \in {0, 1}, Between("next", j, b, h)
      PROVE  \/ /\ \A u \in Active \ {t} : At(u, b, h) => At(u, b, h)'
                /\ \/ Between(pc[t], node_n[t], b, h)'
                   \/ pc'[t] = "read" /\ Arrived(after[t], node_n[t], b, h)'
             \/ /\ n_graph.threads = 1 /\ pc'[t] = after'[t]
                /\ Arrived(after[t], node_n[t], b, h)'
    <2>1. First(b, j) /\ h = Half(j) /\ b \in Nat
        BY <1>7, Constants DEF Between
    <2>2. /\ \A k \in Nat : First(b, k) => First(b, k)'
          /\ \A k \in Nat : Skipped(b, k) => Skipped(b, k)'
        BY <1>1, <1>4, <2>1, AbortBehind
    <2>3. ASSUME NEW u \in Active \ {t}, At(u, b, h)
          PROVE  At(u, b, h)'
        <3>1. u \in Threads /\ node_n[u] \in Nat
            BY ActiveThreads, Constants DEF Inv, TypeOK
        <3>2. /\ Place(u)' = Place(u) /\ after'[u] = after[u] /\ node_n'[u] = node_n[u]
              /\ last_graph'[u] = last_graph[u] /\ n_graph' = n_graph
            BY <1>6, <3>1, Others DEF Moves
        <3>3. Skipped(b, node_n[u]) => node_n[u] <= j
            BY <1>1, <2>1, <3>1 DEF First, Skipped
        <3>4. First(b, node_n[u] - 1) => First(b, node_n[u] - 1)'
            <4>1. First(b, node_n[u] - 1) => node_n[u] - 1 \in Nat
                BY <2>1, <3>1 DEF First, Skipped
            <4> QED BY <2>2, <3>2, <4>1
        <3>5. PastLast(node_n[u], b, h) => PastLast(node_n[u], b, h)'
            BY <3>2, <3>4 DEF PastLast, Half
        <3>6. Between(Place(u), node_n[u], b, h) => Between(Place(u), node_n[u], b, h)'
            BY <2>2, <3>1, <3>2, <3>5 DEF Between, Half
        <3>7. ~(Skipped(b, node_n[u]) /\ (node_n[u] = NNodes \/ abort = node_n[u]))
            BY <1>1, <1>3, <2>1, <3>1, <3>3 DEF First, Skipped
        <3>8. Arrived(after[u], node_n[u], b, h) => Arrived(after[u], node_n[u], b, h)'
            BY <2>2, <3>1, <3>2, <3>4, <3>5, <3>7 DEF Arrived, Half
        <3> QED BY <2>3, <3>2, <3>6, <3>8 DEF At, Late
    <2>4. First(b, node_n[t] - 1)'
        BY <1>1, <1>4, <2>1, <2>2
    <2>5. CASE j + 1 < NNodes
        <3>1. Arrived(after[t], node_n[t], b, h)'
            BY <1>1, <1>4, <1>6, <2>1, <2>4, <2>5 DEF Arrived, Half
        <3> QED BY <1>6, <2>3, <2>5, <3>1
    <2>6. CASE ~(j + 1 < NNodes)
        <3>1. PastLast(node_n[t], b, h)'
            BY <1>1, <1>3, <1>4, <2>1, <2>4, <2>6 DEF PastLast, Half
        <3>2. Between(pc[t], node_n[t], b, h)'
            BY <1>6, <2>6, <3>1 DEF Between
        <3> QED BY <2>3, <3>2
    <2> QED BY <2>5, <2>6
<1>8. pc'[t] \in {"loop", "read"}
    BY <1>6
<1> QED BY <1>2, <1>5, <1>6, <1>7, <1>8, Advances DEF NextNode, Computing

LEMMA IntervalSize ==
    ASSUME NEW n \in Nat
    PROVE  IsFiniteSet(0 .. n - 1) /\ Cardinality(0 .. n - 1) = n
<1>1. 0 \in Int /\ n - 1 \in Int
    OBVIOUS
<1>2. /\ IsFiniteSet(0 .. n - 1)
      /\ Cardinality(0 .. n - 1) = IF 0 > n - 1 THEN 0 ELSE (n - 1) - 0 + 1
    BY <1>1, FS_Interval
<1> QED BY <1>2

\* While one thread is the last at the barrier, no other one is on its way.
LEMMA NoneBeside ==
    ASSUME Inv, NEW t \in Threads, pc[t] \in {"read", "enter", "reset", "release"},
           NEW u \in Threads, Last(u)
    PROVE  u = t
<1>1. Place(t) = pc[t] /\ ~Waits(t)
    BY DEF Place, Released, Waits
<1>2. Place(t) \notin AtRest \cup MainAtRest
    BY <1>1 DEF AtRest, MainAtRest, WorkerPc
<1>3. t \in Active
    BY <1>2, OnItsWay
<1> QED BY <1>1, <1>3 DEF Inv, Counting, OthersWait

LEMMA EnterKeeps ==
    ASSUME Inv, NEW t \in Threads, BarrierEnter(t)
    PROVE  Inv' /\ Follows
<1>1. pc[t] = "enter" /\ n_passed[t] = n_barrier_passed /\ n_barrier' = n_barrier + 1
    BY DEF BarrierEnter, Inv, Counting
<1>2. /\ Moves(t) /\ n_graph' = n_graph /\ n_barrier_passed' = n_barrier_passed
      /\ n_passed' = n_passed
      /\ pc'[t] = IF n_barrier = n_graph.threads - 1 THEN "reset" ELSE "spin"
    BY DEF BarrierEnter, Inv, TypeOK, Go, Moves
<1>3. Place(t) = "enter" /\ Place(t)' = pc'[t]
    BY <1>1, <1>2 DEF Place, Released
<1>4. Follows /\ Unused' /\ t \in Active
    <2>1. Place(t) \in Inside /\ Place(t)' \in Inside
        BY <1>2, <1>3 DEF Inside
    <2> QED BY <1>2, <2>1, StaysInside DEF BarrierEnter
<1>5. Seen'
    <2>1. pc'[0] = "kick" => nth'[0] >= 1
        BY <1>2, ActiveThreads DEF BarrierEnter, Inv, Seen, Moves
    <2> QED BY <1>2, <2>1, KeepsSeen DEF BarrierEnter
<1>6. \A u \in Threads : ~Last(u)
    <2>1. ~Last(t)
        BY <1>1 DEF Last
    <2> QED BY <1>1, <2>1, NoneBeside
<1>7. n_barrier = Cardinality(Waiting)
    BY <1>6 DEF Inv, Counting
<1>8. Waiting \subseteq Active \ {t}
    <2>1. ASSUME NEW u \in Threads, Waits(u)
          PROVE  u \in Active /\ u # t
        <3>1. Place(u) = "spin"
            BY <2>1 DEF Place, Waits, Released
        <3>2. Place(u) \notin AtRest \cup MainAtRest
            BY <3>1 DEF AtRest, MainAtRest, WorkerPc
        <3> QED BY <1>1, <2>1, <3>2, OnItsWay DEF Waits
    <2> QED BY <2>1 DEF Waiting
<1>9. /\ IsFiniteSet(Active \ {t}) /\ Cardinality(Active \ {t}) = n_graph.threads - 1
      /\ n_graph.threads \in 1 .. NThreads
    <2>1. n_graph.threads \in 0 .. NThreads /\ NThreads \in Nat /\ n_graph.threads - 1 \in Int
        BY ActiveThreads, Constants DEF Inv
    <2>2. n_graph.threads \in 1 .. NThreads
        BY <1>4, <2>1 DEF Active
    <2>3. IsFiniteSet(Active) /\ Cardinality(Active) = n_graph.threads
        <3>1. n_graph.threads \in Nat
            BY <2>1
        <3> QED BY <3>1, IntervalSize DEF Active
    <2> QED BY <1>4, <2>2, <2>3, FS_RemoveElement
<1>10. /\ IsFiniteSet(Waiting) /\ n_barrier \in Nat /\ n_barrier <= n_graph.threads - 1
       /\ n_barrier = n_graph.threads - 1 => Waiting = Active \ {t}
    BY <1>7, <1>8, <1>9, FS_Subset, FS_CardinalityType
<1>11. TypeOK'
    <2>1. n_barrier' \in 0 .. NThreads
        BY <1>1, <1>9, <1>10, Constants
    <2> QED BY <2>1 DEF Inv, TypeOK, BarrierEnter, shared, Go, AtBarrier
<1>12. \A u \in Threads \ {t} : /\ Waits(u)' <=> Waits(u)
                                /\ ~Last(u)'
                                /\ pc'[u] = "enter" => n_passed'[u] = n_barrier_passed'
    BY <1>2, <1>6, Others DEF Inv, Counting, Moves
<1>13. CASE n_barrier = n_graph.threads - 1
    <2>1. pc'[t] = "reset" /\ Waiting = Active \ {t} /\ n_barrier' = n_graph'.threads
        BY <1>1, <1>2, <1>9, <1>10, <1>13
    <2>2. \A u \in Active \ {t} : Waits(u)'
        BY <1>12, <2>1, ActiveThreads DEF Waiting, Inv
    <2>3. OthersWait(t)' /\ Last(t)'
        BY <1>2, <2>1, <2>2 DEF OthersWait, Active, Last
    <2>4. Counting'
        BY <1>12, <2>1, <2>3 DEF Counting
    <2> QED BY <1>4, <1>5, <1>11, <2>4, FollowsPhase DEF Inv
<1>14. CASE n_barrier # n_graph.threads - 1
    <2>1. pc'[t] = "spin" /\ Waits(t)' /\ ~Last(t)'
        BY <1>1, <1>2, <1>14 DEF Waits, Last
    <2>2. Waiting' = Waiting \cup {t} /\ t \notin Waiting
        BY <1>1, <1>12, <2>1 DEF Waiting, Waits
    <2>3. n_barrier' = Cardinality(Waiting')
        BY <1>1, <1>7, <1>10, <2>2, FS_AddElement
    <2>4. Counting'
        BY <1>12, <2>1, <2>3 DEF Counting
    <2> QED BY <1>4, <1>5, <1>11, <2>4, FollowsPhase DEF Inv
<1> QED BY <1>13, <1>14

LEMMA ResetKeeps ==
    ASSUME Inv, NEW t \in Threads, BarrierReset(t)
    PROVE  Inv' /\ Follows
<1>1. TypeOK'
    BY Constants DEF BarrierReset, Inv, TypeOK, Go, AtBarrier
<1>2. /\ Moves(t) /\ n_graph' = n_graph /\ n_barrier_passed' = n_barrier_passed
      /\ n_barrier' = 0 /\ pc[t] = "reset" /\ pc'[t] = "release" /\ n_passed' = n_passed
    BY DEF BarrierReset, Inv, TypeOK, Go, Moves
<1>3. Place(t) = "reset" /\ Place(t)' = "release" /\ Last(t) /\ Last(t)'
    BY <1>2 DEF Place, Released, Last
<1>4. Follows /\ Unused'
    <2>1. Place(t) \in Inside /\ Place(t)' \in Inside
        BY <1>3 DEF Inside
    <2> QED BY <1>2, <2>1, StaysInside DEF BarrierReset
<1>5. Seen'
    <2>1. pc'[0] = "kick" => nth'[0] >= 1
        BY <1>2, ActiveThreads DEF BarrierReset, Inv, Seen, Moves
    <2> QED BY <1>2, <2>1, KeepsSeen DEF BarrierReset
<1>6. \A u \in Threads \ {t} : /\ Waits(u)' <=> Waits(u)
                               /\ ~Last(u)'
                               /\ pc'[u] = "enter" => n_passed'[u] = n_barrier_passed'
    <2>1. \A u \in Threads \ {t} : ~Last(u)
        BY <1>2, NoneBeside
    <2> QED BY <1>2, <2>1, Others DEF Inv, Counting, Moves
<1>7. OthersWait(t)'
    <2>1. OthersWait(t)
        BY <1>3 DEF Inv, Counting
    <2> QED BY <1>2, <1>6, <2>1, ActiveThreads DEF OthersWait, Active, Inv
<1>8. Counting'
    BY <1>2, <1>3, <1>6, <1>7 DEF Counting
<1> QED BY <1>1, <1>4, <1>5, <1>8, FollowsPhase DEF Inv

LEMMA ReleaseKeeps ==
    ASSUME Inv, NEW t \in Threads, BarrierRelease(t)
    PROVE  /\ Inv' /\ Follows
           /\ \A b \in 0 .. NNodes, h \in {0, 1} : Busy(b, h) => Together(b, h)'
<1>1. n_barrier_passed \in Nat /\ \A u \in Threads : n_passed[u] \in Nat
    BY DEF Inv, TypeOK
<1>2. TypeOK'
    <2>1. after[t] \in {"loop", "pick", "exit"}
        BY DEF Inv, TypeOK
    <2> QED BY <1>1, <2>1 DEF BarrierRelease, Inv, TypeOK, Go, Computing
<1>3. /\ pc[t] = "release" /\ pc'[t] = after[t] /\ after[t] \in {"loop", "pick", "exit"}
      /\ n_barrier_passed' = n_barrier_passed + 1 /\ n_graph' = n_graph
      /\ \A u \in Threads \ {t} : pc'[u] = pc[u]
    BY DEF BarrierRelease, Inv, TypeOK, Go
<1>4. Place(t) = "release" /\ Last(t) /\ ~Waits(t) /\ OthersWait(t) /\ n_barrier = 0
    BY <1>3 DEF Place, Released, Last, Inv, Counting, Waits
<1>5. Place(t) \notin AtRest \cup MainAtRest
    BY <1>4 DEF AtRest, MainAtRest, WorkerPc
<1>6. ~Quiet /\ n_graph'.threads >= 1
    BY <1>3, <1>5, OnItsWay DEF Busy
<1>7. t \in Active /\ Active' = Active /\ Active \subseteq Threads
    BY <1>3, <1>5, OnItsWay, ActiveThreads DEF Active, Inv
<1>8. ASSUME NEW b \in 0 .. NNodes, NEW h \in {0, 1}, Busy(b, h), NEW u \in Active
      PROVE  /\ Place(u)' = after'[u]
             /\ Arrived(after[u], node_n[u], b, h)'
             /\ u # 0 => last_graph'[u] = n_graph'
    <2>1. u \in Threads /\ Place(u) \in {"spin", "release"}
        BY <1>4, <1>7 DEF OthersWait, Place, Waits, Released
    <2>2. Arrived(after[u], node_n[u], b, h) /\ (u # 0 => last_graph[u] = n_graph)
        BY <1>8, <2>1 DEF Busy, At, Late, AtRest, WorkerPc, Between, Inside
    <2>3. Arrived(after[u], node_n[u], b, h)' /\ (u # 0 => last_graph'[u] = n_graph')
        BY <2>2 DEF BarrierRelease, Arrived, PastLast, First, Skipped
    <2>4. Place(u)' = after'[u]
        <3>1. CASE u = t
            BY <1>3, <3>1 DEF Place, Released, BarrierRelease
        <3>2. CASE u # t
            <4>1. pc[u] = "spin" /\ n_passed[u] = n_barrier_passed
                BY <1>4, <3>2 DEF OthersWait, Waits
            <4>2. Released(u)'
                BY <1>1, <1>3, <2>1, <3>2, <4>1 DEF Released, BarrierRelease
            <4> QED BY <4>2 DEF Place
        <3> QED BY <3>1, <3>2
    <2> QED BY <2>3, <2>4
<1>9. Follows /\ \A b \in 0 .. NNodes, h \in {0, 1} : Busy(b, h) => Together(b, h)'
    BY <1>6, <1>7, <1>8 DEF Together, Follows
<1>10. ASSUME NEW u \in Threads, u \notin Active, u # 0
       PROVE  Place(u)' = Place(u) /\ pc'[u] # "enter"
    <2>1. Place(u) \in AtRest /\ u # t
        BY <1>7, <1>10 DEF Inv, Unused
    <2>2. n_passed[u] <= n_barrier_passed /\ ~Waits(u)
        BY <2>1 DEF Inv, Seen, AtRest, WorkerPc, Waits, Place, Released
    <2>3. Released(u)' <=> Released(u)
        BY <1>1, <1>3, <2>1, <2>2 DEF Released, Waits, BarrierRelease
    <2> QED BY <1>3, <2>1, <2>3 DEF Place, BarrierRelease, AtRest, WorkerPc, Released
<1>11. Unused'
    BY <1>7, <1>10 DEF Inv, Unused
<1>12. Seen'
    <2>1. pc'[0] = "kick" => nth'[0] >= 1
        BY <1>3, ActiveThreads DEF BarrierRelease, Inv, Seen
    <2> QED BY <1>1, <1>3, <2>1 DEF BarrierRelease, Inv, Seen
<1>13. Counting'
    <2>1. \A u \in Threads : ~Last(u)'
        BY <1>3, NoneBeside DEF Last
    <2>2. \A u \in Threads : ~Waits(u)'
        BY <1>1, <1>3 DEF Inv, Seen, Waits, BarrierRelease
    <2>3. n_barrier' = Cardinality(Waiting')
        BY <1>4, <2>2, FS_EmptySet DEF Waiting, BarrierRelease
    <2>4. 0 \in Active
        BY <1>7, ActiveThreads DEF Active, Inv
    <2>5. \A u \in Threads : pc'[u] # "enter"
        BY <1>3, <1>4, <1>10, <2>4 DEF OthersWait, Waits
    <2> QED BY <2>1, <2>3, <2>5 DEF Counting
<1> QED BY <1>2, <1>9, <1>11, <1>12, <1>13, FollowsPhase DEF Inv

LEMMA LeaveKeeps ==
    ASSUME Inv, NEW t \in Threads, BarrierLeave(t)
    PROVE  Inv' /\ Follows
<1>1. after[t] \in {"loop", "pick", "exit"}
    BY DEF Inv, TypeOK
<1>2. TypeOK'
    BY <1>1 DEF BarrierLeave, Inv, TypeOK, Go, shared, Computing
<1>3. Moves(t) /\ pc[t] = "spin" /\ pc'[t] = after[t] /\ abort' = abort
    BY DEF BarrierLeave, Inv, TypeOK, Go, shared, Moves
<1>4. /\ Place(t)' = Place(t) /\ Place(t) = after[t]
      /\ ~Waits(t) /\ ~Waits(t)' /\ ~Last(t) /\ ~Last(t)'
    BY <1>1, <1>3 DEF Place, Released, Waits, Last, BarrierLeave
<1>5. Seen'
    <2>1. pc'[0] = "kick" => nth'[0] >= 1
        BY <1>1, <1>3, ActiveThreads DEF BarrierLeave, Inv, Seen, Moves
    <2> QED BY <1>3, <2>1, KeepsSeen DEF BarrierLeave
<1>6. Counting'
    BY <1>1, <1>3, <1>4, KeepsCounting DEF BarrierLeave, shared
<1>7. Unused'
    BY <1>3, <1>4, KeepsUnused DEF Inv, Unused
<1>8. ASSUME NEW b, NEW h, At(t, b, h)
      PROVE  At(t, b, h)'
    BY <1>3, <1>4, <1>8
       DEF At, Late, Between, Arrived, PastLast, First, Skipped, BarrierLeave, shared
<1>9. Follows
    <2>1. Quiet => Quiet'
        BY <1>3, <1>4, KeepsQuiet DEF Quiet, Inv, BarrierLeave
    <2>2. ASSUME NEW b, NEW h, Busy(b, h)
          PROVE  Busy(b, h)'
        <3>1. At(t, b, h)' \/ t \notin Active
            BY <1>8, <2>2 DEF Busy
        <3> QED BY <1>3, <2>2, <3>1, KeepsBusy, Others, ActiveThreads DEF Inv
    <2> QED BY <2>1, <2>2 DEF Follows
<1> QED BY <1>2, <1>5, <1>6, <1>7, <1>9, FollowsPhase DEF Inv

(***************************************************************************)
(* The workers between two graphs                                          *)
(***************************************************************************)
LEMMA RestKeeps ==
    ASSUME Inv, TypeOK', NEW w \in Workers, Moves(w), n_barrier' = n_barrier, abort' = abort,
           n_passed' = n_passed, nth' = nth,
           pc[w] \in AtRest, pc'[w] \in AtRest,
           last_graph'[w] = last_graph[w]
    PROVE  Inv' /\ Follows
<1>1. w \in Threads /\ w # 0
    BY DEF Workers
<1>2. /\ Place(w) = pc[w] /\ Place(w)' = pc'[w]
      /\ ~Waits(w) /\ ~Waits(w)' /\ ~Last(w) /\ ~Last(w)'
    BY DEF Place, Released, Waits, Last, AtRest, WorkerPc
<1>3. Seen'
    <2>1. pc'[0] = "kick" => nth'[0] >= 1
        BY <1>1, ActiveThreads DEF Inv, Seen, Moves
    <2> QED BY <1>1, <2>1, KeepsSeen
<1>4. Unused'
    BY <1>1, <1>2, KeepsUnused
<1>5. Counting'
    BY <1>1, <1>2, KeepsCounting DEF AtRest, WorkerPc
<1>6. Follows
    <2>1. Quiet => Quiet'
        BY <1>1, <1>2, KeepsQuiet DEF Quiet, Inv
    <2>2. ASSUME NEW b, NEW h, Busy(b, h)
          PROVE  Busy(b, h)'
        <3>1. At(w, b, h) => Late(w) /\ b = 0 /\ h = 0
            BY <1>2 DEF At, Between, Inside, AtRest, WorkerPc
        <3>2. Late(w) => Late(w)'
            BY <1>2 DEF Late, Moves
        <3>3. At(w, b, h)' \/ w \notin Active
            BY <2>2, <3>1, <3>2 DEF Busy, At
        <3> QED BY <1>1, <2>2, <3>3, KeepsBusy, Others, ActiveThreads DEF Inv
    <2> QED BY <2>1, <2>2 DEF Follows
<1> QED BY <1>3, <1>4, <1>5, <1>6, FollowsPhase DEF Inv

\* A worker that takes a graph is in its first phase, or is not of this graph.
LEMMA TakeKeeps ==
    ASSUME Inv, TypeOK', NEW w \in Workers, n_barrier' = n_barrier, abort' = abort,
           n_passed' = n_passed, nth' = nth, after' = after, node_n' = node_n,
           n_graph' = n_graph, n_barrier_passed' = n_barrier_passed,
           pc[w] \in WorkerPc, n_graph # last_graph[w],
           NEW idle \in WorkerPc, TakeGraph(w, idle)
    PROVE  Inv' /\ Follows
<1>1. w \in Threads /\ w # 0 /\ w \in Nat
    BY Constants DEF Workers, Threads
<1>2. /\ Moves(w) /\ last_graph'[w] = n_graph
      /\ pc'[w] = IF w < n_graph.threads THEN "start" ELSE idle
    BY DEF TakeGraph, Go, Moves, Inv, TypeOK, Workers
<1>3. w < n_graph.threads <=> w \in Active
    BY <1>1, ActiveThreads DEF Active, Inv
<1>4. /\ Place(w) = pc[w] /\ Place(w)' = pc'[w]
      /\ ~Waits(w) /\ ~Waits(w)' /\ ~Last(w) /\ ~Last(w)'
      /\ pc'[w] \notin {"kick", "enter"}
    BY <1>2 DEF Place, Released, Waits, Last, WorkerPc
<1>5. Seen'
    <2>1. pc'[0] = "kick" => nth'[0] >= 1
        BY <1>1, <1>2, ActiveThreads DEF Inv, Seen, Moves
    <2> QED BY <1>1, <1>2, <2>1, KeepsSeen
<1>6. Unused'
    BY <1>1, <1>2, <1>3, <1>4, KeepsUnused DEF AtRest
<1>7. Counting'
    BY <1>1, <1>2, <1>4, KeepsCounting
<1>8. Follows
    <2>1. ASSUME Quiet
          PROVE  Quiet'
        <3>1. w \notin Active
            BY <1>1, <2>1 DEF Quiet
        <3> QED BY <1>1, <1>2, <2>1, <3>1, KeepsQuiet DEF Inv
    <2>2. ASSUME NEW b, NEW h, Busy(b, h)
          PROVE  Busy(b, h)'
        <3>1. At(w, b, h) => b = 0 /\ h = 0
            BY <1>1, <1>4 DEF At, Between, Inside, WorkerPc
        <3>2. At(w, b, h)' \/ w \notin Active
            <4>1. CASE w \in Active
                <5>1. b = 0 /\ h = 0 /\ pc'[w] = "start"
                    BY <1>2, <1>3, <2>2, <3>1, <4>1 DEF Busy
                <5>2. Between(Place(w), node_n[w], b, h)'
                    BY <1>4, <5>1 DEF Between
                <5> QED BY <1>2, <5>2 DEF At
            <4> QED BY <4>1
        <3>3. \A u \in Active \ {w} : At(u, b, h) => At(u, b, h)'
            BY <1>1, <1>2, Others, ActiveThreads DEF Inv
        <3> QED BY <1>1, <1>2, <2>2, <3>2, <3>3, KeepsBusy DEF Inv
    <2> QED BY <2>1, <2>2 DEF Follows
<1> QED BY <1>5, <1>6, <1>7, <1>8, FollowsPhase DEF Inv

LEMMA WorkerKeeps ==
    ASSUME Inv, NEW w \in Workers, WorkerStep(w)
    PROVE  Inv' /\ Follows
<1>1. w \in Threads /\ w # 0
    BY DEF Workers
<1>2. CASE WorkerTop(w) \/ WorkerPause(w) \/ WorkerResume(w) \/ WorkerCheck(w) \/ PollFlags(w)
           \/ WorkerWake(w)
    <2>1. TypeOK'
        BY <1>1, <1>2 DEF WorkerTop, WorkerPause, WorkerResume, WorkerCheck, PollFlags,
              WorkerWake, Inv, TypeOK, Go, shared, WorkerPc
    <2>2. pc[w] \in AtRest /\ pc'[w] \in AtRest
        BY <1>1, <1>2 DEF WorkerTop, WorkerPause, WorkerResume, WorkerCheck, PollFlags,
              WorkerWake, Inv, TypeOK, Go, WorkerPc, AtRest
    <2>3. /\ Moves(w) /\ n_barrier' = n_barrier /\ abort' = abort /\ n_passed' = n_passed
          /\ nth' = nth /\ last_graph' = last_graph
        BY <1>2 DEF WorkerTop, WorkerPause, WorkerResume, WorkerCheck, PollFlags,
              WorkerWake, Inv, TypeOK, Go, shared, Moves
    <2> QED BY <2>1, <2>2, <2>3, RestKeeps
<1>3. CASE PollGraph(w)
    <2>1. /\ n_graph' = n_graph /\ n_barrier_passed' = n_barrier_passed
          /\ n_barrier' = n_barrier /\ abort' = abort /\ n_passed' = n_passed
          /\ nth' = nth /\ after' = after /\ node_n' = node_n /\ pc[w] \in WorkerPc
        BY <1>3 DEF PollGraph, shared, WorkerPc
    <2>2. TypeOK'
        <3>1. pc' \in [Threads -> Pcs]
            BY <1>1, <1>3, NewPc, PcsOK DEF PollGraph, TakeGraph, Inv
        <3>2. last_graph' \in [Threads -> [graph : Nat, threads : 0 .. NThreads]]
            BY <1>1, <1>3 DEF PollGraph, TakeGraph, Inv, TypeOK
        <3>3. sleeping' \subseteq Workers
            BY <1>1, <1>3 DEF PollGraph, Inv, TypeOK
        <3> QED BY <1>3, <2>1, <3>1, <3>2, <3>3 DEF Inv, TypeOK, PollGraph, shared, Pcs
    <2>3. CASE n_graph # last_graph[w] /\ TakeGraph(w, "lock")
        <3>1. "lock" \in WorkerPc
            BY DEF WorkerPc
        <3> QED BY <2>1, <2>2, <2>3, <3>1, TakeKeeps
    <2>4. CASE (Go(w, "poll") \/ Go(w, "lock")) /\ UNCHANGED last_graph
        <3>1. pc[w] \in AtRest /\ pc'[w] \in AtRest /\ Moves(w)
            BY <1>1, <2>1, <2>4 DEF Inv, TypeOK, Go, WorkerPc, AtRest, Moves
        <3> QED BY <2>1, <2>2, <2>4, <3>1, RestKeeps
    <2> QED BY <1>3, <2>3, <2>4 DEF PollGraph
<1>4. CASE WorkerLock(w)
    <2>1. /\ n_graph' = n_graph /\ n_barrier_passed' = n_barrier_passed
          /\ n_barrier' = n_barrier /\ abort' = abort /\ n_passed' = n_passed
          /\ nth' = nth /\ after' = after /\ node_n' = node_n /\ pc[w] \in WorkerPc
        BY <1>4 DEF WorkerLock, shared, WorkerPc
    <2>2. TypeOK'
        <3>1. pc' \in [Threads -> Pcs]
            BY <1>1, <1>4, NewPc, PcsOK DEF WorkerLock, TakeGraph, Inv
        <3>2. last_graph' \in [Threads -> [graph : Nat, threads : 0 .. NThreads]]
            BY <1>1, <1>4 DEF WorkerLock, TakeGraph, Inv, TypeOK
        <3>3. sleeping' \subseteq Workers
            BY <1>1, <1>4 DEF WorkerLock, Inv, TypeOK
        <3> QED BY <1>4, <2>1, <3>1, <3>2, <3>3 DEF Inv, TypeOK, WorkerLock, shared, Pcs
    <2>3. CASE n_graph # last_graph[w] /\ TakeGraph(w, "top")
        <3>1. "top" \in WorkerPc
            BY DEF WorkerPc
        <3> QED BY <2>1, <2>2, <2>3, <3>1, TakeKeeps
    <2>4. CASE (Go(w, "top") \/ Go(w, "waiting")) /\ UNCHANGED last_graph
        <3>1. pc[w] \in AtRest /\ pc'[w] \in AtRest /\ Moves(w)
            BY <1>1, <2>1, <2>4 DEF Inv, TypeOK, Go, WorkerPc, AtRest, Moves
        <3> QED BY <2>1, <2>2, <2>4, <3>1, RestKeeps
    <2> QED BY <1>4, <2>3, <2>4 DEF WorkerLock
<1> QED BY <1>2, <1>3, <1>4 DEF WorkerStep

(***************************************************************************)
(* The caller                                                              *)
(***************************************************************************)
LEMMA MainRestKeeps ==
    ASSUME Inv, TypeOK', Moves(0), n_barrier' = n_barrier,
           n_passed' = n_passed, last_graph' = last_graph,
           pc[0] \in MainAtRest, pc'[0] \in MainAtRest,
           pc'[0] = "kick" => nth'[0] >= 1
    PROVE  Inv' /\ Follows
<1>1. 0 \in Threads
    BY ActiveThreads DEF Inv
<1>2. /\ Place(0) = pc[0] /\ Place(0)' = pc'[0]
      /\ ~Waits(0) /\ ~Waits(0)' /\ ~Last(0) /\ ~Last(0)'
    BY DEF Place, Released, Waits, Last, MainAtRest
<1>3. Quiet /\ \A b, h : ~Busy(b, h)
    <2>1. ASSUME NEW b, NEW h, Busy(b, h)
          PROVE  FALSE
        <3>1. At(0, b, h)
            BY <2>1, ActiveThreads DEF Busy, Active, Inv
        <3> QED BY <1>2, <3>1 DEF At, Late, Between, Inside, MainAtRest
    <2> QED BY <2>1 DEF Inv, Phase
<1>4. Follows
    <2>1. Quiet'
        BY <1>1, <1>2, <1>3, KeepsQuiet DEF Inv
    <2>2. \A b, h : ~Busy(b, h)
        BY <1>3
    <2> QED BY <2>1, <2>2 DEF Follows
<1>5. Seen'
    BY <1>1, KeepsSeen
<1>6. Unused'
    BY <1>1, KeepsUnused
<1>7. Counting'
    BY <1>1, <1>2, KeepsCounting DEF MainAtRest
<1> QED BY <1>4, <1>5, <1>6, <1>7, FollowsPhase DEF Inv

LEMMA CallerKeeps ==
    ASSUME Inv, PauseOrResume \/ Free \/ Join \/ \E n \in 1 .. NThreads : Compute(n)
    PROVE  Inv' /\ Follows
<1>1. 0 \in Threads
    BY ActiveThreads DEF Inv
<1>2. CASE PauseOrResume \/ Free \/ Join
    <2>1. TypeOK'
        BY <1>1, <1>2 DEF PauseOrResume, Free, Join, Inv, TypeOK, Go, shared, MainPc
    <2>2. /\ Moves(0) /\ n_barrier' = n_barrier /\ n_passed' = n_passed
          /\ last_graph' = last_graph /\ pc[0] \in MainAtRest /\ pc'[0] \in MainAtRest \ {"kick"}
        BY <1>1, <1>2
           DEF PauseOrResume, Free, Join, Inv, TypeOK, Go, shared, Moves, MainAtRest
    <2> QED BY <2>1, <2>2, MainRestKeeps
<1>3. ASSUME NEW n \in 1 .. NThreads, Compute(n)
      PROVE  Inv' /\ Follows
    <2>1. n \in 0 .. NThreads /\ n >= 1
        BY Constants
    <2>2. graphs' \in 0 .. MaxGraphs /\ abort' \in -1 .. NNodes
        BY <1>3, Constants DEF Compute, Inv, TypeOK
    <2>3. TypeOK'
        BY <1>1, <1>3, <2>1, <2>2 DEF Compute, Inv, TypeOK, Go, MainPc
    <2>4. /\ Moves(0) /\ n_barrier' = n_barrier /\ n_passed' = n_passed
          /\ last_graph' = last_graph /\ pc[0] \in MainAtRest /\ pc'[0] \in MainAtRest
          /\ nth'[0] = n
        BY <1>1, <1>3 DEF Compute, Inv, TypeOK, Go, Moves, MainAtRest
    <2> QED BY <2>1, <2>3, <2>4, MainRestKeeps
<1> QED BY <1>2, <1>3

LEMMA ExitKeeps ==
    ASSUME Inv, NEW t \in Threads, Exit(t)
    PROVE  Inv' /\ Follows
<1>1. TypeOK'
    BY DEF Exit, Inv, TypeOK, Go, shared, MainPc, WorkerPc
<1>2. /\ Moves(t) /\ n_barrier' = n_barrier /\ n_passed' = n_passed /\ abort' = abort
      /\ last_graph' = last_graph /\ nth' = nth
      /\ pc[t] = "exit" /\ pc'[t] = IF t = 0 THEN "idle" ELSE "top"
    BY DEF Exit, Inv, TypeOK, Go, shared, Moves
<1>3. CASE t = 0
    BY <1>1, <1>2, <1>3, MainRestKeeps DEF MainAtRest
<1>4. CASE t # 0
    BY <1>1, <1>2, <1>4, RestKeeps DEF AtRest, WorkerPc, Workers
<1> QED BY <1>3, <1>4

\* The new graph begins: no thread is on its way, and no worker has seen it.
LEMMA KickoffKeeps ==
    ASSUME Inv, Kickoff
    PROVE  /\ Inv' /\ Quiet /\ Busy(0, 0)'
           /\ \A t \in Active' : IF t = 0 THEN Place(t)' = "wake" ELSE Late(t)'
<1>1. 0 \in Threads /\ 0 \in 0 .. NNodes /\ 0 \in {0, 1} /\ n_graph.graph \in Nat
    BY ActiveThreads, Constants DEF Inv, TypeOK
<1>2. nth[0] \in 0 .. NThreads /\ nth[0] >= 1
    BY <1>1 DEF Kickoff, Inv, TypeOK, Seen
<1>3. n_graph'.graph = n_graph.graph + 1 /\ n_graph'.threads = nth[0]
    BY DEF Kickoff
<1>4. TypeOK'
    <2>1. n_graph' \in [graph : Nat, threads : 0 .. NThreads]
        BY <1>1, <1>2 DEF Kickoff
    <2> QED BY <1>1, <2>1 DEF Kickoff, Inv, TypeOK, Go, MainPc
<1>5. /\ pc[0] = "kick" /\ pc'[0] = "wake" /\ n_passed' = n_passed
      /\ n_barrier_passed' = n_barrier_passed /\ n_barrier' = n_barrier
      /\ \A t \in Threads \ {0} : pc'[t] = pc[t]
    BY <1>1 DEF Kickoff, Inv, TypeOK, Go
<1>6. Place(0) = "kick" /\ Place(0)' = "wake"
    BY <1>5 DEF Place, Released
<1>7. Quiet
    <2>1. ASSUME NEW b, NEW h, Busy(b, h)
          PROVE  FALSE
        <3>1. At(0, b, h)
            BY <2>1, ActiveThreads DEF Busy, Active, Inv
        <3> QED BY <1>6, <3>1 DEF At, Late, Between, Inside
    <2> QED BY <2>1 DEF Inv, Phase
<1>8. ASSUME NEW t \in Threads \ {0}
      PROVE  /\ Place(t) \in AtRest /\ Place(t)' = Place(t) /\ last_graph'[t] # n_graph'
             /\ pc'[t] # "enter" /\ ~Last(t)'
             /\ Waits(t)' <=> Waits(t)
             /\ ~Last(t)
    <2>1. Place(t) \in AtRest
        BY <1>7 DEF Quiet, Inv, Unused
    <2>2. Place(t)' = Place(t) /\ (Waits(t)' <=> Waits(t))
        BY <1>5 DEF Place, Released, Waits, Kickoff
    <2>3. pc[t] \notin {"enter", "reset", "release"}
        BY <2>1 DEF Place, Released, AtRest, WorkerPc
    <2>4. last_graph'[t] # n_graph'
        BY <1>1, <1>3 DEF Kickoff, Inv, Seen, TypeOK
    <2> QED BY <1>5, <2>1, <2>2, <2>3, <2>4 DEF Last
<1>9. Seen'
    <2>1. \A t \in Threads : last_graph'[t].graph <= n_graph'.graph
        <3>1. \A t \in Threads : last_graph[t].graph \in Nat
            BY DEF Inv, TypeOK
        <3> QED BY <1>1, <1>3, <3>1 DEF Kickoff, Inv, Seen
    <2> QED BY <1>5, <2>1 DEF Inv, Seen
<1>10. Unused'
    BY <1>8 DEF Unused
<1>11. Counting'
    <2>1. ~Waits(0) /\ ~Waits(0)' /\ ~Last(0) /\ ~Last(0)'
        BY <1>5 DEF Waits, Last
    <2>2. Waiting' = Waiting
        BY <1>8, <2>1 DEF Waiting
    <2>3. n_barrier' = Cardinality(Waiting')
        BY <1>5, <1>8, <2>1, <2>2 DEF Inv, Counting
    <2> QED BY <1>5, <1>8, <2>1, <2>3 DEF Counting
<1>12. ASSUME NEW t \in Active'
       PROVE  IF t = 0 THEN Place(t)' = "wake" ELSE Late(t)'
    <2>1. t \in Threads
        BY <1>2, <1>3, Constants DEF Active, Threads
    <2> QED BY <1>6, <1>8, <2>1 DEF Late
<1>13. Busy(0, 0)'
    <2>1. \A t \in Active' : At(t, 0, 0)'
        BY <1>12 DEF At, Between
    <2> QED BY <1>2, <1>3, <2>1 DEF Busy
<1>14. Phase'
    BY <1>1, <1>13 DEF Phase
<1> QED BY <1>4, <1>7, <1>9, <1>10, <1>11, <1>12, <1>13, <1>14 DEF Inv

LEMMA WakeKeeps ==
    ASSUME Inv, KickoffWake
    PROVE  Inv' /\ Follows
<1>1. 0 \in Threads
    BY ActiveThreads DEF Inv
<1>2. TypeOK'
    BY <1>1 DEF KickoffWake, Inv, TypeOK, Go, Computing
<1>3. /\ Moves(0) /\ abort' = abort /\ pc[0] = "wake" /\ pc'[0] = "start"
      /\ n_barrier' = n_barrier /\ last_graph' = last_graph /\ n_passed' = n_passed
    BY <1>1 DEF KickoffWake, Inv, TypeOK, Go, Moves
<1>4. ASSUME NEW b \in 0 .. NNodes, NEW h \in {0, 1}, Between("wake", node_n[0], b, h)
      PROVE  /\ \A u \in Active \ {0} : At(u, b, h) => At(u, b, h)'
             /\ Between(pc[0], node_n[0], b, h)'
    <2>1. Between(pc[0], node_n[0], b, h)'
        BY <1>3, <1>4 DEF Between
    <2> QED BY <1>3, <2>1, Others, ActiveThreads DEF Inv
<1> QED BY <1>1, <1>2, <1>3, <1>4, Advances DEF Computing

LEMMA SleepKeeps ==
    ASSUME Inv, TypeOK',
           UNCHANGED <<n_graph, n_barrier, n_barrier_passed, abort, pc, last_graph, nth,
                       node_n, n_passed, after>>
    PROVE  Inv' /\ Follows
<1>1. /\ \A t : /\ Waits(t)' <=> Waits(t)
                /\ Place(t)' = Place(t)
                /\ Last(t)' <=> Last(t)
      /\ Active' = Active /\ Waiting' = Waiting
    BY DEF Waits, Place, Released, Last, Active, Waiting
<1>2. Seen' /\ Unused'
    BY <1>1 DEF Inv, Seen, Unused
<1>3. Counting'
    BY <1>1 DEF Inv, Counting, OthersWait
<1>4. \A t, b, h : At(t, b, h) => At(t, b, h)'
    BY <1>1 DEF At, Late, Between, Arrived, PastLast, First, Skipped
<1>5. Follows
    BY <1>1, <1>4 DEF Follows, Quiet, Busy
<1> QED BY <1>2, <1>3, <1>5, FollowsPhase DEF Inv

(***************************************************************************)
(* The invariant, and what follows from it                                 *)
(***************************************************************************)
LEMMA InitInv == Init => Inv
<1> SUFFICES ASSUME Init
             PROVE  Inv
    OBVIOUS
<1>1. TypeOK
    <2>1. /\ 0 \in Nat /\ 0 \in 0 .. NThreads /\ 0 \in 0 .. NNodes /\ -1 \in -1 .. NNodes
          /\ 0 \in 0 .. MaxGraphs
        BY Constants
    <2> QED BY <2>1 DEF Init, TypeOK, MainPc, WorkerPc
<1>2. Active = {} /\ 0 \in Threads
    BY Constants DEF Init, Active, Threads
<1>3. \A t \in Threads : /\ pc[t] = IF t = 0 THEN "idle" ELSE "top"
                         /\ Place(t) = pc[t] /\ ~Waits(t) /\ ~Last(t)
    BY DEF Init, Place, Released, Waits, Last
<1>4. Seen
    BY <1>2, <1>3 DEF Init, Seen
<1>5. Unused
    BY <1>3 DEF Unused, AtRest, WorkerPc
<1>6. Phase
    BY <1>2, <1>3 DEF Phase, Quiet, MainAtRest
<1>7. Counting
    <2>1. Waiting = {}
        BY <1>3 DEF Waiting
    <2> QED BY <1>3, <2>1, FS_EmptySet DEF Counting, Init
<1> QED BY <1>1, <1>4, <1>5, <1>6, <1>7 DEF Inv

LEMMA NextFollows ==
    ASSUME Inv, [Next]_vars, ~Kickoff
    PROVE  Inv' /\ Follows
<1>1. ASSUME NEW t \in Threads, ComputeStep(t)
      PROVE  Inv' /\ Follows
    BY <1>1, ReadKeeps, EnterKeeps, ResetKeeps, ReleaseKeeps, LeaveKeeps, StartKeeps,
       LoopKeeps, SliceKeeps, ShareKeeps, PickKeeps, NextNodeKeeps, ExitKeeps
       DEF ComputeStep
<1>2. ASSUME NEW w \in Workers, SpuriousWake(w)
      PROVE  Inv' /\ Follows
    <2>1. TypeOK'
        BY <1>2 DEF SpuriousWake, Inv, TypeOK, shared
    <2> QED BY <1>2, <2>1, SleepKeeps DEF SpuriousWake, shared
<1>3. CASE UNCHANGED vars
    <2>1. TypeOK'
        BY <1>3 DEF vars, Inv, TypeOK, shared
    <2> QED BY <1>3, <2>1, SleepKeeps DEF vars, shared
<1> QED BY <1>1, <1>2, <1>3, WorkerKeeps, CallerKeeps, WakeKeeps DEF Next, MainStep

LEMMA NextInv == Inv /\ [Next]_vars => Inv'
BY KickoffKeeps, NextFollows

\* The variables keep their types, for any number of threads and any graph; so the counter
\* of the barrier (ggml_barrier) never exceeds the number of threads, and no thread works
\* on a node behind the last (ggml_graph_compute_thread).
THEOREM PoolTypeOK == Spec => []TypeOK
<1>1. Inv => TypeOK
    BY DEF Inv
<1> QED BY <1>1, InitInv, NextInv, PTL DEF Spec

\* Between two graphs no worker executes the old one, so that ggml_graph_compute() may
\* reset the parameters that the workers read.
THEOREM PoolQuiet == Spec => []QuietBetweenGraphs
<1>1. ASSUME Inv, pc[0] \in {"idle", "kick", "join", "freed"}, NEW w \in Workers
      PROVE  /\ pc[w] \notin Computing
             /\ pc[w] \in AtBarrier => pc[w] = "spin" /\ n_passed[w] # n_barrier_passed
    <2>1. Place(0) = pc[0] /\ 0 \in Threads
        BY <1>1, ActiveThreads DEF Place, Released, Inv
    <2>2. ASSUME NEW b, NEW h, Busy(b, h)
          PROVE  FALSE
        <3>1. At(0, b, h)
            BY <1>1, <2>2, ActiveThreads DEF Busy, Active, Inv
        <3> QED BY <1>1, <2>1, <3>1 DEF At, Late, Between, Inside
    <2>3. Quiet
        BY <1>1, <2>2 DEF Inv, Phase
    <2>4. Place(w) \in AtRest
        BY <1>1, <2>3 DEF Quiet, Inv, Unused, Workers
    <2> QED BY <2>4 DEF Place, Released, AtRest, WorkerPc, Computing, AtBarrier
<1>2. Inv => QuietBetweenGraphs
    BY <1>1 DEF QuietBetweenGraphs
<1> QED BY <1>2, InitInv, NextInv, PTL DEF Spec

-----------------------------------------------------------------------------
(***************************************************************************)
(* What is computed                                                        *)
(***************************************************************************)
\* No item of stage s was computed.
Untouched(s) == \A i \in Items : done[s][i] = 0

\* Thread t has computed its slice of node k, the first of its phase.
Sliced(t, k) ==
    /\ ~Late(t) /\ Place(t) \notin {"wake", "start"}
    /\ node_n[t] > k \/ (node_n[t] = k /\ Place(t) \notin {"loop", "slice"})
\* Thread t is at the barrier before the chunks are handed out.
Shared(t) == ~Late(t) /\ Place(t) \in Inside \cup {"pick"} /\ after[t] = "pick"
\* Thread t has a chunk, mine[t], that is not computed yet.
Holds(t) == Place(t) \in {"pick", "chunk"}
\* Thread t has read the number of threads.
Informed(t) == Late(t) \/ Place(t) = "start" \/ nth[t] = n_graph.threads

SliceWork(b) ==
    /\ \A k \in b .. NNodes - 1 : First(b, k) =>
          \A i \in Items :
             done[2 * k][i] = IF i \in Active /\ Sliced(i, k) THEN 1 ELSE 0
    /\ \A t \in Active : Shared(t) => mine[t] = t /\ (t = 0 => current_chunk = n_graph.threads)

ChunkWork(b) ==
    LET n == n_graph.threads IN
    /\ b < NNodes /\ Graph[b + 1] = "mulmat" /\ abort # b
    /\ n <= current_chunk
    /\ \A t \in Active : IF Holds(t) THEN mine[t] < current_chunk ELSE Chunks(n) <= current_chunk
    /\ \A t \in Active : Place(t) = "chunk" => mine[t] < Chunks(n)
    /\ \A t \in Active, u \in Active : t # u /\ Holds(t) /\ Holds(u) => mine[t] # mine[u]
    /\ \A c \in Items :
          done[2 * b + 1][c] =
             IF /\ c < Chunks(n) /\ c < current_chunk
                /\ \A t \in Active : Holds(t) => mine[t] # c
             THEN 1 ELSE 0

\* What was computed when the threads are in the phase b, h.
Work(b, h) ==
    /\ abort = -1 \/ abort >= b
    /\ \A s \in Stages : s < 2 * b + h => Complete(s, n_graph.threads)
    /\ \A s \in Stages : s >= 2 * b + h /\ (\A k \in b .. NNodes - 1 : First(b, k) => s # 2 * k + h)
                         => Untouched(s)
    /\ h = 0 => SliceWork(b)
    /\ h = 1 => ChunkWork(b)
    /\ \A t \in Active : Informed(t)

Whole == \A s \in Stages : IF s < 2 * Ended THEN Complete(s, n_graph.threads) ELSE Untouched(s)

Result ==
    /\ Place(0) = "exit" => Whole
    /\ pc[0] = "kick" => done = NothingDone /\ abort = -1

WorkPhase ==
    \/ Quiet /\ Result
    \/ \E b \in 0 .. NNodes, h \in {0, 1} : Busy(b, h) /\ Work(b, h)

WorkInv == Inv /\ done \in [Stages -> [Items -> Nat]] /\ WorkPhase

(***************************************************************************)
(* Stages and phases                                                       *)
(***************************************************************************)
LEMMA StageItems ==
    ASSUME NEW k \in 0 .. NNodes - 1, NEW n \in Nat
    PROVE  /\ 2 * k \in Stages /\ 2 * k + 1 \in Stages
           /\ ItemsOf(2 * k, n) = IF Graph[k + 1] = "empty" THEN {} ELSE 0 .. n - 1
           /\ ItemsOf(2 * k + 1, n) =
                 IF Graph[k + 1] = "mulmat" THEN 0 .. Chunks(n) - 1 ELSE {}
<1>1. k \in Nat /\ NNodes \in Nat /\ k <= NNodes - 1
    BY Constants
<1>2. /\ (2 * k) \div 2 = k /\ (2 * k) % 2 = 0
      /\ (2 * k + 1) \div 2 = k /\ (2 * k + 1) % 2 = 1
    BY <1>1
<1>3. Graph[k + 1] \in {"empty", "plain", "mulmat"}
    BY Constants
<1>4. 2 * k \in Stages /\ 2 * k + 1 \in Stages
    BY <1>1 DEF Stages
<1> QED BY <1>2, <1>3, <1>4 DEF ItemsOf

LEMMA StageNode ==
    ASSUME NEW s \in Stages
    PROVE  \E k \in 0 .. NNodes - 1 : s = 2 * k \/ s = 2 * k + 1
<1>1. s \in Nat /\ s <= 2 * NNodes - 1 /\ NNodes \in Nat
    BY Constants DEF Stages
<1>2. s \div 2 \in 0 .. NNodes - 1 /\ (s = 2 * (s \div 2) \/ s = 2 * (s \div 2) + 1)
    BY <1>1
<1> QED BY <1>2

LEMMA ItemRange ==
    ASSUME NEW n \in 1 .. NThreads
    PROVE  /\ Chunks(n) \in Nat /\ n <= Chunks(n)
           /\ 0 .. n - 1 \subseteq Items /\ 0 .. Chunks(n) - 1 \subseteq Items
           /\ n >= Chunks(n) => n = Chunks(n)
BY Constants DEF Chunks, Items

\* The first node that a phase computes is one.
LEMMA OneFirst ==
    ASSUME NEW b \in Nat, NEW m \in Nat, NEW n \in Nat, First(b, m)', First(b, n)'
    PROVE  m = n
BY Constants DEF First, Skipped

LEMMA OneFirstNow ==
    ASSUME NEW b \in Nat, NEW m \in Nat, NEW n \in Nat, First(b, m), First(b, n)
    PROVE  m = n
BY Constants DEF First, Skipped

\* The stages of nodes that are skipped have no items.
LEMMA NoItems ==
    ASSUME NEW b \in Nat, NEW j \in Nat, NEW n \in Nat, NEW s \in Stages,
           \A i \in b .. j - 1 : Graph[i + 1] = "empty", s >= 2 * b, s < 2 * j
    PROVE  ItemsOf(s, n) = {}
<1>1. PICK k \in 0 .. NNodes - 1 : s = 2 * k \/ s = 2 * k + 1
    BY StageNode
<1>2. k \in b .. j - 1
    BY <1>1, Constants
<1> QED BY <1>1, <1>2, StageItems

(***************************************************************************)
(* The end of a phase                                                      *)
(***************************************************************************)
LEMMA Size ==
    ASSUME TypeOK', NEW b, NEW h, Together(b, h)'
    PROVE  /\ n_graph'.threads \in 1 .. NThreads /\ 0 \in Active' /\ Active' \subseteq Threads
           /\ Active' = 0 .. n_graph'.threads - 1
           /\ \A t \in Active' : node_n'[t] \in Nat
<1>1. n_graph'.threads \in 0 .. NThreads
    BY DEF TypeOK
<1>2. n_graph'.threads \in 1 .. NThreads
    BY <1>1, Constants DEF Together
<1>3. Active' = 0 .. n_graph'.threads - 1
    BY DEF Active
<1>4. Active' \subseteq Threads /\ 0 \in Active'
    BY <1>2, <1>3, Constants DEF Threads
<1>5. \A t \in Threads : node_n'[t] \in Nat
    BY Constants DEF TypeOK
<1> QED BY <1>2, <1>3, <1>4, <1>5

\* When all have left the stage that the phase computes, it is complete.
LEMMA StageComplete ==
    ASSUME TypeOK', NEW b \in 0 .. NNodes, NEW h \in {0, 1}, Together(b, h)', Work(b, h)',
           NEW k \in b .. NNodes - 1, First(b, k)'
    PROVE  Complete(2 * k + h, n_graph.threads)'
<1> DEFINE n == n_graph'.threads
<1>1. /\ n \in 1 .. NThreads /\ 0 \in Active' /\ Active' \subseteq Threads
      /\ Active' = 0 .. n - 1
      /\ \A t \in Active' : node_n'[t] \in Nat
    BY Size
<1>2. b \in Nat /\ k \in Nat /\ k \in 0 .. NNodes - 1 /\ NNodes \in Nat
    BY Constants
<1>3. n \in Nat /\ Graph[k + 1] # "empty" /\ abort' # k
    BY <1>1, Constants DEF First
<1>4. CASE h = 0
    <2>1. ASSUME NEW t \in Active'
          PROVE  Sliced(t, k)'
        <3>1. /\ Place(t)' = after'[t]
              /\ Arrived(after[t], node_n[t], b, 0)'
              /\ t # 0 => last_graph'[t] = n_graph'
            BY <1>4 DEF Together
        <3>2. ~Late(t)' /\ node_n'[t] \in Nat
            BY <1>1, <3>1 DEF Late
        <3>3. CASE after'[t] = "pick" /\ First(b, node_n[t])'
            <4>1. node_n'[t] = k
                <5>1. PICK m \in Nat : m = node_n'[t]
                    BY <3>2
                <5> QED BY <1>2, <3>3, <5>1, OneFirst DEF First, Skipped
            <4> QED BY <3>1, <3>2, <3>3, <4>1 DEF Sliced
        <3>4. CASE after'[t] \in {"loop", "exit"} /\ First(b, node_n[t] - 1)'
            <4>1. node_n'[t] - 1 = k
                BY <1>2, <3>2, <3>4 DEF First, Skipped
            <4>2. node_n'[t] > k
                BY <1>2, <3>2, <4>1
            <4> QED BY <3>1, <3>2, <3>4, <4>2 DEF Sliced
        <3>5. CASE Skipped(b, node_n[t])' /\ (node_n'[t] = NNodes \/ abort' = node_n'[t])
            BY <1>2, <3>2, <3>5 DEF First, Skipped
        <3>6. PastLast(node_n[t], b, 0)' => First(b, node_n[t] - 1)'
            BY DEF PastLast
        <3> QED BY <3>1, <3>3, <3>4, <3>5, <3>6 DEF Arrived
    <2>2. \A i \in Items : i \in Active' => done'[2 * k][i] = 1
        BY <1>4, <2>1 DEF Work, SliceWork
    <2>3. ItemsOf(2 * k, n) = 0 .. n - 1 /\ 0 .. n - 1 \subseteq Items
        BY <1>1, <1>2, <1>3, StageItems, ItemRange
    <2>4. \A i \in ItemsOf(2 * k, n) : done'[2 * k][i] = 1
        BY <1>1, <2>2, <2>3
    <2>5. 2 * k + h = 2 * k
        BY <1>2, <1>4
    <2> QED BY <2>4, <2>5 DEF Complete
<1>5. CASE h = 1
    <2>1. ChunkWork(b)'
        BY <1>5 DEF Work
    <2>2. k = b
        BY <1>2, <2>1 DEF ChunkWork, First, Skipped
    <2>3. ASSUME NEW t \in Active'
          PROVE  ~Holds(t)'
        BY <1>5 DEF Together, Arrived, Holds
    <2>4. Chunks(n) <= current_chunk' /\ current_chunk' \in Nat /\ Chunks(n) \in Nat
        BY <1>1, <2>1, <2>3, ItemRange DEF ChunkWork, TypeOK
    <2>5. ItemsOf(2 * k + 1, n) = 0 .. Chunks(n) - 1 /\ 0 .. Chunks(n) - 1 \subseteq Items
        <3>1. Graph[k + 1] = "mulmat"
            BY <2>1, <2>2 DEF ChunkWork
        <3> QED BY <1>1, <1>2, <1>3, <3>1, StageItems, ItemRange
    <2>6. \A c \in Items : c < Chunks(n) /\ c < current_chunk' => done'[2 * k + 1][c] = 1
        BY <2>1, <2>2, <2>3 DEF ChunkWork
    <2>7. \A c \in ItemsOf(2 * k + 1, n) : done'[2 * k + 1][c] = 1
        BY <2>4, <2>5, <2>6
    <2> QED BY <1>5, <2>7 DEF Complete
<1> QED BY <1>4, <1>5

\* When all have left node k, the stages up to it are complete, and no other.
LEMMA NodeComplete ==
    ASSUME TypeOK', NEW b \in 0 .. NNodes, NEW h \in {0, 1}, Together(b, h)', Work(b, h)',
           NEW k \in b .. NNodes - 1, First(b, k)', h = Half(k)
    PROVE  /\ \A s \in Stages : s < 2 * (k + 1) => Complete(s, n_graph.threads)'
           /\ \A s \in Stages : s >= 2 * (k + 1) => Untouched(s)'
           /\ abort' = -1 \/ abort' > k
<1> DEFINE n == n_graph'.threads
<1>1. n \in Nat /\ b \in Nat /\ k \in Nat /\ k \in 0 .. NNodes - 1 /\ NNodes \in Nat
    BY Size, Constants
<1>2. Complete(2 * k + h, n_graph.threads)'
    BY StageComplete
<1>3. ASSUME NEW s \in Stages, s < 2 * (k + 1), s >= 2 * b + h, s # 2 * k + h
      PROVE  ItemsOf(s, n) = {}
    <2>1. s \in Nat
        BY Constants DEF Stages
    <2>2. CASE s < 2 * k
        <3>1. \A i \in b .. k - 1 : Graph[i + 1] = "empty"
            BY DEF First, Skipped
        <3>2. s >= 2 * b
            BY <1>1, <1>3, <2>1
        <3> QED BY <1>1, <2>2, <3>1, <3>2, NoItems
    <2>3. CASE s >= 2 * k
        <3>1. h = 1 => k = b
            <4>1. h = 1 => b < NNodes /\ Graph[b + 1] = "mulmat"
                BY DEF Work, ChunkWork
            <4> QED BY <1>1, <4>1 DEF First, Skipped
        <3>2. h = 0 /\ s = 2 * k + 1
            BY <1>1, <1>3, <2>1, <2>3, <3>1
        <3>3. Graph[k + 1] # "mulmat"
            BY <3>2 DEF Half
        <3> QED BY <1>1, <3>2, <3>3, StageItems
    <2> QED BY <1>1, <2>1, <2>2, <2>3
<1>4. ASSUME NEW s \in Stages, s < 2 * (k + 1)
      PROVE  Complete(s, n_graph.threads)'
    <2>1. CASE s < 2 * b + h
        BY <2>1 DEF Work
    <2>2. CASE s = 2 * k + h
        BY <1>2, <2>2
    <2>3. CASE s >= 2 * b + h /\ s # 2 * k + h
        BY <1>3, <1>4, <2>3 DEF Complete
    <2>4. s \in Int /\ 2 * b + h \in Int
        BY Constants DEF Stages
    <2> QED BY <2>1, <2>2, <2>3, <2>4
<1>5. ASSUME NEW s \in Stages, s >= 2 * (k + 1)
      PROVE  Untouched(s)'
    <2>1. \A m \in b .. NNodes - 1 : First(b, m)' => m = k
        BY <1>1, OneFirst
    <2>2. s >= 2 * b + h /\ s # 2 * k + h
        BY <1>1, <1>5 DEF Stages
    <2> QED BY <2>1, <2>2 DEF Work
<1>6. abort' = -1 \/ abort' > k
    <2>1. abort' \in Int /\ (abort' = -1 \/ abort' >= b)
        BY Constants DEF Work, TypeOK
    <2>2. \A i \in b .. k : abort' # i
        BY <1>1 DEF First, Skipped
    <2> QED BY <1>1, <2>1, <2>2
<1> QED BY <1>4, <1>5, <1>6

\* The barrier opens at the end of the graph: the graph is whole.
LEMMA EndPassed ==
    ASSUME TypeOK', NEW b \in 0 .. NNodes, NEW h \in {0, 1}, Together(b, h)', Work(b, h)',
           after'[0] = "exit"
    PROVE  Result'
<1> PICK j \in 0 .. NNodes : j = node_n'[0]
    BY Size DEF TypeOK
<1>1. Place(0)' = "exit" /\ Arrived("exit", j, b, h)'
    BY Size DEF Together
<1>2. pc'[0] # "kick"
    BY <1>1 DEF Place, Released
<1>3. b \in Nat /\ j \in Nat /\ NNodes \in Nat /\ n_graph'.threads \in Nat /\ abort' \in -1 .. NNodes
    <2>1. n_graph'.threads \in Nat
        BY Size DEF TypeOK
    <2>2. abort' \in -1 .. NNodes
        BY DEF TypeOK
    <2> QED BY Constants, <2>1, <2>2
<1>4. CASE h = 0 /\ Skipped(b, j)' /\ (j = NNodes \/ abort' = j)
    <2>1. Ended' = j
        BY <1>3, <1>4 DEF Work, Ended, Skipped
    <2>2. ASSUME NEW s \in Stages, s < 2 * j
          PROVE  Complete(s, n_graph.threads)'
        <3>1. s \in Nat
            BY Constants DEF Stages
        <3>2. CASE s < 2 * b
            BY <1>3, <1>4, <3>2 DEF Work
        <3>3. CASE s >= 2 * b
            <4>1. \A i \in b .. j - 1 : Graph[i + 1] = "empty"
                BY <1>4 DEF Skipped
            <4>2. ItemsOf(s, n_graph'.threads) = {}
                BY <1>3, <2>2, <3>3, <4>1, NoItems
            <4> QED BY <4>2 DEF Complete
        <3> QED BY <1>3, <3>1, <3>2, <3>3
    <2>3. ASSUME NEW s \in Stages, s >= 2 * j
          PROVE  Untouched(s)'
        <3>1. \A k \in b .. NNodes - 1 : ~First(b, k)'
            BY <1>3, <1>4 DEF First, Skipped
        <3>2. s >= 2 * b + h
            BY <1>3, <1>4, <2>3 DEF Stages, Skipped
        <3> QED BY <3>1, <3>2 DEF Work
    <2>4. \A s \in Stages : s \in Nat
        BY Constants DEF Stages
    <2>5. Whole'
        BY <1>3, <2>1, <2>2, <2>3, <2>4 DEF Whole
    <2> QED BY <1>2, <2>5 DEF Result
<1>5. CASE PastLast(j, b, h)'
    <2>1. /\ j = NNodes /\ First(b, j - 1)' /\ h = Half(j - 1)
          /\ j - 1 \in b .. NNodes - 1 /\ 2 * ((j - 1) + 1) = 2 * NNodes
        BY <1>3, <1>5 DEF PastLast, First, Skipped, Half
    <2>2. /\ \A s \in Stages : s < 2 * ((j - 1) + 1) => Complete(s, n_graph.threads)'
          /\ abort' = -1 \/ abort' > j - 1
        BY <2>1, NodeComplete
    <2>3. Ended' = NNodes
        BY <1>3, <2>1, <2>2 DEF Ended
    <2>4. \A s \in Stages : s < 2 * NNodes
        BY Constants DEF Stages
    <2>5. Whole'
        BY <2>1, <2>2, <2>3, <2>4 DEF Whole
    <2> QED BY <1>2, <2>5 DEF Result
<1> QED BY <1>1, <1>4, <1>5 DEF Arrived

\* It opens before a node: the slices of the node are to be computed.
LEMMA LoopPassed ==
    ASSUME TypeOK', NEW b \in 0 .. NNodes, NEW h \in {0, 1}, Together(b, h)', Work(b, h)',
           NEW j \in 0 .. NNodes, \A t \in Active' : node_n'[t] = j /\ after'[t] = "loop"
    PROVE  Work(j, 0)'
<1>1. \A t \in Active' : Place(t)' = "loop"
    BY DEF Together
<1>2. Arrived("loop", j, b, h)' /\ node_n'[0] = j
    BY Size DEF Together
<1>3. /\ b \in Nat /\ j \in Nat /\ NNodes \in Nat
      /\ j < NNodes /\ First(b, j - 1)' /\ h = Half(j - 1) /\ j - 1 \in b .. NNodes - 1
      /\ 2 * ((j - 1) + 1) = 2 * j + 0
    <2>1. First(b, j - 1)' /\ h = Half(j - 1) /\ j < NNodes
        BY <1>2 DEF Arrived, Half
    <2> QED BY <2>1, Constants DEF First, Skipped
<1>4. /\ \A s \in Stages : s < 2 * j + 0 => Complete(s, n_graph.threads)'
      /\ \A s \in Stages : s >= 2 * j + 0 => Untouched(s)'
      /\ abort' = -1 \/ abort' > j - 1
    BY <1>3, NodeComplete
<1>5. abort' = -1 \/ abort' >= j
    BY <1>3, <1>4, Constants DEF TypeOK
<1>6. SliceWork(j)'
    <2>1. ASSUME NEW k \in j .. NNodes - 1, NEW i \in Items
          PROVE  done'[2 * k][i] = IF i \in Active' /\ Sliced(i, k)' THEN 1 ELSE 0
        <3>1. k \in 0 .. NNodes - 1 /\ k \in Nat /\ j <= k /\ 2 * k >= 2 * j + 0
            BY <1>3
        <3>2. done'[2 * k][i] = 0
            BY <1>4, <3>1, StageItems, <1>3 DEF Untouched
        <3>3. i \in Active' => ~Sliced(i, k)'
            BY <1>1, <1>3, <3>1 DEF Sliced
        <3> QED BY <3>2, <3>3
    <2>2. \A t \in Active' : ~Shared(t)'
        BY <1>1 DEF Shared, Inside
    <2> QED BY <2>1, <2>2 DEF SliceWork
<1>7. \A t \in Active' : Informed(t)'
    BY DEF Work
<1> QED BY <1>4, <1>5, <1>6, <1>7 DEF Work

\* It opens in the middle of a node: the chunks are to be handed out.
LEMMA PickPassed ==
    ASSUME TypeOK', NEW b \in 0 .. NNodes, NEW h \in {0, 1}, Together(b, h)', Work(b, h)',
           NEW j \in 0 .. NNodes, \A t \in Active' : node_n'[t] = j /\ after'[t] = "pick"
    PROVE  Work(j, 1)'
<1> DEFINE n == n_graph'.threads
<1>1. \A t \in Active' : Place(t)' = "pick"
    BY DEF Together
<1>2. Arrived("pick", j, b, h)' /\ node_n'[0] = j
    BY Size DEF Together
<1>3. /\ h = 0 /\ First(b, j)' /\ Graph[j + 1] = "mulmat" /\ j < NNodes /\ abort' # j
      /\ b \in Nat /\ j \in Nat /\ NNodes \in Nat /\ j \in b .. NNodes - 1
    <2>1. h = 0 /\ First(b, j)' /\ Graph[j + 1] = "mulmat"
        BY <1>2 DEF Arrived
    <2> QED BY <2>1, Constants DEF First, Skipped
<1>4. /\ n \in 1 .. NThreads /\ 0 \in Active' /\ Active' = 0 .. n - 1 /\ n \in Nat
    BY Size, Constants
<1>5. abort' = -1 \/ abort' >= j
    <2>1. abort' \in Int /\ (abort' = -1 \/ abort' >= b)
        BY Constants DEF Work, TypeOK
    <2> QED BY <1>3, <2>1 DEF First, Skipped
<1>6. Complete(2 * j + h, n_graph.threads)'
    BY <1>3, StageComplete
<1>7. ASSUME NEW s \in Stages, s < 2 * j + 1
      PROVE  Complete(s, n_graph.threads)'
    <2>1. s \in Nat
        BY Constants DEF Stages
    <2>2. CASE s < 2 * b
        BY <1>3, <2>2 DEF Work
    <2>3. CASE s >= 2 * b /\ s < 2 * j
        <3>1. \A i \in b .. j - 1 : Graph[i + 1] = "empty"
            BY <1>3 DEF First, Skipped
        <3>2. ItemsOf(s, n) = {}
            BY <1>3, <1>4, <2>3, <3>1, NoItems
        <3> QED BY <3>2 DEF Complete
    <2>4. CASE s = 2 * j
        BY <1>3, <1>6, <2>4
    <2> QED BY <1>3, <1>7, <2>1, <2>2, <2>3, <2>4
<1>8. ASSUME NEW s \in Stages, s >= 2 * j + 1
      PROVE  Untouched(s)'
    <2>1. \A m \in b .. NNodes - 1 : First(b, m)' => m = j
        <3>1. \A m \in b .. NNodes - 1 : m \in Nat
            BY <1>3
        <3> QED BY <1>3, <3>1, OneFirst
    <2>2. s >= 2 * b + h /\ s # 2 * j + h
        BY <1>3, <1>8 DEF Stages
    <2> QED BY <2>1, <2>2 DEF Work
<1>9. \A t \in Active' : mine'[t] = t /\ (t = 0 => current_chunk' = n)
    <2>1. ASSUME NEW t \in Active'
          PROVE  Shared(t)'
        BY <1>1 DEF Shared, Together, Late
    <2> QED BY <1>3, <2>1 DEF Work, SliceWork
<1>10. ChunkWork(j)'
    <2>1. current_chunk' = n
        BY <1>4, <1>9
    <2>2. \A t \in Active' : Holds(t)' /\ mine'[t] = t /\ t < n /\ Place(t)' # "chunk"
        BY <1>1, <1>4, <1>9 DEF Holds
    <2>3. ASSUME NEW c \in Items
          PROVE  /\ done'[2 * j + 1][c] = 0
                 /\ ~(c < n /\ \A t \in Active' : mine'[t] # c)
        <3>1. 2 * j + 1 \in Stages
            BY <1>3, StageItems
        <3>2. done'[2 * j + 1][c] = 0
            BY <1>3, <1>8, <3>1 DEF Untouched
        <3>3. c < n => c \in Active'
            BY <1>4 DEF Items
        <3> QED BY <2>2, <3>2, <3>3
    <2>4. n <= current_chunk'
        BY <1>4, <2>1
    <2> QED BY <1>3, <2>1, <2>2, <2>3, <2>4 DEF ChunkWork
<1>11. \A t \in Active' : Informed(t)'
    BY DEF Work
<1>12. 1 # 0
    OBVIOUS
<1> QED BY <1>5, <1>7, <1>8, <1>10, <1>11, <1>12 DEF Work

LEMMA WorkPassed ==
    ASSUME TypeOK', NEW b \in 0 .. NNodes, NEW h \in {0, 1}, Together(b, h)', Work(b, h)'
    PROVE  WorkPhase'
<1>1. b \in Nat /\ 0 \in {0, 1} /\ 1 \in {0, 1}
    BY Constants
<1>2. PICK j \in 0 .. NNodes :
              /\ after'[0] # "exit" => \A t \in Active' : node_n'[t] = j
              /\ \A t \in Active' : after'[t] = after'[0]
              /\ 0 \in Active' /\ node_n'[0] = j
              /\ \/ after'[0] = "exit" /\ Quiet'
                 \/ after'[0] = "pick" /\ Busy(j, 1)'
                 \/ after'[0] = "loop" /\ Busy(j, 0)'
    BY <1>1, Passed
<1>3. CASE after'[0] = "exit" /\ Quiet'
    BY <1>3, EndPassed DEF WorkPhase
<1>4. CASE after'[0] = "pick" /\ Busy(j, 1)'
    <2>1. Work(j, 1)'
        BY <1>2, <1>4, PickPassed
    <2> QED BY <1>1, <1>4, <2>1 DEF WorkPhase
<1>5. CASE after'[0] = "loop" /\ Busy(j, 0)'
    <2>1. Work(j, 0)'
        BY <1>2, <1>5, LoopPassed
    <2> QED BY <1>1, <1>5, <2>1 DEF WorkPhase
<1> QED BY <1>2, <1>3, <1>4, <1>5

(***************************************************************************)
(* A step inside a phase                                                   *)
(***************************************************************************)
LEMMA OthersWork ==
    ASSUME NEW t, Moves(t), NEW u \in Threads \ {t}
    PROVE  /\ \A k : Sliced(u, k)' <=> Sliced(u, k)
           /\ Shared(u)' <=> Shared(u)
           /\ Holds(u)' <=> Holds(u)
           /\ Place(u)' = Place(u)
           /\ nth'[u] = nth[u] /\ Informed(u) => Informed(u)'
<1>1. Place(u)' = Place(u) /\ (Late(u)' <=> Late(u))
    BY Others DEF Moves, Late
<1> QED BY <1>1 DEF Moves, Sliced, Shared, Holds, Informed

\* A step of thread t that only changes the stage of the phase.
Within(t, b, h) ==
    /\ Moves(t)
    /\ abort' = -1 \/ abort' >= b
    /\ \A k \in b .. NNodes - 1 : First(b, k)' <=> First(b, k)
    /\ \A s \in Stages :
          (\A k \in b .. NNodes - 1 : First(b, k) => s # 2 * k + h) => done'[s] = done[s]
    /\ \A u \in Threads \ {t} : nth'[u] = nth[u] /\ mine'[u] = mine[u]
    /\ t \in Active => Informed(t)'

LEMMA WithinWork ==
    ASSUME TypeOK, NEW t \in Threads, NEW b \in Nat, NEW h \in {0, 1},
           Within(t, b, h), Work(b, h),
           h = 0 => SliceWork(b)', h = 1 => ChunkWork(b)'
    PROVE  Work(b, h)'
<1>1. Active' = Active /\ n_graph' = n_graph
    BY DEF Active, Within, Moves
<1>2. ASSUME NEW s \in Stages, s < 2 * b + h
      PROVE  Complete(s, n_graph.threads)'
    <2>1. \A k \in b .. NNodes - 1 : s # 2 * k + h
        BY <1>2, Constants DEF Stages
    <2>2. done'[s] = done[s] /\ Complete(s, n_graph.threads)
        BY <1>2, <2>1 DEF Within, Work
    <2> QED BY <1>1, <2>2 DEF Complete
<1>3. ASSUME NEW s \in Stages, s >= 2 * b + h,
             \A k \in b .. NNodes - 1 : First(b, k)' => s # 2 * k + h
      PROVE  Untouched(s)'
    <2>1. \A k \in b .. NNodes - 1 : First(b, k) => s # 2 * k + h
        BY <1>3 DEF Within
    <2>2. done'[s] = done[s] /\ Untouched(s)
        BY <1>3, <2>1 DEF Within, Work
    <2> QED BY <2>2 DEF Untouched
<1>4. \A u \in Active' : Informed(u)'
    BY <1>1, OthersWork, ActiveThreads DEF Work, Within
<1> QED BY <1>2, <1>3, <1>4 DEF Work, Within

LEMMA WithinSlices ==
    ASSUME TypeOK, NEW t \in Threads, NEW b \in Nat, Within(t, b, 0), SliceWork(b),
           done' = done,
           \A k \in b .. NNodes - 1 :
               First(b, k) /\ t \in Active => (Sliced(t, k)' <=> Sliced(t, k)),
           t # 0 => current_chunk' = current_chunk,
           t \in Active /\ Shared(t)' => /\ mine'[t] = t
                                         /\ t = 0 => current_chunk' = n_graph.threads
    PROVE  SliceWork(b)'
<1>1. Active' = Active /\ n_graph' = n_graph /\ Active \subseteq Threads
    BY ActiveThreads DEF Active, Within, Moves
<1>2. ASSUME NEW k \in b .. NNodes - 1, First(b, k)', NEW i \in Items
      PROVE  done'[2 * k][i] = IF i \in Active' /\ Sliced(i, k)' THEN 1 ELSE 0
    <2>1. First(b, k)
        BY <1>2 DEF Within
    <2>2. i \in Active => (Sliced(i, k)' <=> Sliced(i, k))
        BY <1>1, <2>1, OthersWork DEF Within
    <2> QED BY <1>1, <2>1, <2>2 DEF SliceWork
<1>3. ASSUME NEW u \in Active, Shared(u)'
      PROVE  mine'[u] = u /\ (u = 0 => current_chunk' = n_graph.threads)
    <2>1. CASE u = t
        BY <1>3, <2>1
    <2>2. CASE u # t
        <3>1. Shared(u) /\ mine'[u] = mine[u]
            BY <1>1, <1>3, <2>2, OthersWork DEF Within
        <3>2. u = 0 => current_chunk' = current_chunk
            BY <2>2
        <3> QED BY <3>1, <3>2 DEF SliceWork
    <2> QED BY <2>1, <2>2
<1> QED BY <1>1, <1>2, <1>3 DEF SliceWork

LEMMA WithinChunks ==
    ASSUME TypeOK, NEW t \in Threads, NEW b \in Nat, Within(t, b, 1), ChunkWork(b),
           done' = done, abort' # b, current_chunk' = current_chunk,
           t \in Active => /\ Holds(t)' <=> Holds(t)
                           /\ mine'[t] = mine[t]
                           /\ Place(t)' = "chunk" => \/ Place(t) = "chunk"
                                                     \/ mine[t] < Chunks(n_graph.threads)
    PROVE  ChunkWork(b)'
<1>1. Active' = Active /\ n_graph' = n_graph /\ Active \subseteq Threads
    BY ActiveThreads DEF Active, Within, Moves
<1>2. \A u \in Active : /\ Holds(u)' <=> Holds(u)
                        /\ mine'[u] = mine[u]
                        /\ Place(u)' = "chunk" => mine[u] < Chunks(n_graph.threads)
    <2>1. \A u \in Active : Place(u) = "chunk" => mine[u] < Chunks(n_graph.threads)
        BY DEF ChunkWork
    <2> QED BY <1>1, <2>1, OthersWork DEF Within
<1> QED BY <1>1, <1>2 DEF ChunkWork

\* A step that computes nothing, and neither takes nor leaves a chunk.
LEMMA WithinPhase ==
    ASSUME TypeOK, NEW t \in Threads, NEW b \in Nat, NEW h \in {0, 1}, Work(b, h), Within(t, b, h),
           done' = done, current_chunk' = current_chunk, mine' = mine, h = 1 => abort' # b,
           t \in Active =>
              /\ \A k \in b .. NNodes - 1 : First(b, k) /\ h = 0 => (Sliced(t, k)' <=> Sliced(t, k))
              /\ h = 0 /\ Shared(t)' => Shared(t)
              /\ h = 1 => /\ Holds(t)' <=> Holds(t)
                          /\ Place(t)' = "chunk" => \/ Place(t) = "chunk"
                                                    \/ mine[t] < Chunks(n_graph.threads)
    PROVE  Work(b, h)'
<1>1. CASE h = 0
    <2>1. SliceWork(b) /\ Within(t, b, 0)
        BY <1>1 DEF Work
    <2>2. t \in Active /\ Shared(t)' => mine'[t] = t /\ (t = 0 => current_chunk' = n_graph.threads)
        BY <1>1, <2>1 DEF SliceWork
    <2>3. SliceWork(b)'
        BY <1>1, <2>1, <2>2, WithinSlices
    <2> QED BY <1>1, <2>3, WithinWork
<1>2. CASE h = 1
    <2>1. ChunkWork(b) /\ Within(t, b, 1)
        BY <1>2 DEF Work
    <2>2. ChunkWork(b)'
        BY <1>2, <2>1, WithinChunks
    <2> QED BY <1>2, <2>2, WithinWork
<1> QED BY <1>1, <1>2

\* The common case: nothing that Work says of thread t changes.
LEMMA SamePlace ==
    ASSUME TypeOK, NEW t \in Threads, NEW b \in Nat, NEW h \in {0, 1}, Work(b, h), Moves(t),
           done' = done, current_chunk' = current_chunk, mine' = mine, abort' = abort,
           \A u \in Threads \ {t} : nth'[u] = nth[u],
           t \in Active =>
              /\ \A k \in b .. NNodes - 1 : First(b, k) => (Sliced(t, k)' <=> Sliced(t, k))
              /\ Shared(t)' => Shared(t)
              /\ Holds(t)' <=> Holds(t)
              /\ Place(t)' = "chunk" => Place(t) = "chunk"
              /\ Informed(t)'
    PROVE  Work(b, h)'
<1>1. Within(t, b, h)
    BY DEF Within, Work, First, Skipped
<1>2. h = 1 => abort' # b
    BY DEF Work, ChunkWork
<1> QED BY <1>1, <1>2, WithinPhase

(***************************************************************************)
(* The steps                                                               *)
(***************************************************************************)
\* Thread t stays at rest, or at the barrier, or where it is.
LEMMA StayWork ==
    ASSUME Inv, NEW t \in Threads, NEW b \in Nat, NEW h \in {0, 1}, Work(b, h), Moves(t),
           done' = done, current_chunk' = current_chunk, mine' = mine, abort' = abort,
           nth' = nth, after' = after, node_n' = node_n, last_graph' = last_graph,
           \/ Place(t) \in AtRest /\ Place(t)' \in AtRest
           \/ Place(t) \in Inside /\ Place(t)' \in Inside
           \/ Place(t)' = Place(t)
    PROVE  Work(b, h)'
<1>1. Late(t)' <=> Late(t)
    BY DEF Late, Moves, Inside, AtRest, WorkerPc
<1>2. /\ Shared(t)' <=> Shared(t)
      /\ Holds(t)' <=> Holds(t)
      /\ Place(t)' = "chunk" => Place(t) = "chunk"
      /\ \A k : Sliced(t, k)' <=> Sliced(t, k)
    BY <1>1 DEF Shared, Holds, Sliced, Inside, AtRest, WorkerPc
<1>3. t \in Active => Informed(t)'
    BY <1>1 DEF Work, Informed, Moves, Inside, AtRest, WorkerPc
<1> QED BY <1>2, <1>3, SamePlace DEF Inv

LEMMA BarrierWork ==
    ASSUME Inv, NEW t \in Threads, NEW b \in Nat, NEW h \in {0, 1}, Work(b, h),
           BarrierRead(t) \/ BarrierEnter(t) \/ BarrierReset(t) \/ BarrierLeave(t)
    PROVE  Work(b, h)'
<1>1. /\ Moves(t)
      /\ done' = done /\ current_chunk' = current_chunk /\ mine' = mine /\ abort' = abort
      /\ nth' = nth /\ after' = after /\ node_n' = node_n /\ last_graph' = last_graph
    BY DEF BarrierRead, BarrierEnter, BarrierReset, BarrierLeave, Inv, TypeOK, Go, Moves, shared
<1>2. CASE BarrierRead(t) \/ BarrierEnter(t) \/ BarrierReset(t)
    <2>1. n_passed'[t] = n_barrier_passed' \/ pc'[t] # "spin"
        BY <1>2 DEF BarrierRead, BarrierEnter, BarrierReset, Inv, TypeOK, Go, Counting
    <2>2. pc[t] \in {"read", "enter", "reset"} /\ pc'[t] \in {"enter", "reset", "spin", "release"}
        BY <1>2 DEF BarrierRead, BarrierEnter, BarrierReset, Inv, TypeOK, Go
    <2>3. Place(t) \in Inside /\ Place(t)' \in Inside
        BY <2>1, <2>2 DEF Place, Released, Inside
    <2> QED BY <1>1, <2>3, StayWork
<1>3. CASE BarrierLeave(t)
    <2>1. after[t] \in {"loop", "pick", "exit"} /\ pc'[t] = after[t]
        BY <1>3 DEF BarrierLeave, Inv, TypeOK, Go
    <2>2. Place(t)' = Place(t)
        BY <1>3, <2>1 DEF BarrierLeave, Place, Released
    <2> QED BY <1>1, <2>2, StayWork
<1> QED BY <1>2, <1>3

LEMMA WorkerWork ==
    ASSUME Inv, NEW w \in Workers, NEW b \in Nat, NEW h \in {0, 1}, Work(b, h), Busy(b, h),
           WorkerStep(w)
    PROVE  Work(b, h)'
<1>1. /\ w \in Threads /\ w # 0
      /\ n_graph' = n_graph /\ n_barrier_passed' = n_barrier_passed
      /\ done' = done /\ current_chunk' = current_chunk /\ mine' = mine /\ abort' = abort
      /\ nth' = nth /\ after' = after /\ node_n' = node_n /\ n_passed' = n_passed
      /\ pc[w] \in WorkerPc
    BY DEF Workers, WorkerStep, WorkerTop, WorkerPause, WorkerResume, WorkerCheck, PollFlags,
           PollGraph, WorkerLock, WorkerWake, WorkerPc, shared
<1>2. CASE last_graph' = last_graph /\ pc'[w] \in WorkerPc /\ Moves(w)
    <2>1. Place(w) \in AtRest /\ Place(w)' \in AtRest
        BY <1>1, <1>2 DEF Place, Released, AtRest, WorkerPc
    <2> QED BY <1>1, <1>2, <2>1, StayWork
<1>3. ASSUME NEW idle \in WorkerPc, n_graph # last_graph[w], TakeGraph(w, idle)
      PROVE  Work(b, h)'
    <2>1. Moves(w)
        BY <1>1, <1>3 DEF TakeGraph, Go, Moves, Inv, TypeOK
    <2>2. w \in Active => pc'[w] = "start"
        BY <1>1, <1>3, ActiveThreads DEF TakeGraph, Go, Inv, TypeOK, Active
    <2>3. Late(w) /\ Place(w) \in AtRest
        BY <1>1, <1>3 DEF Late, Place, Released, AtRest, WorkerPc
    <2>4. w \in Active => Place(w)' = "start"
        BY <2>2 DEF Place, Released
    <2>5. w \in Active => /\ \A k : ~Sliced(w, k) /\ ~Sliced(w, k)'
                          /\ ~Shared(w)' /\ ~Holds(w) /\ ~Holds(w)'
                          /\ Informed(w)'
        BY <2>3, <2>4 DEF Sliced, Shared, Inside, Holds, Informed, AtRest, WorkerPc
    <2> QED BY <1>1, <2>1, <2>4, <2>5, SamePlace DEF Inv
<1>4. \/ last_graph' = last_graph /\ pc'[w] \in WorkerPc /\ Moves(w)
      \/ n_graph # last_graph[w] /\ TakeGraph(w, "lock")
      \/ n_graph # last_graph[w] /\ TakeGraph(w, "top")
    <2>1. CASE WorkerTop(w) \/ WorkerPause(w) \/ WorkerResume(w) \/ WorkerCheck(w)
               \/ PollFlags(w) \/ WorkerWake(w)
        BY <1>1, <2>1 DEF WorkerTop, WorkerPause, WorkerResume, WorkerCheck, PollFlags,
              WorkerWake, Inv, TypeOK, Go, WorkerPc, Moves, shared
    <2>2. CASE PollGraph(w)
        BY <1>1, <2>2 DEF PollGraph, Inv, TypeOK, Go, WorkerPc, Moves
    <2>3. CASE WorkerLock(w)
        BY <1>1, <2>3 DEF WorkerLock, Inv, TypeOK, Go, WorkerPc, Moves
    <2> QED BY <2>1, <2>2, <2>3 DEF WorkerStep
<1>5. "lock" \in WorkerPc /\ "top" \in WorkerPc
    BY DEF WorkerPc
<1> QED BY <1>2, <1>3, <1>4, <1>5

LEMMA StartWork ==
    ASSUME Inv, NEW t \in Threads, NEW b \in Nat, NEW h \in {0, 1}, Work(b, h), ThreadStart(t)
    PROVE  Work(b, h)'
<1>1. /\ Moves(t) /\ pc[t] = "start" /\ pc'[t] = "loop" /\ node_n'[t] = 0
      /\ nth'[t] = n_graph.threads /\ \A u \in Threads \ {t} : nth'[u] = nth[u]
      /\ done' = done /\ current_chunk' = current_chunk /\ mine' = mine /\ abort' = abort
      /\ n_graph' = n_graph
    BY DEF ThreadStart, Inv, TypeOK, Go, Moves, shared
<1>2. Place(t) = "start" /\ Place(t)' = "loop"
    BY <1>1 DEF Place, Released
<1>3. \A k \in b .. NNodes - 1 : ~Sliced(t, k) /\ ~Sliced(t, k)'
    BY <1>1, <1>2, Constants DEF Sliced
<1>4. ~Shared(t)' /\ ~Holds(t) /\ ~Holds(t)' /\ Informed(t)'
    BY <1>1, <1>2 DEF Shared, Inside, Holds, Informed
<1> QED BY <1>1, <1>2, <1>3, <1>4, SamePlace DEF Inv

LEMMA WakeWork ==
    ASSUME Inv, NEW b \in Nat, NEW h \in {0, 1}, Work(b, h), KickoffWake
    PROVE  Work(b, h)'
<1>1. /\ 0 \in Threads /\ Moves(0) /\ pc[0] = "wake" /\ pc'[0] = "start" /\ nth' = nth
      /\ done' = done /\ current_chunk' = current_chunk /\ mine' = mine /\ abort' = abort
    BY ActiveThreads DEF KickoffWake, Inv, TypeOK, Go, Moves
<1>2. Place(0) = "wake" /\ Place(0)' = "start"
    BY <1>1 DEF Place, Released
<1>3. \A k : ~Sliced(0, k) /\ ~Sliced(0, k)'
    BY <1>2 DEF Sliced
<1>4. ~Shared(0)' /\ ~Holds(0) /\ ~Holds(0)' /\ Informed(0)'
    BY <1>2 DEF Shared, Inside, Holds, Informed
<1> QED BY <1>1, <1>2, <1>3, <1>4, SamePlace DEF Inv

\* A thread that computes is one of the graph, and is between two barriers.
LEMMA Computes ==
    ASSUME Inv, NEW t \in Threads, pc[t] \in Computing, NEW b, NEW h, Busy(b, h), Work(b, h)
    PROVE  /\ Place(t) = pc[t] /\ t \in Active /\ ~Late(t)
           /\ t # 0 => last_graph[t] = n_graph
           /\ Between(pc[t], node_n[t], b, h)
           /\ pc[t] = "start" \/ nth[t] = n_graph.threads
           /\ node_n[t] \in 0 .. NNodes /\ NNodes \in Nat
<1>1. Place(t) = pc[t]
    BY DEF Place, Released, Computing
<1>2. Place(t) \notin AtRest \cup MainAtRest \cup Inside
    BY <1>1 DEF AtRest, MainAtRest, WorkerPc, Computing, Inside
<1>3. t \in Active /\ (t # 0 => last_graph[t] = n_graph) /\ Between(pc[t], node_n[t], b, h)
    BY <1>1, <1>2, OnItsWay
<1>4. ~Late(t)
    BY <1>2 DEF Late
<1>5. Informed(t)
    BY <1>3 DEF Work
<1>6. node_n[t] \in 0 .. NNodes /\ NNodes \in Nat
    BY Constants DEF Inv, TypeOK
<1> QED BY <1>1, <1>3, <1>4, <1>5, <1>6 DEF Informed

LEMMA LoopStep ==
    ASSUME Inv, NEW t \in Threads, NEW b \in Nat, NEW h \in {0, 1}, Busy(b, h), Work(b, h), Loop(t)
    PROVE  Work(b, h)'
<1> DEFINE j == node_n[t]
<1>1. /\ Moves(t) /\ pc[t] = "loop" /\ nth' = nth
      /\ done' = done /\ current_chunk' = current_chunk /\ mine' = mine /\ abort' = abort
      /\ n_graph' = n_graph /\ last_graph' = last_graph
    BY DEF Loop, Arrive, Inv, TypeOK, Go, Moves, shared
<1>2. /\ Place(t) = "loop" /\ ~Late(t) /\ (t # 0 => last_graph[t] = n_graph)
      /\ Between("loop", j, b, h) /\ nth[t] = n_graph.threads /\ j \in Nat /\ NNodes \in Nat
      /\ j <= NNodes
    BY <1>1, Computes DEF Computing
<1>3. ~Late(t)' /\ Informed(t)'
    BY <1>1, <1>2 DEF Late, Informed
<1>4. \A k \in b .. NNodes - 1 : k \in Nat
    BY Constants
<1>5. CASE (j >= NNodes \/ abort = j) /\ Arrive(t, "exit") /\ UNCHANGED node_n
    <2>1. pc'[t] \in {"read", "exit"} /\ after'[t] = "exit" /\ node_n'[t] = j
        BY <1>5 DEF Arrive, Go, Inv, TypeOK
    <2>2. Place(t)' = pc'[t]
        BY <2>1 DEF Place, Released
    <2>3. ~Shared(t)' /\ ~Holds(t) /\ ~Holds(t)'
        BY <1>2, <2>1, <2>2 DEF Shared, Holds
    <2>4. \A k \in b .. NNodes - 1 : First(b, k) => k < j
        BY <1>2, <1>4, <1>5 DEF Between, PastLast, First, Skipped
    <2>5. \A k \in b .. NNodes - 1 : First(b, k) => Sliced(t, k) /\ Sliced(t, k)'
        BY <1>2, <1>3, <1>4, <2>1, <2>2, <2>4 DEF Sliced
    <2> QED BY <1>1, <1>3, <2>1, <2>2, <2>3, <2>5, SamePlace DEF Inv
<1>6. CASE /\ j < NNodes /\ abort # j
           /\ Graph[j + 1] = "empty"
           /\ node_n' = [node_n EXCEPT ![t] = @ + 1]
           /\ UNCHANGED <<pc, after>>
    <2>1. pc'[t] = "loop" /\ node_n'[t] = j + 1
        BY <1>1, <1>6 DEF Inv, TypeOK
    <2>2. Place(t)' = "loop"
        BY <2>1 DEF Place, Released
    <2>3. ~Shared(t)' /\ ~Holds(t) /\ ~Holds(t)'
        BY <1>2, <2>2 DEF Shared, Holds, Inside
    <2>4. \A k \in b .. NNodes - 1 : First(b, k) => j < k
        BY <1>2, <1>4, <1>6 DEF Between, PastLast, First, Skipped
    <2>5. \A k \in b .. NNodes - 1 : First(b, k) => ~Sliced(t, k) /\ ~Sliced(t, k)'
        BY <1>2, <1>4, <2>1, <2>2, <2>4 DEF Sliced
    <2> QED BY <1>1, <1>3, <2>2, <2>3, <2>5, SamePlace DEF Inv
<1>7. CASE /\ j < NNodes /\ abort # j
           /\ Graph[j + 1] # "empty"
           /\ Go(t, "slice")
           /\ UNCHANGED <<node_n, after>>
    <2>1. pc'[t] = "slice" /\ node_n'[t] = j
        BY <1>7 DEF Inv, TypeOK, Go
    <2>2. Place(t)' = "slice"
        BY <2>1 DEF Place, Released
    <2>3. ~Shared(t)' /\ ~Holds(t) /\ ~Holds(t)'
        BY <1>2, <2>2 DEF Shared, Holds, Inside
    <2>4. \A k \in b .. NNodes - 1 : First(b, k) => j <= k
        BY <1>2, <1>4, <1>7 DEF Between, PastLast, First, Skipped
    <2>5. \A k \in b .. NNodes - 1 : First(b, k) => ~Sliced(t, k) /\ ~Sliced(t, k)'
        BY <1>2, <1>4, <2>1, <2>2, <2>4 DEF Sliced
    <2> QED BY <1>1, <1>3, <2>2, <2>3, <2>5, SamePlace DEF Inv
<1> QED BY <1>5, <1>6, <1>7 DEF Loop

LEMMA SliceStep ==
    ASSUME Inv, done \in [Stages -> [Items -> Nat]],
           NEW t \in Threads, NEW b \in Nat, NEW h \in {0, 1}, Busy(b, h), Work(b, h), Slice(t)
    PROVE  Work(b, h)' /\ done' \in [Stages -> [Items -> Nat]]
<1> DEFINE j == node_n[t]
<1>1. /\ Moves(t) /\ pc[t] = "slice" /\ nth' = nth
      /\ current_chunk' = current_chunk /\ mine' = mine /\ abort' = abort
      /\ n_graph' = n_graph /\ last_graph' = last_graph /\ node_n' = node_n
      /\ pc'[t] \in {"next", "share"}
      /\ done' = [done EXCEPT ![2 * j][t] = @ + 1]
    BY DEF Slice, Record, Inv, TypeOK, Go, Moves, shared
<1>2. /\ Place(t) = "slice" /\ ~Late(t) /\ (t # 0 => last_graph[t] = n_graph)
      /\ Between("slice", j, b, h) /\ nth[t] = n_graph.threads /\ j \in Nat /\ NNodes \in Nat
      /\ t \in Active
    BY <1>1, Computes DEF Computing
<1>3. h = 0 /\ First(b, j) /\ j \in b .. NNodes - 1 /\ j \in 0 .. NNodes - 1
    BY <1>2 DEF Between, First, Skipped
<1>4. Place(t)' = pc'[t] /\ ~Late(t)' /\ Informed(t)'
    BY <1>1, <1>2 DEF Place, Released, Late, Informed
<1>5. 2 * j \in Stages /\ t \in Items
    <2>1. t \in Items
        BY Constants DEF Threads, Items
    <2> QED BY <1>3, <2>1, StageItems
<1>6. SliceWork(b)
    BY <1>3 DEF Work
<1>7. ~Sliced(t, j) /\ Sliced(t, j)'
    BY <1>1, <1>2, <1>4 DEF Sliced
<1>8. \A k \in b .. NNodes - 1 : First(b, k) => k = j
    <2>1. \A k \in b .. NNodes - 1 : k \in Nat
        BY <1>2
    <2> QED BY <1>2, <1>3, <2>1, OneFirstNow
<1>9. /\ \A s \in Stages : s # 2 * j => done'[s] = done[s]
      /\ \A i \in Items : done'[2 * j][i] = IF i = t THEN done[2 * j][i] + 1 ELSE done[2 * j][i]
      /\ done' \in [Stages -> [Items -> Nat]]
    BY <1>1, <1>5
<1>10. Within(t, b, h)
    <2>1. \A k \in b .. NNodes - 1 : First(b, k)' <=> First(b, k)
        BY <1>1 DEF First, Skipped
    <2>2. \A s \in Stages :
             (\A k \in b .. NNodes - 1 : First(b, k) => s # 2 * k + h) => s # 2 * j
        BY <1>2, <1>3
    <2> QED BY <1>1, <1>4, <1>9, <2>1, <2>2 DEF Within, Work
<1>11. ASSUME NEW i \in Items
       PROVE  done'[2 * j][i] = IF i \in Active' /\ Sliced(i, j)' THEN 1 ELSE 0
    <2>1. done[2 * j][i] = IF i \in Active /\ Sliced(i, j) THEN 1 ELSE 0
        BY <1>3, <1>6 DEF SliceWork
    <2>2. CASE i = t
        BY <1>1, <1>2, <1>7, <1>9, <2>1, <2>2 DEF Active
    <2>3. CASE i # t
        <3>1. i \in Active => (Sliced(i, j)' <=> Sliced(i, j))
            BY <1>1, <2>3, OthersWork, ActiveThreads DEF Inv
        <3> QED BY <1>1, <1>9, <2>1, <2>3, <3>1 DEF Active
    <2> QED BY <2>2, <2>3
<1>12. ASSUME NEW u \in Active, Shared(u)'
       PROVE  mine'[u] = u /\ (u = 0 => current_chunk' = n_graph.threads)
    <2>1. u # t
        BY <1>1, <1>4, <1>12 DEF Shared, Inside
    <2>2. Shared(u)
        BY <1>1, <1>12, <2>1, OthersWork, ActiveThreads DEF Inv
    <2> QED BY <1>1, <1>6, <2>2 DEF SliceWork
<1>13. SliceWork(b)'
    <2>1. \A k \in b .. NNodes - 1 : First(b, k)' => k = j
        BY <1>8, <1>10 DEF Within
    <2> QED BY <1>1, <1>11, <1>12, <2>1 DEF SliceWork, Active
<1> QED BY <1>3, <1>9, <1>10, <1>13, WithinWork DEF Inv

LEMMA ShareStep ==
    ASSUME Inv, NEW t \in Threads, NEW b \in Nat, NEW h \in {0, 1}, Busy(b, h), Work(b, h), Share(t)
    PROVE  Work(b, h)'
<1> DEFINE j == node_n[t]
<1>1. /\ Moves(t) /\ pc[t] = "share" /\ nth' = nth /\ done' = done /\ abort' = abort
      /\ n_graph' = n_graph /\ last_graph' = last_graph /\ node_n' = node_n
      /\ pc'[t] \in {"pick", "read"} /\ after'[t] = "pick"
      /\ mine'[t] = t /\ \A u \in Threads \ {t} : mine'[u] = mine[u]
      /\ current_chunk' = IF t = 0 THEN nth[t] ELSE current_chunk
    BY DEF Share, Arrive, Inv, TypeOK, Go, Moves
<1>2. /\ Place(t) = "share" /\ ~Late(t) /\ (t # 0 => last_graph[t] = n_graph)
      /\ Between("share", j, b, h) /\ nth[t] = n_graph.threads /\ j \in Nat /\ NNodes \in Nat
    BY <1>1, Computes DEF Computing
<1>3. h = 0 /\ First(b, j) /\ j \in b .. NNodes - 1
    BY <1>2 DEF Between, First, Skipped
<1>4. Place(t)' = pc'[t] /\ ~Late(t)' /\ Informed(t)'
    BY <1>1, <1>2 DEF Place, Released, Late, Informed
<1>5. \A k \in b .. NNodes - 1 : First(b, k) => k = j
    <2>1. \A k \in b .. NNodes - 1 : k \in Nat
        BY <1>2
    <2> QED BY <1>2, <1>3, <2>1, OneFirstNow
<1>6. \A k \in b .. NNodes - 1 : First(b, k) => Sliced(t, k) /\ Sliced(t, k)'
    BY <1>1, <1>2, <1>4, <1>5 DEF Sliced
<1>7. Within(t, b, 0)
    <2>1. \A k \in b .. NNodes - 1 : First(b, k)' <=> First(b, k)
        BY <1>1 DEF First, Skipped
    <2> QED BY <1>1, <1>4, <2>1 DEF Within, Work
<1>8. SliceWork(b)'
    <2>1. SliceWork(b)
        BY <1>3 DEF Work
    <2>2. /\ t # 0 => current_chunk' = current_chunk
          /\ t = 0 => current_chunk' = n_graph.threads
        BY <1>1, <1>2
    <2> QED BY <1>1, <1>6, <1>7, <2>1, <2>2, WithinSlices DEF Inv
<1> QED BY <1>3, <1>7, <1>8, WithinWork DEF Inv

LEMMA PickStep ==
    ASSUME Inv, NEW t \in Threads, NEW b \in Nat, NEW h \in {0, 1}, Busy(b, h), Work(b, h), Pick(t)
    PROVE  Work(b, h)'
<1> DEFINE n == n_graph.threads
<1>1. /\ Moves(t) /\ pc[t] = "pick" /\ nth' = nth /\ done' = done /\ abort' = abort
      /\ n_graph' = n_graph /\ last_graph' = last_graph /\ node_n' = node_n
      /\ mine' = mine /\ current_chunk' = current_chunk
      /\ pc'[t] = IF mine[t] < Chunks(nth[t]) THEN "chunk" ELSE "next"
    BY DEF Pick, Inv, TypeOK, Go, Moves, shared
<1>2. /\ Place(t) = "pick" /\ ~Late(t) /\ (t # 0 => last_graph[t] = n_graph)
      /\ Between("pick", node_n[t], b, h) /\ nth[t] = n /\ t \in Active
    BY <1>1, Computes DEF Computing
<1>3. h = 1 /\ ChunkWork(b)
    BY <1>2 DEF Between, Work
<1>4. Place(t)' = pc'[t] /\ ~Late(t)' /\ Informed(t)'
    BY <1>1, <1>2 DEF Place, Released, Late, Informed
<1>5. Within(t, b, h)
    <2>1. \A k \in b .. NNodes - 1 : First(b, k)' <=> First(b, k)
        BY <1>1 DEF First, Skipped
    <2> QED BY <1>1, <1>4, <2>1 DEF Within, Work
<1>6. abort' # b
    BY <1>1, <1>3 DEF ChunkWork
<1>7. CASE mine[t] < Chunks(n)
    <2>1. Holds(t) /\ Holds(t)'
        BY <1>1, <1>2, <1>4, <1>7 DEF Holds
    <2> QED BY <1>1, <1>3, <1>5, <1>6, <1>7, <2>1, WithinPhase DEF Inv
<1>8. CASE ~(mine[t] < Chunks(n))
    <2>1. Holds(t) /\ ~Holds(t)' /\ Place(t)' = "next"
        BY <1>1, <1>2, <1>4, <1>8 DEF Holds
    <2>2. /\ n \in Nat /\ Chunks(n) \in Int /\ current_chunk \in Nat /\ mine[t] \in Nat
          /\ mine[t] < current_chunk
        <3>1. n \in Nat
            BY ActiveThreads DEF Inv
        <3> QED BY <1>2, <1>3, <2>1, <3>1, Constants DEF Inv, TypeOK, Chunks, ChunkWork
    <2>3. Chunks(n) <= current_chunk /\ \A c \in Items : c < Chunks(n) => mine[t] # c
        BY <1>8, <2>2, Constants DEF Items
    <2>4. Active' = Active /\ \A u \in Active : u # t => (Holds(u)' <=> Holds(u)) /\ Place(u)' = Place(u)
        BY <1>1, OthersWork, ActiveThreads DEF Inv, Active
    <2>5. ASSUME NEW c \in Items, c < Chunks(n)
          PROVE  (\A u \in Active : Holds(u)' => mine[u] # c) <=> (\A u \in Active : Holds(u) => mine[u] # c)
        BY <2>1, <2>3, <2>4, <2>5
    <2>6. \A u \in Active : IF Holds(u)' THEN mine[u] < current_chunk ELSE Chunks(n) <= current_chunk
        BY <1>3, <2>1, <2>3, <2>4 DEF ChunkWork
    <2>7. \A u \in Active : Place(u)' = "chunk" => mine[u] < Chunks(n)
        BY <1>3, <2>1, <2>4 DEF ChunkWork
    <2>8. \A u \in Active, v \in Active : u # v /\ Holds(u)' /\ Holds(v)' => mine[u] # mine[v]
        BY <1>3, <2>1, <2>4 DEF ChunkWork
    <2>9. \A c \in Items :
             done[2 * b + 1][c] =
                IF /\ c < Chunks(n) /\ c < current_chunk
                   /\ \A u \in Active : Holds(u)' => mine[u] # c
                THEN 1 ELSE 0
        BY <1>3, <2>5 DEF ChunkWork
    <2>10. ChunkWork(b)'
        BY <1>1, <1>3, <2>4, <2>6, <2>7, <2>8, <2>9 DEF ChunkWork
    <2> QED BY <1>3, <1>5, <2>10, WithinWork DEF Inv
<1> QED BY <1>7, <1>8

LEMMA ChunkStep ==
    ASSUME Inv, done \in [Stages -> [Items -> Nat]],
           NEW t \in Threads, NEW b \in Nat, NEW h \in {0, 1}, Busy(b, h), Work(b, h), Chunk(t)
    PROVE  Work(b, h)' /\ done' \in [Stages -> [Items -> Nat]]
<1> DEFINE n == n_graph.threads
           s == 2 * b + 1
<1>1. /\ Moves(t) /\ pc[t] = "chunk" /\ nth' = nth /\ abort' = abort
      /\ n_graph' = n_graph /\ last_graph' = last_graph /\ node_n' = node_n
      /\ \A u \in Threads \ {t} : mine'[u] = mine[u]
      /\ pc'[t] = IF nth[t] >= Chunks(nth[t]) THEN "next" ELSE "pick"
      /\ IF nth[t] >= Chunks(nth[t]) THEN mine' = mine /\ current_chunk' = current_chunk
         ELSE mine'[t] = current_chunk /\ current_chunk' = current_chunk + 1
      /\ done' = [done EXCEPT ![2 * node_n[t] + 1][mine[t]] = @ + 1]
    BY DEF Chunk, Record, Inv, TypeOK, Go, Moves
<1>2. /\ Place(t) = "chunk" /\ ~Late(t) /\ (t # 0 => last_graph[t] = n_graph)
      /\ Between("chunk", node_n[t], b, h) /\ nth[t] = n /\ t \in Active
      /\ node_n[t] \in Nat /\ NNodes \in Nat
    BY <1>1, Computes DEF Computing
<1>3. h = 1 /\ ChunkWork(b)
    BY <1>2 DEF Between, Work
<1>4. First(b, node_n[t])
    BY <1>2 DEF Between
<1>5. node_n[t] = b /\ First(b, b) /\ b \in 0 .. NNodes - 1
    <2>1. Graph[b + 1] = "mulmat" /\ b < NNodes
        BY <1>3 DEF ChunkWork
    <2>2. b <= node_n[t] /\ \A i \in b .. node_n[t] - 1 : Graph[i + 1] = "empty"
        BY <1>4 DEF First, Skipped
    <2>3. node_n[t] = b
        BY <1>2, <2>1, <2>2
    <2> QED BY <1>2, <1>4, <2>1, <2>3
<1>6. Place(t)' = pc'[t] /\ ~Late(t)' /\ Informed(t)'
    BY <1>1, <1>2 DEF Place, Released, Late, Informed
<1>7. n \in 1 .. NThreads /\ n \in Nat
    <2>1. n \in 0 .. NThreads /\ n >= 1
        BY ActiveThreads DEF Inv, Busy
    <2> QED BY <2>1, Constants
<1>8. /\ s \in Stages /\ Chunks(n) \in Nat /\ current_chunk \in Nat /\ mine[t] \in Nat
      /\ mine[t] < current_chunk /\ mine[t] < Chunks(n) /\ mine[t] \in Items
    <2>1. Chunks(n) \in Nat /\ 0 .. Chunks(n) - 1 \subseteq Items
        BY <1>7, ItemRange
    <2>2. Holds(t)
        BY <1>2 DEF Holds
    <2>3. mine[t] < current_chunk /\ mine[t] < Chunks(n)
        BY <1>2, <1>3, <2>2 DEF ChunkWork
    <2>4. mine[t] \in Nat /\ current_chunk \in Nat
        BY DEF Inv, TypeOK
    <2> QED BY <1>5, <2>1, <2>3, <2>4, StageItems
<1>9. /\ \A r \in Stages : r # s => done'[r] = done[r]
      /\ \A c \in Items : done'[s][c] = IF c = mine[t] THEN done[s][c] + 1 ELSE done[s][c]
      /\ done' \in [Stages -> [Items -> Nat]]
    BY <1>1, <1>5, <1>8
<1>10. Within(t, b, h)
    <2>1. \A k \in b .. NNodes - 1 : First(b, k)' <=> First(b, k)
        BY <1>1 DEF First, Skipped
    <2>2. \A r \in Stages :
             (\A k \in b .. NNodes - 1 : First(b, k) => r # 2 * k + h) => r # s
        BY <1>2, <1>3, <1>5
    <2> QED BY <1>1, <1>6, <1>9, <2>1, <2>2 DEF Within, Work
<1>11. Active' = Active /\ \A u \in Active : u # t => /\ Holds(u)' <=> Holds(u)
                                                      /\ Place(u)' = Place(u)
                                                      /\ mine'[u] = mine[u]
    BY <1>1, OthersWork, ActiveThreads DEF Inv, Active
<1>12. Holds(t)
    BY <1>2 DEF Holds
<1>13. \A u \in Active : u # t /\ Holds(u) => mine[u] # mine[t] /\ mine[u] < current_chunk
    BY <1>2, <1>3, <1>12 DEF ChunkWork
<1>14. \A c \in Items :
          done[s][c] = IF /\ c < Chunks(n) /\ c < current_chunk
                          /\ \A u \in Active : Holds(u) => mine[u] # c
                       THEN 1 ELSE 0
    BY <1>3 DEF ChunkWork
<1>15. done'[s][mine[t]] = 1
    BY <1>2, <1>8, <1>9, <1>12, <1>14
<1>16. CASE n >= Chunks(n)
    <2>1. ~Holds(t)' /\ Place(t)' = "next" /\ mine' = mine /\ current_chunk' = current_chunk
        BY <1>1, <1>2, <1>6, <1>16 DEF Holds
    <2>2. Chunks(n) <= current_chunk
        BY <1>3, <1>7, <1>8, <1>16 DEF ChunkWork
    <2>3. \A u \in Active : IF Holds(u)' THEN mine[u] < current_chunk ELSE Chunks(n) <= current_chunk
        BY <1>3, <1>11, <2>1, <2>2 DEF ChunkWork
    <2>4. \A u \in Active : Place(u)' = "chunk" => mine[u] < Chunks(n)
        BY <1>3, <1>11, <2>1 DEF ChunkWork
    <2>5. \A u \in Active, v \in Active : u # v /\ Holds(u)' /\ Holds(v)' => mine[u] # mine[v]
        BY <1>3, <1>11, <2>1 DEF ChunkWork
    <2>6. ASSUME NEW c \in Items
          PROVE  done'[s][c] = IF /\ c < Chunks(n) /\ c < current_chunk
                                  /\ \A u \in Active : Holds(u)' => mine[u] # c
                               THEN 1 ELSE 0
        <3>1. CASE c = mine[t]
            BY <1>8, <1>11, <1>13, <1>15, <2>1, <3>1
        <3>2. CASE c # mine[t]
            <4>1. (\A u \in Active : Holds(u)' => mine[u] # c)
                     <=> (\A u \in Active : Holds(u) => mine[u] # c)
                BY <1>11, <2>1, <3>2
            <4> QED BY <1>9, <1>14, <3>2, <4>1
        <3> QED BY <3>1, <3>2
    <2>7. ChunkWork(b)'
        BY <1>1, <1>3, <1>11, <2>1, <2>3, <2>4, <2>5, <2>6 DEF ChunkWork
    <2> QED BY <1>3, <1>9, <1>10, <2>7, WithinWork DEF Inv
<1>17. CASE ~(n >= Chunks(n))
    <2>1. /\ Holds(t)' /\ Place(t)' = "pick" /\ mine'[t] = current_chunk
          /\ current_chunk' = current_chunk + 1
        BY <1>1, <1>2, <1>6, <1>17 DEF Holds
    <2>2. ASSUME NEW u \in Active
          PROVE  IF Holds(u)' THEN mine'[u] < current_chunk' ELSE Chunks(n) <= current_chunk'
        <3>1. CASE u = t
            BY <1>8, <2>1, <3>1
        <3>2. CASE u # t
            <4>1. /\ Holds(u)' <=> Holds(u)
                  /\ mine'[u] = mine[u] /\ mine[u] \in Nat
                BY <1>11, <3>2, ActiveThreads DEF Inv, TypeOK
            <4>2. IF Holds(u) THEN mine[u] < current_chunk ELSE Chunks(n) <= current_chunk
                BY <1>3 DEF ChunkWork
            <4> QED BY <1>8, <2>1, <4>1, <4>2
        <3> QED BY <3>1, <3>2
    <2>3. \A u \in Active : Place(u)' = "chunk" => mine'[u] < Chunks(n)
        BY <1>3, <1>11, <2>1 DEF ChunkWork
    <2>4. ASSUME NEW u \in Active, NEW v \in Active, u # v, Holds(u)', Holds(v)'
          PROVE  mine'[u] # mine'[v]
        <3>1. CASE u # t /\ v # t
            BY <1>3, <1>11, <2>4, <3>1 DEF ChunkWork
        <3>2. \A w \in Active : w # t /\ Holds(w)' => mine'[w] < current_chunk /\ mine'[w] \in Nat
            BY <1>11, <1>13, ActiveThreads DEF Inv, TypeOK
        <3>3. CASE u = t
            BY <1>8, <2>1, <2>4, <3>2, <3>3
        <3>4. CASE v = t
            BY <1>8, <2>1, <2>4, <3>2, <3>4
        <3> QED BY <3>1, <3>3, <3>4
    <2>5. ASSUME NEW c \in Items
          PROVE  done'[s][c] = IF /\ c < Chunks(n) /\ c < current_chunk'
                                  /\ \A u \in Active : Holds(u)' => mine'[u] # c
                               THEN 1 ELSE 0
        <3>1. c \in Nat
            BY Constants DEF Items
        <3>2. CASE c = mine[t]
            <4>1. \A u \in Active : Holds(u)' => mine'[u] # c
                BY <1>8, <1>11, <1>13, <2>1, <3>2
            <4> QED BY <1>8, <1>15, <2>1, <3>2, <4>1
        <3>3. CASE c # mine[t] /\ c < current_chunk
            <4>1. (\A u \in Active : Holds(u)' => mine'[u] # c)
                     <=> (\A u \in Active : Holds(u) => mine[u] # c)
                BY <1>8, <1>11, <1>12, <2>1, <3>1, <3>3
            <4>2. c < current_chunk'
                BY <1>8, <2>1, <3>1, <3>3
            <4> QED BY <1>9, <1>14, <3>3, <4>1, <4>2
        <3>4. CASE c # mine[t] /\ ~(c < current_chunk)
            <4>1. done'[s][c] = 0
                BY <1>9, <1>14, <3>4
            <4>2. c < current_chunk' => c = current_chunk
                BY <1>8, <2>1, <3>1, <3>4
            <4> QED BY <1>2, <2>1, <4>1, <4>2
        <3> QED BY <3>2, <3>3, <3>4
    <2>6. n <= current_chunk'
        BY <1>3, <1>7, <1>8, <2>1 DEF ChunkWork
    <2>7. ChunkWork(b)'
        BY <1>1, <1>3, <1>11, <2>2, <2>3, <2>4, <2>5, <2>6 DEF ChunkWork
    <2> QED BY <1>3, <1>9, <1>10, <2>7, WithinWork DEF Inv
<1> QED BY <1>16, <1>17

LEMMA NextNodeStep ==
    ASSUME Inv, NEW t \in Threads, NEW b \in Nat, NEW h \in {0, 1}, Busy(b, h), Work(b, h),
           NextNode(t)
    PROVE  Work(b, h)'
<1> DEFINE j == node_n[t]
<1>1. /\ Moves(t) /\ pc[t] = "next" /\ nth' = nth /\ done' = done /\ mine' = mine
      /\ n_graph' = n_graph /\ last_graph' = last_graph /\ current_chunk' = current_chunk
      /\ abort' \in {abort, j + 1} /\ node_n'[t] = j + 1
      /\ pc'[t] \in {"loop", "read"} /\ (pc'[t] = "read" => after'[t] = "loop")
    BY DEF NextNode, Arrive, Inv, TypeOK, Go, Moves
<1>2. /\ Place(t) = "next" /\ ~Late(t) /\ (t # 0 => last_graph[t] = n_graph)
      /\ Between("next", j, b, h) /\ nth[t] = n_graph.threads /\ j \in Nat /\ NNodes \in Nat
    BY <1>1, Computes DEF Computing
<1>3. First(b, j) /\ h = Half(j) /\ j \in b .. NNodes - 1
    BY <1>2 DEF Between, First, Skipped
<1>4. Place(t)' = pc'[t] /\ ~Late(t)' /\ Informed(t)'
    BY <1>1, <1>2 DEF Place, Released, Late, Informed
<1>5. \A k \in b .. NNodes - 1 : k \in Nat
    BY <1>2
<1>6. \A k \in b .. NNodes - 1 : First(b, k) => k = j
    BY <1>2, <1>3, <1>5, OneFirstNow
<1>7. \A k \in b .. NNodes - 1 : First(b, k)' <=> First(b, k)
    <2>1. \A k \in Nat : First(b, k) => First(b, k)'
        BY <1>1, <1>2, <1>3, AbortBehind
    <2>2. PICK m \in Nat : m = j
        BY <1>2
    <2>3. First(b, m) /\ First(b, m)'
        BY <1>3, <2>1, <2>2
    <2>4. \A k \in b .. NNodes - 1 : First(b, k)' => k = m
        BY <1>5, <2>3, OneFirst
    <2> QED BY <1>5, <2>1, <2>3, <2>4
<1>8. Within(t, b, h)
    <2>1. abort' = -1 \/ abort' >= b
        BY <1>1, <1>2, <1>3 DEF Work
    <2> QED BY <1>1, <1>4, <1>7, <2>1 DEF Within
<1>9. h = 1 => abort' # b
    <2>1. h = 1 => abort # b
        BY DEF Work, ChunkWork
    <2> QED BY <1>1, <1>2, <1>3, <2>1
<1>10. \A k \in b .. NNodes - 1 : First(b, k) => Sliced(t, k) /\ Sliced(t, k)'
    BY <1>1, <1>2, <1>4, <1>6 DEF Sliced
<1>11. ~Shared(t)' /\ ~Holds(t) /\ ~Holds(t)' /\ Place(t)' # "chunk"
    BY <1>1, <1>2, <1>4 DEF Shared, Holds, Inside
<1> QED BY <1>1, <1>8, <1>9, <1>10, <1>11, WithinPhase DEF Inv

\* The last thread opens the barrier: all leave it at once.
LEMMA ReleaseStep ==
    ASSUME Inv, NEW t \in Threads, NEW b \in 0 .. NNodes, NEW h \in {0, 1}, Busy(b, h), Work(b, h),
           BarrierRelease(t), Together(b, h)'
    PROVE  Work(b, h)'
<1>1. /\ n_graph' = n_graph /\ Active' = Active /\ done' = done /\ mine' = mine
      /\ current_chunk' = current_chunk /\ abort' = abort /\ nth' = nth
      /\ node_n' = node_n /\ after' = after /\ last_graph' = last_graph
    BY DEF BarrierRelease, Active
<1>2. Last(t) /\ Place(t) = "release"
    BY DEF BarrierRelease, Last, Place, Released
<1>3. t \in Active /\ OthersWait(t)
    <2>1. Place(t) \notin AtRest \cup MainAtRest
        BY <1>2 DEF AtRest, MainAtRest, WorkerPc
    <2> QED BY <1>2, <2>1, OnItsWay DEF Inv, Counting
<1>4. ASSUME NEW u \in Active
      PROVE  /\ Place(u) \in Inside /\ Place(u)' = after[u] /\ after[u] \in {"loop", "pick", "exit"}
             /\ ~Late(u) /\ ~Late(u)'
             /\ Arrived(after[u], node_n[u], b, h) /\ node_n[u] \in Nat
    <2>1. u \in Threads
        BY ActiveThreads DEF Inv
    <2>2. Place(u) \in {"spin", "release"}
        BY <1>2, <1>3 DEF OthersWait, Place, Waits, Released
    <2>3. /\ Place(u)' = after'[u] /\ (u # 0 => last_graph'[u] = n_graph')
          /\ Arrived(after[u], node_n[u], b, h)'
        BY <1>1 DEF Together
    <2>4. Arrived(after[u], node_n[u], b, h)
        BY <1>1, <2>3 DEF Arrived, PastLast, First, Skipped
    <2>5. after[u] \in {"loop", "pick", "exit"} /\ node_n[u] \in Nat
        BY <2>1, Constants DEF Inv, TypeOK
    <2> QED BY <1>1, <2>2, <2>3, <2>4, <2>5 DEF Inside, Late, AtRest, WorkerPc
<1>5. ASSUME NEW u \in Active, NEW k \in b .. NNodes - 1, First(b, k), h = 0
      PROVE  Sliced(u, k)' <=> Sliced(u, k)
    <2>1. k \in Nat /\ NNodes \in Nat /\ b \in Nat /\ node_n[u] \in Nat
        BY <1>4, Constants
    <2>2. CASE after[u] = "loop" => node_n[u] # k
        BY <1>1, <1>4, <2>2 DEF Sliced, Inside
    <2>3. CASE after[u] = "loop" /\ node_n[u] = k
        BY <1>4, <1>5, <2>1, <2>3 DEF Arrived, First, Skipped
    <2> QED BY <2>2, <2>3
<1>6. ASSUME NEW u \in Active
      PROVE  /\ Shared(u)' => Shared(u)
             /\ h = 1 => ~Holds(u) /\ ~Holds(u)'
             /\ Place(u) # "chunk" /\ Place(u)' # "chunk"
             /\ Informed(u)'
    <2>1. Shared(u)' => Shared(u)
        BY <1>1, <1>4 DEF Shared
    <2>2. h = 1 => after[u] # "pick"
        BY <1>4 DEF Arrived
    <2>3. Informed(u)'
        BY <1>1, <1>4 DEF Work, Informed, Inside
    <2> QED BY <1>4, <2>1, <2>2, <2>3 DEF Holds, Inside
<1>7. \A k \in b .. NNodes - 1 : First(b, k)' <=> First(b, k)
    BY <1>1 DEF First, Skipped
<1>8. ASSUME h = 0
      PROVE  SliceWork(b)'
    <2>1. SliceWork(b)
        BY <1>8 DEF Work
    <2>2. ASSUME NEW k \in b .. NNodes - 1, First(b, k)', NEW i \in Items
          PROVE  done'[2 * k][i] = IF i \in Active' /\ Sliced(i, k)' THEN 1 ELSE 0
        BY <1>1, <1>5, <1>7, <1>8, <2>1, <2>2 DEF SliceWork
    <2> QED BY <1>1, <1>6, <2>1, <2>2 DEF SliceWork
<1>9. ASSUME h = 1
      PROVE  ChunkWork(b)'
    <2>1. ChunkWork(b)
        BY <1>9 DEF Work
    <2> QED BY <1>1, <1>6, <1>9, <2>1 DEF ChunkWork
<1>10. /\ \A s \in Stages : s < 2 * b + h => Complete(s, n_graph.threads)'
       /\ \A s \in Stages : s >= 2 * b + h
              /\ (\A k \in b .. NNodes - 1 : First(b, k)' => s # 2 * k + h) => Untouched(s)'
    BY <1>1, <1>7 DEF Work, Complete, Untouched
<1> QED BY <1>1, <1>6, <1>8, <1>9, <1>10 DEF Work

LEMMA CallerBusy ==
    ASSUME Inv, pc[0] \in MainAtRest, NEW b, NEW h, Busy(b, h)
    PROVE  FALSE
<1>1. Place(0) = pc[0]
    BY DEF Place, Released, MainAtRest
<1>2. At(0, b, h)
    BY ActiveThreads DEF Busy, Active, Inv
<1> QED BY <1>1, <1>2 DEF At, Late, Between, Inside, MainAtRest

DoneType == done \in [Stages -> [Items -> Nat]]

LEMMA BusyWork ==
    ASSUME Inv, DoneType, [Next]_vars, ~Kickoff,
           NEW b \in 0 .. NNodes, NEW h \in {0, 1}, Busy(b, h), Work(b, h)
    PROVE  WorkPhase' /\ DoneType'
<1>1. b \in Nat /\ 0 \in Threads
    BY ActiveThreads, Constants DEF Inv
<1>2. Inv' /\ Follows
    BY NextFollows
<1>3. Work(b, h)' /\ DoneType'
    <2>1. ASSUME NEW t \in Threads, ComputeStep(t)
          PROVE  Work(b, h)' /\ DoneType'
        <3>1. CASE BarrierRead(t) \/ BarrierEnter(t) \/ BarrierReset(t) \/ BarrierLeave(t)
            BY <1>1, <3>1, BarrierWork
               DEF BarrierRead, BarrierEnter, BarrierReset, BarrierLeave, DoneType
        <3>2. CASE BarrierRelease(t)
            BY <3>2, ReleaseKeeps, ReleaseStep DEF BarrierRelease, DoneType
        <3>3. CASE ThreadStart(t) \/ Loop(t) \/ Share(t) \/ Pick(t) \/ NextNode(t)
            BY <1>1, <3>3, StartWork, LoopStep, ShareStep, PickStep, NextNodeStep
               DEF ThreadStart, Loop, Share, Pick, NextNode, DoneType
        <3>4. CASE Slice(t) \/ Chunk(t)
            BY <1>1, <3>4, SliceStep, ChunkStep DEF DoneType
        <3>5. CASE Exit(t)
            <4>1. t # 0
                BY <3>5, CallerBusy DEF Exit, MainAtRest
            <4>2. pc[t] = "exit" /\ pc'[t] = "top"
                BY <3>5, <4>1 DEF Exit, Go, Inv, TypeOK
            <4>3. Place(t) \in AtRest /\ Place(t)' \in AtRest
                BY <4>2 DEF Place, Released, AtRest, WorkerPc
            <4>4. Moves(t)
                BY <3>5 DEF Exit, Go, Inv, TypeOK, Moves, shared
            <4> QED BY <1>1, <3>5, <4>3, <4>4, StayWork DEF Exit, shared, DoneType
        <3> QED BY <2>1, <3>1, <3>2, <3>3, <3>4, <3>5 DEF ComputeStep
    <2>2. ASSUME NEW w \in Workers, WorkerStep(w)
          PROVE  Work(b, h)' /\ DoneType'
        <3>1. done' = done
            BY <2>2 DEF WorkerStep, WorkerTop, WorkerPause, WorkerResume, WorkerCheck, PollFlags,
                   PollGraph, WorkerLock, WorkerWake
        <3> QED BY <1>1, <2>2, <3>1, WorkerWork DEF DoneType
    <2>3. CASE (\E w \in Workers : SpuriousWake(w)) \/ UNCHANGED vars
        <3>1. /\ Moves(0) /\ Place(0)' = Place(0) /\ done' = done /\ mine' = mine
              /\ current_chunk' = current_chunk /\ abort' = abort /\ nth' = nth
              /\ after' = after /\ node_n' = node_n /\ last_graph' = last_graph
            BY <2>3 DEF SpuriousWake, vars, shared, Moves, Place, Released
        <3> QED BY <1>1, <3>1, StayWork DEF DoneType
    <2>4. CASE KickoffWake
        BY <1>1, <2>4, WakeWork DEF KickoffWake, DoneType
    <2>5. CASE Join \/ PauseOrResume \/ Free \/ \E n \in 1 .. NThreads : Compute(n)
        BY <2>5, CallerBusy DEF Join, PauseOrResume, Free, Compute, MainAtRest
    <2> QED BY <2>1, <2>2, <2>3, <2>4, <2>5 DEF Next, MainStep
<1>4. CASE Busy(b, h)'
    BY <1>3, <1>4 DEF WorkPhase
<1>5. CASE Together(b, h)'
    BY <1>2, <1>3, <1>5, WorkPassed DEF Inv
<1> QED BY <1>2, <1>3, <1>4, <1>5 DEF Follows

\* While nothing runs, what was computed changes only at the call of ggml_graph_compute().
LEMMA QuietWork ==
    ASSUME Inv, DoneType, [Next]_vars, ~Kickoff, Quiet, Result
    PROVE  Result' /\ DoneType'
<1>1. 0 \in Threads
    BY ActiveThreads DEF Inv
<1>2. ASSUME NEW t \in Threads
      PROVE  pc[t] \notin Computing \cup {"read", "enter", "reset", "release", "wake"}
    <2>1. ASSUME pc[t] \in Computing \cup {"read", "enter", "reset", "release", "wake"}
          PROVE  FALSE
        <3>1. Place(t) \notin AtRest \cup MainAtRest
            BY <2>1 DEF Place, Released, AtRest, MainAtRest, WorkerPc, Computing
        <3> QED BY <3>1, OnItsWay
    <2> QED BY <2>1
<1>3. ASSUME NEW n \in 1 .. NThreads, Compute(n)
      PROVE  Result' /\ DoneType'
    <2>1. pc'[0] = "kick" /\ done' = NothingDone /\ abort' = -1
        BY <1>1, <1>3 DEF Compute, Inv, TypeOK, Go
    <2>2. Place(0)' = "kick"
        BY <2>1 DEF Place, Released
    <2> QED BY <2>1, <2>2 DEF Result, DoneType, NothingDone
<1>4. CASE /\ done' = done /\ abort' = abort /\ n_graph' = n_graph
           /\ Place(0)' = "exit" => Place(0) = "exit"
           /\ pc'[0] = "kick" => pc[0] = "kick"
    <2>1. Whole => Whole'
        BY <1>4 DEF Whole, Ended, Complete, Untouched
    <2> QED BY <1>4, <2>1 DEF Result, DoneType
<1>5. ASSUME NEW t \in Threads, ComputeStep(t)
      PROVE  /\ done' = done /\ abort' = abort /\ n_graph' = n_graph
             /\ Place(0)' = "exit" => Place(0) = "exit"
             /\ pc'[0] = "kick" => pc[0] = "kick"
    <2>1. BarrierLeave(t) \/ Exit(t)
        BY <1>2, <1>5 DEF ComputeStep, BarrierRead, BarrierEnter, BarrierReset, BarrierRelease,
           ThreadStart, Loop, Slice, Share, Pick, Chunk, NextNode, Computing
    <2>2. /\ done' = done /\ abort' = abort /\ n_graph' = n_graph /\ Moves(t)
        BY <2>1 DEF BarrierLeave, Exit, shared, Moves, Inv, TypeOK, Go
    <2>3. CASE t # 0
        BY <1>1, <2>2, <2>3, Others DEF Moves
    <2>4. CASE t = 0 /\ Exit(t)
        <3>1. pc'[0] = "idle"
            BY <1>1, <2>4 DEF Exit, Inv, TypeOK, Go
        <3> QED BY <2>2, <3>1 DEF Place, Released
    <2>5. CASE t = 0 /\ BarrierLeave(t)
        <3>1. pc'[0] = after[0] /\ after[0] \in {"loop", "pick", "exit"} /\ Released(0)
            BY <1>1, <2>5 DEF BarrierLeave, Inv, TypeOK, Go, Released
        <3>2. Place(0) = after[0] /\ Place(0)' = after[0]
            BY <3>1 DEF Place, Released
        <3> QED BY <2>2, <3>1, <3>2
    <2> QED BY <2>1, <2>3, <2>4, <2>5
<1>6. ASSUME NEW w \in Workers, WorkerStep(w) \/ SpuriousWake(w)
      PROVE  /\ done' = done /\ abort' = abort /\ n_graph' = n_graph
             /\ Place(0)' = "exit" => Place(0) = "exit"
             /\ pc'[0] = "kick" => pc[0] = "kick"
    <2>1. w \in Threads /\ w # 0
        BY DEF Workers
    <2>2. /\ done' = done /\ abort' = abort /\ n_graph' = n_graph
          /\ pc'[0] = pc[0] /\ n_passed' = n_passed /\ n_barrier_passed' = n_barrier_passed
          /\ after' = after
        BY <1>1, <1>6, <2>1 DEF WorkerStep, WorkerTop, WorkerPause, WorkerResume, WorkerCheck,
           PollFlags, PollGraph, WorkerLock, WorkerWake, SpuriousWake, TakeGraph, shared,
           Inv, TypeOK, Go
    <2> QED BY <2>2 DEF Place, Released
<1>7. CASE Join \/ PauseOrResume \/ Free \/ UNCHANGED vars
    <2>1. /\ done' = done /\ abort' = abort /\ n_graph' = n_graph
          /\ n_passed' = n_passed /\ n_barrier_passed' = n_barrier_passed /\ after' = after
          /\ pc'[0] = pc[0] \/ pc'[0] \in {"join", "freed"}
        BY <1>1, <1>7 DEF Join, PauseOrResume, Free, vars, shared, Inv, TypeOK, Go
    <2>2. /\ Place(0)' = "exit" => Place(0) = "exit"
          /\ pc'[0] = "kick" => pc[0] = "kick"
        BY <2>1 DEF Place, Released
    <2> QED BY <1>4, <2>1, <2>2
<1>8. ~KickoffWake
    BY <1>1, <1>2 DEF KickoffWake
<1> QED BY <1>3, <1>4, <1>5, <1>6, <1>7, <1>8 DEF Next, MainStep

\* A graph begins: nothing of it is computed.
LEMMA KickoffWork ==
    ASSUME Inv, DoneType, Kickoff, WorkPhase
    PROVE  WorkPhase' /\ DoneType'
<1>1. Busy(0, 0)' /\ \A t \in Active' : IF t = 0 THEN Place(t)' = "wake" ELSE Late(t)'
    BY KickoffKeeps
<1>2. Result
    <2>1. pc[0] \in MainAtRest
        BY DEF Kickoff, MainAtRest
    <2> QED BY <2>1, CallerBusy DEF WorkPhase
<1>3. /\ done' = NothingDone /\ abort' = -1 /\ n_graph'.threads = nth[0] /\ nth' = nth
    BY <1>2 DEF Kickoff, Result
<1>4. \A s \in Stages : Untouched(s)'
    BY <1>3 DEF Untouched, NothingDone
<1>5. \A t \in Active' : /\ \A k : ~Sliced(t, k)'
                         /\ ~Shared(t)'
                         /\ Informed(t)'
    BY <1>1, <1>3 DEF Sliced, Shared, Informed, Inside
<1>6. SliceWork(0)'
    <2>1. \A k \in 0 .. NNodes - 1 : 2 * k \in Stages
        BY Constants, StageItems
    <2> QED BY <1>4, <1>5, <2>1 DEF SliceWork, Untouched
<1>7. \A s \in Stages : ~(s < 2 * 0 + 0)
    BY Constants DEF Stages
<1>8. Work(0, 0)'
    BY <1>3, <1>4, <1>5, <1>6, <1>7 DEF Work
<1>9. 0 \in 0 .. NNodes /\ 0 \in {0, 1}
    BY Constants
<1> QED BY <1>1, <1>8, <1>9 DEF WorkPhase, DoneType, Kickoff

(***************************************************************************)
(* The invariant, and what follows from it                                 *)
(***************************************************************************)
LEMMA InitWork == Init => WorkInv
<1> SUFFICES ASSUME Init
             PROVE  WorkInv
    OBVIOUS
<1>1. Active = {} /\ 0 \in Threads
    BY Constants DEF Init, Active, Threads
<1>2. Place(0) = "idle" /\ pc[0] = "idle"
    BY <1>1 DEF Init, Place, Released
<1>3. Quiet /\ Result
    BY <1>1, <1>2 DEF Quiet, Result, MainAtRest
<1>4. DoneType
    BY DEF Init, DoneType, NothingDone
<1> QED BY <1>3, <1>4, InitInv DEF WorkInv, WorkPhase, DoneType

LEMMA NextWork == WorkInv /\ [Next]_vars => WorkInv'
<1> SUFFICES ASSUME WorkInv, [Next]_vars
             PROVE  WorkInv'
    OBVIOUS
<1>1. Inv /\ DoneType /\ WorkPhase
    BY DEF WorkInv, DoneType
<1>2. Inv'
    BY <1>1, NextInv
<1>3. CASE Kickoff
    BY <1>1, <1>2, <1>3, KickoffWork DEF WorkInv, DoneType
<1>4. CASE ~Kickoff /\ Quiet /\ Result
    <2>1. Result' /\ DoneType'
        BY <1>1, <1>4, QuietWork
    <2>2. Quiet'
        BY <1>1, <1>4, NextFollows DEF Follows
    <2> QED BY <1>2, <2>1, <2>2 DEF WorkInv, WorkPhase, DoneType
<1>5. ASSUME ~Kickoff, NEW b \in 0 .. NNodes, NEW h \in {0, 1}, Busy(b, h), Work(b, h)
      PROVE  WorkInv'
    BY <1>1, <1>2, <1>5, BusyWork DEF WorkInv, DoneType
<1> QED BY <1>1, <1>3, <1>4, <1>5 DEF WorkPhase

\* A thread that computes a slice or a chunk finds every item of every earlier stage
\* computed, once, by whichever threads (the barriers of ggml_graph_compute_thread and of
\* ggml_compute_forward_mul_mat).
THEOREM PoolStagesInOrder == Spec => []StagesInOrder
<1>1. ASSUME WorkInv, NEW t \in Threads, pc[t] \in {"slice", "chunk"},
             NEW s \in Stages, s < StageOf(t)
      PROVE  Complete(s, n_graph.threads)
    <2>1. Inv /\ pc[t] \in Computing
        BY <1>1 DEF WorkInv, Computing
    <2>2. ~Quiet
        <3>1. Place(t) \notin AtRest \cup MainAtRest
            BY <1>1 DEF Place, Released, AtRest, MainAtRest, WorkerPc
        <3> QED BY <2>1, <3>1, OnItsWay
    <2>3. PICK b \in 0 .. NNodes, h \in {0, 1} : Busy(b, h) /\ Work(b, h)
        BY <1>1, <2>2 DEF WorkInv, WorkPhase
    <2>4. Between(pc[t], node_n[t], b, h) /\ node_n[t] \in Nat /\ b \in Nat /\ NNodes \in Nat
        BY <2>1, <2>3, Computes, Constants
    <2>5. s \in Nat
        BY Constants DEF Stages
    <2>6. CASE pc[t] = "slice"
        <3>1. h = 0 /\ First(b, node_n[t]) /\ s < 2 * node_n[t]
            BY <1>1, <2>4, <2>6 DEF Between, StageOf
        <3>2. CASE s < 2 * b
            BY <2>3, <2>4, <3>1, <3>2 DEF Work
        <3>3. CASE s >= 2 * b
            <4>1. \A i \in b .. node_n[t] - 1 : Graph[i + 1] = "empty"
                BY <3>1 DEF First, Skipped
            <4>2. n_graph.threads \in Nat
                BY <2>1, ActiveThreads DEF Inv
            <4>3. ItemsOf(s, n_graph.threads) = {}
                BY <2>4, <3>1, <3>3, <4>1, <4>2, NoItems
            <4> QED BY <4>3 DEF Complete
        <3> QED BY <2>4, <2>5, <3>2, <3>3
    <2>7. CASE pc[t] = "chunk"
        <3>1. h = 1 /\ First(b, node_n[t]) /\ s < 2 * node_n[t] + 1
            BY <1>1, <2>4, <2>7 DEF Between, StageOf
        <3>2. Graph[b + 1] = "mulmat" /\ b < NNodes
            BY <2>3, <3>1 DEF Work, ChunkWork
        <3>3. b <= node_n[t] /\ \A i \in b .. node_n[t] - 1 : Graph[i + 1] = "empty"
            BY <3>1 DEF First, Skipped
        <3>4. node_n[t] = b
            BY <2>4, <3>2, <3>3
        <3> QED BY <2>3, <3>1, <3>4 DEF Work
    <2> QED BY <1>1, <2>6, <2>7
<1>2. WorkInv => StagesInOrder
    BY <1>1 DEF StagesInOrder
<1> QED BY <1>2, InitWork, NextWork, PTL DEF Spec

\* When ggml_graph_compute() returns, every item of the graph was computed exactly once;
\* after an abort, every item up to the node of the abort and none behind it.
THEOREM PoolReturnsWhole == Spec => []ReturnsWhole
<1>1. ASSUME WorkInv, pc[0] = "exit"
      PROVE  Whole
    <2>1. Inv /\ pc[0] \in MainAtRest /\ Place(0) = "exit"
        BY <1>1 DEF WorkInv, MainAtRest, Place, Released
    <2>2. Result
        BY <1>1, <2>1, CallerBusy DEF WorkInv, WorkPhase
    <2> QED BY <2>1, <2>2 DEF Result
<1>2. WorkInv => ReturnsWhole
    BY <1>1 DEF Whole, ReturnsWhole, Untouched
<1> QED BY <1>2, InitWork, NextWork, PTL DEF Spec
=============================================================================
