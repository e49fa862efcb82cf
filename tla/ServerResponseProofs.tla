------------------------ MODULE ServerResponseProofs ------------------------
(***************************************************************************)
(* Theorems about the results of the server, for any readers, tasks and    *)
(* bounds: no final result is lost on its way to a reader that reads, a    *)
(* reader that is gone leaves neither results nor tasks behind, and the    *)
(* shared queue implements one ordered channel for each task.              *)
(*                                                                         *)
(* The final result or error of a task is the last of its results          *)
(* (EndsLast), since nothing is sent for a task that has ended; a reader   *)
(* takes its results in order, so once it has the final one no other       *)
(* result of that task is in the queue (Received).  A reader that stops    *)
(* early removes its ids first, so that send() drops what comes later, and *)
(* then the results that are there (Purging).                              *)
(*                                                                         *)
(* For the channels, the results of a task are compared before and after a *)
(* step through their positions in the queue: where an order-preserving    *)
(* correspondence of positions exists (Alike), the channel is the same.    *)
(***************************************************************************)
EXTENDS ServerResponse, FiniteSetTheorems, TLAPS

(***************************************************************************)
(* The inductive invariant                                                 *)
(***************************************************************************)
\* A result of task t is in the queue q.
Has(q, t) == \E i \in DOMAIN q : q[i].id = t

EndsLast(q) == \A i, j \in DOMAIN q : i < j /\ q[i].id = q[j].id => q[i].kind = "partial"
EndsKnown ==
    \A i \in DOMAIN queue_results :
        queue_results[i].kind # "partial" => task[queue_results[i].id] = queue_results[i].kind

Before(r) == readerPc[r] \in {"new", "post"}
NotPosted == \A r \in Readers : Before(r) => \A t \in IdsOf[r] : task[t] = "none"

Registered ==
    \A r \in Readers : Reading(r) \/ readerPc[r] \in {"post", "stop"} => IdsOf[r] \subseteq waiting_task_ids

Received ==
    \A r \in Readers : /\ results[r] \subseteq IdsOf[r]
                       /\ \A t \in results[r] : task[t] = "final" /\ ~Has(queue_results, t)

\* What a reader that still reads has not received is in the queue.
Kept ==
    \A r \in Readers : Reading(r) => \A t \in IdsOf[r] :
        /\ task[t] = "final" => t \in results[r] \/ Queued(t, "final")
        /\ task[t] = "error" => Queued(t, "error")

Purging ==
    \A r \in Readers :
        /\ removing[r] \subseteq IdsOf[r]
        /\ cancelled[r] => readerPc[r] \in {"purge", "done"}
        /\ readerPc[r] = "purge" =>
              /\ IdsOf[r] \cap waiting_task_ids = {}
              /\ \A t \in IdsOf[r] \ removing[r] : ~Has(queue_results, t)

\* A reader that is gone, has left nothing behind and no task that runs for nobody.
Gone ==
    \A r \in Readers : readerPc[r] = "done" =>
        /\ IdsOf[r] \cap waiting_task_ids = {}
        /\ \A t \in IdsOf[r] : /\ ~Has(queue_results, t)
                               /\ task[t] = "final" \/ t \in cancels

Rest ==
    /\ EndsLast(queue_results) /\ EndsKnown /\ NotPosted /\ Registered
    /\ Received /\ Kept /\ Purging /\ Gone
IInv == TypeOK /\ Rest

(***************************************************************************)
(* Removing results                                                        *)
(***************************************************************************)
\* The queue s is what is left of q at the positions in K, in the same order.
Picks(s, q, K) ==
    \E f \in [DOMAIN s -> K] :
        /\ \A j \in DOMAIN s : s[j] = q[f[j]]
        /\ \A j, k \in DOMAIN s : j < k => f[j] < f[k]
        /\ \A i \in K : \E j \in DOMAIN s : f[j] = i

\* The members of a finite set of numbers are counted through, from the smallest on.
LEMMA Ranks ==
    ASSUME NEW K \in SUBSET Nat, IsFiniteSet(K)
    PROVE  /\ \A i \in K : Place(K, i) \in 1 .. Cardinality(K)
           /\ \A i, j \in K : i < j => Place(K, i) < Place(K, j)
           /\ \A n \in 1 .. Cardinality(K) : \E i \in K : Place(K, i) = n
<1> DEFINE Below(i) == {k \in K : k <= i}
           rank == [i \in K |-> Cardinality(Below(i))]
           N == Cardinality(K)
<1>1. N \in Nat /\ \A i : IsFiniteSet(Below(i)) /\ Cardinality(Below(i)) \in Nat /\ Cardinality(Below(i)) <= N
    BY FS_Subset, FS_CardinalityType
<1>2. ASSUME NEW i \in K
      PROVE  Cardinality(Below(i)) \in 1 .. N
    <2>1. i \in Below(i)
        OBVIOUS
    <2>2. Cardinality(Below(i)) # 0
        BY <1>1, <2>1, FS_EmptySet
    <2> QED BY <1>1, <2>2
<1>3. ASSUME NEW i \in K, NEW j \in K, i < j
      PROVE  Cardinality(Below(i)) < Cardinality(Below(j))
    <2>1. Below(i) \cup {j} \subseteq Below(j) /\ j \notin Below(i)
        <3>1. i \in Nat /\ j \in Nat /\ \A k \in K : k \in Nat
            OBVIOUS
        <3>2. \A k \in K : k <= i => k <= j
            BY <1>3, <3>1
        <3>3. j <= j /\ ~(j <= i)
            BY <1>3, <3>1
        <3> QED BY <3>2, <3>3
    <2>2. Cardinality(Below(i) \cup {j}) = Cardinality(Below(i)) + 1
        <3>1. IsFiniteSet(Below(i)) /\ j \notin Below(i)
            BY <1>1, <2>1
        <3> HIDE DEF Below
        <3> QED BY <3>1, FS_AddElement
    <2>3. Cardinality(Below(i) \cup {j}) <= Cardinality(Below(j))
        BY <1>1, <2>1, FS_Subset
    <2> QED BY <1>1, <2>2, <2>3
<1>4. rank \in Injection(K, 1 .. N)
    <2>1. rank \in [K -> 1 .. N]
        BY <1>2
    <2>2. ASSUME NEW i \in K, NEW j \in K, rank[i] = rank[j]
          PROVE  i = j
        <3>1. i \in Nat /\ j \in Nat /\ (i < j \/ j < i \/ i = j)
            OBVIOUS
        <3>2. ~(i < j) /\ ~(j < i)
            BY <1>1, <1>3, <2>2
        <3> QED BY <3>1, <3>2
    <2> QED BY <2>1, <2>2 DEF Injection, IsInjective
<1>5. IsFiniteSet(1 .. N) /\ Cardinality(1 .. N) = N
    BY <1>1, FS_Interval
<1>6. rank \in Surjection(K, 1 .. N)
    BY <1>4, <1>5, FS_Injection
<1>7. \A n \in 1 .. N : \E i \in K : Cardinality(Below(i)) = n
    BY <1>6 DEF Surjection
<1> QED BY <1>2, <1>3, <1>7 DEF Place

\* The sequence at the positions K has what is at each of them, at its place.
LEMMA AtPlaces ==
    ASSUME NEW K \in SUBSET Nat, IsFiniteSet(K), NEW q
    PROVE  /\ Cardinality(K) \in Nat /\ DOMAIN At(q, K) = 1 .. Cardinality(K)
           /\ \A i \in K : Place(K, i) \in 1 .. Cardinality(K) /\ At(q, K)[Place(K, i)] = q[i]
           /\ \A i, j \in K : i < j <=> Place(K, i) < Place(K, j)
           /\ \A n \in 1 .. Cardinality(K) : \E i \in K : Place(K, i) = n
<1> DEFINE N == Cardinality(K)
           Nth(n) == CHOOSE i \in K : Place(K, i) = n
<1>1. N \in Nat
    BY FS_CardinalityType
<1>2. /\ \A i \in K : Place(K, i) \in 1 .. N
      /\ \A i, j \in K : i < j => Place(K, i) < Place(K, j)
      /\ \A n \in 1 .. N : \E i \in K : Place(K, i) = n
    BY Ranks
<1>3. At(q, K) = [n \in 1 .. N |-> q[Nth(n)]]
    BY Zenon DEF At
<1> HIDE DEF N
<1>4. \A i \in K : i \in Nat /\ Place(K, i) \in Nat
    BY <1>1, <1>2
<1>5. ASSUME NEW i \in K, NEW j \in K, Place(K, i) <= Place(K, j)
      PROVE  i <= j
    <2>1. ~(j < i)
        BY <1>2, <1>4, <1>5
    <2> QED BY <1>4, <2>1
<1>6. \A i, j \in K : i < j <=> Place(K, i) < Place(K, j)
    <2> SUFFICES ASSUME NEW i \in K, NEW j \in K, Place(K, i) < Place(K, j)
                 PROVE  i < j
        BY <1>2
    <2>1. i <= j /\ i # j
        BY <1>4, <1>5
    <2> QED BY <1>4, <2>1
<1>7. ASSUME NEW i \in K
      PROVE  At(q, K)[Place(K, i)] = q[i]
    <2> DEFINE n == Place(K, i)
    <2>1. n \in 1 .. N
        BY <1>2
    <2>2. Nth(n) \in K /\ Place(K, Nth(n)) = n
        BY <2>1, <1>2
    <2>3. PICK m \in K : m = Nth(n) /\ Place(K, m) = Place(K, i)
        BY <2>2
    <2>4. m = i
        <3>1. m \in Nat /\ i \in Nat /\ Place(K, i) <= Place(K, i)
            BY <1>4
        <3>2. m <= i /\ i <= m
            BY <1>5, <2>3, <3>1
        <3> QED BY <3>1, <3>2
    <2> HIDE DEF Nth
    <2> QED BY <1>3, <2>1, <2>3, <2>4
<1> QED BY <1>1, <1>2, <1>3, <1>6, <1>7 DEF N

LEMMA AtPicks ==
    ASSUME NEW q \in Seq(Result), NEW K \in SUBSET DOMAIN q
    PROVE  /\ At(q, K) \in Seq(Result) /\ Len(At(q, K)) = Cardinality(K)
           /\ K \in SUBSET Nat /\ IsFiniteSet(K)
           /\ Picks(At(q, K), q, K)
<1> DEFINE N == Cardinality(K)
           s == At(q, K)
           Nth(n) == CHOOSE i \in K : Place(K, i) = n
           f == [n \in 1 .. N |-> Nth(n)]
<1>1. K \in SUBSET Nat /\ IsFiniteSet(K)
    <2>1. K \in SUBSET (1 .. Len(q)) /\ Len(q) \in Nat
        OBVIOUS
    <2>2. IsFiniteSet(1 .. Len(q))
        BY <2>1, FS_Interval
    <2>3. IsFiniteSet(K)
        BY <2>1, <2>2, FS_Subset
    <2> QED BY <2>1, <2>3
<1>2. /\ N \in Nat /\ DOMAIN s = 1 .. N
      /\ \A i \in K : Place(K, i) \in 1 .. N /\ s[Place(K, i)] = q[i]
      /\ \A i, j \in K : i < j <=> Place(K, i) < Place(K, j)
      /\ \A n \in 1 .. N : \E i \in K : Place(K, i) = n
    BY <1>1, AtPlaces
<1> HIDE DEF N, s
<1>3. \A n \in 1 .. N : Nth(n) \in K /\ Place(K, Nth(n)) = n
    BY <1>2
<1> HIDE DEF Nth
<1>4. f \in [1 .. N -> K] /\ \A n \in 1 .. N : f[n] \in K /\ Place(K, f[n]) = n
    BY <1>3
<1> HIDE DEF f
<1>5. \A n \in 1 .. N : s[n] = q[f[n]]
    BY <1>2, <1>4
<1>6. \A m, n \in 1 .. N : m < n => f[m] < f[n]
    BY <1>2, <1>4
<1>7. ASSUME NEW i \in K
      PROVE  \E n \in 1 .. N : f[n] = i
    <2>1. f[Place(K, i)] \in K /\ Place(K, f[Place(K, i)]) = Place(K, i)
        BY <1>2, <1>4
    <2>2. f[Place(K, i)] \in Nat /\ i \in Nat /\ Place(K, i) \in Nat
        BY <1>1, <1>2, <2>1
    <2>3. ~(f[Place(K, i)] < i) /\ ~(i < f[Place(K, i)])
        BY <1>2, <2>1, <2>2
    <2>4. f[Place(K, i)] = i
        BY <2>2, <2>3
    <2> QED BY <1>2, <2>4
<1>8. s \in Seq(Result) /\ Len(s) = N
    <2>1. \A n \in 1 .. N : s[n] \in Result
        BY <1>4, <1>5
    <2>2. s = [n \in 1 .. N |-> s[n]]
        BY <1>2 DEF s, At
    <2> QED BY <1>2, <2>1, <2>2
<1>9. Picks(s, q, K)
    <2>1. f \in [DOMAIN s -> K]
        BY <1>2, <1>4
    <2>2. /\ \A n \in DOMAIN s : s[n] = q[f[n]]
          /\ \A m, n \in DOMAIN s : m < n => f[m] < f[n]
          /\ \A i \in K : \E n \in DOMAIN s : f[n] = i
        BY <1>2, <1>5, <1>6, <1>7
    <2> QED BY <2>1, <2>2, Zenon DEF Picks
<1> QED BY <1>1, <1>8, <1>9 DEF s, N

LEMMA WithoutPicks ==
    ASSUME NEW q \in Seq(Result), NEW t
    PROVE  /\ Without(q, t) \in Seq(Result)
           /\ Picks(Without(q, t), q, DOMAIN q \ OwnedBy(q, t))
    BY AtPicks DEF Without

LEMMA RemoveAtPicks ==
    ASSUME NEW q \in Seq(Result), NEW i \in DOMAIN q
    PROVE  /\ RemoveAt(q, i) \in Seq(Result)
           /\ Picks(RemoveAt(q, i), q, DOMAIN q \ {i})
<1> DEFINE a == SubSeq(q, 1, i - 1)
           b == SubSeq(q, i + 1, Len(q))
           s == a \o b
           K == DOMAIN q \ {i}
           f == [j \in DOMAIN s |-> IF j < i THEN j ELSE j + 1]
<1>1. i \in 1 .. Len(q) /\ Len(q) \in Nat
    OBVIOUS
<1>2. a \in Seq(Result) /\ Len(a) = i - 1 /\ \A j \in 1 .. i - 1 : a[j] = q[j]
    BY <1>1
<1>3. b \in Seq(Result) /\ Len(b) = Len(q) - i /\ \A j \in 1 .. Len(q) - i : b[j] = q[j + i]
    BY <1>1
<1> HIDE DEF a, b
<1>4. s \in Seq(Result) /\ Len(s) = Len(q) - 1 /\ DOMAIN s = 1 .. Len(q) - 1
    BY <1>1, <1>2, <1>3
<1>5. ASSUME NEW j \in DOMAIN s
      PROVE  f[j] \in K /\ s[j] = q[f[j]]
    <2>1. j \in 1 .. Len(q) - 1
        BY <1>1, <1>4
    <2>2. CASE j < i
        BY <1>1, <1>2, <1>3, <2>1, <2>2
    <2>3. CASE ~(j < i)
        <3> DEFINE k == j - (i - 1)
        <3>1. k \in 1 .. Len(q) - i /\ k + i = j + 1
            <4> HIDE DEF s
            <4> QED BY <1>1, <2>1, <2>3
        <3>2. s[j] = b[k]
            <4>1. a \in Seq(Result) /\ b \in Seq(Result) /\ Len(a) = i - 1 /\ Len(b) = Len(q) - i
                BY <1>2, <1>3
            <4>2. j \in 1 .. Len(a) + Len(b) /\ j > Len(a)
                BY <1>1, <2>1, <2>3, <4>1
            <4>3. s[j] = b[j - Len(a)]
                BY <4>1, <4>2
            <4> QED BY <4>1, <4>3
        <3>3. b[k] = q[k + i]
            <4> HIDE DEF k, s
            <4> QED BY <1>3, <3>1, Zenon
        <3>6. s[j] = q[j + 1]
            <4> HIDE DEF k, s
            <4> QED BY <3>1, <3>2, <3>3
        <3>4. f[j] = j + 1
            BY <2>3
        <3>5. j + 1 \in 1 .. Len(q) /\ j + 1 # i
            BY <1>1, <2>1, <2>3
        <3> HIDE DEF s, f
        <3> QED BY <3>4, <3>5, <3>6
    <2> QED BY <2>2, <2>3
<1>6. \A j, k \in DOMAIN s : j < k => f[j] < f[k]
    BY <1>1, <1>4
<1>7. ASSUME NEW k \in K
      PROVE  \E j \in DOMAIN s : f[j] = k
    <2> DEFINE j == IF k < i THEN k ELSE k - 1
    <2>1. j \in 1 .. Len(q) - 1
        BY <1>1
    <2>2. f[j] = k
        BY <1>1, <1>4, <2>1
    <2> QED BY <1>4, <2>1, <2>2
<1>8. f \in [DOMAIN s -> K]
    BY <1>5
<1> HIDE DEF f, K, s
<1>9. Picks(s, q, K)
    BY <1>5, <1>6, <1>7, <1>8 DEF Picks
<1>10. s = RemoveAt(q, i)
    BY DEF RemoveAt, s, a, b
<1> QED BY <1>4, <1>9, <1>10 DEF K

\* What is left of a queue has the results at the positions that are left, in their order.
LEMMA PicksKeep ==
    ASSUME NEW q \in Seq(Result), NEW s \in Seq(Result), NEW K \in SUBSET DOMAIN q, Picks(s, q, K)
    PROVE  /\ EndsLast(q) => EndsLast(s)
           /\ \A j \in DOMAIN s : \E i \in K : s[j] = q[i]
           /\ \A i \in K : \E j \in DOMAIN s : s[j] = q[i]
<1>1. PICK f \in [DOMAIN s -> K] :
        /\ \A j \in DOMAIN s : s[j] = q[f[j]]
        /\ \A j, k \in DOMAIN s : j < k => f[j] < f[k]
        /\ \A i \in K : \E j \in DOMAIN s : f[j] = i
    BY DEF Picks
<1>2. EndsLast(q) => EndsLast(s)
    BY <1>1 DEF EndsLast
<1>3. \A j \in DOMAIN s : f[j] \in K
    BY <1>1
<1>4. \A j \in DOMAIN s : \E i \in K : s[j] = q[i]
    BY <1>1, <1>3
<1>5. \A i \in K : \E j \in DOMAIN s : s[j] = q[i]
    BY <1>1
<1> QED BY <1>2, <1>4, <1>5

(***************************************************************************)
(* Types                                                                   *)
(***************************************************************************)
LEMMA Ids ==
    /\ \A r \in Readers : IdsOf[r] \subseteq TaskIds /\ IsFiniteSet(IdsOf[r])
    /\ \A r, s \in Readers : r # s => IdsOf[r] \cap IdsOf[s] = {}
<1>1. \A r \in Readers : IdsOf[r] \subseteq TaskIds
    BY ReadersAssumption
<1> QED BY <1>1, ReadersAssumption, FS_Subset

LEMMA SendTypes ==
    ASSUME TypeOK, NEW res \in Result, Send(res)
    PROVE  queue_results' \in Seq(Result) /\ cv' \subseteq Readers
<1>1. CASE queue_results' = Append(queue_results, res) /\ cv' = {}
    <2>1. Append(queue_results, res) \in Seq(Result)
        BY DEF TypeOK
    <2> QED BY <1>1, <2>1
<1>2. CASE UNCHANGED <<queue_results, cv>>
    BY <1>2 DEF TypeOK
<1> QED BY <1>1, <1>2 DEF Send

LEMMA NextTypes == TypeOK /\ [Next]_vars => TypeOK'
<1> SUFFICES ASSUME TypeOK, [Next]_vars PROVE TypeOK'
    OBVIOUS
<1>1. CASE UNCHANGED vars
    BY <1>1 DEF vars, responseVars, readerVars, taskVars, TypeOK
<1>2. ASSUME NEW r \in Readers, Reader(r) PROVE TypeOK'
    <2>1. CASE Register(r)
        BY <2>1, Ids DEF Register, Goto, TypeOK, taskVars
    <2>2. CASE PostTasks(r)
        <3>1. task' \in [TaskIds -> {"none", "posted", "final", "error", "cancelled"}]
            BY <2>2 DEF PostTasks, TypeOK
        <3> QED BY <2>2, <3>1 DEF PostTasks, Goto, TypeOK, responseVars
    <2>3. CASE Leave(r) \/ Poll(r)
        BY <2>3 DEF Leave, Poll, Goto, TypeOK, responseVars, taskVars
    <2>4. CASE Timeout(r)
        BY <2>4 DEF Timeout, Goto, TypeOK, taskVars
    <2>5. CASE Recv(r)
        <3>1. CASE Wait(r)
            BY <2>5, <3>1 DEF Recv, Wait, Goto, TypeOK, taskVars
        <3>2. CASE Receive(r)
            <4>1. PICK i \in Mine(r) :
                    /\ Take(r, i)
                    /\ results' = IF queue_results[i].kind = "final"
                                  THEN [results EXCEPT ![r] = @ \cup {queue_results[i].id}] ELSE results
                    /\ Goto(r, IF queue_results[i].kind = "error" THEN "stop" ELSE "next")
                BY <3>2 DEF Receive
            <4>2. i \in DOMAIN queue_results /\ queue_results \in Seq(Result)
                BY DEF Mine, TypeOK
            <4>3. queue_results[i] \in Result
                BY <4>2
            <4>4. queue_results' \in Seq(Result)
                BY <4>1, <4>2, RemoveAtPicks DEF Take
            <4>5. results' \in [Readers -> SUBSET TaskIds]
                BY <4>1, <4>3 DEF TypeOK, Result
            <4>6. cv' = cv
                BY <4>1 DEF Take
            <4> QED BY <2>5, <4>1, <4>4, <4>5 DEF Recv, Take, Goto, TypeOK, taskVars
        <3> QED BY <2>5, <3>1, <3>2 DEF Recv
    <2>6. CASE Stop(r)
        BY <2>6, Ids DEF Stop, Goto, TypeOK, taskVars
    <2>7. CASE RemoveOne(r)
        <3>1. queue_results' \in Seq(Result)
            <4>1. PICK t : queue_results' = Without(queue_results, t)
                BY <2>7 DEF RemoveOne
            <4>2. queue_results \in Seq(Result)
                BY DEF TypeOK
            <4> QED BY <4>1, <4>2, WithoutPicks
        <3>2. /\ waiting_task_ids' \subseteq TaskIds
              /\ removing' \in [Readers -> SUBSET TaskIds]
            BY <2>7 DEF RemoveOne, TypeOK
        <3> QED BY <2>7, <3>1, <3>2 DEF RemoveOne, TypeOK, taskVars
    <2>8. CASE PostCancels(r)
        BY <2>8, Ids DEF PostCancels, Goto, TypeOK, responseVars
    <2> QED BY <1>2, <2>1, <2>2, <2>3, <2>4, <2>5, <2>6, <2>7, <2>8 DEF Reader
<1>3. ASSUME NEW r \in Readers, Close(r) PROVE TypeOK'
    BY <1>3 DEF Close, TypeOK, responseVars, readerVars, taskVars
<1>4. ASSUME NEW t \in TaskIds, Partial(t) PROVE TypeOK'
    <2>1. (partials[t] + 1) % (MaxPartials + 1) \in 0 .. MaxPartials
        BY ReadersAssumption DEF TypeOK
    <2>2. partials' \in [TaskIds -> 0 .. MaxPartials] /\ partials'[t] \in 0 .. MaxPartials
        BY <1>4, <2>1 DEF Partial, TypeOK
    <2>3. [id |-> t, kind |-> "partial", n |-> partials'[t]] \in Result
        BY <2>2 DEF Result
    <2>4. queue_results' \in Seq(Result) /\ cv' \subseteq Readers
        BY <1>4, <2>3, SendTypes DEF Partial
    <2> QED BY <1>4, <2>2, <2>4 DEF Partial, TypeOK, readerVars
<1>5. ASSUME NEW t \in TaskIds, Final(t) PROVE TypeOK'
    <2>1. PICK kind \in {"final", "error"} :
             /\ Send([id |-> t, kind |-> kind, n |-> 0])
             /\ task' = [task EXCEPT ![t] = kind]
        BY <1>5 DEF Final
    <2>2. [id |-> t, kind |-> kind, n |-> 0] \in Result
        BY ReadersAssumption DEF Result
    <2>3. queue_results' \in Seq(Result) /\ cv' \subseteq Readers
        BY <2>1, <2>2, SendTypes
    <2> QED BY <1>5, <2>1, <2>3 DEF Final, TypeOK, readerVars
<1>6. ASSUME NEW t \in TaskIds, HandleCancel(t) PROVE TypeOK'
    BY <1>6 DEF HandleCancel, TypeOK, responseVars, readerVars
<1> QED BY <1>1, <1>2, <1>3, <1>4, <1>5, <1>6 DEF Next

(***************************************************************************)
(* Steps of the readers                                                    *)
(***************************************************************************)
\* Reader r goes on; the queue, what was received and the tasks stay as they are.
Goes(r) ==
    /\ UNCHANGED <<queue_results, results, task>> /\ cancels \subseteq cancels'
    /\ readerPc' = [readerPc EXCEPT ![r] = readerPc'[r]]
    /\ cancelled' = [cancelled EXCEPT ![r] = cancelled'[r]]
    /\ removing' = [removing EXCEPT ![r] = removing'[r]]
    /\ \A t \in TaskIds \ IdsOf[r] : t \in waiting_task_ids' <=> t \in waiting_task_ids
    /\ Before(r)' => Before(r)
    /\ Reading(r)' => Reading(r)
    /\ Reading(r)' \/ readerPc'[r] \in {"post", "stop"} => IdsOf[r] \subseteq waiting_task_ids'
    /\ removing'[r] \subseteq IdsOf[r]
    /\ cancelled'[r] => readerPc'[r] \in {"purge", "done"}
    /\ readerPc'[r] = "purge" =>
          /\ IdsOf[r] \cap waiting_task_ids' = {}
          /\ \A t \in IdsOf[r] \ removing'[r] : ~Has(queue_results, t)
    /\ readerPc'[r] = "done" =>
          /\ IdsOf[r] \cap waiting_task_ids' = {}
          /\ \A t \in IdsOf[r] : ~Has(queue_results, t) /\ (task[t] = "final" \/ t \in cancels')

LEMMA GoesKeeps ==
    ASSUME TypeOK, Rest, NEW r \in Readers, Goes(r)
    PROVE  Rest'
<1>1. \A s \in Readers \ {r} : /\ readerPc'[s] = readerPc[s] /\ cancelled'[s] = cancelled[s]
                               /\ removing'[s] = removing[s]
    BY DEF Goes, TypeOK
<1>2. ASSUME NEW s \in Readers \ {r}, NEW t \in IdsOf[s]
      PROVE  t \in waiting_task_ids' <=> t \in waiting_task_ids
    <2>1. t \in TaskIds \ IdsOf[r]
        BY Ids
    <2> QED BY <2>1 DEF Goes
<1>3. UNCHANGED <<queue_results, results, task>> /\ cancels \subseteq cancels'
    BY DEF Goes
<1>4. EndsLast(queue_results)' /\ EndsKnown'
    BY <1>3 DEF Rest, EndsLast, EndsKnown
<1>5. NotPosted'
    BY <1>1, <1>3 DEF Rest, NotPosted, Before, Goes
<1>6. Registered'
    BY <1>1, <1>2 DEF Rest, Registered, Reading, Goes
<1>7. Received'
    BY <1>3 DEF Rest, Received, Has
<1>8. Kept'
    BY <1>1, <1>3 DEF Rest, Kept, Reading, Queued, Goes
<1>9. Purging'
    <2> SUFFICES ASSUME NEW s \in Readers
                 PROVE  (/\ removing[s] \subseteq IdsOf[s]
                         /\ cancelled[s] => readerPc[s] \in {"purge", "done"}
                         /\ readerPc[s] = "purge" =>
                               /\ IdsOf[s] \cap waiting_task_ids = {}
                               /\ \A t \in IdsOf[s] \ removing[s] : ~Has(queue_results, t))'
        BY DEF Purging
    <2>1. CASE s = r
        BY <1>3, <2>1 DEF Goes, Has
    <2>2. CASE s # r
        BY <1>1, <1>2, <1>3, <2>2 DEF Rest, Purging, Has
    <2> QED BY <2>1, <2>2
<1>10. Gone'
    <2> SUFFICES ASSUME NEW s \in Readers, readerPc'[s] = "done"
                 PROVE  (/\ IdsOf[s] \cap waiting_task_ids = {}
                         /\ \A t \in IdsOf[s] : /\ ~Has(queue_results, t)
                                                /\ task[t] = "final" \/ t \in cancels)'
        BY DEF Gone
    <2>1. CASE s = r
        BY <1>3, <2>1 DEF Goes, Has
    <2>2. CASE s # r
        BY <1>1, <1>2, <1>3, <2>2 DEF Rest, Gone, Has
    <2> QED BY <2>1, <2>2
<1> QED BY <1>4, <1>5, <1>6, <1>7, <1>8, <1>9, <1>10 DEF Rest

LEMMA GotoOK ==
    ASSUME TypeOK, NEW r \in Readers, NEW at, Goto(r, at)
    PROVE  readerPc' = [readerPc EXCEPT ![r] = readerPc'[r]] /\ readerPc'[r] = at
BY DEF TypeOK, Goto

\* A function that does not change is one that changes at r to what it is there.
LEMMA SameAt ==
    ASSUME TypeOK, NEW r \in Readers
    PROVE  /\ cancelled' = cancelled => cancelled' = [cancelled EXCEPT ![r] = cancelled'[r]]
           /\ removing' = removing => removing' = [removing EXCEPT ![r] = removing'[r]]
BY DEF TypeOK

LEMMA RegisterGoes ==
    ASSUME TypeOK, Rest, NEW r \in Readers, Register(r)
    PROVE  Goes(r)
<1>1. readerPc[r] = "new" /\ readerPc'[r] = "post" /\ readerPc' = [readerPc EXCEPT ![r] = readerPc'[r]]
    BY GotoOK DEF Register
<1>2. waiting_task_ids' = waiting_task_ids \cup IdsOf[r]
      /\ UNCHANGED <<queue_results, results, task, cancels, cancelled, removing>>
    BY DEF Register, taskVars
<1>3. removing[r] \subseteq IdsOf[r] /\ ~cancelled[r]
    BY <1>1 DEF Rest, Purging, TypeOK
<1> QED BY <1>1, <1>2, <1>3, SameAt DEF Goes, Before, Reading

\* The steps of a reader between two critical sections that take nothing.
LEMMA PlainGoes ==
    ASSUME TypeOK, Rest, NEW r \in Readers,
           UNCHANGED <<waiting_task_ids, queue_results, results, cancelled, removing, task, cancels>>,
           Reading(r), NEW at \in {"next", "scan", "waiting", "polled", "stop"}, Goto(r, at)
    PROVE  Goes(r)
<1>1. readerPc'[r] = at /\ readerPc' = [readerPc EXCEPT ![r] = readerPc'[r]]
    BY GotoOK
<1>2. removing[r] \subseteq IdsOf[r] /\ ~cancelled[r] /\ IdsOf[r] \subseteq waiting_task_ids
    BY DEF Rest, Purging, Registered, Reading, TypeOK
<1> QED BY <1>1, <1>2, SameAt DEF Goes, Before, Reading

LEMMA StopGoes ==
    ASSUME TypeOK, Rest, NEW r \in Readers, Stop(r)
    PROVE  Goes(r)
<1>1. readerPc[r] = "stop" /\ waiting_task_ids' = waiting_task_ids \ IdsOf[r]
      /\ UNCHANGED <<queue_results, results, task, cancels>>
    BY DEF Stop, taskVars
<1>2. CASE HasNext(r)
    <2>1. cancelled' = [cancelled EXCEPT ![r] = TRUE] /\ removing' = [removing EXCEPT ![r] = IdsOf[r]]
          /\ Goto(r, "purge")
        BY <1>2 DEF Stop
    <2>2. readerPc'[r] = "purge" /\ readerPc' = [readerPc EXCEPT ![r] = readerPc'[r]]
        BY <2>1, GotoOK
    <2>3. removing'[r] = IdsOf[r] /\ removing' = [removing EXCEPT ![r] = removing'[r]]
          /\ cancelled' = [cancelled EXCEPT ![r] = cancelled'[r]]
        BY <2>1 DEF TypeOK
    <2> QED BY <1>1, <2>2, <2>3 DEF Goes, Before, Reading
<1>3. CASE ~HasNext(r)
    <2>1. Goto(r, "done") /\ UNCHANGED <<cancelled, removing>>
        BY <1>3 DEF Stop
    <2>2. readerPc'[r] = "done" /\ readerPc' = [readerPc EXCEPT ![r] = readerPc'[r]]
        BY <2>1, GotoOK
    <2>3. ~cancelled[r] /\ removing[r] \subseteq IdsOf[r] /\ results[r] \subseteq IdsOf[r]
        BY <1>1 DEF Rest, Purging, Received, TypeOK
    <2>4. results[r] = IdsOf[r]
        <3>1. Cardinality(results[r]) >= Cardinality(IdsOf[r])
            <4>1. Cardinality(results[r]) \in Nat /\ Cardinality(IdsOf[r]) \in Nat
                BY <2>3, Ids, FS_Subset, FS_CardinalityType
            <4> QED BY <1>3, <2>3, <4>1 DEF HasNext
        <3> QED BY <2>3, <3>1, Ids, FS_Subset, FS_CardinalityType
    <2>5. \A t \in IdsOf[r] : ~Has(queue_results, t) /\ task[t] = "final"
        BY <2>4 DEF Rest, Received
    <2> QED BY <1>1, <2>1, <2>2, <2>3, <2>5, SameAt DEF Goes, Before, Reading
<1> QED BY <1>2, <1>3

LEMMA PostCancelsGoes ==
    ASSUME TypeOK, Rest, NEW r \in Readers, PostCancels(r)
    PROVE  Goes(r)
<1>1. readerPc[r] = "purge" /\ removing[r] = {} /\ cancels' = cancels \cup IdsOf[r]
      /\ UNCHANGED <<waiting_task_ids, queue_results, results, cancelled, removing, task>>
    BY DEF PostCancels, responseVars
<1>2. readerPc'[r] = "done" /\ readerPc' = [readerPc EXCEPT ![r] = readerPc'[r]]
    BY GotoOK DEF PostCancels
<1>3. IdsOf[r] \cap waiting_task_ids = {} /\ \A t \in IdsOf[r] : ~Has(queue_results, t)
    BY <1>1 DEF Rest, Purging
<1> QED BY <1>1, <1>2, <1>3, SameAt DEF Goes, Before, Reading

\* The tasks are posted by the reader that has registered them.
LEMMA PostTasksKeeps ==
    ASSUME TypeOK, Rest, NEW r \in Readers, PostTasks(r)
    PROVE  Rest'
<1>1. /\ readerPc[r] = "post" /\ readerPc'[r] = "next"
      /\ \A s \in Readers \ {r} : readerPc'[s] = readerPc[s]
    BY DEF PostTasks, Goto, TypeOK
<1>2. UNCHANGED <<waiting_task_ids, queue_results, results, cancelled, removing, cancels>>
    BY DEF PostTasks, responseVars
<1>3. \A t \in TaskIds : task'[t] = IF t \in IdsOf[r] THEN "posted" ELSE task[t]
    BY DEF PostTasks
<1>4. \A t \in IdsOf[r] : t \in TaskIds /\ task[t] = "none" /\ task'[t] = "posted"
    BY <1>1, <1>3, Ids DEF Rest, NotPosted, Before
<1>5. \A s \in Readers \ {r} : \A t \in IdsOf[s] : task'[t] = task[t]
    BY <1>3, Ids
<1>6. \A t \in TaskIds : task[t] # "none" => task'[t] = task[t]
    BY <1>3, <1>4
<1>7. EndsLast(queue_results)' /\ Registered' /\ Purging'
    <2>1. EndsLast(queue_results)'
        BY <1>2 DEF Rest, EndsLast
    <2>2. Registered'
        BY <1>1, <1>2 DEF Rest, Registered, Reading
    <2>3. Purging'
        BY <1>1, <1>2 DEF Rest, Purging, Has
    <2> QED BY <2>1, <2>2, <2>3
<1>8. EndsKnown'
    <2>1. ASSUME NEW i \in DOMAIN queue_results, queue_results[i].kind # "partial"
          PROVE  task'[queue_results[i].id] = queue_results[i].kind
        <3>1. queue_results[i] \in Result
            BY DEF TypeOK
        <3>2. queue_results[i].id \in TaskIds /\ queue_results[i].kind # "none"
            BY <3>1 DEF Result
        <3>3. task[queue_results[i].id] = queue_results[i].kind
            BY <2>1 DEF Rest, EndsKnown
        <3> QED BY <1>6, <3>2, <3>3
    <2> QED BY <1>2, <2>1 DEF EndsKnown
<1>9. NotPosted'
    BY <1>1, <1>5 DEF Rest, NotPosted, Before
<1>10. Received'
    <2>1. \A s \in Readers : \A t \in results[s] : t \in TaskIds /\ task[t] = "final" /\ ~Has(queue_results, t)
        BY Ids DEF Rest, Received
    <2> QED BY <1>2, <1>6, <2>1 DEF Rest, Received, Has
<1>11. Kept'
    BY <1>1, <1>2, <1>4, <1>5 DEF Rest, Kept, Reading, Queued
<1>12. Gone'
    BY <1>1, <1>2, <1>5 DEF Rest, Gone, Has
<1> QED BY <1>7, <1>8, <1>9, <1>10, <1>11, <1>12 DEF Rest

\* A reader takes the first of its results.  If it is the final one of a task, no other
\* result of the task is left.
LEMMA ReceiveKeeps ==
    ASSUME TypeOK, Rest, NEW r \in Readers, Reading(r), Receive(r),
           UNCHANGED <<task, cancels>>
    PROVE  Rest'
<1> DEFINE q == queue_results
<1>1. PICK i \in Mine(r) :
        /\ \A j \in Mine(r) : i <= j
        /\ Take(r, i)
        /\ results' = IF q[i].kind = "final" THEN [results EXCEPT ![r] = @ \cup {q[i].id}] ELSE results
        /\ Goto(r, IF q[i].kind = "error" THEN "stop" ELSE "next")
    BY DEF Receive
<1> DEFINE t == q[i].id
<1>2. i \in DOMAIN q /\ q \in Seq(Result) /\ t \in IdsOf[r]
    BY DEF Mine, TypeOK
<1>3. q[i] \in Result /\ t \in TaskIds /\ q[i].kind \in {"partial", "final", "error"}
    <2>1. q[i] \in Result
        BY <1>2
    <2> HIDE DEF q
    <2> QED BY <2>1 DEF Result
<1>4. /\ queue_results' \in Seq(Result)
      /\ EndsLast(queue_results')
      /\ \A j \in DOMAIN queue_results' : \E k \in DOMAIN q \ {i} : queue_results'[j] = q[k]
      /\ \A k \in DOMAIN q \ {i} : \E j \in DOMAIN queue_results' : queue_results'[j] = q[k]
    <2> DEFINE s == RemoveAt(q, i)
               K == DOMAIN q \ {i}
    <2>1. s \in Seq(Result) /\ Picks(s, q, K)
        BY <1>2, RemoveAtPicks
    <2>2. queue_results' = s /\ EndsLast(q) /\ K \in SUBSET DOMAIN q
        BY <1>1 DEF Take, Rest
    <2> HIDE DEF s, K, q
    <2>3. /\ EndsLast(s)
          /\ \A j \in DOMAIN s : \E k \in K : s[j] = q[k]
          /\ \A k \in K : \E j \in DOMAIN s : s[j] = q[k]
        BY <1>2, <2>1, <2>2, PicksKeep
    <2> QED BY <2>1, <2>2, <2>3 DEF K
<1>5. UNCHANGED <<waiting_task_ids, cancelled, removing>>
    BY <1>1 DEF Take
<1>6. /\ \A s \in Readers \ {r} : readerPc'[s] = readerPc[s]
      /\ readerPc'[r] = IF q[i].kind = "error" THEN "stop" ELSE "next"
    BY <1>1 DEF Goto, TypeOK
<1>7. /\ \A s \in Readers \ {r} : results'[s] = results[s]
      /\ results'[r] = IF q[i].kind = "final" THEN results[r] \cup {t} ELSE results[r]
    BY <1>1 DEF TypeOK
<1>8. \A u : Has(queue_results', u) => Has(q, u)
    BY <1>4 DEF Has
<1>9. \A s \in Readers \ {r} : t \notin IdsOf[s]
    BY <1>2, Ids
<1>10. \A u, kind : Queued(u, kind) => (u = t /\ kind = q[i].kind) \/ Queued(u, kind)'
    BY <1>4 DEF Queued
<1>11. q[i].kind # "partial" => task[t] = q[i].kind
    BY <1>2 DEF Rest, EndsKnown
<1>12. ASSUME q[i].kind = "final"
       PROVE  ~Has(queue_results', t)
    <2> SUFFICES ASSUME NEW k \in DOMAIN q \ {i}, q[k].id = t
                 PROVE  FALSE
        BY <1>4 DEF Has
    <2>1. k \in Mine(r)
        BY <1>2 DEF Mine
    <2>2. i <= k /\ i \in Nat /\ k \in Nat
        BY <1>1, <1>2, <2>1
    <2>3. i < k
        BY <2>2
    <2> QED BY <1>2, <1>12, <2>3 DEF Rest, EndsLast
<1> HIDE DEF q, t
<1>13. EndsKnown'
    BY <1>4 DEF Rest, EndsKnown, q
<1>14. NotPosted'
    BY <1>6 DEF Rest, NotPosted, Before, Reading
<1>15. Registered'
    BY <1>5, <1>6 DEF Rest, Registered, Reading
<1>16. Received'
    <2> SUFFICES ASSUME NEW s \in Readers
                 PROVE  /\ results'[s] \subseteq IdsOf[s]
                        /\ \A u \in results'[s] : task[u] = "final" /\ ~Has(queue_results', u)
        BY DEF Received, Has
    <2>1. /\ results[s] \subseteq IdsOf[s]
          /\ \A u \in results[s] : task[u] = "final" /\ ~Has(queue_results', u)
        BY <1>8 DEF Rest, Received, q
    <2>2. results'[s] = results[s] \/ (s = r /\ q[i].kind = "final" /\ results'[s] = results[s] \cup {t})
        BY <1>7
    <2> QED BY <1>2, <1>11, <1>12, <2>1, <2>2
<1>17. Kept'
    <2> SUFFICES ASSUME NEW s \in Readers, Reading(s)', NEW u \in IdsOf[s]
                 PROVE  /\ task[u] = "final" => u \in results'[s] \/ Queued(u, "final")'
                        /\ task[u] = "error" => Queued(u, "error")'
        BY DEF Kept
    <2>1. /\ task[u] = "final" => u \in results[s] \/ Queued(u, "final")
          /\ task[u] = "error" => Queued(u, "error")
        BY <1>6 DEF Rest, Kept, Reading
    <2>2. results[s] \subseteq results'[s]
        BY <1>7
    <2>3. CASE u # t
        BY <1>10, <2>1, <2>2, <2>3
    <2>4. CASE u = t
        <3>1. s = r
            BY <1>9, <2>4
        <3>2. q[i].kind # "error"
            BY <1>6, <3>1 DEF Reading
        <3>3. q[i].kind = "final" => t \in results'[r]
            BY <1>7
        <3>4. task[u] = "error" => Queued(u, "error")'
            BY <1>10, <2>1, <3>2
        <3>5. task[u] = "final" => u \in results'[s] \/ Queued(u, "final")'
            BY <1>10, <2>1, <2>2, <2>4, <3>1, <3>3
        <3> QED BY <3>4, <3>5
    <2> QED BY <2>3, <2>4
<1>18. Purging'
    <2>1. ~cancelled[r]
        BY DEF Rest, Purging, Reading, TypeOK
    <2> SUFFICES ASSUME NEW s \in Readers
                 PROVE  /\ removing[s] \subseteq IdsOf[s]
                        /\ cancelled[s] => readerPc'[s] \in {"purge", "done"}
                        /\ readerPc'[s] = "purge" =>
                              /\ IdsOf[s] \cap waiting_task_ids = {}
                              /\ \A u \in IdsOf[s] \ removing[s] : ~Has(queue_results', u)
        BY <1>5 DEF Purging, Has
    <2>2. CASE s = r
        BY <1>6, <2>1, <2>2 DEF Rest, Purging
    <2>3. CASE s # r
        BY <1>6, <1>8, <2>3 DEF Rest, Purging, q
    <2> QED BY <2>2, <2>3
<1>19. Gone'
    <2> SUFFICES ASSUME NEW s \in Readers, readerPc'[s] = "done"
                 PROVE  /\ IdsOf[s] \cap waiting_task_ids = {}
                        /\ \A u \in IdsOf[s] : /\ ~Has(queue_results', u)
                                               /\ task[u] = "final" \/ u \in cancels
        BY <1>5 DEF Gone, Has
    <2>1. s # r
        BY <1>6
    <2> QED BY <1>6, <1>8, <2>1 DEF Rest, Gone, q
<1> QED BY <1>4, <1>13, <1>14, <1>15, <1>16, <1>17, <1>18, <1>19 DEF Rest, EndsLast

\* stop() removes the results of one of the reader's own ids.
LEMMA RemoveOneKeeps ==
    ASSUME TypeOK, Rest, NEW r \in Readers, RemoveOne(r)
    PROVE  Rest'
<1> DEFINE q == queue_results
<1>1. PICK t \in removing[r] :
        /\ waiting_task_ids' = waiting_task_ids \ {t}
        /\ queue_results' = Without(q, t)
        /\ removing' = [removing EXCEPT ![r] = @ \ {t}]
    BY DEF RemoveOne
<1>2. readerPc[r] = "purge" /\ UNCHANGED <<readerPc, results, cancelled, task, cancels>>
    BY DEF RemoveOne, taskVars
<1>3. t \in IdsOf[r] /\ \A s \in Readers \ {r} : t \notin IdsOf[s]
    BY Ids DEF Rest, Purging
<1>4. /\ EndsLast(queue_results') /\ ~Has(queue_results', t)
      /\ \A j \in DOMAIN queue_results' : \E k \in DOMAIN q : queue_results'[j] = q[k]
      /\ \A k \in DOMAIN q : q[k].id # t => \E j \in DOMAIN queue_results' : queue_results'[j] = q[k]
    <2> DEFINE s == Without(q, t)
               K == DOMAIN q \ OwnedBy(q, t)
    <2>1. s \in Seq(Result) /\ Picks(s, q, K)
        BY WithoutPicks DEF TypeOK
    <2>2. queue_results' = s /\ EndsLast(q) /\ K \in SUBSET DOMAIN q /\ q \in Seq(Result)
        BY <1>1 DEF Rest, TypeOK
    <2>3. \A k \in DOMAIN q : k \in K <=> q[k].id # t
        BY DEF OwnedBy
    <2> HIDE DEF s, K, q
    <2>4. /\ EndsLast(s)
          /\ \A j \in DOMAIN s : \E k \in K : s[j] = q[k]
          /\ \A k \in K : \E j \in DOMAIN s : s[j] = q[k]
        BY <2>1, <2>2, PicksKeep
    <2>5. ~Has(s, t)
        BY <2>2, <2>3, <2>4 DEF Has
    <2> QED BY <2>2, <2>3, <2>4, <2>5
<1>5. \A u : Has(queue_results', u) => Has(q, u) /\ u # t
    BY <1>4 DEF Has
<1>6. \A u, kind : u # t /\ Queued(u, kind) => Queued(u, kind)'
    BY <1>4 DEF Queued
<1>7. /\ \A s \in Readers \ {r} : removing'[s] = removing[s]
      /\ removing'[r] = removing[r] \ {t}
    BY <1>1 DEF TypeOK
<1> HIDE DEF q
<1>8. EndsKnown'
    BY <1>2, <1>4 DEF Rest, EndsKnown, q
<1>9. NotPosted'
    BY <1>2 DEF Rest, NotPosted, Before
<1>10. Registered'
    <2> SUFFICES ASSUME NEW s \in Readers, Reading(s) \/ readerPc[s] \in {"post", "stop"}
                 PROVE  IdsOf[s] \subseteq waiting_task_ids'
        BY <1>2 DEF Registered, Reading
    <2>1. s # r
        BY <1>2 DEF Reading
    <2> QED BY <1>1, <1>3, <2>1 DEF Rest, Registered
<1>11. Received'
    BY <1>2, <1>5 DEF Rest, Received, q
<1>12. Kept'
    <2> SUFFICES ASSUME NEW s \in Readers, Reading(s), NEW u \in IdsOf[s]
                 PROVE  /\ task[u] = "final" => u \in results[s] \/ Queued(u, "final")'
                        /\ task[u] = "error" => Queued(u, "error")'
        BY <1>2 DEF Kept, Reading
    <2>1. u # t
        BY <1>2, <1>3 DEF Reading
    <2> QED BY <1>6, <2>1 DEF Rest, Kept
<1>13. Purging'
    <2> SUFFICES ASSUME NEW s \in Readers
                 PROVE  /\ removing'[s] \subseteq IdsOf[s]
                        /\ cancelled[s] => readerPc[s] \in {"purge", "done"}
                        /\ readerPc[s] = "purge" =>
                              /\ IdsOf[s] \cap waiting_task_ids' = {}
                              /\ \A u \in IdsOf[s] \ removing'[s] : ~Has(queue_results', u)
        BY <1>2 DEF Purging, Has
    <2>1. /\ removing[s] \subseteq IdsOf[s]
          /\ cancelled[s] => readerPc[s] \in {"purge", "done"}
          /\ readerPc[s] = "purge" =>
                /\ IdsOf[s] \cap waiting_task_ids = {}
                /\ \A u \in IdsOf[s] \ removing[s] : ~Has(q, u)
        BY DEF Rest, Purging, q
    <2>2. removing'[s] = removing[s] \/ removing'[s] = removing[s] \ {t}
        BY <1>7
    <2> QED BY <1>1, <1>5, <2>1, <2>2
<1>14. Gone'
    BY <1>1, <1>2, <1>5 DEF Rest, Gone, q, Has
<1> QED BY <1>4, <1>8, <1>9, <1>10, <1>11, <1>12, <1>13, <1>14 DEF Rest, EndsLast

(***************************************************************************)
(* Steps of the inference                                                  *)
(***************************************************************************)
\* A result is sent for a task that runs, or dropped; with a final result or an error the
\* task ends.
LEMMA SendKeeps ==
    ASSUME TypeOK, Rest, NEW res \in Result, task[res.id] = "posted", Send(res),
           UNCHANGED <<waiting_task_ids, readerVars, cancels>>,
           task' = IF res.kind = "partial" THEN task ELSE [task EXCEPT ![res.id] = res.kind]
    PROVE  Rest'
<1> DEFINE q == queue_results
           t == res.id
           n == Len(q) + 1
<1>1. t \in TaskIds /\ res.kind \in {"partial", "final", "error"} /\ q \in Seq(Result)
    BY DEF TypeOK, Result
<1>2. UNCHANGED <<readerPc, results, cancelled, removing>>
    BY DEF readerVars
<1>3. /\ \A u \in TaskIds \ {t} : task'[u] = task[u]
      /\ task'[t] = IF res.kind = "partial" THEN "posted" ELSE res.kind
    BY <1>1 DEF TypeOK
<1>4. \/ t \notin waiting_task_ids /\ queue_results' = q
      \/ t \in waiting_task_ids /\ queue_results' = Append(q, res)
    BY DEF Send
<1>5. queue_results' = Append(q, res) =>
        /\ DOMAIN queue_results' = 1 .. n /\ queue_results'[n] = res
        /\ \A i \in DOMAIN q : i \in 1 .. n /\ queue_results'[i] = q[i]
        /\ \A i \in 1 .. n : i \in DOMAIN q \/ i = n
    <2> SUFFICES ASSUME queue_results' = Append(q, res)
                 PROVE  /\ DOMAIN queue_results' = 1 .. n /\ queue_results'[n] = res
                        /\ \A i \in DOMAIN q : i \in 1 .. n /\ queue_results'[i] = q[i]
                        /\ \A i \in 1 .. n : i \in DOMAIN q \/ i = n
        OBVIOUS
    <2> QED BY <1>1
<1>6. \A i \in DOMAIN q : i \in Nat /\ i < n
    BY <1>1
\* No end of this task is in the queue yet.
<1>7. \A i \in DOMAIN q : q[i].id = t => q[i].kind = "partial"
    <2> SUFFICES ASSUME NEW i \in DOMAIN q, q[i].id = t, q[i].kind # "partial"
                 PROVE  FALSE
        OBVIOUS
    <2>1. q[i] \in Result
        BY <1>1
    <2>2. q[i].kind # "posted"
        BY <2>1 DEF Result
    <2> QED BY <2>2 DEF Rest, EndsKnown
<1>8. \A u : Has(queue_results', u) => Has(q, u) \/ (u = t /\ t \in waiting_task_ids)
    BY <1>4, <1>5 DEF Has
<1>9. \A u, kind : Queued(u, kind) => Queued(u, kind)'
    BY <1>4, <1>5 DEF Queued
<1>10. t \in waiting_task_ids => Queued(t, res.kind)'
    <2> SUFFICES ASSUME t \in waiting_task_ids PROVE Queued(t, res.kind)'
        OBVIOUS
    <2>1. n \in DOMAIN queue_results' /\ queue_results'[n] = res
        <3>1. n \in 1 .. n
            BY <1>1
        <3> QED BY <1>4, <1>5, <3>1
    <2> QED BY <2>1 DEF Queued
<1> HIDE DEF q, n
<1>11. EndsLast(queue_results)'
    <2>1. CASE queue_results' = q
        BY <2>1 DEF Rest, EndsLast, q
    <2>2. CASE queue_results' = Append(q, res)
        <3> SUFFICES ASSUME NEW i \in 1 .. n, NEW j \in 1 .. n, i < j,
                            queue_results'[i].id = queue_results'[j].id
                     PROVE  queue_results'[i].kind = "partial"
            BY <1>5, <2>2 DEF EndsLast
        <3>1. i \in DOMAIN q
            BY <1>1, <1>5, <1>6, <2>2 DEF n
        <3>2. CASE j \in DOMAIN q
            BY <1>5, <2>2, <3>1, <3>2 DEF Rest, EndsLast, q
        <3>3. CASE j = n
            BY <1>5, <1>7, <2>2, <3>1, <3>3
        <3> QED BY <1>5, <2>2, <3>2, <3>3
    <2> QED BY <1>4, <2>1, <2>2
<1>12. EndsKnown'
    <2>1. ASSUME NEW i \in DOMAIN q, q[i].kind # "partial"
          PROVE  task'[q[i].id] = q[i].kind
        <3>1. q[i] \in Result
            BY <1>1, <2>1
        <3>2. q[i].id \in TaskIds \ {t}
            BY <1>7, <2>1, <3>1 DEF Result
        <3> QED BY <1>3, <2>1, <3>2 DEF Rest, EndsKnown, q
    <2> QED BY <1>3, <1>4, <1>5, <2>1 DEF EndsKnown
<1>13. NotPosted'
    <2> SUFFICES ASSUME NEW s \in Readers, Before(s), NEW u \in IdsOf[s]
                 PROVE  task'[u] = "none"
        BY <1>2 DEF NotPosted, Before
    <2>1. task[u] = "none" /\ u \in TaskIds
        BY Ids DEF Rest, NotPosted
    <2> QED BY <1>3, <2>1
<1>14. Registered'
    BY <1>2 DEF Rest, Registered, Reading
<1>15. Received'
    <2> SUFFICES ASSUME NEW s \in Readers, NEW u \in results[s]
                 PROVE  task'[u] = "final" /\ ~Has(queue_results', u)
        BY <1>2 DEF Rest, Received, Has
    <2>1. u \in TaskIds /\ task[u] = "final" /\ ~Has(q, u)
        BY Ids DEF Rest, Received, q
    <2>2. u # t
        BY <2>1
    <2> QED BY <1>3, <1>8, <2>1, <2>2
<1>16. Kept'
    <2> SUFFICES ASSUME NEW s \in Readers, Reading(s), NEW u \in IdsOf[s]
                 PROVE  /\ task'[u] = "final" => u \in results[s] \/ Queued(u, "final")'
                        /\ task'[u] = "error" => Queued(u, "error")'
        BY <1>2 DEF Kept, Reading
    <2>1. u \in TaskIds /\ u \in waiting_task_ids
        BY Ids DEF Rest, Registered
    <2>2. CASE u = t
        BY <1>3, <1>10, <2>1, <2>2
    <2>3. CASE u # t
        BY <1>3, <1>9, <2>1, <2>3 DEF Rest, Kept
    <2> QED BY <2>2, <2>3
<1>17. Purging'
    <2> SUFFICES ASSUME NEW s \in Readers, readerPc[s] = "purge", NEW u \in IdsOf[s] \ removing[s]
                 PROVE  ~Has(queue_results', u)
        BY <1>2 DEF Rest, Purging, Has
    <2>1. u \notin waiting_task_ids /\ ~Has(q, u)
        BY DEF Rest, Purging, q
    <2> QED BY <1>8, <2>1
<1>18. Gone'
    <2> SUFFICES ASSUME NEW s \in Readers, readerPc[s] = "done", NEW u \in IdsOf[s]
                 PROVE  ~Has(queue_results', u) /\ (task'[u] = "final" \/ u \in cancels)
        BY <1>2 DEF Rest, Gone, Has
    <2>1. u \notin waiting_task_ids /\ ~Has(q, u) /\ (task[u] = "final" \/ u \in cancels) /\ u \in TaskIds
        BY Ids DEF Rest, Gone, q
    <2> QED BY <1>3, <1>8, <2>1
<1> QED BY <1>11, <1>12, <1>13, <1>14, <1>15, <1>16, <1>17, <1>18 DEF Rest

\* A task that runs is cancelled; it has no final result, and its reader is gone or going.
LEMMA HandleCancelKeeps ==
    ASSUME TypeOK, Rest, NEW t \in TaskIds, HandleCancel(t)
    PROVE  Rest'
<1>1. task[t] = "posted" /\ t \in cancels /\ task' = [task EXCEPT ![t] = "cancelled"]
      /\ UNCHANGED <<waiting_task_ids, queue_results, readerPc, results, cancelled, removing, cancels>>
    BY DEF HandleCancel, responseVars, readerVars
<1>2. task'[t] = "cancelled" /\ \A u \in TaskIds \ {t} : task'[u] = task[u]
    BY <1>1 DEF TypeOK
<1>3. EndsLast(queue_results)' /\ Registered' /\ Purging'
    BY <1>1 DEF Rest, EndsLast, Registered, Reading, Purging, Has
<1>4. EndsKnown'
    <2> SUFFICES ASSUME NEW i \in DOMAIN queue_results, queue_results[i].kind # "partial"
                 PROVE  task'[queue_results[i].id] = queue_results[i].kind
        BY <1>1 DEF EndsKnown
    <2>1. queue_results[i] \in Result
        BY DEF TypeOK
    <2>2. queue_results[i].id \in TaskIds /\ queue_results[i].kind # "posted"
        BY <2>1 DEF Result
    <2>3. task[queue_results[i].id] = queue_results[i].kind
        BY DEF Rest, EndsKnown
    <2> QED BY <1>1, <1>2, <2>2, <2>3
<1>5. ASSUME NEW s \in Readers, NEW u \in IdsOf[s]
      PROVE  /\ u \in TaskIds
             /\ task[u] = "none" => task'[u] = "none"
             /\ task[u] = "final" <=> task'[u] = "final"
             /\ task[u] = "error" <=> task'[u] = "error"
    BY <1>1, <1>2, Ids
<1>6. NotPosted'
    BY <1>1, <1>5 DEF Rest, NotPosted, Before
<1>7. Received'
    BY <1>1, <1>5 DEF Rest, Received, Has
<1>8. Kept'
    BY <1>1, <1>5 DEF Rest, Kept, Reading, Queued
<1>9. Gone'
    BY <1>1, <1>5 DEF Rest, Gone, Has
<1> QED BY <1>3, <1>4, <1>6, <1>7, <1>8, <1>9 DEF Rest

(***************************************************************************)
(* The theorems                                                            *)
(***************************************************************************)
LEMMA InitInv == Init => IInv
<1> SUFFICES ASSUME Init PROVE IInv
    OBVIOUS
<1>1. TypeOK
    BY ReadersAssumption DEF Init, TypeOK
<1>2. DOMAIN queue_results = {} /\ \A r \in Readers : readerPc[r] = "new"
    BY DEF Init
<1>3. EndsLast(queue_results) /\ EndsKnown /\ Registered /\ Kept /\ Gone
    BY <1>2 DEF EndsLast, EndsKnown, Registered, Reading, Kept, Gone
<1>4. Received /\ Purging
    BY <1>2 DEF Init, Received, Purging
<1>5. NotPosted
    BY Ids DEF Init, NotPosted
<1>6. Rest
    BY <1>3, <1>4, <1>5 DEF Rest
<1> QED BY <1>1, <1>6 DEF IInv

LEMMA ReaderKeeps ==
    ASSUME TypeOK, Rest, NEW r \in Readers, Reader(r)
    PROVE  Rest'
<1>1. CASE Register(r) \/ Stop(r) \/ PostCancels(r)
    BY <1>1, RegisterGoes, StopGoes, PostCancelsGoes, GoesKeeps
<1>2. CASE Leave(r) \/ Timeout(r) \/ Poll(r)
    <2>1. Goto(r, "stop") \/ Goto(r, "polled") \/ Goto(r, "scan")
        BY <1>2 DEF Leave, Timeout, Poll
    <2>2. Reading(r)
        BY <1>2 DEF Leave, Timeout, Poll, Reading
    <2>3. UNCHANGED <<waiting_task_ids, queue_results, results, cancelled, removing, task, cancels>>
        BY <1>2 DEF Leave, Timeout, Poll, responseVars, taskVars
    <2> QED BY <2>1, <2>2, <2>3, PlainGoes, GoesKeeps
<1>3. CASE Recv(r)
    <2>1. Reading(r) /\ UNCHANGED <<task, cancels>>
        BY <1>3 DEF Recv, Reading, taskVars
    <2>2. CASE Wait(r)
        <3>1. UNCHANGED <<waiting_task_ids, queue_results, results, cancelled, removing>>
              /\ Goto(r, "waiting")
            BY <2>2 DEF Wait
        <3> QED BY <2>1, <3>1, PlainGoes, GoesKeeps
    <2>3. CASE Receive(r)
        BY <2>1, <2>3, ReceiveKeeps
    <2> QED BY <1>3, <2>2, <2>3 DEF Recv
<1>4. CASE PostTasks(r)
    BY <1>4, PostTasksKeeps
<1>5. CASE RemoveOne(r)
    BY <1>5, RemoveOneKeeps
<1> QED BY <1>1, <1>2, <1>3, <1>4, <1>5 DEF Reader

LEMMA NextInv == IInv /\ [Next]_vars => IInv'
<1> SUFFICES ASSUME TypeOK, Rest, [Next]_vars PROVE Rest'
    BY NextTypes DEF IInv
<1>1. CASE UNCHANGED <<waiting_task_ids, queue_results, readerPc, results, cancelled, removing, task, cancels>>
    BY <1>1 DEF Rest, EndsLast, EndsKnown, NotPosted, Before, Registered, Reading, Received,
              Kept, Queued, Purging, Gone, Has
<1>2. ASSUME NEW r \in Readers, Reader(r) PROVE Rest'
    BY <1>2, ReaderKeeps
<1>3. ASSUME NEW r \in Readers, Close(r) PROVE Rest'
    BY <1>1, <1>3 DEF Close, responseVars, readerVars, taskVars
<1>4. ASSUME NEW t \in TaskIds, Partial(t) PROVE Rest'
    <2> DEFINE res == [id |-> t, kind |-> "partial", n |-> partials'[t]]
    <2>1. Send(res) /\ task[t] = "posted" /\ UNCHANGED <<waiting_task_ids, readerVars, cancels, task>>
        BY <1>4 DEF Partial
    <2>2. (partials[t] + 1) % (MaxPartials + 1) \in 0 .. MaxPartials
        BY ReadersAssumption DEF TypeOK
    <2>3. partials'[t] \in 0 .. MaxPartials
        BY <1>4, <2>2 DEF Partial, TypeOK
    <2>4. res \in Result /\ res.id = t /\ res.kind = "partial"
        BY <2>3 DEF Result
    <2> HIDE DEF res
    <2> QED BY <2>1, <2>4, SendKeeps
<1>5. ASSUME NEW t \in TaskIds, Final(t) PROVE Rest'
    <2>1. PICK kind \in {"final", "error"} :
             /\ Send([id |-> t, kind |-> kind, n |-> 0])
             /\ task' = [task EXCEPT ![t] = kind]
        BY <1>5 DEF Final
    <2> DEFINE res == [id |-> t, kind |-> kind, n |-> 0]
    <2>2. task[t] = "posted" /\ UNCHANGED <<waiting_task_ids, readerVars, cancels>>
        BY <1>5 DEF Final
    <2>3. res \in Result /\ res.id = t /\ res.kind = kind /\ kind # "partial"
        BY ReadersAssumption DEF Result
    <2>4. Send(res)
        BY <2>1
    <2> HIDE DEF res
    <2> QED BY <2>1, <2>2, <2>3, <2>4, SendKeeps
<1>6. ASSUME NEW t \in TaskIds, HandleCancel(t) PROVE Rest'
    BY <1>6, HandleCancelKeeps
<1> QED BY <1>1, <1>2, <1>3, <1>4, <1>5, <1>6 DEF Next, vars, responseVars, readerVars, taskVars

\* No final result is lost between server_response::send and server_response_reader::next: while
\* the reader reads, it has received it or it is in the queue, and not both.
THEOREM FinalsReachReaders == Spec => []FinalNotLost
<1>1. IInv => FinalNotLost
    <2> SUFFICES ASSUME Rest, NEW r \in Readers, NEW t \in IdsOf[r], Reading(r)
                 PROVE  /\ task[t] = "final" => (t \in results[r] <=> ~Queued(t, "final"))
                        /\ task[t] = "error" => Queued(t, "error")
        BY DEF IInv, FinalNotLost
    <2>1. t \in results[r] => ~Queued(t, "final")
        BY DEF Rest, Received, Has, Queued
    <2> QED BY <2>1 DEF Rest, Kept
<1> QED BY <1>1, InitInv, NextInv, PTL DEF Spec

\* After server_response_reader::stop none of the ids is waited for and no result of them is
\* in the queue, whatever is sent while it removes them.
THEOREM ReadersLeaveNothing == Spec => []NothingLeftBehind
<1>1. IInv => NothingLeftBehind
    BY DEF IInv, Rest, Gone, Has, NothingLeftBehind
<1> QED BY <1>1, InitInv, NextInv, PTL DEF Spec

\* After server_response_reader::stop every task of the reader has ended with its final result,
\* or a CANCEL is posted for it.
THEOREM TasksAreNotAbandoned == Spec => []NoAbandonedTask
<1>1. IInv => NoAbandonedTask
    BY DEF IInv, Rest, Gone, NoAbandonedTask
<1> QED BY <1>1, InitInv, NextInv, PTL DEF Spec

(***************************************************************************)
(* The channels: the results of one task in the queue, in their order.     *)
(***************************************************************************)
\* The positions K of s and L of q correspond, in their order.
Alike(s, K, q, L) ==
    \E f \in [K -> L] :
        /\ \A j \in K : s[j] = q[f[j]]
        /\ \A j, k \in K : j < k => f[j] < f[k]
        /\ \A i \in L : \E j \in K : f[j] = i

LEMMA SameOrder ==
    ASSUME NEW K \in SUBSET Nat, IsFiniteSet(K), NEW L \in SUBSET Nat, IsFiniteSet(L),
           NEW s, NEW q, Alike(s, K, q, L)
    PROVE  At(s, K) = At(q, L)
<1>0. PICK f \in [K -> L] :
        /\ \A j \in K : s[j] = q[f[j]]
        /\ \A j, k \in K : j < k => f[j] < f[k]
        /\ \A i \in L : \E j \in K : f[j] = i
    BY DEF Alike
<1>1. ASSUME NEW j \in K, NEW k \in K PROVE (f[j] <= f[k] <=> j <= k) /\ (f[j] = f[k] => j = k)
    <2>1. j \in Nat /\ k \in Nat /\ f[j] \in Nat /\ f[k] \in Nat
        OBVIOUS
    <2>2. (j < k => f[j] < f[k]) /\ (k < j => f[k] < f[j])
        BY <1>0
    <2> QED BY <2>1, <2>2
<1>2. ASSUME NEW A \in SUBSET K, NEW B \in SUBSET L,
             \A j \in A : f[j] \in B, \A i \in B : \E j \in A : f[j] = i
      PROVE  Cardinality(A) = Cardinality(B)
    <2> DEFINE g == [j \in A |-> f[j]]
    <2>1. g \in [A -> B]
        BY <1>2
    <2>2. \A j, k \in A : g[j] = g[k] => j = k
        BY <1>1
    <2>3. \A i \in B : \E j \in A : g[j] = i
        BY <1>2
    <2>4. g \in Bijection(A, B)
        BY <2>1, <2>2, <2>3 DEF Bijection, Injection, IsInjective, Surjection
    <2>5. ExistsBijection(A, B)
        BY <2>4 DEF ExistsBijection
    <2> QED BY <2>5, FS_Subset, FS_Bijection
<1>3. Cardinality(K) = Cardinality(L)
    BY <1>0, <1>2
<1>4. ASSUME NEW j \in K PROVE Place(K, j) = Place(L, f[j])
    <2> DEFINE A == {k \in K : k <= j}
               B == {i \in L : i <= f[j]}
    <2>1. \A k \in A : f[k] \in B
        BY <1>1
    <2>2. \A i \in B : \E k \in A : f[k] = i
        BY <1>0, <1>1
    <2> HIDE DEF A, B
    <2>3. A \in SUBSET K /\ B \in SUBSET L
        BY DEF A, B
    <2>4. Cardinality(A) = Cardinality(B)
        BY <1>2, <2>1, <2>2, <2>3
    <2> QED BY <2>4 DEF Place, A, B
<1> DEFINE N == Cardinality(K)
           a == At(s, K)
           b == At(q, L)
<1>5. /\ N \in Nat /\ DOMAIN a = 1 .. N
      /\ \A j \in K : a[Place(K, j)] = s[j]
      /\ \A n \in 1 .. N : \E j \in K : Place(K, j) = n
    BY AtPlaces
<1>6. DOMAIN b = 1 .. N /\ \A i \in L : b[Place(L, i)] = q[i]
    BY <1>3, AtPlaces
<1>7. a = [n \in 1 .. N |-> a[n]] /\ b = [n \in 1 .. N |-> b[n]]
    BY <1>3 DEF At
<1> HIDE DEF N, a, b
<1>8. ASSUME NEW n \in 1 .. N PROVE a[n] = b[n]
    <2>1. PICK j \in K : Place(K, j) = n
        BY <1>5
    <2>2. a[n] = s[j] /\ Place(L, f[j]) = n /\ f[j] \in L
        BY <1>4, <1>5, <2>1
    <2>3. b[n] = q[f[j]]
        BY <1>6, <2>2
    <2> QED BY <1>0, <2>2, <2>3
<1>9. a = b
    BY <1>7, <1>8
<1> QED BY <1>9 DEF a, b

\* What is left of a queue holds of each task what is left of it.
LEMMA OwnedLeft ==
    ASSUME NEW q \in Seq(Result), NEW s \in Seq(Result), NEW K \in SUBSET DOMAIN q, Picks(s, q, K),
           NEW t
    PROVE  At(s, OwnedBy(s, t)) = At(q, OwnedBy(q, t) \cap K)
<1> DEFINE A == OwnedBy(s, t)
           B == OwnedBy(q, t) \cap K
<1>1. PICK f \in [DOMAIN s -> K] :
        /\ \A j \in DOMAIN s : s[j] = q[f[j]]
        /\ \A j, k \in DOMAIN s : j < k => f[j] < f[k]
        /\ \A i \in K : \E j \in DOMAIN s : f[j] = i
    BY DEF Picks
<1>2. A \in SUBSET DOMAIN s /\ B \in SUBSET DOMAIN q
    BY DEF OwnedBy
<1>3. A \in SUBSET Nat /\ IsFiniteSet(A) /\ B \in SUBSET Nat /\ IsFiniteSet(B)
    BY <1>2, AtPicks
<1> DEFINE g == [j \in A |-> f[j]]
<1>4. g \in [A -> B]
    BY <1>1 DEF OwnedBy
<1>5. \A i \in B : \E j \in A : g[j] = i
    BY <1>1 DEF OwnedBy
<1>6. (\A j, k \in A : j < k => g[j] < g[k]) /\ (\A j \in A : s[j] = q[g[j]])
    BY <1>1, <1>2
<1> HIDE DEF A, B, g
<1>7. Alike(s, A, q, B)
    BY <1>4, <1>5, <1>6 DEF Alike
<1>8. At(s, A) = At(q, B)
    BY <1>3, <1>7, SameOrder
<1> QED BY <1>8 DEF A, B

LEMMA TailIs ==
    ASSUME NEW S, NEW s \in Seq(S), Len(s) # 0
    PROVE  /\ s # <<>> /\ Len(s) \in Nat \ {0} /\ Tail(s) \in Seq(S)
           /\ Tail(s) = [n \in 1 .. Len(s) - 1 |-> s[n + 1]]
<1>1. s # <<>> /\ Len(s) \in Nat \ {0}
    OBVIOUS
<1>2. Tail(s) \in Seq(S) /\ Len(Tail(s)) = Len(s) - 1 /\ \A n \in 1 .. Len(s) - 1 : Tail(s)[n] = s[n + 1]
    BY <1>1
<1>3. PICK r \in Seq(S) : r = Tail(s)
    BY <1>2
<1>4. r = [n \in 1 .. Len(r) |-> r[n]]
    OBVIOUS
<1> QED BY <1>1, <1>2, <1>3, <1>4

LEMMA AppendIs ==
    ASSUME NEW S, NEW s \in Seq(S), NEW x \in S
    PROVE  Append(s, x) = [n \in 1 .. Len(s) + 1 |-> IF n <= Len(s) THEN s[n] ELSE x]
<1>1. PICK r : r = Append(s, x)
    OBVIOUS
<1>2. r \in Seq(S) /\ Len(r) = Len(s) + 1 /\ r[Len(s) + 1] = x /\ \A n \in 1 .. Len(s) : r[n] = s[n]
    BY <1>1
<1>3. Len(s) \in Nat /\ r = [n \in 1 .. Len(r) |-> r[n]]
    BY <1>2
<1>4. ASSUME NEW n \in 1 .. Len(s) + 1 PROVE r[n] = IF n <= Len(s) THEN s[n] ELSE x
    <2>1. n \in 1 .. Len(s) \/ (n = Len(s) + 1 /\ ~(n <= Len(s)))
        BY <1>3
    <2>2. n \in 1 .. Len(s) => n <= Len(s)
        BY <1>3
    <2> QED BY <1>2, <2>1, <2>2
<1> QED BY <1>1, <1>2, <1>3, <1>4

\* Without its first position, a sequence of positions holds the tail.
LEMMA TailAt ==
    ASSUME NEW q \in Seq(Result), NEW K \in SUBSET DOMAIN q, NEW i \in K, \A j \in K : i <= j
    PROVE  At(q, K) # <<>> /\ At(q, K \ {i}) = Tail(At(q, K))
<1> DEFINE L == K \ {i}
           N == Cardinality(K)
           a == At(q, K)
           b == At(q, L)
<1>1. K \in SUBSET Nat /\ IsFiniteSet(K) /\ a \in Seq(Result) /\ Len(a) = N
    BY AtPicks
<1>2. /\ N \in Nat /\ DOMAIN a = 1 .. N
      /\ \A j \in K : Place(K, j) \in 1 .. N /\ a[Place(K, j)] = q[j]
    BY <1>1, AtPlaces
<1>3. L \in SUBSET Nat /\ IsFiniteSet(L) /\ Cardinality(L) = N - 1
    BY <1>1, FS_RemoveElement
<1>4. /\ DOMAIN b = 1 .. N - 1
      /\ \A j \in L : b[Place(L, j)] = q[j]
      /\ \A n \in 1 .. N - 1 : \E j \in L : Place(L, j) = n
    <2> HIDE DEF L, N
    <2>1. /\ DOMAIN b = 1 .. Cardinality(L)
          /\ \A j \in L : b[Place(L, j)] = q[j]
          /\ \A n \in 1 .. Cardinality(L) : \E j \in L : Place(L, j) = n
        BY <1>3, AtPlaces
    <2> QED BY <1>3, <2>1
<1>5. ASSUME NEW j \in L PROVE Place(K, j) = Place(L, j) + 1
    <2> DEFINE A == {k \in L : k <= j}
    <2>1. {k \in K : k <= j} = A \cup {i} /\ i \notin A
        BY <1>1
    <2>2. IsFiniteSet(A)
        BY <1>3, FS_Subset
    <2> HIDE DEF A
    <2>3. Cardinality(A \cup {i}) = Cardinality(A) + 1
        BY <2>1, <2>2, FS_AddElement
    <2> QED BY <2>1, <2>3 DEF Place, A
<1>6. N # 0
    BY <1>2
<1>7. b = [n \in 1 .. N - 1 |-> b[n]]
    BY <1>3 DEF At
<1> HIDE DEF L, N, a, b
<1>8. ASSUME NEW n \in 1 .. N - 1 PROVE b[n] = a[n + 1]
    <2>1. PICK j \in L : Place(L, j) = n
        BY <1>4
    <2>2. b[n] = q[j] /\ Place(K, j) = n + 1 /\ j \in K
        BY <1>4, <1>5, <2>1 DEF L
    <2>3. a[n + 1] = q[j]
        BY <1>2, <2>2
    <2> QED BY <2>2, <2>3
<1>9. b = [n \in 1 .. N - 1 |-> a[n + 1]]
    BY <1>7, <1>8
<1>10. a # <<>> /\ Tail(a) = [n \in 1 .. N - 1 |-> a[n + 1]]
    BY <1>1, <1>2, <1>6, TailIs
<1> QED BY <1>9, <1>10 DEF a, b, L

\* A result that is appended is the last of its positions, and on no others.
LEMMA AppendAt ==
    ASSUME NEW q \in Seq(Result), NEW x \in Result, NEW K \in SUBSET DOMAIN q
    PROVE  /\ At(Append(q, x), K) = At(q, K)
           /\ At(Append(q, x), K \cup {Len(q) + 1}) = Append(At(q, K), x)
<1> DEFINE s == Append(q, x)
           e == Len(q) + 1
           L == K \cup {e}
           N == Cardinality(K)
           a == At(q, K)
           b == At(s, L)
<1>1. K \in SUBSET Nat /\ IsFiniteSet(K) /\ a \in Seq(Result) /\ Len(a) = N
    BY AtPicks
<1>2. /\ \A j \in DOMAIN q : s[j] = q[j] /\ j < e
      /\ s[e] = x /\ e \in Nat
    OBVIOUS
<1>3. \A j \in K : j \in Nat /\ s[j] = q[j] /\ j < e
    BY <1>1, <1>2
<1>4. e \notin K
    BY <1>2, <1>3
<1> HIDE DEF s, e
<1>5. At(s, K) = a
    <2> DEFINE f == [j \in K |-> j]
    <2>1. /\ f \in [K -> K] /\ \A i \in K : \E j \in K : f[j] = i
          /\ \A j, k \in K : j < k => f[j] < f[k]
          /\ \A j \in K : s[j] = q[f[j]]
        BY <1>3
    <2> HIDE DEF f, a
    <2>2. Alike(s, K, q, K)
        BY <2>1 DEF Alike
    <2>3. At(s, K) = At(q, K)
        BY <1>1, <2>2, SameOrder
    <2> QED BY <2>3 DEF a
<1>6. /\ N \in Nat /\ DOMAIN a = 1 .. N
      /\ \A j \in K : Place(K, j) \in 1 .. N /\ a[Place(K, j)] = q[j]
      /\ \A n \in 1 .. N : \E j \in K : Place(K, j) = n
    BY <1>1, AtPlaces
<1>7. L \in SUBSET Nat /\ IsFiniteSet(L) /\ Cardinality(L) = N + 1
    BY <1>1, <1>2, <1>4, FS_AddElement
<1>8. DOMAIN b = 1 .. N + 1 /\ \A j \in L : b[Place(L, j)] = s[j]
    <2> HIDE DEF L, N
    <2>1. DOMAIN b = 1 .. Cardinality(L) /\ \A j \in L : b[Place(L, j)] = s[j]
        BY <1>7, AtPlaces
    <2> QED BY <1>7, <2>1
<1>9. ASSUME NEW j \in K PROVE Place(L, j) = Place(K, j)
    <2>1. ~(e <= j)
        BY <1>2, <1>3
    <2>2. {k \in L : k <= j} = {k \in K : k <= j}
        BY <2>1
    <2> QED BY <2>2 DEF Place
<1>10. Place(L, e) = N + 1
    <2>1. {k \in L : k <= e} = L
        BY <1>2, <1>3
    <2> QED BY <1>7, <2>1 DEF Place
<1>11. b = [n \in 1 .. N + 1 |-> b[n]]
    BY <1>7 DEF At
<1> HIDE DEF N, a, b
<1>12. ASSUME NEW n \in 1 .. N PROVE b[n] = a[n]
    <2>1. PICK j \in K : Place(K, j) = n
        BY <1>6
    <2>2. a[n] = q[j] /\ Place(L, j) = n /\ j \in L
        BY <1>6, <1>9, <2>1
    <2> HIDE DEF L
    <2>3. b[n] = s[j]
        BY <1>8, <2>2
    <2> QED BY <1>3, <2>2, <2>3
<1>13. b[N + 1] = x
    BY <1>2, <1>8, <1>10
<1>14. b = [n \in 1 .. N + 1 |-> IF n <= N THEN a[n] ELSE x]
    <2>1. \A n \in 1 .. N + 1 : (n \in 1 .. N /\ n <= N) \/ (n = N + 1 /\ ~(n <= N))
        BY <1>6
    <2>2. \A n \in 1 .. N + 1 : b[n] = IF n <= N THEN a[n] ELSE x
        BY <1>12, <1>13, <2>1
    <2> QED BY <1>11, <2>2
<1>15. Append(a, x) = [n \in 1 .. N + 1 |-> IF n <= N THEN a[n] ELSE x]
    BY <1>1, AppendIs
<1> QED BY <1>5, <1>14, <1>15 DEF a, b, s, e

\* What a channel shows of the results.
Msg(res)   == [kind |-> res.kind, n |-> res.n]
Msgs(s)    == [i \in DOMAIN s |-> [kind |-> s[i].kind, n |-> s[i].n]]
Chan(q, t) == Msgs(At(q, OwnedBy(q, t)))

LEMMA MsgsStep ==
    ASSUME NEW s \in Seq(Result)
    PROVE  /\ s # <<>> => Msgs(s) # <<>> /\ Msgs(Tail(s)) = Tail(Msgs(s))
           /\ \A x \in Result : Msgs(Append(s, x)) = Append(Msgs(s), Msg(x))
           /\ s = <<>> => Msgs(s) = <<>>
<1> DEFINE m == Msgs(s)
           M == [kind : {"partial", "final", "error"}, n : 0 .. MaxPartials]
<1>1. \A x \in Result : Msg(x) \in M
    BY DEF Msg, Result
<1>2. m = [i \in 1 .. Len(s) |-> Msg(s[i])] /\ Len(s) \in Nat /\ \A i \in 1 .. Len(s) : s[i] \in Result
    BY DEF Msgs, Msg
<1>3. m \in Seq(M) /\ Len(m) = Len(s) /\ \A i \in 1 .. Len(s) : m[i] = Msg(s[i])
    BY <1>1, <1>2
<1> HIDE DEF m, M
<1>4. ASSUME s # <<>> PROVE m # <<>> /\ Msgs(Tail(s)) = Tail(m)
    <2>1. Len(s) # 0
        BY <1>4
    <2>2. m # <<>> /\ Tail(m) = [i \in 1 .. Len(s) - 1 |-> m[i + 1]]
        <3>1. m \in Seq(M) /\ Len(m) # 0 /\ Len(m) = Len(s)
            BY <1>3, <2>1
        <3> QED BY <3>1, TailIs
    <2>3. Tail(s) = [i \in 1 .. Len(s) - 1 |-> s[i + 1]]
        BY <2>1, TailIs
    <2>4. \A i \in 1 .. Len(s) - 1 : m[i + 1] = Msg(s[i + 1])
        BY <1>2, <1>3
    <2>5. Msgs(Tail(s)) = [i \in 1 .. Len(s) - 1 |-> Msg(s[i + 1])]
        <3> DEFINE r == [i \in 1 .. Len(s) - 1 |-> s[i + 1]]
        <3>1. DOMAIN r = 1 .. Len(s) - 1 /\ \A i \in 1 .. Len(s) - 1 : r[i] = s[i + 1]
            OBVIOUS
        <3> HIDE DEF r
        <3>2. Msgs(r) = [i \in 1 .. Len(s) - 1 |-> Msg(s[i + 1])]
            BY <3>1 DEF Msgs, Msg
        <3> QED BY <2>3, <3>2 DEF r
    <2> QED BY <2>2, <2>4, <2>5
<1>5. ASSUME NEW x \in Result PROVE Msgs(Append(s, x)) = Append(m, Msg(x))
    <2> DEFINE N == Len(s)
               a == Append(s, x)
    <2>1. DOMAIN a = 1 .. N + 1 /\ \A i \in 1 .. N + 1 : a[i] = IF i <= N THEN s[i] ELSE x
        OBVIOUS
    <2>2. Append(m, Msg(x)) = [i \in 1 .. N + 1 |-> IF i <= N THEN m[i] ELSE Msg(x)]
        <3>1. m \in Seq(M) /\ Msg(x) \in M /\ Len(m) = N
            BY <1>1, <1>3
        <3> HIDE DEF N
        <3> QED BY <3>1, AppendIs
    <2>3. \A i \in 1 .. N + 1 : i <= N => m[i] = Msg(s[i])
        BY <1>2, <1>3
    <2> HIDE DEF a, N
    <2>4. Msgs(a) = [i \in 1 .. N + 1 |-> Msg(a[i])]
        BY <2>1 DEF Msgs, Msg
    <2>5. \A i \in 1 .. N + 1 : Msg(a[i]) = IF i <= N THEN m[i] ELSE Msg(x)
        BY <2>1, <2>3
    <2> QED BY <2>2, <2>4, <2>5 DEF a
<1>6. s = <<>> => Msgs(s) = <<>>
    BY <1>2 DEF Msgs
<1> QED BY <1>4, <1>5, <1>6 DEF m

\* send(): the channel of the task grows by the result, the others stay.
LEMMA ChanSend ==
    ASSUME NEW q \in Seq(Result), NEW x \in Result, NEW t
    PROVE  Chan(Append(q, x), t) = IF x.id = t THEN Append(Chan(q, t), Msg(x)) ELSE Chan(q, t)
<1> DEFINE s == Append(q, x)
           K == OwnedBy(q, t)
           e == Len(q) + 1
<1>1. K \in SUBSET DOMAIN q
    BY DEF OwnedBy
<1>2. /\ \A j \in DOMAIN q : j \in DOMAIN s /\ s[j] = q[j]
      /\ e \in DOMAIN s /\ s[e] = x /\ \A j \in DOMAIN s : j \in DOMAIN q \/ j = e
    OBVIOUS
<1> HIDE DEF s, e
<1>3. OwnedBy(s, t) = IF x.id = t THEN K \cup {e} ELSE K
    <2>1. CASE x.id = t
        BY <1>2, <2>1 DEF OwnedBy
    <2>2. CASE x.id # t
        <3>1. e \notin DOMAIN q
            BY DEF e
        <3> QED BY <1>2, <2>2, <3>1 DEF OwnedBy
    <2> QED BY <2>1, <2>2
<1> HIDE DEF K
<1>4. /\ At(s, K) = At(q, K) /\ At(s, K \cup {e}) = Append(At(q, K), x)
      /\ At(q, K) \in Seq(Result)
    BY <1>1, AppendAt, AtPicks DEF s, e
<1>5. Msgs(Append(At(q, K), x)) = Append(Msgs(At(q, K)), Msg(x))
    BY <1>4, MsgsStep
<1> QED BY <1>3, <1>4, <1>5 DEF Chan, s, K

\* recv(): the first result of the task leaves its channel, the others stay.
LEMMA ChanReceive ==
    ASSUME NEW q \in Seq(Result), NEW i \in DOMAIN q,
           \A j \in OwnedBy(q, q[i].id) : i <= j, NEW t
    PROVE  /\ Chan(q, q[i].id) # <<>>
           /\ Chan(RemoveAt(q, i), t) = IF q[i].id = t THEN Tail(Chan(q, t)) ELSE Chan(q, t)
<1> DEFINE s == RemoveAt(q, i)
           K == OwnedBy(q, t)
           R == DOMAIN q \ {i}
<1>1. s \in Seq(Result) /\ Picks(s, q, R)
    BY RemoveAtPicks
<1> HIDE DEF s
<1>2. At(s, OwnedBy(s, t)) = At(q, K \cap R)
    BY <1>1, OwnedLeft
<1>3. K \in SUBSET DOMAIN q /\ OwnedBy(q, q[i].id) \in SUBSET DOMAIN q /\ i \in OwnedBy(q, q[i].id)
    BY DEF OwnedBy
<1>4. Chan(q, q[i].id) # <<>>
    BY <1>3, TailAt, AtPicks, MsgsStep DEF Chan
<1>5. CASE q[i].id = t
    <2>1. K \cap R = K \ {i} /\ i \in K /\ \A j \in K : i <= j
        BY <1>3, <1>5
    <2> HIDE DEF K
    <2>2. At(q, K) # <<>> /\ At(q, K \ {i}) = Tail(At(q, K)) /\ At(q, K) \in Seq(Result)
        BY <1>3, <2>1, TailAt, AtPicks
    <2>3. Msgs(Tail(At(q, K))) = Tail(Msgs(At(q, K)))
        BY <2>2, MsgsStep
    <2> QED BY <1>2, <1>4, <1>5, <2>1, <2>2, <2>3 DEF Chan, s, K
<1>6. CASE q[i].id # t
    <2>1. K \cap R = K
        BY <1>6 DEF OwnedBy
    <2> QED BY <1>2, <1>4, <1>6, <2>1 DEF Chan, s
<1> QED BY <1>5, <1>6

\* remove_waiting_task_id(): nothing is left of the task, the others stay.
LEMMA ChanPurge ==
    ASSUME NEW q \in Seq(Result), NEW u, NEW t
    PROVE  Chan(Without(q, u), t) = IF u = t THEN <<>> ELSE Chan(q, t)
<1> DEFINE s == Without(q, u)
           K == OwnedBy(q, t)
           R == DOMAIN q \ OwnedBy(q, u)
<1>1. s \in Seq(Result) /\ Picks(s, q, R)
    BY WithoutPicks
<1> HIDE DEF s
<1>2. At(s, OwnedBy(s, t)) = At(q, K \cap R)
    BY <1>1, OwnedLeft
<1>3. CASE u = t
    <2>1. K \cap R = {}
        BY <1>3
    <2>2. At(q, {}) = <<>>
        <3>1. Cardinality({}) = 0
            BY FS_EmptySet
        <3>2. At(q, {}) \in Seq(Result) /\ Len(At(q, {})) = 0
            BY <3>1, AtPicks
        <3> QED BY <3>2
    <2>3. Msgs(At(q, {})) = <<>>
        <3>1. <<>> \in Seq(Result)
            OBVIOUS
        <3> QED BY <2>2, <3>1, MsgsStep
    <2> QED BY <1>2, <1>3, <2>1, <2>3 DEF Chan, s
<1>4. CASE u # t
    <2>1. K \cap R = K
        BY <1>4 DEF OwnedBy
    <2> QED BY <1>2, <1>4, <2>1 DEF Chan, s
<1> QED BY <1>3, <1>4

Chans == [t \in TaskIds |-> Chan(queue_results, t)]

LEMMA SendIsChan ==
    ASSUME TypeOK, NEW res \in Result, Send(res), UNCHANGED waiting_task_ids
    PROVE  Channels!ChanNext \/ UNCHANGED <<waiting_task_ids, Chans>>
<1> DEFINE t == res.id
<1>1. CASE UNCHANGED queue_results
    BY <1>1 DEF Chans, Chan, Msgs, At, OwnedBy, Place
<1>2. CASE t \in waiting_task_ids /\ queue_results' = Append(queue_results, res)
    <2>1. queue_results \in Seq(Result) /\ t \in TaskIds
        BY DEF TypeOK, Result
    <2>2. \A u \in TaskIds : Chans'[u] = IF t = u THEN Append(Chans[u], Msg(res)) ELSE Chans[u]
        BY <1>2, <2>1, ChanSend DEF Chans
    <2>3. Chans' = [Chans EXCEPT ![t] = Append(@, Msg(res))]
        BY <2>1, <2>2 DEF Chans
    <2>4. Msg(res) \in [kind : {"partial", "final", "error"}, n : 0 .. MaxPartials]
        BY DEF Msg, Result
    <2>5. Channels!Send(t)
        BY <1>2, <2>3, <2>4 DEF Channels!Send, Chans, Chan, Msgs
    <2> QED BY <2>1, <2>5 DEF Channels!ChanNext
<1> QED BY <1>1, <1>2 DEF Send

LEMMA ChanStep ==
    ASSUME TypeOK, Rest, [Next]_vars
    PROVE  Channels!ChanNext \/ UNCHANGED <<waiting_task_ids, Chans>>
<1>0. queue_results \in Seq(Result) /\ waiting_task_ids \subseteq TaskIds
    BY DEF TypeOK
<1>1. ASSUME UNCHANGED queue_results PROVE UNCHANGED Chans
    BY <1>1 DEF Chans, Chan, Msgs, At, OwnedBy, Place
<1>2. CASE UNCHANGED <<waiting_task_ids, queue_results>>
    BY <1>1, <1>2
<1>3. ASSUME NEW r \in Readers, Register(r) PROVE Channels!ChanNext
    <2>1. IdsOf[r] \in SUBSET TaskIds
        BY Ids
    <2>2. waiting_task_ids' = waiting_task_ids \cup IdsOf[r] /\ UNCHANGED Chans
        BY <1>1, <1>3 DEF Register
    <2> QED BY <2>1, <2>2 DEF Channels!ChanNext, Channels!Open, Chans, Chan, Msgs
<1>4. ASSUME NEW r \in Readers, Stop(r) PROVE Channels!ChanNext
    <2> DEFINE S == IdsOf[r] \cap waiting_task_ids
    <2>1. S \in SUBSET waiting_task_ids
        OBVIOUS
    <2>2. waiting_task_ids' = waiting_task_ids \ S /\ UNCHANGED Chans
        BY <1>1, <1>4 DEF Stop
    <2> HIDE DEF S
    <2> QED BY <2>1, <2>2 DEF Channels!ChanNext, Channels!Close, Chans, Chan, Msgs
<1>5. ASSUME NEW r \in Readers, Recv(r), Receive(r) PROVE Channels!ChanNext
    <2>1. PICK i \in Mine(r) : (\A j \in Mine(r) : i <= j) /\ Take(r, i)
        BY <1>5 DEF Receive
    <2>0. PICK t : t = queue_results[i].id
        OBVIOUS
    <2>2. /\ i \in DOMAIN queue_results /\ t \in IdsOf[r]
          /\ \A j \in OwnedBy(queue_results, t) : i <= j
        BY <2>0, <2>1 DEF Mine, OwnedBy
    <2>3. Reading(r)
        BY <1>5 DEF Recv, Reading
    <2>4. t \in waiting_task_ids /\ t \in TaskIds
        BY <2>2, <2>3, <1>0 DEF Rest, Registered
    <2>5. queue_results' = RemoveAt(queue_results, i) /\ UNCHANGED waiting_task_ids
        BY <2>1 DEF Take
    <2>6. /\ Chan(queue_results, t) # <<>>
          /\ \A u : Chan(RemoveAt(queue_results, i), u)
                       = IF t = u THEN Tail(Chan(queue_results, u)) ELSE Chan(queue_results, u)
        BY <1>0, <2>0, <2>2, ChanReceive
    <2>7. Chans[t] # <<>> /\ \A u \in TaskIds : Chans'[u] = IF t = u THEN Tail(Chans[u]) ELSE Chans[u]
        BY <2>4, <2>5, <2>6 DEF Chans
    <2>8. Chans' = [Chans EXCEPT ![t] = Tail(@)]
        BY <2>4, <2>7 DEF Chans
    <2>9. Channels!Receive(t)
        BY <2>4, <2>5, <2>7, <2>8 DEF Channels!Receive, Chans, Chan, Msgs
    <2> QED BY <2>4, <2>9 DEF Channels!ChanNext
<1>6. ASSUME NEW r \in Readers, RemoveOne(r) PROVE Channels!ChanNext
    <2>1. PICK t \in removing[r] :
            /\ waiting_task_ids' = waiting_task_ids \ {t}
            /\ queue_results' = Without(queue_results, t)
        BY <1>6 DEF RemoveOne
    <2>2. t \in TaskIds /\ t \notin waiting_task_ids
        BY <1>6, Ids DEF RemoveOne, Rest, Purging
    <2>3. waiting_task_ids' = waiting_task_ids
        BY <2>1, <2>2
    <2>4. \A u \in TaskIds : Chans'[u] = IF t = u THEN <<>> ELSE Chans[u]
        BY <1>0, <2>1, ChanPurge DEF Chans
    <2>5. Chans' = [Chans EXCEPT ![t] = <<>>]
        BY <2>2, <2>4 DEF Chans
    <2>6. Channels!Discard(t)
        BY <2>2, <2>3, <2>5 DEF Channels!Discard, Chans, Chan, Msgs
    <2> QED BY <2>2, <2>6 DEF Channels!ChanNext
<1>7. ASSUME NEW r \in Readers,
             \/ PostTasks(r) \/ Leave(r) \/ (Recv(r) /\ Wait(r)) \/ Timeout(r) \/ Poll(r)
             \/ PostCancels(r) \/ Close(r)
      PROVE  UNCHANGED <<waiting_task_ids, queue_results>>
    BY <1>7 DEF PostTasks, Leave, Wait, Timeout, Poll, PostCancels, Close, responseVars
<1>8. ASSUME NEW t \in TaskIds, Partial(t)
      PROVE  Channels!ChanNext \/ UNCHANGED <<waiting_task_ids, Chans>>
    <2> DEFINE res == [id |-> t, kind |-> "partial", n |-> partials'[t]]
    <2>1. Send(res) /\ UNCHANGED waiting_task_ids
        BY <1>8 DEF Partial
    <2>2. (partials[t] + 1) % (MaxPartials + 1) \in 0 .. MaxPartials
        BY ReadersAssumption DEF TypeOK
    <2>3. partials'[t] \in 0 .. MaxPartials
        BY <1>8, <2>2 DEF Partial, TypeOK
    <2>4. res \in Result
        BY <2>3 DEF Result
    <2> HIDE DEF res
    <2> QED BY <2>1, <2>4, SendIsChan
<1>9. ASSUME NEW t \in TaskIds, Final(t)
      PROVE  Channels!ChanNext \/ UNCHANGED <<waiting_task_ids, Chans>>
    <2>1. PICK kind \in {"final", "error"} : Send([id |-> t, kind |-> kind, n |-> 0])
        BY <1>9 DEF Final
    <2> DEFINE res == [id |-> t, kind |-> kind, n |-> 0]
    <2>2. UNCHANGED waiting_task_ids
        BY <1>9 DEF Final
    <2>3. res \in Result
        BY ReadersAssumption DEF Result
    <2>4. Send(res)
        BY <2>1
    <2> HIDE DEF res
    <2> QED BY <2>2, <2>3, <2>4, SendIsChan
<1>10. ASSUME NEW t \in TaskIds, HandleCancel(t)
       PROVE  UNCHANGED <<waiting_task_ids, queue_results>>
    BY <1>10 DEF HandleCancel, responseVars
<1>11. ASSUME NEW r \in Readers, Recv(r)
       PROVE  Receive(r) \/ Wait(r)
    BY <1>11 DEF Recv
<1>12. ASSUME NEW r \in Readers, Reader(r) \/ Close(r)
       PROVE  Channels!ChanNext \/ UNCHANGED <<waiting_task_ids, queue_results>>
    BY <1>3, <1>4, <1>5, <1>6, <1>7, <1>11, <1>12 DEF Reader
<1>13. CASE UNCHANGED vars
    BY <1>2, <1>13 DEF vars, responseVars
<1> QED BY <1>2, <1>8, <1>9, <1>10, <1>12, <1>13 DEF Next

\* server_response is one ordered channel per task id: what a reader receives of a task is
\* what was sent for it while it waited, in that order, each once.
THEOREM ResponseRefines == Spec => OrderedChannels
<1>1. Init => Channels!ChanInit
    <2> SUFFICES ASSUME Init PROVE Channels!ChanInit
        OBVIOUS
    <2>1. queue_results = <<>> /\ waiting_task_ids = {}
        BY DEF Init
    <2>2. ASSUME NEW t \in TaskIds PROVE Chan(queue_results, t) = <<>>
        <3>1. OwnedBy(queue_results, t) = {} /\ queue_results \in Seq(Result)
            BY <2>1 DEF OwnedBy
        <3>2. At(queue_results, {}) \in Seq(Result) /\ Len(At(queue_results, {})) = 0
            BY <3>1, AtPicks, FS_EmptySet
        <3>3. At(queue_results, {}) = <<>>
            BY <3>2
        <3>4. Msgs(At(queue_results, {})) = <<>>
            BY <3>2, <3>3, MsgsStep
        <3> QED BY <3>1, <3>4 DEF Chan
    <2> QED BY <2>1, <2>2 DEF Channels!ChanInit, Chan, Msgs
<1>2. IInv /\ [Next]_vars => [Channels!ChanNext]_<<waiting_task_ids, Chans>>
    BY ChanStep DEF IInv
<1>3. [Channels!ChanNext]_<<waiting_task_ids, Chans>> =>
          [Channels!ChanNext]_<<waiting_task_ids,
              [t \in TaskIds |->
                 LET own == At(queue_results, OwnedBy(queue_results, t))
                 IN  [i \in DOMAIN own |-> [kind |-> own[i].kind, n |-> own[i].n]]]>>
    BY DEF Chans, Chan, Msgs
<1> QED BY <1>1, <1>2, <1>3, InitInv, NextInv, PTL DEF Spec, OrderedChannels, Channels!ChanSpec
=============================================================================
