------------------------- MODULE ServerModelsProofs -------------------------
(***************************************************************************)
(* Theorems about the router, for any models, limit and requests: the      *)
(* limit on child processes holds, the entries of the queue are those of   *)
(* requests that wait, and a load in flight has a request that performs it.*)
(*                                                                         *)
(* The limit is a matter of the models alone: a model has a process        *)
(* exactly as long as its status counts as running (ProcessOK).  For the   *)
(* queue, each operation of server_lru_sched is first described by what it *)
(* makes of the entries (JoinEffect, LeaveEffect, ...), whatever their     *)
(* places.                                                                 *)
(***************************************************************************)
EXTENDS ServerModels, FiniteSetTheorems, TLAPS

(***************************************************************************)
(* The inductive invariant                                                 *)
(***************************************************************************)
\* Where a request performs a load, and where it may be counted by an entry.
ClaimPc == {"make_room", "lru_evict", "lru_wait", "spawn", "claim_ok", "claim_failed"}
QueuedPc == ClaimPc \cup {"evict", "wait"}
Pc == QueuedPc \cup {"start", "decide", "proxy", "count", "active", "idle", "give_up", "unload", "done"}

ProcessOK ==
    /\ status \in [Models -> {"unloaded", "loading", "ready"}]
    /\ proc \in [Models -> {"none", "running", "dying", "exited", "joined"}]
    /\ \A m \in Models : Up(m) <=> proc[m] # "none"
    /\ CountRunning <= ModelsMax

Distinct(q) == \A i, j \in DOMAIN q : q[i].model = q[j].model => i = j

\* The requests that may be counted by the entry of model m, when w says who is queued.
Waiters(m, w) == {r \in Requests : Wants[r] = m /\ w[r]}

RequestsOK ==
    /\ pc \in [Requests -> Pc] /\ queued \in [Requests -> BOOLEAN]
    /\ \A r \in Requests : queued[r] => pc[r] \in QueuedPc

\* An entry counts no more requests than wait, and its load has an owner.
Counted(e, w) == e.n_waiters > 0 /\ e.n_waiters <= Cardinality(Waiters(e.model, w))
Owned(e, w, at) == e.loading => \E r \in Waiters(e.model, w) : at[r] \in ClaimPc

QueueOK ==
    /\ queue \in Seq(EntryType) /\ Distinct(queue)
    /\ \A i \in DOMAIN queue : Counted(queue[i], queued) /\ Owned(queue[i], queued, pc)

IInv == ProcessOK /\ RequestsOK /\ QueueOK

(***************************************************************************)
(* What the operations do with the entries                                 *)
(***************************************************************************)
\* An entry changes, its model does not.
LEMMA UpdateEntry ==
    ASSUME NEW q \in Seq(EntryType), Distinct(q), NEW i \in DOMAIN q,
           NEW e \in EntryType, e.model = q[i].model
    PROVE  /\ [q EXCEPT ![i] = e] \in Seq(EntryType) /\ Distinct([q EXCEPT ![i] = e])
           /\ DOMAIN [q EXCEPT ![i] = e] = DOMAIN q /\ [q EXCEPT ![i] = e][i] = e
           /\ \A j \in DOMAIN q \ {i} : [q EXCEPT ![i] = e][j] = q[j]
<1> DEFINE s == [q EXCEPT ![i] = e]
<1>1. s \in Seq(EntryType)
    OBVIOUS
<1>2. DOMAIN s = DOMAIN q /\ s[i] = e /\ \A j \in DOMAIN q \ {i} : s[j] = q[j]
    OBVIOUS
<1> HIDE DEF s
<1>3. \A j \in DOMAIN s : s[j].model = q[j].model
    BY <1>2
<1>4. Distinct(s)
    BY <1>2, <1>3 DEF Distinct
<1> QED BY <1>1, <1>2, <1>4 DEF s

\* An entry is removed.
LEMMA RemoveEntry ==
    ASSUME NEW q \in Seq(EntryType), Distinct(q), NEW i \in DOMAIN q
    PROVE  /\ RemoveAt(q, i) \in Seq(EntryType) /\ Distinct(RemoveAt(q, i))
           /\ \A j \in DOMAIN RemoveAt(q, i) : \E k \in DOMAIN q \ {i} : RemoveAt(q, i)[j] = q[k]
<1> DEFINE a == SubSeq(q, 1, i - 1)
           b == SubSeq(q, i + 1, Len(q))
           s == a \o b
           Old(j) == IF j < i THEN j ELSE j + 1
<1>1. i \in 1 .. Len(q) /\ Len(q) \in Nat
    OBVIOUS
<1>2. a \in Seq(EntryType) /\ Len(a) = i - 1 /\ \A j \in 1 .. i - 1 : a[j] = q[j]
    BY <1>1
<1>3. b \in Seq(EntryType) /\ Len(b) = Len(q) - i /\ \A j \in 1 .. Len(q) - i : b[j] = q[j + i]
    BY <1>1
<1> HIDE DEF a, b
<1>4. s \in Seq(EntryType) /\ Len(s) = Len(q) - 1
    BY <1>1, <1>2, <1>3
<1>5. ASSUME NEW j \in DOMAIN s
      PROVE  Old(j) \in DOMAIN q \ {i} /\ s[j] = q[Old(j)]
    <2>1. j \in 1 .. Len(q) - 1
        BY <1>1, <1>4
    <2>2. CASE j < i
        BY <1>1, <1>2, <1>3, <2>1, <2>2
    <2>3. CASE ~(j < i)
        <3> DEFINE k == j - (i - 1)
        <3>1. k \in 1 .. Len(q) - i /\ k + i = j + 1
            <4> HIDE DEF s
            <4> QED BY <1>1, <2>1, <2>3
        <3>2. s[j] = b[k]
            <4>1. a \in Seq(EntryType) /\ b \in Seq(EntryType) /\ Len(a) = i - 1 /\ Len(b) = Len(q) - i
                BY <1>2, <1>3
            <4>2. j \in 1 .. Len(a) + Len(b) /\ j > Len(a)
                BY <1>1, <2>1, <2>3, <4>1
            <4>3. s[j] = b[j - Len(a)]
                BY <4>1, <4>2
            <4> QED BY <4>1, <4>3
        <3>3. b[k] = q[k + i]
            <4> HIDE DEF k, s
            <4> QED BY <1>3, <3>1, Zenon
        <3>6. s[j] = q[j + 1]
            <4> HIDE DEF k, s
            <4> QED BY <3>1, <3>2, <3>3
        <3>4. Old(j) = j + 1
            BY <2>3
        <3>5. j + 1 \in 1 .. Len(q) /\ j + 1 # i
            BY <1>1, <2>1, <2>3
        <3> HIDE DEF s, Old
        <3> QED BY <3>4, <3>5, <3>6
    <2> QED BY <2>2, <2>3
<1>6. s = RemoveAt(q, i)
    BY DEF RemoveAt, a, b
<1>7. Distinct(s)
    <2> SUFFICES ASSUME NEW j \in DOMAIN s, NEW k \in DOMAIN s, s[j].model = s[k].model
                 PROVE  j = k
        BY DEF Distinct
    <2>1. Old(j) = Old(k)
        BY <1>5 DEF Distinct
    <2>2. j \in Nat /\ k \in Nat
        BY <1>4
    <2> QED BY <1>1, <2>1, <2>2
<1> HIDE DEF s, Old
<1> QED BY <1>4, <1>5, <1>6, <1>7

LEMMA PositionOK ==
    ASSUME NEW q \in Seq(EntryType), NEW m, Listed(q, m)
    PROVE  Position(q, m) \in DOMAIN q /\ q[Position(q, m)].model = m
BY DEF Listed, Position

\* A request is counted by the entry of its model, which may be new.
LEMMA JoinEffect ==
    ASSUME NEW q \in Seq(EntryType), Distinct(q), NEW m \in Models
    PROVE  /\ Join(q, m) \in Seq(EntryType) /\ Distinct(Join(q, m))
           /\ Listed(Join(q, m), m)
           /\ \A j \in DOMAIN Join(q, m) :
                 \/ \E i \in DOMAIN q : q[i].model # m /\ Join(q, m)[j] = q[i]
                 \/ /\ Join(q, m)[j].model = m
                    /\ \/ ~Join(q, m)[j].loading /\ Join(q, m)[j].n_waiters = 1
                       \/ \E i \in DOMAIN q : q[i].model = m
                                              /\ Join(q, m)[j] = [q[i] EXCEPT !.n_waiters = @ + 1]
<1>1. CASE Listed(q, m)
    <2> DEFINE i == Position(q, m)
               e == [q[i] EXCEPT !.n_waiters = @ + 1]
    <2>1. i \in DOMAIN q /\ q[i].model = m
        BY <1>1, PositionOK
    <2>2. Join(q, m) = [q EXCEPT ![i] = e]
        BY <1>1 DEF Join
    <2> HIDE DEF i
    <2>3. q[i] \in EntryType
        BY <2>1
    <2>4. e \in EntryType /\ e.model = m
        BY <2>1, <2>3 DEF EntryType
    <2> HIDE DEF e
    <2>5. \A j \in DOMAIN q : q[j].model = m => j = i
        BY <2>1 DEF Distinct
    <2>6. /\ Join(q, m) \in Seq(EntryType) /\ Distinct(Join(q, m))
          /\ DOMAIN Join(q, m) = DOMAIN q /\ Join(q, m)[i] = e
          /\ \A j \in DOMAIN q \ {i} : Join(q, m)[j] = q[j]
        <3>1. e.model = q[i].model
            BY <2>1, <2>4
        <3> HIDE DEF e
        <3>2. /\ [q EXCEPT ![i] = e] \in Seq(EntryType) /\ Distinct([q EXCEPT ![i] = e])
              /\ DOMAIN [q EXCEPT ![i] = e] = DOMAIN q /\ [q EXCEPT ![i] = e][i] = e
              /\ \A j \in DOMAIN q \ {i} : [q EXCEPT ![i] = e][j] = q[j]
            BY <2>1, <2>4, <3>1, UpdateEntry, Zenon
        <3> QED BY <2>2, <3>2, Zenon
    <2>7. Listed(Join(q, m), m)
        BY <2>1, <2>4, <2>6 DEF Listed
    <2>8. ASSUME NEW j \in DOMAIN q
          PROVE  \/ q[j].model # m /\ Join(q, m)[j] = q[j]
                 \/ Join(q, m)[j].model = m /\ q[i].model = m /\ Join(q, m)[j] = [q[i] EXCEPT !.n_waiters = @ + 1]
        BY <2>1, <2>4, <2>5, <2>6 DEF e
    <2> QED BY <2>1, <2>6, <2>7, <2>8
<1>2. CASE ~Listed(q, m)
    <2> DEFINE e == [model |-> m, n_waiters |-> 1, slot_pending |-> FALSE, loading |-> FALSE]
    <2>1. Join(q, m) = Append(q, e)
        BY <1>2 DEF Join
    <2>2. e \in EntryType /\ e.model = m /\ ~e.loading /\ e.n_waiters = 1
        BY DEF EntryType
    <2> HIDE DEF e
    <2>3. /\ Join(q, m) \in Seq(EntryType) /\ DOMAIN Join(q, m) = 1 .. Len(q) + 1
          /\ Join(q, m)[Len(q) + 1] = e
          /\ \A j \in 1 .. Len(q) : Join(q, m)[j] = q[j]
        BY <2>1, <2>2
    <2>4. \A j \in 1 .. Len(q) : q[j].model # m
        BY <1>2 DEF Listed
    <2>5. Distinct(Join(q, m))
        <3> SUFFICES ASSUME NEW j \in 1 .. Len(q) + 1, NEW k \in 1 .. Len(q) + 1,
                            Join(q, m)[j].model = Join(q, m)[k].model
                     PROVE  j = k
            BY <2>3 DEF Distinct
        <3>1. (j \in 1 .. Len(q) \/ j = Len(q) + 1) /\ (k \in 1 .. Len(q) \/ k = Len(q) + 1)
            OBVIOUS
        <3> QED BY <2>2, <2>3, <2>4, <3>1 DEF Distinct
    <2>6. Listed(Join(q, m), m)
        <3>1. Len(q) + 1 \in DOMAIN Join(q, m)
            BY <2>3
        <3> QED BY <2>2, <2>3, <3>1 DEF Listed
    <2>7. ASSUME NEW j \in DOMAIN Join(q, m)
          PROVE  \/ j \in DOMAIN q /\ q[j].model # m /\ Join(q, m)[j] = q[j]
                 \/ Join(q, m)[j] = e
        <3>1. j \in 1 .. Len(q) \/ j = Len(q) + 1
            BY <2>3
        <3> QED BY <2>3, <2>4, <3>1
    <2> QED BY <2>2, <2>3, <2>5, <2>6, <2>7
<1> QED BY <1>1, <1>2

\* The entry of a model is counted down, or goes with its last request.
LEMMA LeaveEffect ==
    ASSUME NEW q \in Seq(EntryType), Distinct(q), NEW m \in Models
    PROVE  /\ Leave(q, m) \in Seq(EntryType) /\ Distinct(Leave(q, m))
           /\ \A j \in DOMAIN Leave(q, m) :
                 \/ \E i \in DOMAIN q : q[i].model # m /\ Leave(q, m)[j] = q[i]
                 \/ \E i \in DOMAIN q : /\ q[i].model = m /\ q[i].n_waiters > 1
                                        /\ Leave(q, m)[j] = [q[i] EXCEPT !.n_waiters = @ - 1]
<1>1. CASE ~Listed(q, m)
    <2>1. Leave(q, m) = q /\ \A i \in DOMAIN q : q[i].model # m
        BY <1>1 DEF Leave, Listed
    <2> QED BY <2>1
<1>2. CASE Listed(q, m)
    <2> DEFINE i == Position(q, m)
               e == [q[i] EXCEPT !.n_waiters = @ - 1]
    <2>1. i \in DOMAIN q /\ q[i].model = m
        BY <1>2, PositionOK
    <2>2. Leave(q, m) = IF q[i].n_waiters <= 1 THEN RemoveAt(q, i) ELSE [q EXCEPT ![i] = e]
        BY <1>2 DEF Leave
    <2> HIDE DEF i
    <2>3. q[i] \in EntryType
        BY <2>1
    <2>4. \A j \in DOMAIN q : q[j].model = m => j = i
        BY <2>1 DEF Distinct
    <2>5. CASE q[i].n_waiters <= 1
        <3>1. Leave(q, m) = RemoveAt(q, i)
            BY <2>2, <2>5
        <3>2. /\ RemoveAt(q, i) \in Seq(EntryType) /\ Distinct(RemoveAt(q, i))
              /\ \A j \in DOMAIN RemoveAt(q, i) : \E k \in DOMAIN q \ {i} : RemoveAt(q, i)[j] = q[k]
            BY <2>1, RemoveEntry
        <3> QED BY <2>4, <3>1, <3>2
    <2>6. CASE ~(q[i].n_waiters <= 1)
        <3>1. e \in EntryType /\ e.model = q[i].model /\ q[i].n_waiters > 1
            <4>1. q[i].n_waiters \in Nat
                BY <2>3 DEF EntryType
            <4>2. q[i].n_waiters > 1 /\ q[i].n_waiters - 1 \in Nat
                BY <2>6, <4>1
            <4>3. \A x \in EntryType, n \in Nat : /\ [x EXCEPT !.n_waiters = n] \in EntryType
                                                 /\ [x EXCEPT !.n_waiters = n].model = x.model
                BY DEF EntryType
            <4> QED BY <2>3, <4>2, <4>3
        <3>2. Leave(q, m) = [q EXCEPT ![i] = e]
            BY <2>2, <2>6
        <3> HIDE DEF e
        <3>3. /\ [q EXCEPT ![i] = e] \in Seq(EntryType) /\ Distinct([q EXCEPT ![i] = e])
              /\ DOMAIN [q EXCEPT ![i] = e] = DOMAIN q /\ [q EXCEPT ![i] = e][i] = e
              /\ \A j \in DOMAIN q \ {i} : [q EXCEPT ![i] = e][j] = q[j]
            BY <2>1, <3>1, UpdateEntry, Zenon
        <3>4. /\ Leave(q, m) \in Seq(EntryType) /\ Distinct(Leave(q, m))
              /\ DOMAIN Leave(q, m) = DOMAIN q /\ Leave(q, m)[i] = e
              /\ \A j \in DOMAIN q \ {i} : Leave(q, m)[j] = q[j]
            BY <3>2, <3>3, Zenon
        <3>5. ASSUME NEW j \in DOMAIN q
              PROVE  \/ q[j].model # m /\ Leave(q, m)[j] = q[j]
                     \/ /\ q[i].model = m /\ q[i].n_waiters > 1
                        /\ Leave(q, m)[j] = [q[i] EXCEPT !.n_waiters = @ - 1]
            BY <2>1, <2>4, <3>1, <3>4 DEF e
        <3> QED BY <2>1, <3>4, <3>5
    <2> QED BY <2>5, <2>6
<1> QED BY <1>1, <1>2

\* The end of a load: the entry of the model goes, or does not count as loading any more.
LEMMA ClaimDoneEffect ==
    ASSUME NEW q \in Seq(EntryType), Distinct(q), NEW m \in Models, NEW ok \in BOOLEAN
    PROVE  /\ ClaimDone(q, m, ok) \in Seq(EntryType) /\ Distinct(ClaimDone(q, m, ok))
           /\ \A j \in DOMAIN ClaimDone(q, m, ok) :
                 \/ \E i \in DOMAIN q : q[i].model # m /\ ClaimDone(q, m, ok)[j] = q[i]
                 \/ \E i \in DOMAIN q : /\ q[i].model = m /\ ~ok
                                        /\ ClaimDone(q, m, ok)[j] = [q[i] EXCEPT !.loading = FALSE]
<1>1. CASE ~Listed(q, m)
    <2>1. ClaimDone(q, m, ok) = q /\ \A i \in DOMAIN q : q[i].model # m
        BY <1>1 DEF ClaimDone, Listed
    <2> QED BY <2>1
<1>2. CASE Listed(q, m)
    <2> DEFINE i == Position(q, m)
               e == [q[i] EXCEPT !.loading = FALSE]
               s == ClaimDone(q, m, ok)
    <2>1. i \in DOMAIN q /\ q[i].model = m
        BY <1>2, PositionOK
    <2>2. s = IF ok THEN RemoveAt(q, i) ELSE [q EXCEPT ![i] = e]
        BY <1>2 DEF ClaimDone
    <2> HIDE DEF i, s
    <2>3. q[i] \in EntryType
        BY <2>1
    <2>4. \A j \in DOMAIN q : q[j].model = m => j = i
        BY <2>1 DEF Distinct
    <2>5. CASE ok
        <3>1. s = RemoveAt(q, i)
            BY <2>2, <2>5
        <3>2. /\ RemoveAt(q, i) \in Seq(EntryType) /\ Distinct(RemoveAt(q, i))
              /\ \A j \in DOMAIN RemoveAt(q, i) : \E k \in DOMAIN q \ {i} : RemoveAt(q, i)[j] = q[k]
            BY <2>1, RemoveEntry
        <3> QED BY <2>4, <3>1, <3>2 DEF s
    <2>6. CASE ~ok
        <3>1. e \in EntryType /\ e.model = q[i].model
            BY <2>3, <2>6 DEF EntryType
        <3>2. s = [q EXCEPT ![i] = e]
            BY <2>2, <2>6
        <3> HIDE DEF e
        <3>3. /\ [q EXCEPT ![i] = e] \in Seq(EntryType) /\ Distinct([q EXCEPT ![i] = e])
              /\ DOMAIN [q EXCEPT ![i] = e] = DOMAIN q /\ [q EXCEPT ![i] = e][i] = e
              /\ \A j \in DOMAIN q \ {i} : [q EXCEPT ![i] = e][j] = q[j]
            BY <2>1, <3>1, UpdateEntry, Zenon
        <3>4. /\ s \in Seq(EntryType) /\ Distinct(s)
              /\ DOMAIN s = DOMAIN q /\ s[i] = e
              /\ \A j \in DOMAIN q \ {i} : s[j] = q[j]
            BY <3>2, <3>3, Zenon
        <3>5. ASSUME NEW j \in DOMAIN q
              PROVE  \/ q[j].model # m /\ s[j] = q[j]
                     \/ q[i].model = m /\ ~ok /\ s[j] = [q[i] EXCEPT !.loading = FALSE]
            BY <2>1, <2>4, <2>6, <3>4 DEF e
        <3> QED BY <2>1, <3>4, <3>5 DEF s
    <2> QED BY <2>5, <2>6
<1> QED BY <1>1, <1>2

\* A slot is promised to an entry: what the invariant says of it does not change.
LEMMA PromiseEffect ==
    ASSUME NEW q \in Seq(EntryType), Distinct(q), NEW i \in DOMAIN q, NEW e \in EntryType,
           e.model = q[i].model, e.n_waiters = q[i].n_waiters, e.loading = q[i].loading
    PROVE  /\ [q EXCEPT ![i] = e] \in Seq(EntryType) /\ Distinct([q EXCEPT ![i] = e])
           /\ \A j \in DOMAIN [q EXCEPT ![i] = e] :
                 /\ j \in DOMAIN q /\ [q EXCEPT ![i] = e][j].model = q[j].model
                 /\ [q EXCEPT ![i] = e][j].n_waiters = q[j].n_waiters
                 /\ [q EXCEPT ![i] = e][j].loading = q[j].loading
<1> DEFINE s == [q EXCEPT ![i] = e]
<1>1. /\ s \in Seq(EntryType) /\ Distinct(s)
      /\ DOMAIN s = DOMAIN q /\ s[i] = e /\ \A j \in DOMAIN q \ {i} : s[j] = q[j]
    BY UpdateEntry, Zenon
<1> HIDE DEF s
<1>2. ASSUME NEW j \in DOMAIN s
      PROVE  /\ j \in DOMAIN q /\ s[j].model = q[j].model
             /\ s[j].n_waiters = q[j].n_waiters /\ s[j].loading = q[j].loading
    BY <1>1
<1> QED BY <1>1, <1>2 DEF s

(***************************************************************************)
(* The processes                                                           *)
(***************************************************************************)
LEMMA InitProcess == Init => ProcessOK
<1> SUFFICES ASSUME Init PROVE ProcessOK
    OBVIOUS
<1>1. PICK up \in SUBSET Models :
         /\ Cardinality(up) <= ModelsMax
         /\ status = [m \in Models |-> IF m \in up THEN "ready" ELSE "unloaded"]
         /\ proc = [m \in Models |-> IF m \in up THEN "running" ELSE "none"]
    BY DEF Init
<1>2. {m \in Models : Up(m)} = up
    BY <1>1 DEF Up
<1>3. \A m \in Models : Up(m) <=> proc[m] # "none"
    BY <1>1 DEF Up
<1> QED BY <1>1, <1>2, <1>3 DEF ProcessOK, CountRunning

\* No model starts to count as running, and a process stays or goes with the status.
LEMMA SameProcess ==
    ASSUME ProcessOK,
           status' \in [Models -> {"unloaded", "loading", "ready"}],
           proc' \in [Models -> {"none", "running", "dying", "exited", "joined"}],
           \A m \in Models : Up(m)' => Up(m),
           \A m \in Models : Up(m)' <=> proc'[m] # "none"
    PROVE  ProcessOK'
<1> DEFINE S == {m \in Models : Up(m)}
           T == {m \in Models : Up(m)'}
<1>1. T \subseteq S /\ IsFiniteSet(S)
    BY ModelsAssumption, FS_Subset
<1>2. Cardinality(T) <= Cardinality(S) /\ Cardinality(S) \in Nat /\ Cardinality(T) \in Nat
    BY <1>1, FS_Subset, FS_CardinalityType
<1>3. Cardinality(S) <= ModelsMax /\ ModelsMax \in Nat
    BY ModelsAssumption DEF ProcessOK, CountRunning
<1>4. CountRunning' = Cardinality(T)
    BY DEF CountRunning
<1> QED BY <1>2, <1>3, <1>4 DEF ProcessOK

\* Spawn checks the capacity in the critical section in which it starts the process.
LEMMA SpawnProcess ==
    ASSUME ProcessOK, NEW r \in Requests, Spawn(r)
    PROVE  ProcessOK'
<1> DEFINE m == Wants[r]
           S == {x \in Models : Up(x)}
<1>1. m \in Models
    BY ModelsAssumption
<1>2. status' = [status EXCEPT ![m] = "loading"] /\ proc' = [proc EXCEPT ![m] = "running"]
      /\ status[m] = "unloaded" /\ HasCapacity
    BY DEF Spawn
<1>3. {x \in Models : Up(x)'} = S \cup {m}
    BY <1>1, <1>2 DEF ProcessOK, Up
<1>4. m \notin S /\ IsFiniteSet(S)
    BY <1>2, ModelsAssumption, FS_Subset DEF Up
<1>5. Cardinality(S \cup {m}) = Cardinality(S) + 1 /\ Cardinality(S) \in Nat
    BY <1>4, FS_AddElement, FS_CardinalityType
<1>6. CountRunning' <= ModelsMax
    BY <1>2, <1>3, <1>5, ModelsAssumption DEF CountRunning, HasCapacity
<1>7. \A x \in Models : Up(x)' <=> proc'[x] # "none"
    BY <1>1, <1>2 DEF ProcessOK, Up
<1> QED BY <1>1, <1>2, <1>6, <1>7 DEF ProcessOK

\* What happens to a process, or to its status, as long as it has not ended.
LEMMA ChildProcess ==
    ASSUME ProcessOK, NEW m \in Models, ChildStep(m) \/ Exit(m)
    PROVE  ProcessOK'
<1>1. CASE ReportReady(m)
    <2>1. \A x \in Models : Up(x)' <=> Up(x)
        BY <1>1 DEF ReportReady, ProcessOK, Up
    <2> QED BY <1>1, <2>1, SameProcess DEF ReportReady, ProcessOK
<1>2. CASE StopChild(m) \/ Exit(m) \/ Reap(m)
    <2>1. \A x \in Models : Up(x)' <=> Up(x)
        BY <1>2 DEF StopChild, Exit, Reap, Up
    <2>2. \A x \in Models : proc'[x] # "none" <=> proc[x] # "none"
        BY <1>2 DEF StopChild, Exit, Reap, ProcessOK
    <2> QED BY <1>2, <2>1, <2>2, SameProcess DEF StopChild, Exit, Reap, ProcessOK
<1>3. CASE ReportUnloaded(m)
    <2>1. \A x \in Models : Up(x)' <=> Up(x) /\ x # m
        BY <1>3 DEF ReportUnloaded, ProcessOK, Up
    <2>2. \A x \in Models : proc'[x] # "none" <=> proc[x] # "none" /\ x # m
        BY <1>3 DEF ReportUnloaded, ProcessOK
    <2> QED BY <1>3, <2>1, <2>2, SameProcess DEF ReportUnloaded, ProcessOK
<1> QED BY <1>1, <1>2, <1>3 DEF ChildStep

LEMMA UnloadProcess ==
    ASSUME ProcessOK, NEW r \in Requests, Unload(r)
    PROVE  ProcessOK'
<1>1. status' = status
    BY DEF Unload
<1>2. \A x \in Models : Up(x)' <=> Up(x)
    BY <1>1 DEF Up
<1>3. proc' = proc \/ (proc[victim[r]] = "running" /\ proc' = [proc EXCEPT ![victim[r]] = "dying"])
    BY DEF Unload
<1>4. proc' \in [Models -> {"none", "running", "dying", "exited", "joined"}]
    BY <1>3 DEF ProcessOK
<1>5. \A x \in Models : proc'[x] # "none" <=> proc[x] # "none"
    BY <1>3 DEF ProcessOK
<1> QED BY <1>1, <1>2, <1>4, <1>5, SameProcess DEF ProcessOK

LEMMA NextProcess == ProcessOK /\ [Next]_vars => ProcessOK'
<1> SUFFICES ASSUME ProcessOK, [Next]_vars PROVE ProcessOK'
    OBVIOUS
<1>1. CASE UNCHANGED <<status, proc>>
    BY <1>1 DEF ProcessOK, CountRunning, Up
<1>2. ASSUME NEW m \in Models, ChildStep(m) \/ Exit(m)
      PROVE  ProcessOK'
    BY <1>2, ChildProcess
<1>3. ASSUME NEW r \in Requests, Start(r) \/ RequestStep(r) \/ Cancel(r)
      PROVE  ProcessOK'
    <2>1. Unload(r) \/ Spawn(r) \/ UNCHANGED <<status, proc>>
        BY <1>3 DEF Start, RequestStep, Cancel, LoadNow, EnterQueue, WaitOnly, WaitReady,
              WaitLoading, WaitUnloaded, Claim, MakeRoom, AwaitUnload, NoSpawn, FinishClaim,
              Proxy, Count, Cleanup, OnModelIdle, StopWaiting, children
    <2> QED BY <1>1, <2>1, UnloadProcess, SpawnProcess
<1> QED BY <1>1, <1>2, <1>3 DEF Next, vars, children

(***************************************************************************)
(* The queue and the requests                                              *)
(***************************************************************************)
LEMMA WaitersFinite ==
    ASSUME NEW m, NEW w
    PROVE  IsFiniteSet(Waiters(m, w)) /\ Cardinality(Waiters(m, w)) \in Nat
BY ModelsAssumption, FS_Subset, FS_CardinalityType DEF Waiters

\* A step of request r, of which the others notice nothing.
Moves(r) ==
    /\ pc' = [pc EXCEPT ![r] = pc'[r]] /\ pc'[r] \in Pc
    /\ queued' = [queued EXCEPT ![r] = queued'[r]] /\ queued'[r] \in BOOLEAN
    /\ queued'[r] => pc'[r] \in QueuedPc

LEMMA MovesRequests ==
    ASSUME RequestsOK, NEW r \in Requests, Moves(r)
    PROVE  /\ RequestsOK'
           /\ \A u \in Requests \ {r} : pc'[u] = pc[u] /\ queued'[u] = queued[u]
BY DEF RequestsOK, Moves

LEMMA GotoOK ==
    ASSUME RequestsOK, NEW r \in Requests, NEW label, Goto(r, label)
    PROVE  pc' = [pc EXCEPT ![r] = pc'[r]] /\ pc'[r] = label
BY DEF RequestsOK, Goto

\* An entry is as before, the requests that it counts are too, and a load that goes on is
\* performed by the same request.
LEMMA EntryKept ==
    ASSUME NEW e, NEW o, e.model = o.model, e.n_waiters = o.n_waiters, e.loading = o.loading,
           NEW w, NEW v, NEW at, NEW to,
           Waiters(o.model, v) = Waiters(o.model, w),
           \A u \in Waiters(o.model, w) : at[u] \in ClaimPc => to[u] \in ClaimPc,
           Counted(o, w), Owned(o, w, at)
    PROVE  Counted(e, v) /\ Owned(e, v, to)
BY DEF Counted, Owned

\* A step that leaves the queue alone.
LEMMA SameQueue ==
    ASSUME RequestsOK, QueueOK, NEW r \in Requests, Moves(r),
           queue' = queue, queued' = queued,
           queued[r] /\ pc[r] \in ClaimPc => pc'[r] \in ClaimPc
    PROVE  QueueOK'
<1>1. \A u \in Requests : queued[u] /\ pc[u] \in ClaimPc => pc'[u] \in ClaimPc
    BY MovesRequests
<1>2. \A m : \A u \in Waiters(m, queued) : pc[u] \in ClaimPc => pc'[u] \in ClaimPc
    BY <1>1 DEF Waiters
<1>3. ASSUME NEW i \in DOMAIN queue
      PROVE  Counted(queue[i], queued) /\ Owned(queue[i], queued, pc')
    <2>1. Counted(queue[i], queued) /\ Owned(queue[i], queued, pc)
        BY DEF QueueOK
    <2> QED BY <1>2, <2>1, EntryKept
<1> QED BY <1>3 DEF QueueOK

\* Steps that leave the queue alone.
LEMMA PlainSteps ==
    ASSUME RequestsOK, QueueOK, NEW r \in Requests,
           \/ Start(r) \/ LoadNow(r) \/ WaitOnly(r) \/ Unload(r) \/ WaitLoading(r)
           \/ MakeRoom(r) \/ AwaitUnload(r) \/ Spawn(r) \/ NoSpawn(r)
           \/ Proxy(r) \/ Count(r) \/ Cleanup(r)
    PROVE  RequestsOK' /\ QueueOK'
<1>1. queue' = queue /\ queued' = queued
    BY DEF Start, LoadNow, WaitOnly, Unload, WaitLoading, MakeRoom, AwaitUnload, Spawn,
           NoSpawn, Proxy, Count, Cleanup
<1>2. /\ Moves(r)
      /\ queued[r] /\ pc[r] \in ClaimPc => pc'[r] \in ClaimPc
    <2>1. pc[r] \in Pc /\ queued[r] \in BOOLEAN /\ (queued[r] => pc[r] \in QueuedPc)
        BY DEF RequestsOK
    <2>2. queued' = [queued EXCEPT ![r] = queued[r]] /\ queued'[r] = queued[r]
        BY <1>1 DEF RequestsOK
    <2>3. SUFFICES /\ pc' = [pc EXCEPT ![r] = pc'[r]] /\ pc'[r] \in Pc
                   /\ queued[r] => pc'[r] \in QueuedPc
                   /\ queued[r] /\ pc[r] \in ClaimPc => pc'[r] \in ClaimPc
        BY <2>1, <2>2 DEF Moves
    <2>4. CASE Start(r)
        <3>1. Goto(r, "proxy") \/ Goto(r, "decide") \/ Goto(r, "done") \/ Goto(r, "make_room") \/ Goto(r, "unload")
            BY <2>4, ModelsAssumption DEF Start
        <3>2. ~queued[r]
            BY <2>1, <2>4 DEF Start, QueuedPc, ClaimPc
        <3> QED BY <3>1, <3>2, GotoOK DEF Pc, QueuedPc, ClaimPc
    <2>5. CASE LoadNow(r) \/ WaitOnly(r) \/ Proxy(r) \/ Count(r) \/ Cleanup(r)
        <3>1. Goto(r, "make_room") \/ Goto(r, "wait") \/ Goto(r, "count") \/ Goto(r, "done")
              \/ Goto(r, "active") \/ Goto(r, "idle")
            BY <2>5 DEF LoadNow, WaitOnly, Proxy, Count, Cleanup
        <3>2. ~queued[r]
            BY <2>1, <2>5 DEF LoadNow, WaitOnly, Proxy, Count, Cleanup, QueuedPc, ClaimPc
        <3> QED BY <3>1, <3>2, GotoOK DEF Pc, QueuedPc, ClaimPc
    <2>6. CASE Unload(r)
        <3>1. \/ pc[r] = "evict" /\ Goto(r, "wait")
              \/ pc[r] = "lru_evict" /\ Goto(r, "lru_wait")
              \/ pc[r] \in {"give_up", "unload"} /\ Goto(r, "done")
            BY <2>6 DEF Unload
        <3> QED BY <2>1, <3>1, GotoOK DEF Pc, QueuedPc, ClaimPc
    <2>7. CASE WaitLoading(r)
        BY <2>1, <2>7 DEF WaitLoading, RequestsOK
    <2>8. CASE MakeRoom(r) \/ AwaitUnload(r)
        <3>1. Goto(r, "spawn") \/ Goto(r, "lru_evict")
            BY <2>8 DEF MakeRoom, AwaitUnload
        <3> QED BY <3>1, GotoOK DEF Pc, QueuedPc, ClaimPc
    <2>9. CASE Spawn(r) \/ NoSpawn(r)
        <3>1. PICK ok \in BOOLEAN : AfterLoad(r, ok)
            BY <2>9 DEF Spawn, NoSpawn
        <3>2. \/ queued[r] /\ (Goto(r, "claim_ok") \/ Goto(r, "claim_failed"))
              \/ ~queued[r] /\ (Goto(r, "done") \/ Goto(r, "wait"))
            <4>1. CASE queued[r] /\ ok
                BY <3>1, <4>1 DEF AfterLoad, Goto
            <4>4. CASE queued[r] /\ ~ok
                BY <3>1, <4>4 DEF AfterLoad, Goto
            <4>2. CASE ~queued[r] /\ (Kind[r] = "load" \/ ~ok)
                BY <3>1, <4>2 DEF AfterLoad, Goto
            <4>3. CASE ~queued[r] /\ ~(Kind[r] = "load" \/ ~ok)
                BY <3>1, <4>3 DEF AfterLoad, Goto
            <4> QED BY <4>1, <4>2, <4>3, <4>4
        <3> QED BY <3>2, GotoOK DEF Pc, QueuedPc, ClaimPc
    <2> QED BY <2>4, <2>5, <2>6, <2>7, <2>8, <2>9
<1> QED BY <1>1, <1>2, MovesRequests, SameQueue

\* The waiting requests of the models that r does not want stay the same.
LEMMA OtherWaiters ==
    ASSUME RequestsOK, NEW r \in Requests, Moves(r), NEW m, m # Wants[r]
    PROVE  /\ Waiters(m, queued') = Waiters(m, queued)
           /\ \A u \in Waiters(m, queued) : pc'[u] = pc[u]
<1>1. \A u \in Requests \ {r} : pc'[u] = pc[u] /\ queued'[u] = queued[u]
    BY MovesRequests
<1> QED BY <1>1 DEF Waiters

\* The entries of other models are kept.
LEMMA OtherEntry ==
    ASSUME RequestsOK, NEW r \in Requests, Moves(r), NEW e, e.model # Wants[r],
           Counted(e, queued), Owned(e, queued, pc)
    PROVE  Counted(e, queued') /\ Owned(e, queued', pc')
BY OtherWaiters DEF Counted, Owned

\* Request r joins the queue, perhaps with the promise of a slot.
LEMMA EnterQueueOK ==
    ASSUME RequestsOK, QueueOK, NEW r \in Requests, EnterQueue(r)
    PROVE  RequestsOK' /\ QueueOK'
<1> DEFINE m == Wants[r]
           q == Join(queue, m)
<1>1. m \in Models /\ pc[r] = "decide" /\ ~queued[r]
    BY ModelsAssumption DEF EnterQueue, RequestsOK, QueuedPc, ClaimPc
<1>2. queued' = [queued EXCEPT ![r] = TRUE] /\ (Goto(r, "wait") \/ Goto(r, "evict"))
    BY DEF EnterQueue
<1>3. queue' = q \/ queue' = MarkSlotPending(q, m)
    BY DEF EnterQueue
<1>4. Moves(r) /\ queued'[r]
    BY <1>2, GotoOK DEF Moves, RequestsOK, QueuedPc, Pc
<1>5. Waiters(m, queued') = Waiters(m, queued) \cup {r} /\ r \notin Waiters(m, queued)
    BY <1>1, <1>2 DEF Waiters, RequestsOK
<1>6. Cardinality(Waiters(m, queued')) = Cardinality(Waiters(m, queued)) + 1
    BY <1>5, WaitersFinite, FS_AddElement
<1>7. \A u \in Waiters(m, queued) : pc'[u] = pc[u]
    BY <1>4, <1>5, MovesRequests DEF Waiters
<1>8. queue \in Seq(EntryType) /\ Distinct(queue)
      /\ \A i \in DOMAIN queue : Counted(queue[i], queued) /\ Owned(queue[i], queued, pc)
    BY DEF QueueOK
<1>9. /\ q \in Seq(EntryType) /\ Distinct(q) /\ Listed(q, m)
      /\ \A j \in DOMAIN q :
            \/ \E i \in DOMAIN queue : queue[i].model # m /\ q[j] = queue[i]
            \/ /\ q[j].model = m
               /\ \/ ~q[j].loading /\ q[j].n_waiters = 1
                  \/ \E i \in DOMAIN queue : queue[i].model = m
                                             /\ q[j] = [queue[i] EXCEPT !.n_waiters = @ + 1]
    <2>1. queue \in Seq(EntryType) /\ Distinct(queue) /\ m \in Models
        BY <1>1, <1>8
    <2> HIDE DEF m
    <2> QED BY <2>1, JoinEffect
<1> HIDE DEF q
<1>10. ASSUME NEW j \in DOMAIN q
       PROVE  Counted(q[j], queued') /\ Owned(q[j], queued', pc')
    <2>1. CASE \E i \in DOMAIN queue : queue[i].model # m /\ q[j] = queue[i]
        BY <1>4, <1>8, <2>1, OtherEntry
    <2>2. CASE q[j].model = m /\ ~q[j].loading /\ q[j].n_waiters = 1
        BY <1>6, <2>2, WaitersFinite DEF Counted, Owned
    <2>3. ASSUME NEW i \in DOMAIN queue, q[j].model = m, queue[i].model = m,
                 q[j] = [queue[i] EXCEPT !.n_waiters = @ + 1]
          PROVE  Counted(q[j], queued') /\ Owned(q[j], queued', pc')
        <3>1. queue[i] \in EntryType
            BY <1>8
        <3>2. q[j].n_waiters = queue[i].n_waiters + 1 /\ q[j].loading = queue[i].loading
              /\ queue[i].n_waiters \in Nat
            BY <2>3, <3>1 DEF EntryType
        <3>3. queue[i].n_waiters > 0 /\ queue[i].n_waiters <= Cardinality(Waiters(m, queued))
            BY <1>8, <2>3 DEF Counted
        <3>4. Counted(q[j], queued')
            BY <1>6, <2>3, <3>2, <3>3, WaitersFinite DEF Counted
        <3>5. Owned(q[j], queued', pc')
            BY <1>5, <1>7, <1>8, <2>3, <3>2 DEF Owned
        <3> QED BY <3>4, <3>5
    <2> QED BY <1>9, <2>1, <2>2, <2>3
<1>11. CASE queue' = q
    BY <1>4, <1>9, <1>10, <1>11, MovesRequests DEF QueueOK
<1>12. CASE queue' = MarkSlotPending(q, m)
    <2> DEFINE i == Position(q, m)
    <2>1. i \in DOMAIN q
        BY <1>9, PositionOK
    <2>2. queue' = [q EXCEPT ![i].slot_pending = TRUE]
        BY <1>12 DEF MarkSlotPending
    <2> HIDE DEF i
    <2>3. /\ queue' \in Seq(EntryType) /\ Distinct(queue')
          /\ \A j \in DOMAIN queue' :
                /\ j \in DOMAIN q /\ queue'[j].model = q[j].model
                /\ queue'[j].n_waiters = q[j].n_waiters /\ queue'[j].loading = q[j].loading
        <3> DEFINE e == [q[i] EXCEPT !.slot_pending = TRUE]
        <3>1. /\ e \in EntryType /\ e.model = q[i].model
              /\ e.n_waiters = q[i].n_waiters /\ e.loading = q[i].loading
            <4>1. q[i] \in EntryType
                BY <1>9, <2>1
            <4> QED BY <4>1 DEF EntryType
        <3>2. queue' = [q EXCEPT ![i] = e]
            BY <2>2
        <3> HIDE DEF e
        <3>3. /\ [q EXCEPT ![i] = e] \in Seq(EntryType) /\ Distinct([q EXCEPT ![i] = e])
              /\ \A j \in DOMAIN [q EXCEPT ![i] = e] :
                    /\ j \in DOMAIN q /\ [q EXCEPT ![i] = e][j].model = q[j].model
                    /\ [q EXCEPT ![i] = e][j].n_waiters = q[j].n_waiters
                    /\ [q EXCEPT ![i] = e][j].loading = q[j].loading
            BY <1>9, <2>1, <3>1, PromiseEffect, Zenon
        <3> QED BY <3>2, <3>3, Zenon
    <2>4. \A j \in DOMAIN queue' : Counted(queue'[j], queued') /\ Owned(queue'[j], queued', pc')
        BY <1>10, <2>3 DEF Counted, Owned
    <2> QED BY <1>4, <2>3, <2>4, MovesRequests DEF QueueOK
<1> QED BY <1>3, <1>11, <1>12

\* A request that waits leaves the queue, if it is in it.
LEMMA StopWaitingOK ==
    ASSUME RequestsOK, QueueOK, NEW r \in Requests, pc[r] = "wait",
           NEW label \in Pc, StopWaiting(r, label)
    PROVE  RequestsOK' /\ QueueOK'
<1> DEFINE m == Wants[r]
           q == Leave(queue, m)
<1>1. m \in Models /\ pc[r] \notin ClaimPc
    BY ModelsAssumption DEF ClaimPc
<1>2. queued' = [queued EXCEPT ![r] = FALSE] /\ Goto(r, label)
    BY DEF StopWaiting
<1>3. Moves(r) /\ ~queued'[r]
    BY <1>2, GotoOK DEF Moves, RequestsOK
<1>4. CASE ~queued[r]
    <2>1. queue' = queue /\ queued' = queued
        BY <1>2, <1>4 DEF StopWaiting, RequestsOK
    <2> QED BY <1>1, <1>3, <2>1, MovesRequests, SameQueue
<1>5. CASE queued[r]
    <2>1. Waiters(m, queued') = Waiters(m, queued) \ {r} /\ r \in Waiters(m, queued)
        BY <1>2, <1>5 DEF Waiters, RequestsOK
    <2>2. Cardinality(Waiters(m, queued')) = Cardinality(Waiters(m, queued)) - 1
        <3>1. IsFiniteSet(Waiters(m, queued)) /\ r \in Waiters(m, queued)
            BY <2>1, WaitersFinite
        <3>2. Cardinality(Waiters(m, queued) \ {r}) = Cardinality(Waiters(m, queued)) - 1
            BY <3>1, FS_RemoveElement
        <3> QED BY <2>1, <3>2
    <2>3. \A u \in Waiters(m, queued) : pc[u] \in ClaimPc => u \in Waiters(m, queued') /\ pc'[u] \in ClaimPc
        BY <1>1, <1>3, <2>1, MovesRequests DEF Waiters
    <2>4. queue \in Seq(EntryType) /\ Distinct(queue)
          /\ \A i \in DOMAIN queue : Counted(queue[i], queued) /\ Owned(queue[i], queued, pc)
        BY DEF QueueOK
    <2>5. /\ q \in Seq(EntryType) /\ Distinct(q)
          /\ \A j \in DOMAIN q :
                \/ \E i \in DOMAIN queue : queue[i].model # m /\ q[j] = queue[i]
                \/ \E i \in DOMAIN queue : /\ queue[i].model = m /\ queue[i].n_waiters > 1
                                           /\ q[j] = [queue[i] EXCEPT !.n_waiters = @ - 1]
        <3>1. queue \in Seq(EntryType) /\ Distinct(queue) /\ m \in Models
            BY <1>1, <2>4
        <3> HIDE DEF m
        <3> QED BY <3>1, LeaveEffect
    <2>6. queue' = q
        BY <1>5 DEF StopWaiting
    <2> HIDE DEF q
    <2>7. ASSUME NEW j \in DOMAIN q
          PROVE  Counted(q[j], queued') /\ Owned(q[j], queued', pc')
        <3>1. CASE \E i \in DOMAIN queue : queue[i].model # m /\ q[j] = queue[i]
            BY <1>3, <2>4, <3>1, OtherEntry
        <3>2. ASSUME NEW i \in DOMAIN queue, queue[i].model = m, queue[i].n_waiters > 1,
                     q[j] = [queue[i] EXCEPT !.n_waiters = @ - 1]
              PROVE  Counted(q[j], queued') /\ Owned(q[j], queued', pc')
            <4>1. queue[i] \in EntryType
                BY <2>4
            <4>2. q[j].n_waiters = queue[i].n_waiters - 1 /\ q[j].loading = queue[i].loading
                  /\ queue[i].n_waiters \in Nat /\ q[j].model = m
                BY <3>2, <4>1 DEF EntryType
            <4>3. queue[i].n_waiters <= Cardinality(Waiters(m, queued))
                BY <2>4, <3>2 DEF Counted
            <4>4. Counted(q[j], queued')
                BY <2>2, <3>2, <4>2, <4>3, WaitersFinite DEF Counted
            <4>5. Owned(q[j], queued', pc')
                BY <2>3, <2>4, <3>2, <4>2 DEF Owned
            <4> QED BY <4>4, <4>5
        <3> QED BY <2>5, <3>1, <3>2
    <2> QED BY <1>3, <2>5, <2>6, <2>7, MovesRequests DEF QueueOK
<1> QED BY <1>4, <1>5 DEF RequestsOK

\* The head of the queue starts to load; its request performs the load.
LEMMA ClaimOK ==
    ASSUME RequestsOK, QueueOK, NEW r \in Requests, Claim(r)
    PROVE  RequestsOK' /\ QueueOK'
<1> DEFINE e == [queue[1] EXCEPT !.loading = TRUE]
<1>1. queue \in Seq(EntryType) /\ Distinct(queue)
      /\ \A i \in DOMAIN queue : Counted(queue[i], queued) /\ Owned(queue[i], queued, pc)
    BY DEF QueueOK
<1>2. queued[r] /\ queued' = queued /\ Goto(r, "make_room")
    BY DEF Claim
<1>3. 1 \in DOMAIN queue /\ queue[1].model = Wants[r] /\ queue' = [queue EXCEPT ![1] = e]
    BY <1>1 DEF Claim, MayClaim
<1>4. queue[1] \in EntryType
    BY <1>1, <1>3
<1>5. e \in EntryType /\ e.model = queue[1].model /\ e.n_waiters = queue[1].n_waiters
    BY <1>4 DEF EntryType
<1>6. Moves(r) /\ pc'[r] \in ClaimPc
    BY <1>2, GotoOK DEF Moves, RequestsOK, QueuedPc, ClaimPc, Pc
<1>7. \A m : Waiters(m, queued') = Waiters(m, queued)
    BY <1>2
<1>8. \A u \in Requests : pc[u] \in ClaimPc => pc'[u] \in ClaimPc
    BY <1>6, MovesRequests
<1>9. r \in Waiters(Wants[r], queued')
    BY <1>2 DEF Waiters
<1> HIDE DEF e
<1>10. /\ queue' \in Seq(EntryType) /\ Distinct(queue')
       /\ DOMAIN queue' = DOMAIN queue /\ queue'[1] = e
       /\ \A j \in DOMAIN queue \ {1} : queue'[j] = queue[j]
    <2>1. /\ [queue EXCEPT ![1] = e] \in Seq(EntryType) /\ Distinct([queue EXCEPT ![1] = e])
          /\ DOMAIN [queue EXCEPT ![1] = e] = DOMAIN queue /\ [queue EXCEPT ![1] = e][1] = e
          /\ \A j \in DOMAIN queue \ {1} : [queue EXCEPT ![1] = e][j] = queue[j]
        BY <1>1, <1>3, <1>5, UpdateEntry, Zenon
    <2> QED BY <1>3, <2>1, Zenon
<1>11. Counted(e, queued') /\ Owned(e, queued', pc')
    BY <1>1, <1>3, <1>5, <1>6, <1>7, <1>9 DEF Counted, Owned
<1>12. ASSUME NEW j \in DOMAIN queue \ {1}
       PROVE  Counted(queue[j], queued') /\ Owned(queue[j], queued', pc')
    <2>1. Counted(queue[j], queued) /\ Owned(queue[j], queued, pc)
        BY <1>1
    <2>2. \A u \in Waiters(queue[j].model, queued) : pc[u] \in ClaimPc => pc'[u] \in ClaimPc
        BY <1>8 DEF Waiters
    <2> QED BY <1>7, <2>1, <2>2 DEF Counted, Owned
<1>13. \A j \in DOMAIN queue' : Counted(queue'[j], queued') /\ Owned(queue'[j], queued', pc')
    BY <1>10, <1>11, <1>12
<1> QED BY <1>6, <1>10, <1>13, MovesRequests DEF QueueOK

\* After the load the entry goes, or may be claimed again.
LEMMA FinishClaimOK ==
    ASSUME RequestsOK, QueueOK, NEW r \in Requests, FinishClaim(r)
    PROVE  RequestsOK' /\ QueueOK'
<1> DEFINE m == Wants[r]
           ok == pc[r] = "claim_ok"
           q == ClaimDone(queue, m, ok)
<1>1. m \in Models /\ queue' = q /\ queued' = [queued EXCEPT ![r] = ~ok] /\ Goto(r, "wait")
    BY ModelsAssumption DEF FinishClaim
<1>2. Moves(r) /\ queued'[r] = ~ok
    BY <1>1, GotoOK DEF Moves, RequestsOK, QueuedPc, Pc
<1>3. queue \in Seq(EntryType) /\ Distinct(queue)
      /\ \A i \in DOMAIN queue : Counted(queue[i], queued) /\ Owned(queue[i], queued, pc)
    BY DEF QueueOK
<1>4. /\ q \in Seq(EntryType) /\ Distinct(q)
      /\ \A j \in DOMAIN q :
            \/ \E i \in DOMAIN queue : queue[i].model # m /\ q[j] = queue[i]
            \/ \E i \in DOMAIN queue : /\ queue[i].model = m /\ ~ok
                                       /\ q[j] = [queue[i] EXCEPT !.loading = FALSE]
    <2>1. q = ClaimDone(queue, m, ok) /\ ok \in BOOLEAN
        OBVIOUS
    <2> HIDE DEF q, m, ok
    <2> QED BY <1>1, <1>3, <2>1, ClaimDoneEffect
<1> HIDE DEF q
<1>5. ASSUME NEW j \in DOMAIN q
      PROVE  Counted(q[j], queued') /\ Owned(q[j], queued', pc')
    <2>1. CASE \E i \in DOMAIN queue : queue[i].model # m /\ q[j] = queue[i]
        BY <1>2, <1>3, <2>1, OtherEntry
    <2>2. ASSUME NEW i \in DOMAIN queue, queue[i].model = m, ~ok,
                 q[j] = [queue[i] EXCEPT !.loading = FALSE]
          PROVE  Counted(q[j], queued') /\ Owned(q[j], queued', pc')
        <3>1. queue[i] \in EntryType
            BY <1>3
        <3>2. q[j].n_waiters = queue[i].n_waiters /\ ~q[j].loading /\ q[j].model = m
              /\ queue[i].n_waiters \in Nat
            BY <2>2, <3>1 DEF EntryType
        <3>3. Waiters(m, queued) \subseteq Waiters(m, queued')
            BY <1>1, <2>2 DEF Waiters, RequestsOK
        <3>4. Cardinality(Waiters(m, queued)) <= Cardinality(Waiters(m, queued'))
            BY <3>3, WaitersFinite, FS_Subset
        <3>5. queue[i].n_waiters > 0 /\ queue[i].n_waiters <= Cardinality(Waiters(m, queued))
            BY <1>3, <2>2 DEF Counted
        <3> QED BY <3>2, <3>4, <3>5, WaitersFinite DEF Counted, Owned
    <2> QED BY <1>4, <2>1, <2>2
<1> QED BY <1>1, <1>2, <1>4, <1>5, MovesRequests DEF QueueOK

LEMMA OnModelIdleOK ==
    ASSUME RequestsOK, QueueOK, NEW r \in Requests, OnModelIdle(r)
    PROVE  RequestsOK' /\ QueueOK'
<1>1. queued' = queued /\ ~queued[r] /\ (Goto(r, "give_up") \/ Goto(r, "done"))
    BY DEF OnModelIdle, RequestsOK, QueuedPc, ClaimPc
<1>2. Moves(r)
    BY <1>1, GotoOK DEF Moves, RequestsOK, QueuedPc, Pc
<1>3. CASE queue' = queue
    BY <1>1, <1>2, <1>3, MovesRequests, SameQueue
<1>4. CASE \E i \in DOMAIN queue : queue' = [queue EXCEPT ![i].slot_pending = TRUE]
    <2>1. PICK i \in DOMAIN queue : queue' = [queue EXCEPT ![i].slot_pending = TRUE]
        BY <1>4
    <2>2. queue \in Seq(EntryType) /\ Distinct(queue)
          /\ \A j \in DOMAIN queue : Counted(queue[j], queued) /\ Owned(queue[j], queued, pc)
        BY DEF QueueOK
    <2>3. /\ queue' \in Seq(EntryType) /\ Distinct(queue')
          /\ \A j \in DOMAIN queue' :
                /\ j \in DOMAIN queue /\ queue'[j].model = queue[j].model
                /\ queue'[j].n_waiters = queue[j].n_waiters /\ queue'[j].loading = queue[j].loading
        <3> DEFINE e == [queue[i] EXCEPT !.slot_pending = TRUE]
        <3>1. /\ e \in EntryType /\ e.model = queue[i].model
              /\ e.n_waiters = queue[i].n_waiters /\ e.loading = queue[i].loading
            <4>1. queue[i] \in EntryType
                BY <2>2
            <4> QED BY <4>1 DEF EntryType
        <3>2. queue' = [queue EXCEPT ![i] = e]
            BY <2>1
        <3> HIDE DEF e
        <3>3. /\ [queue EXCEPT ![i] = e] \in Seq(EntryType) /\ Distinct([queue EXCEPT ![i] = e])
              /\ \A j \in DOMAIN [queue EXCEPT ![i] = e] :
                    /\ j \in DOMAIN queue /\ [queue EXCEPT ![i] = e][j].model = queue[j].model
                    /\ [queue EXCEPT ![i] = e][j].n_waiters = queue[j].n_waiters
                    /\ [queue EXCEPT ![i] = e][j].loading = queue[j].loading
            BY <2>2, <3>1, PromiseEffect, Zenon
        <3> QED BY <3>2, <3>3, Zenon
    <2>4. \A m : Waiters(m, queued') = Waiters(m, queued)
        BY <1>1
    <2>5. \A m : \A u \in Waiters(m, queued) : pc'[u] = pc[u]
        BY <1>1, <1>2, MovesRequests DEF Waiters
    <2>6. ASSUME NEW j \in DOMAIN queue'
          PROVE  Counted(queue'[j], queued') /\ Owned(queue'[j], queued', pc')
        <3>1. Counted(queue[j], queued) /\ Owned(queue[j], queued, pc)
            BY <2>2, <2>3
        <3> QED BY <2>3, <2>4, <2>5, <3>1, EntryKept
    <2> QED BY <1>2, <2>3, <2>6, MovesRequests DEF QueueOK
<1> QED BY <1>3, <1>4 DEF OnModelIdle

(***************************************************************************)
(* The theorems                                                            *)
(***************************************************************************)
LEMMA InitInv == Init => IInv
<1> SUFFICES ASSUME Init PROVE IInv
    OBVIOUS
<1>1. RequestsOK
    BY DEF Init, RequestsOK, Pc
<1>2. QueueOK
    BY DEF Init, QueueOK, Distinct
<1> QED BY <1>1, <1>2, InitProcess DEF IInv

LEMMA NextInv == IInv /\ [Next]_vars => IInv'
<1> SUFFICES ASSUME IInv, [Next]_vars PROVE IInv'
    OBVIOUS
<1>1. ProcessOK'
    BY NextProcess DEF IInv
<1>2. RequestsOK /\ QueueOK
    BY DEF IInv
<1>3. CASE UNCHANGED <<queue, pc, queued>>
    BY <1>1, <1>2, <1>3 DEF IInv, RequestsOK, QueueOK
<1>4. ASSUME NEW m \in Models, ChildStep(m) \/ Exit(m)
      PROVE  IInv'
    <2>1. UNCHANGED <<queue, pc, queued>>
        BY <1>4 DEF ChildStep, ReportReady, StopChild, Exit, Reap, ReportUnloaded, locals
    <2> QED BY <1>3, <2>1
<1>5. ASSUME NEW r \in Requests, Start(r) \/ RequestStep(r) \/ Cancel(r)
      PROVE  IInv'
    <2>1. CASE WaitReady(r) \/ WaitUnloaded(r) \/ Cancel(r)
        <3>1. PICK label \in Pc : pc[r] = "wait" /\ StopWaiting(r, label)
            BY <2>1 DEF WaitReady, WaitUnloaded, Cancel, Pc
        <3> QED BY <1>1, <1>2, <3>1, StopWaitingOK DEF IInv
    <2>2. CASE EnterQueue(r)
        BY <1>1, <1>2, <2>2, EnterQueueOK DEF IInv
    <2>3. CASE Claim(r)
        BY <1>1, <1>2, <2>3, ClaimOK DEF IInv
    <2>4. CASE FinishClaim(r)
        BY <1>1, <1>2, <2>4, FinishClaimOK DEF IInv
    <2>5. CASE OnModelIdle(r)
        BY <1>1, <1>2, <2>5, OnModelIdleOK DEF IInv
    <2>6. CASE \/ Start(r) \/ LoadNow(r) \/ WaitOnly(r) \/ Unload(r) \/ WaitLoading(r)
               \/ MakeRoom(r) \/ AwaitUnload(r) \/ Spawn(r) \/ NoSpawn(r)
               \/ Proxy(r) \/ Count(r) \/ Cleanup(r)
        BY <1>1, <1>2, <2>6, PlainSteps DEF IInv
    <2> QED BY <1>5, <2>1, <2>2, <2>3, <2>4, <2>5, <2>6 DEF RequestStep
<1> QED BY <1>3, <1>4, <1>5 DEF Next, vars, locals

\* However loads, evictions and crashes interleave, at most models_max children exist: load()
\* checks the capacity again in the critical section in which it starts the process.
THEOREM RouterLimit == Spec => []LimitHolds
<1>1. ProcessOK => LimitHolds
    <2> SUFFICES ASSUME ProcessOK PROVE LimitHolds
        OBVIOUS
    <2>1. {m \in Models : proc[m] # "none"} = {m \in Models : Up(m)}
        BY DEF ProcessOK
    <2> QED BY <2>1 DEF ProcessOK, LimitHolds, CountRunning
<1> QED BY <1>1, InitProcess, NextProcess, PTL DEF Spec

\* The entries of the queue of server_lru_sched are those of requests that wait: one entry for
\* a model, which counts no more requests than are queued, and at least one.
THEOREM RouterEntries == Spec => []EntriesHaveWaiters
<1>1. IInv => EntriesHaveWaiters
    BY DEF IInv, QueueOK, Counted, Distinct, Waiters, EntriesHaveWaiters
<1> QED BY <1>1, InitInv, NextInv, PTL DEF Spec

\* An entry that is marked as loading has a request that performs the load, which will
\* report its end (claim_done): a failed load never blocks the head of the queue.
THEOREM RouterLoads == Spec => []LoadIsOwned
<1>1. IInv => LoadIsOwned
    BY DEF IInv, QueueOK, Owned, Waiters, ClaimPc, LoadIsOwned
<1> QED BY <1>1, InitInv, NextInv, PTL DEF Spec
=============================================================================
