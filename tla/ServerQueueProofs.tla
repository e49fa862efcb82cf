------------------------- MODULE ServerQueueProofs -------------------------
(***************************************************************************)
(* Proofs about ServerQueue, for any set of requests, any number of slots, *)
(* with sleeping, disconnections and every failure.                        *)
(***************************************************************************)
EXTENDS ServerQueue, SequenceTheorems, FiniteSetTheorems, FunctionTheorems, TLAPS

-----------------------------------------------------------------------------
(* What the operations on a deque preserve.                                *)

\* Erasing a request's task (cleanup_pending_task) leaves a sequence of tasks.
LEMMA EraseType ==
    ASSUME NEW s \in Seq(Task), NEW c
    PROVE  Erase(s, c) \in Seq(Task)
<1> DEFINE P(j) == j \in DOMAIN s /\ IsTaskOf(s[j], c)
<1>1. CASE ~ \E i \in DOMAIN s : IsTaskOf(s[i], c)
    BY <1>1 DEF Erase
<1>2. CASE \E i \in DOMAIN s : IsTaskOf(s[i], c)
    <2> DEFINE i == CHOOSE j \in DOMAIN s : IsTaskOf(s[j], c)
    <2>1. i \in 1 .. Len(s)
        BY <1>2
    <2>2. Erase(s, c) = SubSeq(s, 1, i - 1) \o SubSeq(s, i + 1, Len(s))
        BY <1>2 DEF Erase
    <2> HIDE DEF i
    <2>3. SubSeq(s, 1, i - 1) \in Seq(Task) /\ SubSeq(s, i + 1, Len(s)) \in Seq(Task)
        BY <2>1
    <2> QED BY <2>2, <2>3
<1> QED BY <1>1, <1>2

\* There is nothing to erase in an empty deque.
LEMMA EraseEmpty == \A c : Erase(<<>>, c) = <<>>
    BY DEF Erase

\* A task found at a position of a deque is in it.
LEMMA HasAt ==
    ASSUME NEW s \in Seq(Task), NEW k \in 1 .. Len(s)
    PROVE  Has(s, s[k])
    BY DEF Has

\* Erasing a request's task leaves NEXT_RESPONSE where it is found.
LEMMA EraseKeeps ==
    ASSUME NEW s \in Seq(Task), NEW c, Has(s, NextResponse)
    PROVE  Has(Erase(s, c), NextResponse)
<1>1. CASE ~ \E i \in DOMAIN s : IsTaskOf(s[i], c)
    BY <1>1 DEF Erase
<1>2. CASE \E i \in DOMAIN s : IsTaskOf(s[i], c)
    <2> DEFINE i == CHOOSE j \in DOMAIN s : IsTaskOf(s[j], c)
               a == SubSeq(s, 1, i - 1)
               b == SubSeq(s, i + 1, Len(s))
    <2>1. i \in 1 .. Len(s) /\ IsTaskOf(s[i], c)
        BY <1>2
    <2>2. Erase(s, c) = a \o b
        BY <1>2 DEF Erase
    <2>3. PICK k \in 1 .. Len(s) : s[k] = NextResponse
        BY DEF Has
    <2>4. k # i
        BY <2>1, <2>3 DEF IsTaskOf, NextResponse, Requests, ReadOnly
    <2> HIDE DEF i
    <2>5. a \in Seq(Task) /\ Len(a) = i - 1 /\ \A j \in 1 .. i - 1 : a[j] = s[j]
        BY <2>1
    <2>6. b \in Seq(Task) /\ Len(b) = Len(s) - i
          /\ \A j \in 1 .. Len(s) - i : b[j] = s[j + i]
        BY <2>1
    <2> HIDE DEF a, b
    <2>7. a \o b \in Seq(Task)
        BY <2>5, <2>6
    <2>8. CASE k < i
        <3>1. k \in 1 .. Len(a \o b) /\ (a \o b)[k] = s[k]
            BY <2>1, <2>3, <2>5, <2>6, <2>8
        <3> QED BY <3>1, <2>2, <2>3, <2>7, HasAt
    <2>9. CASE k > i
        <3>1. k - i \in 1 .. Len(s) - i /\ b[k - i] = s[k]
            BY <2>1, <2>3, <2>6, <2>9
        <3>2. k - 1 \in 1 .. Len(a \o b) /\ (a \o b)[k - 1] = b[k - i]
            BY <2>1, <2>3, <2>5, <2>6, <2>9, <3>1
        <3> QED BY <3>1, <3>2, <2>2, <2>3, <2>7, HasAt
    <2> QED BY <2>1, <2>3, <2>4, <2>8, <2>9
<1> QED BY <1>1, <1>2

\* Concatenation, in either order, loses no task.
LEMMA ConcatKeeps ==
    ASSUME NEW s \in Seq(Task), NEW t \in Seq(Task), NEW x
    PROVE  /\ Has(s, x) => Has(s \o t, x)
           /\ Has(t, x) => Has(s \o t, x)
<1>1. ASSUME Has(s, x) PROVE Has(s \o t, x)
    <2>1. PICK k \in 1 .. Len(s) : s[k] = x
        BY <1>1 DEF Has
    <2>2. k \in 1 .. Len(s \o t) /\ (s \o t)[k] = x
        BY <2>1
    <2> QED BY <2>2 DEF Has
<1>2. ASSUME Has(t, x) PROVE Has(s \o t, x)
    <2>1. PICK k \in 1 .. Len(t) : t[k] = x
        BY <1>2 DEF Has
    <2>2. k + Len(s) \in 1 .. Len(s \o t) /\ (s \o t)[k + Len(s)] = x
        BY <2>1
    <2> QED BY <2>2 DEF Has
<1> QED BY <1>1, <1>2

\* A task is still there after one more is appended, and the appended one is there.
LEMMA AppendKeeps ==
    ASSUME NEW s \in Seq(Task), NEW t \in Task, NEW x
    PROVE  /\ Append(s, t) \in Seq(Task)
           /\ Has(s, x) => Has(Append(s, t), x)
           /\ Has(Append(s, t), t)
<1>1. Append(s, t) \in Seq(Task) /\ Len(Append(s, t)) = Len(s) + 1
      /\ Append(s, t)[Len(s) + 1] = t /\ \A k \in 1 .. Len(s) : Append(s, t)[k] = s[k]
    OBVIOUS
<1>2. Has(Append(s, t), t)
    BY <1>1 DEF Has
<1>3. Has(s, x) => Has(Append(s, t), x)
    BY <1>1 DEF Has
<1> QED BY <1>1, <1>2, <1>3

\* push_front.
LEMMA PushFrontKeeps ==
    ASSUME NEW s \in Seq(Task), NEW t \in Task, NEW x
    PROVE  /\ PushFront(s, t) \in Seq(Task)
           /\ Has(s, x) => Has(PushFront(s, t), x)
<1>1. <<t>> \in Seq(Task)
    OBVIOUS
<1>2. <<t>> \o s \in Seq(Task)
    BY <1>1
<1>3. Has(s, x) => Has(<<t>> \o s, x)
    BY <1>1, ConcatKeeps
<1> QED BY <1>2, <1>3 DEF PushFront

\* pop_front: what was there is the head or is still there.
LEMMA TailKeeps ==
    ASSUME NEW s \in Seq(Task), s # <<>>, NEW x
    PROVE  /\ Head(s) \in Task /\ Tail(s) \in Seq(Task)
           /\ Has(s, x) => Head(s) = x \/ Has(Tail(s), x)
<1>1. /\ Head(s) \in Task /\ Tail(s) \in Seq(Task) /\ Len(Tail(s)) = Len(s) - 1
      /\ Head(s) = s[1] /\ \A k \in 1 .. Len(s) - 1 : Tail(s)[k] = s[k + 1]
    OBVIOUS
<1>2. ASSUME Has(s, x), Head(s) # x PROVE Has(Tail(s), x)
    <2>1. PICK k \in 1 .. Len(s) : s[k] = x
        BY <1>2 DEF Has
    <2>2. k - 1 \in 1 .. Len(s) - 1 /\ Tail(s)[k - 1] = x
        BY <1>1, <1>2, <2>1
    <2> QED BY <1>1, <2>2 DEF Has
<1> QED BY <1>1, <1>2

-----------------------------------------------------------------------------
(* Type correctness.                                                       *)

\* The tasks the threads make are tasks.
LEMMA TasksTyped ==
    /\ NextResponse \in Task
    /\ \A c \in Clients : TaskOf(c) \in Task /\ CancelOf(c) \in Task
    BY ClientsAssumption DEF Task, TaskOf, CancelOf, NextResponse, Requests, ReadOnly

\* Every task but NEXT_RESPONSE carries the id of a request.
LEMMA TaskIds ==
    ASSUME NEW t \in Task, t.type # "NEXT_RESPONSE"
    PROVE  t.id \in Clients
    BY DEF Task

\* A type-correct PopDeferredTask gives type-correct deques and wait set.
LEMMA PopTyped ==
    ASSUME DataTypes, PopDeferredTask
    PROVE  /\ queue_tasks' \in Seq(Task) /\ queue_tasks_deferred' \in Seq(Task)
           /\ cv' \subseteq Threads
    BY PushFrontKeeps, TailKeeps DEF DataTypes, PopDeferredTask, NotifyOne

\* Every step keeps the flags boolean.
LEMMA FlagStep == FlagTypes /\ [Next]_vars => FlagTypes'
<1> SUFFICES ASSUME FlagTypes, [Next]_vars PROVE FlagTypes'
    OBVIOUS
<1> USE DEF FlagTypes, sleepVars, yieldVars, workerVars, envVars
<1>1. ASSUME NEW c \in Clients, CheckAwake(c) PROVE FlagTypes'
    BY <1>1, Zenon DEF CheckAwake
<1>2. ASSUME NEW c \in Clients, WakeClient(c) PROVE FlagTypes'
    BY <1>2, Zenon DEF WakeClient
<1>3. ASSUME NEW c \in Clients, Post(c) PROVE FlagTypes'
    BY <1>3, Zenon DEF Post
<1>4. ASSUME NEW c \in Clients, PostCancel(c) PROVE FlagTypes'
    BY <1>4, Zenon DEF PostCancel
<1>5. CASE Terminate
    BY <1>5, Zenon DEF Terminate
<1>6. CASE StartLoop
    BY <1>6, Zenon DEF StartLoop
<1>7. CASE MainFetch
    BY <1>7, Zenon DEF MainFetch
<1>8. CASE MainCallback
    BY <1>8, Zenon DEF MainCallback, EndCallback
<1>9. CASE UpdateSlots
    BY <1>9, Zenon DEF UpdateSlots
<1>10. ASSUME NEW c \in Clients, FinishSlot(c) PROVE FlagTypes'
    BY <1>10, Zenon DEF FinishSlot
<1>11. CASE UpdateDone
    BY <1>11, Zenon DEF UpdateDone
<1>12. CASE YieldBegin
    BY <1>12, Zenon DEF YieldBegin
<1>13. CASE YieldEnd
    BY <1>13, Zenon DEF YieldEnd, FinishYield
<1>14. CASE YieldAwait
    BY <1>14, Zenon DEF YieldAwait, FinishYield
<1>15. CASE WaitLoop
    BY <1>15, Zenon DEF WaitLoop
<1>16. CASE IdleWake
    BY <1>16, Zenon DEF IdleWake
<1>17. CASE SleepWake
    BY <1>17, Zenon DEF SleepWake
<1>18. CASE StopWorker
    BY <1>18, Zenon DEF StopWorker
<1>19. CASE JoinWorker
    BY <1>19, Zenon DEF JoinWorker
<1>20. CASE WorkerIdle
    BY <1>20, Zenon DEF WorkerIdle
<1>21. CASE WorkerFetch
    BY <1>21, Zenon DEF WorkerFetch
<1>22. CASE WorkerCallback
    BY <1>22, Zenon DEF WorkerCallback
<1>23. CASE WorkerCheck
    BY <1>23, Zenon DEF WorkerCheck
<1>24. CASE WorkerWake
    BY <1>24, Zenon DEF WorkerWake
<1>25. CASE WorkerLeave
    BY <1>25, Zenon DEF WorkerLeave
<1>26. CASE UNCHANGED vars
    BY <1>26, Zenon DEF vars
<1> QED
    BY <1>1, <1>2, <1>3, <1>4, <1>5, <1>6, <1>7, <1>8, <1>9, <1>10, <1>11, <1>12, <1>13, <1>14, <1>15, <1>16, <1>17, <1>18, <1>19, <1>20, <1>21, <1>22, <1>23, <1>24, <1>25, <1>26
    DEF Next, MainStep, WorkerStep, Client, Disconnect, GiveUpMetrics

\* Every step keeps the deques, the program points and the slots typed.
LEMMA DataStep == DataTypes /\ Handshake /\ [Next]_vars => DataTypes'
<1> SUFFICES ASSUME DataTypes, Handshake, [Next]_vars PROVE DataTypes'
    OBVIOUS
<1> USE DEF DataTypes, MainPcs, WorkerPcs, ClientPcs, Threads, queueVars, sleepVars, yieldVars,
            mainVars, workerVars, slotVars, envVars
<1>1. ASSUME NEW c \in Clients, CheckAwake(c) PROVE DataTypes'
    BY <1>1 DEF CheckAwake
<1>2. ASSUME NEW c \in Clients, WakeClient(c) PROVE DataTypes'
    BY <1>2 DEF WakeClient
<1>3. ASSUME NEW c \in Clients, Post(c) PROVE DataTypes'
    <2>1. TaskOf(c) \in Task /\ queue_tasks \in Seq(Task)
        BY TasksTyped
    <2>2. PushFront(queue_tasks, TaskOf(c)) \in Seq(Task)
          /\ Append(queue_tasks, TaskOf(c)) \in Seq(Task)
        BY <2>1, PushFrontKeeps, AppendKeeps
    <2>3. queue_tasks' \in Seq(Task)
        BY <1>3, <2>2 DEF Post
    <2>4. cv' \subseteq Threads /\ clientPc' \in [Clients -> ClientPcs]
        BY <1>3 DEF Post, NotifyOne
    <2> QED BY <1>3, <2>3, <2>4 DEF Post
<1>4. ASSUME NEW c \in Clients, PostCancel(c) PROVE DataTypes'
    <2>1. Erase(queue_tasks, c) \in Seq(Task) /\ CancelOf(c) \in Task
        BY EraseType, TasksTyped
    <2>2. queue_tasks' \in Seq(Task)
        BY <1>4, <2>1, PushFrontKeeps DEF PostCancel
    <2>3. queue_tasks_deferred' \in Seq(Task) /\ queue_tasks_unhandled' \in Seq(Task)
        BY <1>4, EraseType DEF PostCancel, CleanupPendingTask
    <2>4. cv' \subseteq Threads /\ clientPc' \in [Clients -> ClientPcs]
        BY <1>4 DEF PostCancel, NotifyOne
    <2>5. settled' \subseteq Clients
        BY <1>4 DEF PostCancel, CleanupPendingTask
    <2> QED BY <1>4, <2>2, <2>3, <2>4, <2>5 DEF PostCancel
<1>5. CASE Terminate
    BY <1>5 DEF Terminate, NotifyAll
<1>6. CASE StartLoop
    BY <1>6 DEF StartLoop
<1>7. CASE MainFetch
    BY <1>7, TailKeeps DEF MainFetch
<1>8. CASE MainCallback
    <2> USE DEF EndCallback
    <2>6. mainTask \in Task
        BY <1>8, NoTaskAssumption DEF MainCallback, Handshake
    <2>1. CASE MainAnswer
        <3>1. mainTask.id \in Clients
            BY <2>1, <2>6, TaskIds DEF MainAnswer, ReadOnly
        <3> QED BY <1>8, <2>1, <3>1 DEF MainCallback, MainAnswer
    <2>2. CASE Launch
        <3>1. mainTask.id \in Clients
            BY <2>2, <2>6, TaskIds DEF Launch
        <3> QED BY <1>8, <2>2, <3>1 DEF MainCallback, Launch
    <2>3. CASE Defer
        <3>1. Append(queue_tasks_deferred, mainTask) \in Seq(Task)
            BY <2>6
        <3> QED BY <1>8, <2>3, <3>1 DEF MainCallback, Defer, NotifyOne
    <2>4. CASE HandleCancel
        BY <1>8, <2>4, PopTyped DEF MainCallback, HandleCancel, Release
    <2>5. CASE HandleNextResponse
        BY <1>8, <2>5 DEF MainCallback, HandleNextResponse
    <2> QED BY <1>8, <2>1, <2>2, <2>3, <2>4, <2>5 DEF MainCallback
<1>9. CASE UpdateSlots
    <2>1. Append(queue_tasks, NextResponse) \in Seq(Task)
        BY TasksTyped, AppendKeeps
    <2> QED BY <1>9, <2>1 DEF UpdateSlots, NotifyOne
<1>10. ASSUME NEW c \in Clients, FinishSlot(c) PROVE DataTypes'
    BY <1>10, PopTyped DEF FinishSlot, Release
<1>11. CASE UpdateDone
    BY <1>11 DEF UpdateDone
<1>12. CASE YieldBegin
    BY <1>12 DEF YieldBegin
<1>13. CASE YieldEnd
    <2>1. queue_tasks_unhandled \o queue_tasks \in Seq(Task) /\ <<>> \in Seq(Task)
        OBVIOUS
    <2>2. PICK failed \in BOOLEAN :
            \/ FinishYield(failed) /\ cv' = {}
            \/ /\ mainPc' \in {"awaitFailed", "await"} /\ cv' = {Main}
               /\ UNCHANGED <<queue_tasks, queue_tasks_unhandled>>
        BY <1>13 DEF YieldEnd
    <2>3. mainPc' \in MainPcs /\ cv' \subseteq Threads
        BY <2>2 DEF FinishYield
    <2>4. queue_tasks' \in Seq(Task) /\ queue_tasks_unhandled' \in Seq(Task)
        BY <2>1, <2>2 DEF FinishYield
    <2> QED BY <1>13, <2>3, <2>4 DEF YieldEnd
<1>14. CASE YieldAwait
    <2>1. queue_tasks_unhandled \o queue_tasks \in Seq(Task) /\ <<>> \in Seq(Task)
        OBVIOUS
    <2>2. mainPc' \in MainPcs /\ cv' \subseteq Threads
        BY <1>14 DEF YieldAwait, FinishYield
    <2>3. queue_tasks' \in Seq(Task) /\ queue_tasks_unhandled' \in Seq(Task)
        BY <1>14, <2>1 DEF YieldAwait, FinishYield
    <2> QED BY <1>14, <2>2, <2>3 DEF YieldAwait
<1>15. CASE WaitLoop
    BY <1>15 DEF WaitLoop
<1>16. CASE IdleWake
    BY <1>16 DEF IdleWake
<1>17. CASE SleepWake
    BY <1>17 DEF SleepWake, NotifyAll
<1>18. CASE StopWorker
    BY <1>18 DEF StopWorker, NotifyAll
<1>19. CASE JoinWorker
    BY <1>19 DEF JoinWorker
<1>20. CASE WorkerIdle
    BY <1>20 DEF WorkerIdle
<1>21. CASE WorkerFetch
    BY <1>21, TailKeeps DEF WorkerFetch
<1>22. CASE WorkerCallback
    <2>1. workerTask \in Task
        BY <1>22, NoTaskAssumption DEF WorkerCallback, Handshake
    <2>2. CASE workerTask.type \in ReadOnly
        <3>1. workerTask.id \in Clients
            BY <2>1, <2>2, TaskIds DEF ReadOnly
        <3> QED BY <1>22, <2>2, <3>1 DEF WorkerCallback
    <2>3. CASE workerTask.type \notin ReadOnly
        <3>1. Append(queue_tasks_unhandled, workerTask) \in Seq(Task)
            BY <2>1
        <3> QED BY <1>22, <2>3, <3>1 DEF WorkerCallback
    <2> QED BY <2>2, <2>3
<1>23. CASE WorkerCheck
    BY <1>23 DEF WorkerCheck
<1>24. CASE WorkerWake
    BY <1>24 DEF WorkerWake
<1>25. CASE WorkerLeave
    BY <1>25 DEF WorkerLeave, NotifyAll
<1>26. CASE UNCHANGED vars
    BY <1>26 DEF vars
<1> QED
    BY <1>1, <1>2, <1>3, <1>4, <1>5, <1>6, <1>7, <1>8, <1>9, <1>10, <1>11, <1>12, <1>13, <1>14,
       <1>15, <1>16, <1>17, <1>18, <1>19, <1>20, <1>21, <1>22, <1>23, <1>24, <1>25, <1>26
    DEF Next, MainStep, WorkerStep, Client, Disconnect, GiveUpMetrics

-----------------------------------------------------------------------------
(* The strengthening: every step preserves each part.                       *)

\* The flags of struct worker_t follow the two threads.
LEMMA HandshakeStep == TypeOK /\ Handshake /\ [Next]_vars => Handshake'
<1> SUFFICES ASSUME TypeOK, Handshake, [Next]_vars PROVE Handshake'
    OBVIOUS
<1> USE DEF Handshake, InWorkerLoop, InYield, queueVars, yieldVars, mainVars, workerVars
<1>1. ASSUME NEW c \in Clients, CheckAwake(c) PROVE Handshake'
    BY <1>1 DEF CheckAwake
<1>2. ASSUME NEW c \in Clients, WakeClient(c) PROVE Handshake'
    BY <1>2 DEF WakeClient
<1>3. ASSUME NEW c \in Clients, Post(c) PROVE Handshake'
    BY <1>3 DEF Post
<1>4. ASSUME NEW c \in Clients, PostCancel(c) PROVE Handshake'
    <2>1. queue_tasks_unhandled = <<>> => queue_tasks_unhandled' = <<>>
        BY <1>4, EraseEmpty DEF PostCancel, CleanupPendingTask
    <2> QED BY <1>4, <2>1 DEF PostCancel
<1>5. CASE Terminate
    BY <1>5 DEF Terminate
<1>6. CASE StartLoop
    BY <1>6 DEF StartLoop
<1>7. CASE MainFetch
    <2>1. queue_tasks # <<>> => Head(queue_tasks) # NoTask
        BY TailKeeps, NoTaskAssumption DEF TypeOK, DataTypes
    <2> QED BY <1>7, <2>1 DEF MainFetch
<1>8. CASE MainCallback
    BY <1>8 DEF MainCallback, EndCallback
<1>9. CASE UpdateSlots
    BY <1>9 DEF UpdateSlots
<1>10. ASSUME NEW c \in Clients, FinishSlot(c) PROVE Handshake'
    BY <1>10 DEF FinishSlot
<1>11. CASE UpdateDone
    BY <1>11 DEF UpdateDone
<1>12. CASE YieldBegin
    BY <1>12 DEF YieldBegin
<1>13. CASE YieldEnd
    BY <1>13 DEF YieldEnd, FinishYield
<1>14. CASE YieldAwait
    BY <1>14 DEF YieldAwait, FinishYield
<1>15. CASE WaitLoop
    BY <1>15 DEF WaitLoop
<1>16. CASE IdleWake
    BY <1>16 DEF IdleWake
<1>17. CASE SleepWake
    BY <1>17 DEF SleepWake
<1>18. CASE StopWorker
    BY <1>18 DEF StopWorker
<1>19. CASE JoinWorker
    BY <1>19 DEF JoinWorker
<1>20. CASE WorkerIdle
    BY <1>20 DEF WorkerIdle
<1>21. CASE WorkerFetch
    <2>1. queue_tasks # <<>> => Head(queue_tasks) # NoTask
        BY TailKeeps, NoTaskAssumption DEF TypeOK, DataTypes
    <2> QED BY <1>21, <2>1 DEF WorkerFetch
<1>22. CASE WorkerCallback
    BY <1>22 DEF WorkerCallback
<1>23. CASE WorkerCheck
    BY <1>23 DEF WorkerCheck
<1>24. CASE WorkerWake
    BY <1>24 DEF WorkerWake
<1>25. CASE WorkerLeave
    BY <1>25 DEF WorkerLeave
<1>26. CASE UNCHANGED vars
    BY <1>26 DEF vars
<1> QED
    BY <1>1, <1>2, <1>3, <1>4, <1>5, <1>6, <1>7, <1>8, <1>9, <1>10, <1>11, <1>12, <1>13, <1>14, <1>15, <1>16, <1>17, <1>18, <1>19, <1>20, <1>21, <1>22, <1>23, <1>24, <1>25, <1>26
    DEF Next, MainStep, WorkerStep, Client, Disconnect, GiveUpMetrics

\* Asleep: only in the sleep of the main thread, or terminated there.
LEMMA SleepControlStep == TypeOK /\ Handshake /\ SleepControl /\ [Next]_vars => SleepControl'
<1> SUFFICES ASSUME TypeOK, Handshake, SleepControl, [Next]_vars PROVE SleepControl'
    OBVIOUS
<1> USE DEF SleepControl, TypeOK, FlagTypes, sleepVars, mainVars
<1>1. ASSUME NEW c \in Clients, CheckAwake(c) PROVE SleepControl'
    BY <1>1 DEF CheckAwake
<1>2. ASSUME NEW c \in Clients, WakeClient(c) PROVE SleepControl'
    BY <1>2 DEF WakeClient
<1>3. ASSUME NEW c \in Clients, Post(c) PROVE SleepControl'
    BY <1>3 DEF Post
<1>4. ASSUME NEW c \in Clients, PostCancel(c) PROVE SleepControl'
    BY <1>4 DEF PostCancel
<1>5. CASE Terminate
    BY <1>5 DEF Terminate
<1>6. CASE StartLoop
    BY <1>6 DEF StartLoop
<1>7. CASE MainFetch
    BY <1>7 DEF MainFetch
<1>8. CASE MainCallback
    BY <1>8 DEF MainCallback, EndCallback
<1>9. CASE UpdateSlots
    BY <1>9 DEF UpdateSlots
<1>10. ASSUME NEW c \in Clients, FinishSlot(c) PROVE SleepControl'
    BY <1>10 DEF FinishSlot
<1>11. CASE UpdateDone
    BY <1>11 DEF UpdateDone
<1>12. CASE YieldBegin
    BY <1>12 DEF YieldBegin
<1>13. CASE YieldEnd
    BY <1>13 DEF YieldEnd, FinishYield
<1>14. CASE YieldAwait
    BY <1>14 DEF YieldAwait, FinishYield
<1>15. CASE WaitLoop
    BY <1>15 DEF WaitLoop
<1>16. CASE IdleWake
    BY <1>16 DEF IdleWake
<1>17. CASE SleepWake
    <2>1. CASE ~running
        BY <1>17, <2>1 DEF SleepWake
    <2>2. CASE running /\ req_stop_sleeping
        <3>1. ~sleeping' /\ mainPc' = "fetch"
            BY <1>17, <2>2, Zenon DEF SleepWake
        <3> QED BY <3>1
    <2>3. CASE running /\ ~req_stop_sleeping
        <3>1. sleeping' = sleeping /\ mainPc' = mainPc /\ running' = running
            BY <1>17, <2>3, Zenon DEF SleepWake
        <3> QED BY <3>1
    <2> QED BY <2>1, <2>2, <2>3
<1>18. CASE StopWorker
    BY <1>18 DEF StopWorker
<1>19. CASE JoinWorker
    BY <1>19 DEF JoinWorker
<1>20. CASE WorkerIdle
    BY <1>20 DEF WorkerIdle
<1>21. CASE WorkerFetch
    BY <1>21 DEF WorkerFetch
<1>22. CASE WorkerCallback
    BY <1>22 DEF WorkerCallback
<1>23. CASE WorkerCheck
    BY <1>23 DEF WorkerCheck
<1>24. CASE WorkerWake
    BY <1>24 DEF WorkerWake
<1>25. CASE WorkerLeave
    BY <1>25 DEF WorkerLeave
<1>26. CASE UNCHANGED vars
    BY <1>26 DEF vars
<1> QED
    BY <1>1, <1>2, <1>3, <1>4, <1>5, <1>6, <1>7, <1>8, <1>9, <1>10, <1>11, <1>12, <1>13, <1>14, <1>15, <1>16, <1>17, <1>18, <1>19, <1>20, <1>21, <1>22, <1>23, <1>24, <1>25, <1>26
    DEF Next, MainStep, WorkerStep, Client, Disconnect, GiveUpMetrics

\* While the main thread is idle, or while the worker waits, nobody else is in the
\* wait set: notify_one cannot wake the wrong thread.
LEMMA OnlyWaiter ==
    ASSUME TypeOK, Handshake, SleepControl, WaitSet
    PROVE  /\ Main \in cv /\ mainPc = "idle" => cv = {Main}
           /\ Worker \in cv => cv = {Worker}
<1>1. cv \subseteq Clients \cup {Main, Worker}
    BY DEF TypeOK, DataTypes, Threads
<1>2. sleeping => mainPc \in {"sleep", "fetch", "stopping", "join", "done"}
    BY DEF SleepControl
<1>3. Worker \in cv => mainPc = "work"
    BY DEF WaitSet, Handshake
<1>4. ASSUME NEW c \in Clients, c \in cv PROVE sleeping
    BY <1>4 DEF WaitSet
<1>5. Main \in cv => mainPc \in {"idle", "sleep", "await", "awaitFailed"}
    BY DEF WaitSet
<1> QED BY <1>1, <1>2, <1>3, <1>4, <1>5, ClientsAssumption

\* PopDeferredTask wakes at most one thread and adds none to the wait set.
LEMMA PopShrinks ==
    ASSUME PopDeferredTask PROVE cv' \subseteq cv
    BY DEF PopDeferredTask, NotifyOne

\* Who is in the wait set, and that nothing was missed.
LEMMA WaitSetStep == TypeOK /\ Handshake /\ SleepControl /\ WaitSet /\ [Next]_vars => WaitSet'
<1> SUFFICES ASSUME TypeOK, Handshake, SleepControl, WaitSet, [Next]_vars PROVE WaitSet'
    OBVIOUS
<1>a. /\ Worker \in cv => mainPc = "work" /\ workerPc = "wait"
      /\ Main \in cv => mainPc \in {"idle", "sleep", "await", "awaitFailed"}
    BY DEF WaitSet, Handshake
<1> USE DEF WaitSet, queueVars, sleepVars, yieldVars, mainVars, workerVars
<1>1. ASSUME NEW c \in Clients, CheckAwake(c) PROVE WaitSet'
    <2>1. cv' \subseteq cv \cup {c} /\ (c \in cv' => c \in cv \/ sleeping)
        BY <1>1 DEF CheckAwake
    <2>2. c # Main /\ c # Worker
        BY ClientsAssumption
    <2> QED BY <1>1, <2>1, <2>2 DEF CheckAwake
<1>2. ASSUME NEW c \in Clients, WakeClient(c) PROVE WaitSet'
    <2>1. cv' \subseteq cv \cup {c} /\ (c \in cv' => c \in cv \/ sleeping)
        BY <1>2 DEF WakeClient
    <2>2. c # Main /\ c # Worker
        BY ClientsAssumption
    <2> QED BY <1>2, <2>1, <2>2 DEF WakeClient
<1>3. ASSUME NEW c \in Clients, Post(c) PROVE WaitSet'
    <2>1. cv' \subseteq cv /\ (\A t : cv = {t} => cv' = {})
        BY <1>3 DEF Post, NotifyOne
    <2> QED BY <1>3, <2>1, OnlyWaiter DEF Post
<1>4. ASSUME NEW c \in Clients, PostCancel(c) PROVE WaitSet'
    <2>1. cv' \subseteq cv /\ (\A t : cv = {t} => cv' = {})
        BY <1>4 DEF PostCancel, NotifyOne
    <2> QED BY <1>4, <2>1, OnlyWaiter DEF PostCancel
<1>5. CASE Terminate
    BY <1>5 DEF Terminate, NotifyAll
<1>6. CASE StartLoop
    BY <1>6, <1>a DEF StartLoop
<1>7. CASE MainFetch
    BY <1>7 DEF MainFetch
<1>8. CASE MainCallback
    <2>1. cv' \subseteq cv
        BY <1>8, PopShrinks DEF MainCallback, MainAnswer, Launch, Defer, HandleCancel, Release,
                          HandleNextResponse, NotifyOne
    <2> QED BY <1>8, <2>1, <1>a DEF MainCallback, EndCallback
<1>9. CASE UpdateSlots
    <2>1. cv' \subseteq cv
        BY <1>9 DEF UpdateSlots, NotifyOne
    <2> QED BY <1>9, <2>1, <1>a DEF UpdateSlots
<1>10. ASSUME NEW c \in Clients, FinishSlot(c) PROVE WaitSet'
    <2>1. cv' \subseteq cv
        BY <1>10, PopShrinks DEF FinishSlot, Release
    <2> QED BY <1>10, <2>1, <1>a DEF FinishSlot
<1>11. CASE UpdateDone
    BY <1>11 DEF UpdateDone
<1>12. CASE YieldBegin
    BY <1>12 DEF YieldBegin
<1>13. CASE YieldEnd
    <2>1. cv' \subseteq {Main} /\ (Main \in cv' => busy /\ mainPc' \in {"await", "awaitFailed"})
        BY <1>13 DEF YieldEnd, FinishYield
    <2>2. busy' = busy
        BY <1>13 DEF YieldEnd
    <2> QED BY <2>1, <2>2, ClientsAssumption
<1>14. CASE YieldAwait
    <2>1. cv' \subseteq cv \cup {Main} /\ (Main \in cv' => busy /\ mainPc' = mainPc)
        BY <1>14 DEF YieldAwait, FinishYield
    <2>2. busy' = busy /\ sleeping' = sleeping /\ Worker \notin cv
        BY <1>14, <1>a DEF YieldAwait
    <2> QED BY <1>14, <2>1, <2>2, ClientsAssumption DEF YieldAwait
<1>15. CASE WaitLoop
    <2>1. cv' \subseteq cv \cup {Main} /\ Worker \notin cv /\ Main \notin cv
        BY <1>15, <1>a DEF WaitLoop
    <2>2. sleeping => sleeping'
        BY <1>15 DEF WaitLoop
    <2>3. Main \in cv' => \/ mainPc' = "sleep"
                          \/ mainPc' = "idle" /\ queue_tasks' = <<>> /\ running'
        BY <1>15, <2>1 DEF WaitLoop
    <2> QED BY <2>1, <2>2, <2>3, ClientsAssumption
<1>16. CASE IdleWake
    <2>1. cv' \subseteq cv \cup {Main} /\ Worker \notin cv /\ sleeping' = sleeping
        BY <1>16, <1>a DEF IdleWake
    <2>2. Main \in cv' => mainPc' = "idle" /\ queue_tasks' = <<>> /\ running'
        BY <1>16 DEF IdleWake
    <2> QED BY <2>1, <2>2, ClientsAssumption
<1>17. CASE SleepWake
    <2>1. Worker \notin cv
        BY <1>17, <1>a DEF SleepWake
    <2>2. \A c \in Clients : c \in cv' => sleeping'
        <3>1. CASE running /\ req_stop_sleeping
            BY <1>17, <3>1 DEF SleepWake, NotifyAll
        <3>2. CASE ~ (running /\ req_stop_sleeping)
            <4>1. cv' \subseteq cv \cup {Main} /\ sleeping' = sleeping
                BY <1>17, <3>2, Zenon DEF SleepWake
            <4> QED BY <4>1, ClientsAssumption
        <3> QED BY <3>1, <3>2
    <2>3. Main \in cv' => mainPc' = "sleep"
        BY <1>17 DEF SleepWake, NotifyAll
    <2>4. Worker \notin cv'
        BY <1>17, <2>1, ClientsAssumption DEF SleepWake, NotifyAll
    <2> QED BY <2>2, <2>3, <2>4
<1>18. CASE StopWorker
    BY <1>18 DEF StopWorker, NotifyAll
<1>19. CASE JoinWorker
    BY <1>19 DEF JoinWorker
<1>20. CASE WorkerIdle
    BY <1>20 DEF WorkerIdle
<1>21. CASE WorkerFetch
    BY <1>21 DEF WorkerFetch
<1>22. CASE WorkerCallback
    BY <1>22 DEF WorkerCallback
<1>23. CASE WorkerCheck
    <2>1. \/ cv' = cv
          \/ /\ cv' = cv \cup {Worker} /\ workerPc' = "wait"
             /\ yielding' /\ queue_tasks' = <<>> /\ running'
        BY <1>23 DEF WorkerCheck
    <2>2. Worker \notin cv
        BY <1>23 DEF WorkerCheck
    <2> QED BY <1>23, <2>1, <2>2, ClientsAssumption DEF WorkerCheck
<1>24. CASE WorkerWake
    <2>1. \/ cv' = cv
          \/ /\ cv' = cv \cup {Worker} /\ workerPc' = "wait"
             /\ yielding' /\ queue_tasks' = <<>> /\ running'
        BY <1>24 DEF WorkerWake
    <2> QED BY <1>24, <2>1, ClientsAssumption DEF WorkerWake
<1>25. CASE WorkerLeave
    BY <1>25 DEF WorkerLeave, NotifyAll
<1>26. CASE UNCHANGED vars
    BY <1>26 DEF vars
<1> QED
    BY <1>1, <1>2, <1>3, <1>4, <1>5, <1>6, <1>7, <1>8, <1>9, <1>10, <1>11, <1>12, <1>13, <1>14, <1>15, <1>16, <1>17, <1>18, <1>19, <1>20, <1>21, <1>22, <1>23, <1>24, <1>25, <1>26
    DEF Next, MainStep, WorkerStep, Client, Disconnect, GiveUpMetrics

\* Another of the waiting requests has been notified in place of the main thread.
LEMMA AskedInVain ==
    ASSUME TypeOK, Handshake, WaitSet, Sleepers, mainPc = "sleep", Main \in cv,
           NEW t \in cv, t # Main
    PROVE  t \in Clients /\ clientPc[t] = "nosleep"
<1>1. Worker \notin cv
    BY DEF WaitSet, Handshake
<1> QED BY <1>1 DEF TypeOK, DataTypes, Threads, Sleepers

\* A step that lets nobody into the wait set and no request out of its wait.
LEMMA SleepersStay ==
    ASSUME Sleepers, cv' \subseteq cv,
           \A c \in Clients : clientPc[c] = "nosleep" => clientPc'[c] = "nosleep",
           Main \in cv' /\ mainPc' = "sleep" =>
               mainPc = "sleep" /\ running' = running /\ req_stop_sleeping' = req_stop_sleeping
    PROVE  Sleepers'
BY DEF Sleepers, TwoWait

\* Who waits for the end of the sleep.
LEMMA SleepersStep ==
    TypeOK /\ Handshake /\ SleepControl /\ WaitSet /\ Sleepers /\ [Next]_vars => Sleepers'
<1> SUFFICES ASSUME TypeOK, Handshake, SleepControl, WaitSet, Sleepers, [Next]_vars PROVE Sleepers'
    OBVIOUS
<1>a. \A c \in Clients : c # Main /\ c # Worker
    BY ClientsAssumption
<1>b. /\ clientPc \in [Clients -> ClientPcs] /\ (Worker \in cv => mainPc = "work")
      /\ Main \in cv => mainPc \in {"idle", "sleep", "await", "awaitFailed"}
    BY DEF TypeOK, DataTypes, WaitSet, Handshake
<1> USE DEF queueVars, sleepVars, yieldVars, mainVars, workerVars
<1>1. ASSUME NEW c \in Clients, CheckAwake(c) PROVE Sleepers'
    <2>1. \A d \in Clients : clientPc[d] = "nosleep" => clientPc'[d] = "nosleep"
        BY <1>1, <1>b DEF CheckAwake
    <2>2. mainPc' = mainPc /\ running' = running
        BY <1>1 DEF CheckAwake
    <2>3. CASE cv' = cv /\ req_stop_sleeping' = req_stop_sleeping
        BY <2>1, <2>2, <2>3, SleepersStay
    <2>4. CASE /\ clientPc[c] = "new" /\ clientPc'[c] = "nosleep"
               /\ cv' \subseteq cv \cup {c}
               /\ req_stop_sleeping \/ cv = {} \/ \E t \in cv : cv' = (cv \ {t}) \cup {c}
        <3>1. \A d \in Clients : d \in cv' => clientPc'[d] = "nosleep"
            BY <2>1, <2>4 DEF Sleepers
        <3>2. ASSUME Main \in cv', mainPc = "sleep"
              PROVE  running' /\ TwoWait'
            <4>1. Main \in cv /\ running
                BY <1>a, <2>4, <3>2 DEF Sleepers
            <4>2. CASE req_stop_sleeping
                BY <2>1, <2>2, <3>2, <4>1, <4>2 DEF Sleepers, TwoWait
            <4>3. CASE \E t \in cv : cv' = (cv \ {t}) \cup {c}
                <5>1. PICK t \in cv : cv' = (cv \ {t}) \cup {c}
                    BY <4>3
                <5>2. t # Main
                    BY <1>a, <3>2, <5>1
                <5>3. t \in Clients /\ clientPc[t] = "nosleep"
                    BY <3>2, <4>1, <5>2, AskedInVain
                <5>4. t # c /\ clientPc'[t] = "nosleep"
                    BY <2>1, <2>4, <5>3
                <5> QED BY <2>2, <2>4, <4>1, <5>3, <5>4 DEF TwoWait
            <4> QED BY <2>4, <4>1, <4>2, <4>3
        <3> QED BY <2>2, <3>1, <3>2 DEF Sleepers
    <2>5. CASE sleeping /\ Kind[c] # "METRICS"
        <3>1. clientPc[c] = "new" /\ clientPc'[c] = "nosleep"
            BY <1>1, <1>b, <2>5 DEF CheckAwake
        <3>2. /\ cv' \subseteq cv \cup {c}
              /\ req_stop_sleeping \/ cv = {} \/ \E t \in cv : cv' = (cv \ {t}) \cup {c}
            BY <1>1, <2>5 DEF CheckAwake
        <3> QED BY <2>4, <3>1, <3>2
    <2> QED BY <1>1, <2>3, <2>5 DEF CheckAwake
<1>2. ASSUME NEW c \in Clients, WakeClient(c) PROVE Sleepers'
    <2>1. CASE sleeping
        <3>1. cv' = cv \cup {c} /\ clientPc' = clientPc /\ clientPc[c] = "nosleep"
            BY <1>2, <2>1 DEF WakeClient
        <3>2. /\ mainPc' = mainPc /\ running' = running /\ req_stop_sleeping' = req_stop_sleeping
              /\ Main \in cv' => Main \in cv
            BY <1>2, <1>a, <3>1 DEF WakeClient
        <3> QED BY <3>1, <3>2 DEF Sleepers, TwoWait
    <2>2. CASE ~sleeping
        <3>1. /\ cv' = cv /\ mainPc' = mainPc /\ mainPc # "sleep"
              /\ \A d \in Clients : d # c => clientPc'[d] = clientPc[d]
            BY <1>2, <1>b, <2>2 DEF WakeClient, SleepControl
        <3>2. c \notin cv
            BY <1>2 DEF WakeClient
        <3> QED BY <3>1, <3>2 DEF Sleepers
    <2> QED BY <2>1, <2>2
<1>3. ASSUME NEW c \in Clients, Post(c) PROVE Sleepers'
    BY <1>3, <1>b, SleepersStay DEF Post, NotifyOne
<1>4. ASSUME NEW c \in Clients, PostCancel(c), clientPc[c] = "posted" PROVE Sleepers'
    BY <1>4, <1>b, SleepersStay DEF PostCancel, NotifyOne
<1>5. CASE Terminate
    BY <1>5 DEF Terminate, NotifyAll, Sleepers
<1>6. CASE MainStep \/ YieldEnd \/ (\E c \in Clients : FinishSlot(c)) \/ WorkerStep
    <2>1. clientPc' = clientPc
        BY <1>6 DEF MainStep, WorkerStep, YieldEnd, FinishSlot, StartLoop, MainFetch, MainCallback,
                   EndCallback, UpdateSlots, YieldBegin, UpdateDone, YieldAwait, WaitLoop, IdleWake,
                   SleepWake, StopWorker, JoinWorker, WorkerIdle, WorkerFetch, WorkerCallback,
                   WorkerCheck, WorkerWake, WorkerLeave, envVars
    <2>2. cv' \subseteq cv \cup {Main, Worker}
        <3>1. CASE MainCallback \/ UpdateSlots \/ \E c \in Clients : FinishSlot(c)
            BY <3>1, PopShrinks DEF MainCallback, MainAnswer, Launch, Defer, HandleCancel, Release,
                          HandleNextResponse, NotifyOne, UpdateSlots, FinishSlot
        <3>2. CASE \/ StartLoop \/ MainFetch \/ YieldBegin \/ UpdateDone \/ StopWorker \/ JoinWorker
                   \/ WorkerIdle \/ WorkerFetch \/ WorkerCallback \/ WorkerLeave
            BY <3>2 DEF StartLoop, MainFetch, YieldBegin, UpdateDone, StopWorker, JoinWorker,
                       WorkerIdle, WorkerFetch, WorkerCallback, WorkerLeave, NotifyAll
        <3>3. CASE YieldEnd \/ YieldAwait \/ WaitLoop \/ IdleWake \/ SleepWake
            <4>1. CASE YieldEnd
                BY <4>1 DEF YieldEnd
            <4>2. CASE YieldAwait
                BY <4>2 DEF YieldAwait
            <4>3. CASE WaitLoop
                BY <4>3 DEF WaitLoop
            <4>4. CASE IdleWake
                BY <4>4 DEF IdleWake
            <4>5. CASE SleepWake
                BY <4>5 DEF SleepWake, NotifyAll
            <4> QED BY <3>3, <4>1, <4>2, <4>3, <4>4, <4>5
        <3>4. CASE WorkerCheck \/ WorkerWake
            BY <3>4 DEF WorkerCheck, WorkerWake
        <3> QED BY <1>6, <3>1, <3>2, <3>3, <3>4 DEF MainStep, WorkerStep
    <2>3. \A c \in Clients : c \in cv' => clientPc'[c] = "nosleep"
        BY <1>a, <2>1, <2>2 DEF Sleepers
    <2>4. ASSUME Main \in cv', mainPc' = "sleep"
          PROVE  running' /\ (req_stop_sleeping' => TwoWait')
        <3>1. CASE WaitLoop
            BY <2>4, <3>1 DEF WaitLoop
        <3>2. CASE SleepWake
            BY <2>4, <3>2 DEF SleepWake, NotifyAll
        <3>3. CASE WorkerStep
            <4>1. mainPc' = mainPc /\ running' = running /\ req_stop_sleeping' = req_stop_sleeping
                BY <3>3 DEF WorkerStep, WorkerIdle, WorkerFetch, WorkerCallback, WorkerCheck,
                           WorkerWake, WorkerLeave
            <4>2. Main \in cv
                BY <2>4, <3>3, ClientsAssumption
                DEF WorkerStep, WorkerIdle, WorkerFetch, WorkerCallback, WorkerCheck,
                    WorkerWake, WorkerLeave, NotifyAll
            <4> QED BY <2>1, <2>4, <4>1, <4>2 DEF Sleepers, TwoWait
        <3>4. mainPc' = "sleep" => ~ (\/ StartLoop \/ MainFetch \/ MainCallback \/ UpdateSlots
                                     \/ YieldBegin \/ UpdateDone \/ YieldAwait \/ IdleWake
                                     \/ StopWorker \/ JoinWorker \/ YieldEnd
                                     \/ \E c \in Clients : FinishSlot(c))
            BY DEF StartLoop, MainFetch, MainCallback, EndCallback, UpdateSlots, YieldBegin,
                   UpdateDone, YieldAwait, FinishYield, IdleWake, StopWorker, JoinWorker, YieldEnd,
                   FinishSlot
        <3> QED BY <1>6, <2>4, <3>1, <3>2, <3>3, <3>4 DEF MainStep
    <2> QED BY <2>3, <2>4 DEF Sleepers
<1>7. CASE UNCHANGED vars
    BY <1>7, SleepersStay DEF vars, envVars
<1> QED BY <1>1, <1>2, <1>3, <1>4, <1>5, <1>6, <1>7 DEF Next, Client, Disconnect, GiveUpMetrics

\* An empty deque holds nothing.
LEMMA HasNone == \A t : ~ Has(<<>>, t)
    BY DEF Has

\* PopDeferredTask adds to the front of the queue.
LEMMA PopKeeps ==
    ASSUME DataTypes, PopDeferredTask, Has(queue_tasks, NextResponse)
    PROVE  Has(queue_tasks', NextResponse)
<1>1. CASE queue_tasks_deferred = <<>>
    BY <1>1 DEF PopDeferredTask
<1>2. CASE queue_tasks_deferred # <<>>
    <2>1. Head(queue_tasks_deferred) \in Task
        BY <1>2, TailKeeps DEF DataTypes
    <2> QED BY <1>2, <2>1, PushFrontKeeps DEF DataTypes, PopDeferredTask
<1> QED BY <1>1, <1>2

\* The NEXT_RESPONSE that continues the generations is not lost.
LEMMA ContinuesStep == TypeOK /\ Handshake /\ Continues /\ [Next]_vars => Continues'
<1> SUFFICES ASSUME TypeOK, Handshake, Continues, [Next]_vars PROVE Continues'
    OBVIOUS
<1>a. /\ queue_tasks \in Seq(Task) /\ queue_tasks_unhandled \in Seq(Task)
      /\ workerTask \in Task \cup {NoTask}
    BY DEF TypeOK, DataTypes
<1> USE DEF Continues, InYield, queueVars, mainVars, workerVars, slotVars
<1>1. ASSUME NEW c \in Clients, CheckAwake(c) PROVE Continues'
    BY <1>1 DEF CheckAwake
<1>2. ASSUME NEW c \in Clients, WakeClient(c) PROVE Continues'
    BY <1>2 DEF WakeClient
<1>3. ASSUME NEW c \in Clients, Post(c) PROVE Continues'
    <2>1. Has(queue_tasks, NextResponse) => Has(queue_tasks', NextResponse)
        BY <1>3, <1>a, TasksTyped, PushFrontKeeps, AppendKeeps DEF Post
    <2> QED BY <1>3, <2>1 DEF Post
<1>4. ASSUME NEW c \in Clients, PostCancel(c) PROVE Continues'
    <2>1. Erase(queue_tasks, c) \in Seq(Task) /\ CancelOf(c) \in Task
        BY <1>a, EraseType, TasksTyped
    <2>2. Has(queue_tasks, NextResponse) => Has(queue_tasks', NextResponse)
        BY <1>4, <1>a, <2>1, EraseKeeps, PushFrontKeeps DEF PostCancel
    <2>3. Has(queue_tasks_unhandled, NextResponse) => Has(queue_tasks_unhandled', NextResponse)
        BY <1>4, <1>a, EraseKeeps DEF PostCancel, CleanupPendingTask
    <2> QED BY <1>4, <2>2, <2>3 DEF PostCancel
<1>5. CASE Terminate
    BY <1>5 DEF Terminate
<1>6. CASE StartLoop
    BY <1>6 DEF StartLoop
<1>7. CASE MainFetch
    BY <1>7 DEF MainFetch
<1>8. CASE MainCallback
    BY <1>8 DEF MainCallback, EndCallback
<1>9. CASE UpdateSlots
    <2>1. Has(Append(queue_tasks, NextResponse), NextResponse)
        BY <1>a, TasksTyped, AppendKeeps
    <2> QED BY <1>9, <2>1 DEF UpdateSlots
<1>10. ASSUME NEW c \in Clients, FinishSlot(c) PROVE Continues'
    <2>1. Has(queue_tasks', NextResponse)
        BY <1>10, PopKeeps DEF FinishSlot, Release, TypeOK
    <2> QED BY <1>10, <2>1 DEF FinishSlot
<1>11. CASE UpdateDone
    BY <1>11 DEF UpdateDone
<1>12. CASE YieldBegin
    BY <1>12 DEF YieldBegin
<1>13. CASE YieldEnd
    <2>1. ASSUME NEW failed, FinishYield(failed), ~busy PROVE Continues'
        <3>1. workerTask # NextResponse
            BY <2>1, <1>a, TasksTyped, NoTaskAssumption DEF Handshake, InWorkerLoop
        <3>2. Has(queue_tasks_unhandled \o queue_tasks, NextResponse)
            BY <1>13, <1>a, <3>1, ConcatKeeps DEF YieldEnd
        <3> QED BY <2>1, <3>2 DEF FinishYield
    <2>2. CASE mainPc' \in {"await", "awaitFailed"} /\ UNCHANGED <<queue_tasks, queue_tasks_unhandled>>
        BY <1>13, <2>2 DEF YieldEnd
    <2> QED BY <1>13, <2>1, <2>2 DEF YieldEnd
<1>14. CASE YieldAwait
    <2>1. ASSUME NEW failed, FinishYield(failed), ~busy PROVE Continues'
        <3>1. workerTask # NextResponse
            BY <2>1, <1>a, TasksTyped, NoTaskAssumption DEF Handshake, InWorkerLoop
        <3>2. Has(queue_tasks_unhandled \o queue_tasks, NextResponse)
            BY <1>14, <1>a, <3>1, ConcatKeeps DEF YieldAwait
        <3> QED BY <2>1, <3>2 DEF FinishYield
    <2>2. CASE UNCHANGED <<queue_tasks, queue_tasks_unhandled, mainPc>>
        BY <1>14, <2>2 DEF YieldAwait
    <2> QED BY <1>14, <2>1, <2>2 DEF YieldAwait
<1>15. CASE WaitLoop
    BY <1>15, HasNone DEF WaitLoop
<1>16. CASE IdleWake
    BY <1>16 DEF IdleWake
<1>17. CASE SleepWake
    BY <1>17 DEF SleepWake
<1>18. CASE StopWorker
    BY <1>18 DEF StopWorker
<1>19. CASE JoinWorker
    BY <1>19 DEF JoinWorker
<1>20. CASE WorkerIdle
    BY <1>20 DEF WorkerIdle
<1>21. CASE WorkerFetch
    <2>1. CASE queue_tasks = <<>> \/ ~running
        BY <1>21, <2>1 DEF WorkerFetch
    <2>2. CASE queue_tasks # <<>> /\ running
        <3>1. /\ Has(queue_tasks, NextResponse) =>
                    workerTask' = NextResponse \/ Has(queue_tasks', NextResponse)
              /\ workerTask = NoTask /\ InYield
            BY <1>21, <1>a, <2>2, TailKeeps DEF WorkerFetch, Handshake, InWorkerLoop
        <3>2. workerTask # NextResponse
            BY <3>1, NoTaskAssumption, TasksTyped
        <3> QED BY <1>21, <3>1, <3>2 DEF WorkerFetch
    <2> QED BY <2>1, <2>2
<1>22. CASE WorkerCallback
    <2>1. CASE workerTask.type \in ReadOnly
        <3>1. workerTask # NextResponse
            BY <2>1 DEF NextResponse, ReadOnly
        <3> QED BY <1>22, <2>1, <3>1 DEF WorkerCallback
    <2>2. CASE workerTask.type \notin ReadOnly
        <3>1. workerTask \in Task
            BY <1>22, <1>a, NoTaskAssumption DEF WorkerCallback, Handshake
        <3>2. /\ Has(queue_tasks_unhandled, NextResponse) => Has(queue_tasks_unhandled', NextResponse)
              /\ Has(queue_tasks_unhandled', workerTask)
            BY <1>22, <1>a, <2>2, <3>1, AppendKeeps DEF WorkerCallback
        <3> QED BY <1>22, <3>2 DEF WorkerCallback
    <2> QED BY <2>1, <2>2
<1>23. CASE WorkerCheck
    BY <1>23 DEF WorkerCheck
<1>24. CASE WorkerWake
    BY <1>24 DEF WorkerWake
<1>25. CASE WorkerLeave
    BY <1>25 DEF WorkerLeave
<1>26. CASE UNCHANGED vars
    BY <1>26 DEF vars
<1> QED
    BY <1>1, <1>2, <1>3, <1>4, <1>5, <1>6, <1>7, <1>8, <1>9, <1>10, <1>11, <1>12, <1>13, <1>14, <1>15, <1>16, <1>17, <1>18, <1>19, <1>20, <1>21, <1>22, <1>23, <1>24, <1>25, <1>26
    DEF Next, MainStep, WorkerStep, Client, Disconnect, GiveUpMetrics

-----------------------------------------------------------------------------
(* The inductive invariant.                                                 *)

\* The server starts with empty deques and no thread past its first step.
LEMMA InitIInv == Init => IInv
<1> SUFFICES ASSUME Init PROVE IInv
    OBVIOUS
<1> USE DEF Init
<1>1. TypeOK
    <2>1. FlagTypes
        BY Zenon DEF FlagTypes
    <2>2. DataTypes
        BY DEF DataTypes, MainPcs, WorkerPcs, ClientPcs
    <2> QED BY <2>1, <2>2 DEF TypeOK
<1>2. Handshake
    BY DEF Handshake, InWorkerLoop, InYield
<1>3. SleepControl /\ WaitSet /\ Sleepers
    BY DEF SleepControl, WaitSet, Sleepers
<1>4. Continues
    BY DEF Continues, InYield
<1> QED BY <1>1, <1>2, <1>3, <1>4 DEF IInv

\* The invariant is inductive: the lemmas above, one per part.
LEMMA NextIInv == IInv /\ [Next]_vars => IInv'
    BY FlagStep, DataStep, HandshakeStep, SleepControlStep, WaitSetStep, SleepersStep, ContinuesStep
    DEF IInv, TypeOK

-----------------------------------------------------------------------------
(* Counting the copies of a task.                                          *)

Places(s, c) == {i \in DOMAIN s : IsTaskOf(s[i], c)}

\* A deque holds a finite number of copies, none if and only if it does not hold the task.
LEMMA CopiesType ==
    ASSUME NEW s \in Seq(Task), NEW c
    PROVE  /\ IsFiniteSet(Places(s, c)) /\ Copies(s, c) \in Nat
           /\ Copies(s, c) = Cardinality(Places(s, c))
           /\ Holds(s, c) <=> Copies(s, c) # 0
<1>1. IsFiniteSet(1 .. Len(s))
    BY FS_Interval
<1>2. Places(s, c) \subseteq 1 .. Len(s)
    BY DEF Places
<1>3. IsFiniteSet(Places(s, c)) /\ Cardinality(Places(s, c)) \in Nat
    BY <1>1, <1>2, FS_Subset, FS_CardinalityType
<1>4. Copies(s, c) = Cardinality(Places(s, c))
    BY DEF Copies, Places
<1>5. Cardinality(Places(s, c)) = 0 <=> Places(s, c) = {}
    BY <1>3, FS_EmptySet
<1>6. Places(s, c) # {} <=> Holds(s, c)
    BY DEF Places, Holds
<1> QED BY <1>3, <1>4, <1>5, <1>6

\* The copies of two deques put together.
LEMMA CopiesConcat ==
    ASSUME NEW s \in Seq(Task), NEW t \in Seq(Task), NEW c
    PROVE  Copies(s \o t, c) = Copies(s, c) + Copies(t, c)
<1> DEFINE n == Len(s)
           u == s \o t
           B == {i \in DOMAIN u : i > n /\ IsTaskOf(u[i], c)}
           f == [j \in Places(t, c) |-> j + n]
<1>1. u \in Seq(Task) /\ n \in Nat /\ Len(u) = n + Len(t)
    OBVIOUS
<1>2. /\ \A i \in 1 .. n : u[i] = s[i]
      /\ \A j \in 1 .. Len(t) : u[j + n] = t[j]
    OBVIOUS
<1> HIDE DEF u
<1>3. Places(u, c) = Places(s, c) \cup B
    <2>1. ASSUME NEW i \in Places(s, c)
          PROVE  i \in Places(u, c)
        <3>1. i \in 1 .. n /\ IsTaskOf(s[i], c)
            BY DEF Places
        <3>2. i \in 1 .. Len(u) /\ u[i] = s[i]
            BY <1>1, <1>2, <3>1
        <3> QED BY <1>1, <3>1, <3>2 DEF Places
    <2>2. ASSUME NEW i \in Places(u, c), ~(i > n)
          PROVE  i \in Places(s, c)
        BY <1>1, <1>2, <2>2 DEF Places
    <2> QED BY <2>1, <2>2 DEF Places
<1>4. Places(s, c) \cap B = {}
    BY DEF Places
<1>5. Cardinality(B) = Copies(t, c) /\ IsFiniteSet(B)
    <2>1. ASSUME NEW j \in Places(t, c)
          PROVE  f[j] \in B
        <3>1. j \in 1 .. Len(t) /\ IsTaskOf(t[j], c)
            BY DEF Places
        <3>2. j + n \in 1 .. Len(u) /\ j + n > n
            BY <1>1, <3>1
        <3>3. IsTaskOf(u[j + n], c)
            BY <1>2, <3>1
        <3> QED BY <1>1, <3>2, <3>3
    <2>2. ASSUME NEW i \in B
          PROVE  \E j \in Places(t, c) : f[j] = i
        <3>1. i \in 1 .. Len(u) /\ i > n /\ IsTaskOf(u[i], c)
            BY <1>1
        <3>2. i - n \in 1 .. Len(t) /\ (i - n) + n = i
            BY <1>1, <3>1
        <3>3. u[i] = t[i - n]
            BY <1>2, <3>2
        <3>4. i - n \in Places(t, c)
            BY <3>1, <3>2, <3>3 DEF Places
        <3> QED BY <3>2, <3>4
    <2>3. \A j, k \in Places(t, c) : f[j] = f[k] => j = k
        BY <1>1 DEF Places
    <2> HIDE DEF B
    <2>4. f \in Bijection(Places(t, c), B)
        BY <2>1, <2>2, <2>3, Fun_IsBij
    <2> QED BY <2>4, CopiesType, FS_Bijection DEF ExistsBijection
<1>6. Cardinality(Places(s, c) \cup B) = Cardinality(Places(s, c)) + Cardinality(B)
    <2>1. IsFiniteSet(Places(s, c)) /\ Cardinality(Places(s, c)) \in Nat /\ Cardinality(B) \in Nat
        BY <1>5, CopiesType, FS_CardinalityType
    <2> HIDE DEF B
    <2>2. Cardinality(Places(s, c) \cap B) = 0
        BY <1>4, FS_EmptySet
    <2>3. Cardinality(Places(s, c) \cup B) =
              Cardinality(Places(s, c)) + Cardinality(B) - Cardinality(Places(s, c) \cap B)
        BY <1>5, <2>1, FS_Union, Zenon
    <2> QED BY <2>1, <2>2, <2>3
<1> QED BY <1>1, <1>3, <1>5, <1>6, CopiesType DEF u

\* A deque of one task, and one without a task.
LEMMA CopiesOne ==
    ASSUME NEW t \in Task, NEW c
    PROVE  Copies(<<t>>, c) = (IF IsTaskOf(t, c) THEN 1 ELSE 0)
<1>1. Places(<<t>>, c) = IF IsTaskOf(t, c) THEN {1} ELSE {}
    BY DEF Places
<1>2. Cardinality({1}) = 1 /\ Cardinality({}) = 0
    BY FS_Singleton, FS_EmptySet
<1> QED BY <1>1, <1>2 DEF Copies, Places

LEMMA CopiesNone == \A c : Copies(<<>>, c) = 0
<1>1. \A c : {i \in DOMAIN <<>> : IsTaskOf(<<>>[i], c)} = {}
    OBVIOUS
<1> QED BY <1>1, FS_EmptySet DEF Copies

\* push_back, push_front and pop_front add and take one task.
LEMMA CopiesMoved ==
    ASSUME NEW s \in Seq(Task), NEW t \in Task, NEW c
    PROVE  /\ Copies(Append(s, t), c) = Copies(s, c) + InHand(t, c)
           /\ Copies(PushFront(s, t), c) = Copies(s, c) + InHand(t, c)
<1>1. <<t>> \in Seq(Task) /\ Copies(<<t>>, c) = InHand(t, c) /\ InHand(t, c) \in Nat
    BY CopiesOne, NoTaskAssumption DEF InHand
<1>2. Append(s, t) = s \o <<t>>
    BY AppendIsConcat
<1>3. Copies(s \o <<t>>, c) = Copies(s, c) + Copies(<<t>>, c)
    BY <1>1, CopiesConcat
<1>4. Copies(<<t>> \o s, c) = Copies(<<t>>, c) + Copies(s, c)
    BY <1>1, CopiesConcat
<1>5. Copies(s, c) \in Nat
    BY CopiesType
<1> QED BY <1>1, <1>2, <1>3, <1>4, <1>5 DEF PushFront

LEMMA CopiesPopped ==
    ASSUME NEW s \in Seq(Task), s # <<>>, NEW c
    PROVE  Copies(s, c) = Copies(Tail(s), c) + InHand(Head(s), c)
<1>1. Head(s) \in Task /\ Tail(s) \in Seq(Task) /\ <<Head(s)>> \in Seq(Task)
    BY TailKeeps
<1>2. s = PushFront(Tail(s), Head(s))
    <2>1. <<Head(s)>> \o Tail(s) \in Seq(Task) /\ Len(<<Head(s)>> \o Tail(s)) = Len(s)
          /\ \A i \in 1 .. Len(s) : (<<Head(s)>> \o Tail(s))[i] = s[i]
        OBVIOUS
    <2> QED BY <2>1, SeqEqual DEF PushFront
<1>3. Copies(PushFront(Tail(s), Head(s)), c) = Copies(Tail(s), c) + InHand(Head(s), c)
    BY <1>1, CopiesMoved
<1> QED BY <1>2, <1>3

\* What cleanup_pending_task takes out of a deque.
LEMMA EraseSplits ==
    ASSUME NEW s \in Seq(Task), NEW c, Holds(s, c)
    PROVE  \E a, b \in Seq(Task), t \in Task :
              s = (a \o <<t>>) \o b /\ Erase(s, c) = a \o b /\ IsTaskOf(t, c)
<1> DEFINE i == CHOOSE j \in DOMAIN s : IsTaskOf(s[j], c)
           a == SubSeq(s, 1, i - 1)
           b == SubSeq(s, i + 1, Len(s))
<1>1. i \in DOMAIN s /\ IsTaskOf(s[i], c)
    BY DEF Holds
<1>2. Erase(s, c) = a \o b
    BY DEF Holds, Erase
<1> HIDE DEF i
<1>3. i \in 1 .. Len(s) /\ Len(s) \in Nat /\ s[i] \in Task
    BY <1>1
<1>4. a \in Seq(Task) /\ b \in Seq(Task)
    BY <1>3
<1>5. SubSeq(s, 1, i) = a \o <<s[i]>>
    <2>1. 1 \in 1 .. Len(s) /\ i \in 1 .. Len(s)
        BY <1>3
    <2> QED BY <2>1, SubSeqRecursiveSecond
<1>6. SubSeq(s, 1, i) \o b = s
    <2>1. 1 \in 1 .. Len(s) + 1 /\ i \in 1 - 1 .. Len(s) /\ Len(s) \in i .. Len(s)
        BY <1>3
    <2>2. SubSeq(s, 1, i) \o b = SubSeq(s, 1, Len(s))
        BY <2>1, ConcatAdjacentSubSeq
    <2> QED BY <2>2, SubSeqFull
<1> HIDE DEF a, b
<1> QED BY <1>1, <1>2, <1>3, <1>4, <1>5, <1>6

LEMMA CopiesErased ==
    ASSUME NEW s \in Seq(Task), NEW c, NEW d
    PROVE  Copies(Erase(s, c), d) =
              Copies(s, d) - (IF Holds(s, c) /\ d = c THEN 1 ELSE 0)
<1>1. CASE ~Holds(s, c)
    <2>1. Erase(s, c) = s
        BY <1>1 DEF Holds, Erase
    <2> QED BY <1>1, <2>1, CopiesType
<1>2. CASE Holds(s, c)
    <2>1. PICK a, b \in Seq(Task), t \in Task :
             s = (a \o <<t>>) \o b /\ Erase(s, c) = a \o b /\ IsTaskOf(t, c)
        BY <1>2, EraseSplits
    <2>2. PICK u \in Seq(Task), o \in Seq(Task) : u = a \o o /\ o = <<t>>
        <3>1. a \o <<t>> \in Seq(Task) /\ <<t>> \in Seq(Task)
            OBVIOUS
        <3> QED BY <3>1, Zenon
    <2>3. Copies(s, d) = (Copies(a, d) + Copies(<<t>>, d)) + Copies(b, d)
        <3>1. s = u \o b
            BY <2>1, <2>2, Zenon
        <3>2. Copies(u \o b, d) = Copies(u, d) + Copies(b, d)
            BY CopiesConcat
        <3>3. Copies(a \o o, d) = Copies(a, d) + Copies(o, d)
            BY CopiesConcat
        <3> QED BY <2>2, <3>1, <3>2, <3>3, Zenon
    <2>4. Copies(Erase(s, c), d) = Copies(a, d) + Copies(b, d)
        <3>1. Copies(a \o b, d) = Copies(a, d) + Copies(b, d)
            BY CopiesConcat
        <3> QED BY <2>1, <3>1, Zenon
    <2>5. Copies(<<t>>, d) = IF d = c THEN 1 ELSE 0
        BY <2>1, CopiesOne DEF IsTaskOf
    <2>6. Copies(a, d) \in Nat /\ Copies(b, d) \in Nat
        BY CopiesType
    <2> QED BY <1>2, <2>3, <2>4, <2>5, <2>6
<1> QED BY <1>1, <1>2

\* How many copies of a task there are in the deques, the hands, the slots and beyond.
Queued(c) == Copies(queue_tasks, c) + Copies(queue_tasks_deferred, c)
             + Copies(queue_tasks_unhandled, c)
Hands(c) == InHand(mainTask, c) + InHand(workerTask, c)
Placed(c) == (IF c \in active THEN 1 ELSE 0) + (IF c \in settled THEN 1 ELSE 0)
Due(c) == IF clientPc[c] \in {"posted", "gone"} THEN 1 ELSE 0

Counts ==
    /\ \A c \in Clients : Queued(c) \in Nat /\ Hands(c) \in Nat /\ Placed(c) \in Nat
    /\ TaskConservation <=> \A c \in Clients : Queued(c) + Hands(c) + Placed(c) = Due(c)

LEMMA Tally == TypeOK => Counts
<1> SUFFICES ASSUME TypeOK PROVE Counts
    OBVIOUS
<1>1. \A c : /\ Copies(queue_tasks, c) \in Nat /\ Copies(queue_tasks_deferred, c) \in Nat
             /\ Copies(queue_tasks_unhandled, c) \in Nat
    BY CopiesType DEF TypeOK, DataTypes
<1>2. \A t, c : InHand(t, c) \in {0, 1}
    BY DEF InHand
<1>3. \A c \in Clients : Queued(c) \in Nat /\ Hands(c) \in Nat /\ Placed(c) \in Nat
    BY <1>1, <1>2 DEF Queued, Hands, Placed
<1>4. \A c \in Clients :
         Copies(queue_tasks, c) + Copies(queue_tasks_deferred, c)
           + Copies(queue_tasks_unhandled, c) + InHand(mainTask, c) + InHand(workerTask, c)
           + (IF c \in active THEN 1 ELSE 0) + (IF c \in settled THEN 1 ELSE 0)
         = Queued(c) + Hands(c) + Placed(c)
    BY <1>1, <1>2 DEF Queued, Hands, Placed
<1>5. TaskConservation <=> \A c \in Clients : Queued(c) + Hands(c) + Placed(c) = Due(c)
    BY <1>4, Zenon DEF TaskConservation, Due
<1> QED BY <1>3, <1>5 DEF Counts

LEMMA TallyNext == TypeOK' => Counts'
    BY Tally, PTL

\* A step that gains and loses copies alike conserves them.
LEMMA Balanced ==
    ASSUME TypeOK, TypeOK', TaskConservation,
           \A c \in Clients : (Queued(c) + Hands(c) + Placed(c)) + Due(c)'
                              = (Queued(c) + Hands(c) + Placed(c))' + Due(c)
    PROVE  TaskConservation'
<1>1. /\ \A c \in Clients : Queued(c) \in Nat /\ Hands(c) \in Nat /\ Placed(c) \in Nat
      /\ \A c \in Clients : Queued(c) + Hands(c) + Placed(c) = Due(c)
    BY Tally DEF Counts
<1>2. \A c \in Clients : Queued(c)' \in Nat /\ Hands(c)' \in Nat /\ Placed(c)' \in Nat
    BY TallyNext DEF Counts
<1>3. TaskConservation' <=> \A c \in Clients : Queued(c)' + Hands(c)' + Placed(c)' = Due(c)'
    BY TallyNext DEF Counts
<1>4. \A c \in Clients : Due(c) \in {0, 1} /\ Due(c)' \in {0, 1}
    BY DEF Due
<1> QED BY <1>1, <1>2, <1>3, <1>4

\* What a task counts for.
LEMMA InHandOf ==
    /\ \A d : InHand(NoTask, d) = 0 /\ InHand(NextResponse, d) = 0
    /\ \A t, d : t.type \notin Requests => InHand(t, d) = 0
    /\ \A t \in Task : \A d : t.type \in Requests => InHand(t, d) = IF t.id = d THEN 1 ELSE 0
    /\ \A c \in Clients : \A d : InHand(TaskOf(c), d) = IF c = d THEN 1 ELSE 0
    /\ \A c \in Clients : \A d : InHand(CancelOf(c), d) = 0
<1>1. \A c \in Clients : TaskOf(c) \in Task /\ TaskOf(c).type \in Requests /\ TaskOf(c).id = c
    BY TasksTyped, ClientsAssumption DEF TaskOf
<1>2. \A c : CancelOf(c).type \notin Requests
    BY DEF CancelOf, Requests, ReadOnly
<1>3. NextResponse.type \notin Requests
    BY DEF NextResponse, Requests, ReadOnly
<1>4. \A t \in Task : t # NoTask
    BY NoTaskAssumption
<1> QED BY <1>1, <1>2, <1>3, <1>4 DEF InHand, IsTaskOf

\* pop_deferred_task moves a task from one deque to the other.
LEMMA PopConserves ==
    ASSUME DataTypes, PopDeferredTask, NEW d
    PROVE  Copies(queue_tasks', d) + Copies(queue_tasks_deferred', d)
               = Copies(queue_tasks, d) + Copies(queue_tasks_deferred, d)
<1>1. /\ queue_tasks \in Seq(Task) /\ queue_tasks_deferred \in Seq(Task)
      /\ Copies(queue_tasks, d) \in Nat /\ Copies(queue_tasks_deferred, d) \in Nat
    BY CopiesType DEF DataTypes
<1>2. CASE queue_tasks_deferred = <<>>
    BY <1>2 DEF PopDeferredTask
<1>3. CASE queue_tasks_deferred # <<>>
    <2> DEFINE h == Head(queue_tasks_deferred)
    <2>1. /\ queue_tasks' = PushFront(queue_tasks, h)
          /\ queue_tasks_deferred' = Tail(queue_tasks_deferred)
        BY <1>3 DEF PopDeferredTask
    <2>2. h \in Task /\ Tail(queue_tasks_deferred) \in Seq(Task)
        BY <1>1, <1>3, TailKeeps
    <2>3. Copies(queue_tasks_deferred, d) = Copies(queue_tasks_deferred', d) + InHand(h, d)
        BY <1>1, <1>3, <2>1, CopiesPopped
    <2> HIDE DEF h
    <2>4. Copies(queue_tasks', d) = Copies(queue_tasks, d) + InHand(h, d)
        BY <1>1, <2>1, <2>2, CopiesMoved
    <2>5. Copies(queue_tasks_deferred', d) \in Nat /\ InHand(h, d) \in Nat
        BY <2>1, <2>2, CopiesType DEF InHand
    <2> QED BY <1>1, <2>3, <2>4, <2>5
<1> QED BY <1>2, <1>3

\* A step that moves no task.
LEMMA NothingMoved ==
    ASSUME TaskConservation, UNCHANGED <<queueVars, mainTask, workerTask, slotVars>>,
           \A c \in Clients : Due(c)' = Due(c)
    PROVE  TaskConservation'
    BY Zenon DEF TaskConservation, Due, queueVars, slotVars

\* The tasks that a release takes from the slot and from the deferred deque.
LEMMA ReleaseConserves ==
    ASSUME TypeOK, TaskConservation, NEW c \in Clients, c \in active, Release(c), NEW d \in Clients
    PROVE  /\ Copies(queue_tasks', d) + Copies(queue_tasks_deferred', d)
                  = Copies(queue_tasks, d) + Copies(queue_tasks_deferred, d)
           /\ Placed(d)' = Placed(d)
<1>1. /\ \A e \in Clients : Queued(e) \in Nat /\ Hands(e) \in Nat /\ Placed(e) \in Nat
      /\ \A e \in Clients : Queued(e) + Hands(e) + Placed(e) = Due(e)
    BY Tally DEF Counts
<1>2. Placed(c) <= 1
    BY <1>1 DEF Due
<1>3. c \notin settled
    BY <1>2 DEF Placed
<1>4. Placed(d)' = Placed(d)
    BY <1>3 DEF Placed, Release
<1>5. PopDeferredTask
    BY DEF Release
<1> QED BY <1>4, <1>5, PopConserves DEF TypeOK

\* The tasks are conserved by every step.
LEMMA ConservationStep == IInv /\ TaskConservation /\ [Next]_vars => TaskConservation'
<1> SUFFICES ASSUME IInv, TaskConservation, [Next]_vars PROVE TaskConservation'
    OBVIOUS
<1>a. TypeOK /\ TypeOK' /\ Handshake
    BY NextIInv DEF IInv
<1>b. /\ queue_tasks \in Seq(Task) /\ queue_tasks_deferred \in Seq(Task)
      /\ queue_tasks_unhandled \in Seq(Task)
      /\ active \subseteq Clients /\ settled \subseteq Clients
      /\ clientPc \in [Clients -> ClientPcs]
      /\ mainTask \in Task \cup {NoTask} /\ workerTask \in Task \cup {NoTask}
    BY <1>a DEF TypeOK, DataTypes
<1>c. /\ \A c \in Clients : Queued(c) \in Nat /\ Hands(c) \in Nat /\ Placed(c) \in Nat
      /\ \A c \in Clients : Queued(c) + Hands(c) + Placed(c) = Due(c)
    BY <1>a, Tally DEF Counts
<1>d. \A d : /\ Copies(queue_tasks, d) \in Nat /\ Copies(queue_tasks_deferred, d) \in Nat
             /\ Copies(queue_tasks_unhandled, d) \in Nat
             /\ InHand(mainTask, d) \in Nat /\ InHand(workerTask, d) \in Nat
    BY <1>b, CopiesType DEF InHand
<1>1. ASSUME NEW c \in Clients, CheckAwake(c) PROVE TaskConservation'
    <2>1. UNCHANGED <<queueVars, mainTask, workerTask, slotVars>>
        BY <1>1 DEF CheckAwake, mainVars, workerVars
    <2>2. \A d \in Clients : Due(d)' = Due(d)
        BY <1>1, <1>b DEF CheckAwake, Due
    <2> QED BY <2>1, <2>2, NothingMoved
<1>2. ASSUME NEW c \in Clients, WakeClient(c) PROVE TaskConservation'
    <2>1. UNCHANGED <<queueVars, mainTask, workerTask, slotVars>>
        BY <1>2 DEF WakeClient, mainVars, workerVars
    <2>2. \A d \in Clients : Due(d)' = Due(d)
        BY <1>2, <1>b DEF WakeClient, Due
    <2> QED BY <2>1, <2>2, NothingMoved
<1>3. ASSUME NEW c \in Clients, Post(c) PROVE TaskConservation'
    <2> SUFFICES ASSUME NEW d \in Clients
                 PROVE  (Queued(d) + Hands(d) + Placed(d)) + Due(d)'
                        = (Queued(d) + Hands(d) + Placed(d))' + Due(d)
        BY <1>a, Balanced
    <2>1. Copies(queue_tasks', d) = Copies(queue_tasks, d) + IF c = d THEN 1 ELSE 0
        <3>1. TaskOf(c) \in Task /\ InHand(TaskOf(c), d) = IF c = d THEN 1 ELSE 0
            BY TasksTyped, InHandOf
        <3>2. /\ Copies(Append(queue_tasks, TaskOf(c)), d) = Copies(queue_tasks, d) + InHand(TaskOf(c), d)
              /\ Copies(PushFront(queue_tasks, TaskOf(c)), d) = Copies(queue_tasks, d) + InHand(TaskOf(c), d)
            BY <1>b, <3>1, CopiesMoved
        <3>3. queue_tasks' \in {Append(queue_tasks, TaskOf(c)), PushFront(queue_tasks, TaskOf(c))}
            BY <1>3 DEF Post
        <3> QED BY <3>1, <3>2, <3>3
    <2>2. Due(d)' = Due(d) + IF c = d THEN 1 ELSE 0
        BY <1>3, <1>b DEF Post, Due
    <2>3. Hands(d)' = Hands(d) /\ Placed(d)' = Placed(d)
        BY <1>3 DEF Post, Hands, Placed, mainVars, workerVars, slotVars
    <2>4. Queued(d)' = Queued(d) + IF c = d THEN 1 ELSE 0
        BY <1>3, <1>d, <2>1 DEF Post, Queued
    <2>5. Due(d) \in Nat
        BY DEF Due
    <2> QED BY <1>c, <2>2, <2>3, <2>4, <2>5
<1>4. ASSUME NEW c \in Clients, clientPc[c] = "posted", PostCancel(c) PROVE TaskConservation'
    <2> SUFFICES ASSUME NEW d \in Clients
                 PROVE  (Queued(d) + Hands(d) + Placed(d)) + Due(d)'
                        = (Queued(d) + Hands(d) + Placed(d))' + Due(d)
        BY <1>a, Balanced
    <2> DEFINE One(s) == IF Holds(s, c) /\ d = c THEN 1 ELSE 0
    <2>1. Copies(queue_tasks', d) = Copies(queue_tasks, d) - One(queue_tasks)
        <3>1. Erase(queue_tasks, c) \in Seq(Task) /\ CancelOf(c) \in Task
            BY <1>b, EraseType, TasksTyped
        <3>2. Copies(PushFront(Erase(queue_tasks, c), CancelOf(c)), d)
                  = Copies(Erase(queue_tasks, c), d) + InHand(CancelOf(c), d)
            BY <3>1, CopiesMoved
        <3>3. Copies(Erase(queue_tasks, c), d) = Copies(queue_tasks, d) - One(queue_tasks)
            BY <1>b, CopiesErased
        <3>4. InHand(CancelOf(c), d) = 0
            BY InHandOf
        <3>5. queue_tasks' = PushFront(Erase(queue_tasks, c), CancelOf(c))
            BY <1>4 DEF PostCancel
        <3> HIDE DEF One
        <3>6. One(queue_tasks) \in Nat
            BY DEF One
        <3> QED BY <1>d, <3>2, <3>3, <3>4, <3>5, <3>6
    <2>2. Copies(queue_tasks_deferred', d) = Copies(queue_tasks_deferred, d) - One(queue_tasks_deferred)
        BY <1>4, <1>b, CopiesErased DEF PostCancel, CleanupPendingTask
    <2>3. Copies(queue_tasks_unhandled', d) = Copies(queue_tasks_unhandled, d) - One(queue_tasks_unhandled)
        BY <1>4, <1>b, CopiesErased DEF PostCancel, CleanupPendingTask
    <2>4. Hands(d)' = Hands(d) /\ Due(d)' = Due(d)
        BY <1>4, <1>b DEF PostCancel, Hands, Due, mainVars, workerVars
    <2>5. CASE d # c
        <3>1. Placed(d)' = Placed(d)
            BY <1>4, <2>5 DEF PostCancel, CleanupPendingTask, Placed
        <3>2. Queued(d)' = Queued(d)
            BY <1>d, <2>1, <2>2, <2>3, <2>5 DEF Queued
        <3> QED BY <2>4, <3>1, <3>2
    <2>6. CASE d = c
        <3> DEFINE x == Copies(queue_tasks, c)
                   y == Copies(queue_tasks_deferred, c)
                   z == Copies(queue_tasks_unhandled, c)
        <3>1. /\ Holds(queue_tasks, c) <=> x # 0
              /\ Holds(queue_tasks_deferred, c) <=> y # 0
              /\ Holds(queue_tasks_unhandled, c) <=> z # 0
            BY <1>b, CopiesType
        <3>2. x \in Nat /\ y \in Nat /\ z \in Nat /\ Queued(c) = x + y + z /\ Queued(c) <= 1
            BY <1>c, <1>d DEF Queued, Due
        <3>3. Queued(c)' = 0
            <4>1. One(queue_tasks) = x /\ One(queue_tasks_deferred) = y /\ One(queue_tasks_unhandled) = z
                BY <2>6, <3>1, <3>2
            <4> HIDE DEF One
            <4>2. /\ Copies(queue_tasks', c) = 0 /\ Copies(queue_tasks_deferred', c) = 0
                  /\ Copies(queue_tasks_unhandled', c) = 0
                BY <2>1, <2>2, <2>3, <2>6, <3>2, <4>1
            <4> QED BY <4>2 DEF Queued
        <3>4. Placed(c)' = Placed(c) + Queued(c)
            <4>1. CASE x + y + z = 0
                <5>1. settled' = settled /\ active' = active
                    BY <1>4, <3>1, <3>2, <4>1 DEF PostCancel, CleanupPendingTask
                <5> QED BY <3>2, <4>1, <5>1 DEF Placed
            <4>2. CASE x + y + z = 1
                <5>1. settled' = settled \cup {c} /\ active' = active
                    BY <1>4, <3>1, <3>2, <4>2 DEF PostCancel, CleanupPendingTask
                <5>2. Placed(c) = 0
                    BY <1>c, <3>2, <4>2 DEF Due
                <5>3. c \notin settled /\ c \notin active
                    BY <5>2 DEF Placed
                <5> QED BY <3>2, <4>2, <5>1, <5>2, <5>3 DEF Placed
            <4> QED BY <3>2, <4>1, <4>2
        <3> HIDE DEF x, y, z
        <3> QED BY <1>c, <2>4, <2>6, <3>2, <3>3, <3>4
    <2> QED BY <2>5, <2>6
<1>5. CASE Terminate
    BY <1>5, NothingMoved DEF Terminate, mainVars, workerVars, Due
<1>6. CASE StartLoop
    BY <1>6, NothingMoved DEF StartLoop, envVars, Due
<1>7. CASE MainFetch
    <2>1. CASE mainTask' = mainTask /\ queue_tasks' = queue_tasks
        BY <1>7, <2>1, NothingMoved DEF MainFetch, envVars, Due, workerVars, queueVars
    <2>2. CASE queue_tasks # <<>> /\ mainTask' = Head(queue_tasks) /\ queue_tasks' = Tail(queue_tasks)
        <3> SUFFICES ASSUME NEW d \in Clients
                     PROVE  (Queued(d) + Hands(d) + Placed(d)) + Due(d)'
                            = (Queued(d) + Hands(d) + Placed(d))' + Due(d)
            BY <1>a, Balanced
        <3>1. Copies(queue_tasks, d) = Copies(queue_tasks', d) + InHand(mainTask', d)
              /\ Copies(queue_tasks', d) \in Nat /\ InHand(mainTask', d) \in Nat
            BY <1>b, <2>2, CopiesPopped, CopiesType, TailKeeps DEF InHand
        <3>2. InHand(mainTask, d) = 0
            BY <1>7, <1>a, InHandOf DEF MainFetch, Handshake
        <3>3. Queued(d) + Hands(d) = Queued(d)' + Hands(d)'
            BY <1>7, <1>d, <3>1, <3>2 DEF MainFetch, Queued, Hands, workerVars
        <3>4. Placed(d)' = Placed(d) /\ Due(d)' = Due(d)
            BY <1>7 DEF MainFetch, Placed, Due, slotVars, envVars
        <3> QED BY <3>3, <3>4
    <2> QED BY <1>7, <2>1, <2>2 DEF MainFetch
<1>8. CASE MainCallback
    <2> SUFFICES ASSUME NEW d \in Clients
                 PROVE  (Queued(d) + Hands(d) + Placed(d)) + Due(d)'
                        = (Queued(d) + Hands(d) + Placed(d))' + Due(d)
        BY <1>a, Balanced
    <2>1. /\ mainTask \in Task /\ queue_tasks_unhandled' = queue_tasks_unhandled
          /\ workerTask' = workerTask /\ mainTask' = NoTask /\ Due(d)' = Due(d)
        BY <1>8, <1>a, <1>b DEF MainCallback, EndCallback, Handshake, workerVars, envVars, Due
    <2>2. Hands(d) = InHand(mainTask, d) + Hands(d)' /\ Hands(d)' \in Nat
        BY <1>d, <2>1, InHandOf DEF Hands
    <2>3. mainTask.type \in Requests =>
              /\ mainTask.id \in Clients
              /\ InHand(mainTask, d) = IF mainTask.id = d THEN 1 ELSE 0
              /\ Placed(mainTask.id) = 0
        <3>1. mainTask.type \in Requests => mainTask.id \in Clients
            BY <2>1, TaskIds DEF Requests, ReadOnly
        <3>2. ASSUME mainTask.type \in Requests PROVE Placed(mainTask.id) = 0
            <4>1. InHand(mainTask, mainTask.id) = 1
                BY <2>1, <3>2, InHandOf
            <4>2. Hands(mainTask.id) >= 1
                BY <1>d, <4>1 DEF Hands
            <4>3. Queued(mainTask.id) + Hands(mainTask.id) + Placed(mainTask.id) <= 1
                BY <1>c, <3>1, <3>2 DEF Due
            <4> QED BY <1>c, <3>1, <3>2, <4>2, <4>3
        <3> QED BY <2>1, <3>1, <3>2, InHandOf
    <2>4. mainTask.type \notin Requests => InHand(mainTask, d) = 0
        BY InHandOf
    <2>5. ASSUME mainTask.type \in Requests, UNCHANGED <<queue_tasks, queue_tasks_deferred>>,
                 \/ settled' = settled \cup {mainTask.id} /\ active' = active
                 \/ settled' = settled /\ active' = active \cup {mainTask.id}
          PROVE  Queued(d)' = Queued(d) /\ Placed(d)' = Placed(d) + InHand(mainTask, d)
        <3>1. Queued(d)' = Queued(d)
            BY <2>1, <2>5 DEF Queued
        <3>2. mainTask.id \notin settled /\ mainTask.id \notin active
            BY <2>3, <2>5 DEF Placed
        <3> QED BY <2>3, <2>5, <3>1, <3>2 DEF Placed
    <2>6. CASE MainAnswer
        <3>1. Queued(d)' = Queued(d) /\ Placed(d)' = Placed(d) + InHand(mainTask, d)
            BY <2>5, <2>6 DEF MainAnswer, Requests
        <3> QED BY <1>c, <1>d, <2>1, <2>2, <3>1
    <2>7. CASE Launch
        <3>1. Queued(d)' = Queued(d) /\ Placed(d)' = Placed(d) + InHand(mainTask, d)
            BY <2>5, <2>7 DEF Launch, Requests
        <3> QED BY <1>c, <1>d, <2>1, <2>2, <3>1
    <2>8. CASE Defer
        <3>1. Copies(queue_tasks_deferred', d) = Copies(queue_tasks_deferred, d) + InHand(mainTask, d)
            BY <1>b, <2>1, <2>8, CopiesMoved DEF Defer
        <3>2. Queued(d)' = Queued(d) + InHand(mainTask, d)
            BY <1>d, <2>1, <2>8, <3>1 DEF Defer, Queued
        <3>3. Placed(d)' = Placed(d)
            BY <2>8 DEF Defer, Placed, slotVars
        <3> QED BY <1>c, <1>d, <2>1, <2>2, <3>2, <3>3
    <2>9. CASE HandleCancel
        <3>1. InHand(mainTask, d) = 0
            BY <2>4, <2>9 DEF HandleCancel, Requests, ReadOnly
        <3>2. CASE UNCHANGED <<queue_tasks, queue_tasks_deferred, slotVars>>
            <4>1. Queued(d)' = Queued(d) /\ Placed(d)' = Placed(d)
                BY <2>1, <3>2 DEF Queued, Placed, slotVars
            <4> QED BY <1>c, <2>1, <2>2, <3>1, <4>1
        <3>3. CASE mainTask.id \in active /\ Release(mainTask.id)
            <4>1. /\ Copies(queue_tasks', d) + Copies(queue_tasks_deferred', d)
                         = Copies(queue_tasks, d) + Copies(queue_tasks_deferred, d)
                  /\ Placed(d)' = Placed(d)
                BY <1>a, <1>b, <3>3, ReleaseConserves
            <4>2. Queued(d)' = Queued(d)
                BY <1>d, <2>1, <4>1 DEF Queued
            <4> QED BY <1>c, <2>1, <2>2, <3>1, <4>1, <4>2
        <3> QED BY <2>9, <3>2, <3>3 DEF HandleCancel
    <2>10. CASE HandleNextResponse
        <3>1. InHand(mainTask, d) = 0
            BY <2>4, <2>10 DEF HandleNextResponse, Requests, ReadOnly
        <3>2. Queued(d)' = Queued(d) /\ Placed(d)' = Placed(d)
            BY <2>1, <2>10 DEF HandleNextResponse, Queued, Placed, slotVars
        <3> QED BY <1>c, <2>1, <2>2, <3>1, <3>2
    <2> QED BY <1>8, <2>6, <2>7, <2>8, <2>9, <2>10 DEF MainCallback
<1>9. CASE UpdateSlots
    <2> SUFFICES ASSUME NEW d \in Clients
                 PROVE  (Queued(d) + Hands(d) + Placed(d)) + Due(d)'
                        = (Queued(d) + Hands(d) + Placed(d))' + Due(d)
        BY <1>a, Balanced
    <2>1. Copies(Append(queue_tasks, NextResponse), d) = Copies(queue_tasks, d) + InHand(NextResponse, d)
        BY <1>b, CopiesMoved, TasksTyped
    <2>2. Copies(queue_tasks', d) = Copies(queue_tasks, d)
        <3>1. InHand(NextResponse, d) = 0
            BY InHandOf
        <3> DEFINE q == Append(queue_tasks, NextResponse)
        <3>2. queue_tasks' = queue_tasks \/ queue_tasks' = q
            BY <1>9, Zenon DEF UpdateSlots
        <3>3. Copies(q, d) = Copies(queue_tasks, d) + InHand(NextResponse, d)
            BY <2>1
        <3> HIDE DEF q
        <3> QED BY <1>d, <3>1, <3>2, <3>3
    <2>3. Queued(d)' = Queued(d)
        BY <1>9, <2>2 DEF UpdateSlots, Queued
    <2>4. Hands(d)' = Hands(d) /\ Placed(d)' = Placed(d) /\ Due(d)' = Due(d)
        BY <1>9 DEF UpdateSlots, Hands, Placed, Due, workerVars, slotVars, envVars
    <2> QED BY <2>3, <2>4
<1>10. ASSUME NEW c \in Clients, FinishSlot(c) PROVE TaskConservation'
    <2> SUFFICES ASSUME NEW d \in Clients
                 PROVE  (Queued(d) + Hands(d) + Placed(d)) + Due(d)'
                        = (Queued(d) + Hands(d) + Placed(d))' + Due(d)
        BY <1>a, Balanced
    <2>1. c \in active /\ Release(c)
        BY <1>10 DEF FinishSlot
    <2>2. /\ Copies(queue_tasks', d) + Copies(queue_tasks_deferred', d)
                 = Copies(queue_tasks, d) + Copies(queue_tasks_deferred, d)
          /\ Placed(d)' = Placed(d)
        BY <1>a, <2>1, ReleaseConserves
    <2>3. Queued(d)' = Queued(d)
        BY <1>10, <1>d, <2>2 DEF FinishSlot, Queued
    <2>4. Hands(d)' = Hands(d) /\ Due(d)' = Due(d)
        BY <1>10 DEF FinishSlot, Hands, Due, mainVars, workerVars, envVars
    <2> QED BY <2>2, <2>3, <2>4
<1>11. CASE UpdateDone
    BY <1>11, NothingMoved DEF UpdateDone, workerVars, envVars, Due
<1>12. CASE YieldBegin
    BY <1>12, NothingMoved DEF YieldBegin, envVars, Due
<1>x. ASSUME UNCHANGED <<queue_tasks_deferred, mainTask, workerVars, slotVars, envVars>>,
             queue_tasks' = queue_tasks_unhandled \o queue_tasks, queue_tasks_unhandled' = <<>>
      PROVE  TaskConservation'
    <2> SUFFICES ASSUME NEW d \in Clients
                 PROVE  (Queued(d) + Hands(d) + Placed(d)) + Due(d)'
                        = (Queued(d) + Hands(d) + Placed(d))' + Due(d)
        BY <1>a, Balanced
    <2>1. Copies(queue_tasks', d) = Copies(queue_tasks_unhandled, d) + Copies(queue_tasks, d)
        BY <1>b, <1>x, CopiesConcat
    <2>2. Copies(queue_tasks_unhandled', d) = 0
        BY <1>x, CopiesNone
    <2>3. Queued(d)' = Queued(d)
        BY <1>d, <1>x, <2>1, <2>2 DEF Queued
    <2>4. Hands(d)' = Hands(d) /\ Placed(d)' = Placed(d) /\ Due(d)' = Due(d)
        BY <1>x DEF Hands, Placed, Due, workerVars, slotVars, envVars
    <2> QED BY <2>3, <2>4
<1>13. CASE YieldEnd
    <2>1. \/ /\ queue_tasks' = queue_tasks_unhandled \o queue_tasks
             /\ queue_tasks_unhandled' = <<>>
          \/ UNCHANGED <<queue_tasks, queue_tasks_unhandled>>
        BY <1>13 DEF YieldEnd, FinishYield
    <2>2. UNCHANGED <<queue_tasks_deferred, mainTask, workerVars, slotVars, envVars>>
        BY <1>13 DEF YieldEnd
    <2> QED BY <2>1, <2>2, <1>x, NothingMoved DEF queueVars, workerVars, envVars, Due
<1>14. CASE YieldAwait
    <2>1. \/ /\ queue_tasks' = queue_tasks_unhandled \o queue_tasks
             /\ queue_tasks_unhandled' = <<>>
          \/ UNCHANGED <<queue_tasks, queue_tasks_unhandled>>
        BY <1>14 DEF YieldAwait, FinishYield
    <2>2. UNCHANGED <<queue_tasks_deferred, mainTask, workerVars, slotVars, envVars>>
        BY <1>14 DEF YieldAwait
    <2> QED BY <2>1, <2>2, <1>x, NothingMoved DEF queueVars, workerVars, envVars, Due
<1>15. CASE WaitLoop
    BY <1>15, NothingMoved DEF WaitLoop, workerVars, envVars, Due
<1>16. CASE IdleWake
    BY <1>16, NothingMoved DEF IdleWake, workerVars, envVars, Due
<1>17. CASE SleepWake
    BY <1>17, NothingMoved DEF SleepWake, workerVars, envVars, Due
<1>18. CASE StopWorker
    BY <1>18, NothingMoved DEF StopWorker, envVars, Due
<1>19. CASE JoinWorker
    BY <1>19, NothingMoved DEF JoinWorker, workerVars, envVars, Due
<1>20. CASE WorkerIdle
    BY <1>20, NothingMoved DEF WorkerIdle, mainVars, envVars, Due
<1>21. CASE WorkerFetch
    <2>1. CASE workerTask' = workerTask /\ queue_tasks' = queue_tasks
        BY <1>21, <2>1, NothingMoved DEF WorkerFetch, envVars, Due, mainVars, queueVars
    <2>2. CASE queue_tasks # <<>> /\ workerTask' = Head(queue_tasks) /\ queue_tasks' = Tail(queue_tasks)
        <3> SUFFICES ASSUME NEW d \in Clients
                     PROVE  (Queued(d) + Hands(d) + Placed(d)) + Due(d)'
                            = (Queued(d) + Hands(d) + Placed(d))' + Due(d)
            BY <1>a, Balanced
        <3>1. Copies(queue_tasks, d) = Copies(queue_tasks', d) + InHand(workerTask', d)
              /\ Copies(queue_tasks', d) \in Nat /\ InHand(workerTask', d) \in Nat
            BY <1>b, <2>2, CopiesPopped, CopiesType, TailKeeps DEF InHand
        <3>2. InHand(workerTask, d) = 0
            BY <1>21, <1>a, InHandOf DEF WorkerFetch, Handshake
        <3>3. Queued(d) + Hands(d) = Queued(d)' + Hands(d)'
            BY <1>21, <1>d, <3>1, <3>2 DEF WorkerFetch, Queued, Hands, mainVars
        <3>4. Placed(d)' = Placed(d) /\ Due(d)' = Due(d)
            BY <1>21 DEF WorkerFetch, Placed, Due, slotVars, envVars
        <3> QED BY <3>3, <3>4
    <2> QED BY <1>21, <2>1, <2>2 DEF WorkerFetch
<1>22. CASE WorkerCallback
    <2> SUFFICES ASSUME NEW d \in Clients
                 PROVE  (Queued(d) + Hands(d) + Placed(d)) + Due(d)'
                        = (Queued(d) + Hands(d) + Placed(d))' + Due(d)
        BY <1>a, Balanced
    <2>1. /\ workerTask \in Task /\ workerTask' = NoTask /\ mainTask' = mainTask
          /\ UNCHANGED <<queue_tasks, queue_tasks_deferred, active>> /\ Due(d)' = Due(d)
        BY <1>22, <1>a, <1>b DEF WorkerCallback, Handshake, mainVars, envVars, Due
    <2>2. Hands(d) = InHand(workerTask, d) + Hands(d)' /\ Hands(d)' \in Nat
        BY <1>d, <2>1, InHandOf DEF Hands
    <2>3. CASE workerTask.type \in ReadOnly
        <3>1. workerTask.type \in Requests /\ workerTask.id \in Clients
            BY <2>1, <2>3, TaskIds DEF Requests, ReadOnly
        <3>2. InHand(workerTask, d) = IF workerTask.id = d THEN 1 ELSE 0
            BY <2>1, <3>1, InHandOf
        <3>3. Placed(workerTask.id) = 0
            <4>1. InHand(workerTask, workerTask.id) = 1
                BY <2>1, <3>1, InHandOf
            <4>2. Hands(workerTask.id) >= 1
                BY <1>d, <4>1 DEF Hands
            <4>3. Queued(workerTask.id) + Hands(workerTask.id) + Placed(workerTask.id) <= 1
                BY <1>c, <3>1 DEF Due
            <4> QED BY <1>c, <3>1, <4>2, <4>3
        <3>4. settled' = settled \cup {workerTask.id} /\ workerTask.id \notin settled
              /\ queue_tasks_unhandled' = queue_tasks_unhandled
            BY <1>22, <2>3, <3>3 DEF WorkerCallback, Placed
        <3>5. Placed(d)' = Placed(d) + InHand(workerTask, d)
            BY <2>1, <3>2, <3>3, <3>4 DEF Placed
        <3>6. Queued(d)' = Queued(d)
            BY <2>1, <3>4 DEF Queued
        <3> QED BY <1>c, <1>d, <2>1, <2>2, <3>5, <3>6
    <2>4. CASE workerTask.type \notin ReadOnly
        <3>1. queue_tasks_unhandled' = Append(queue_tasks_unhandled, workerTask) /\ settled' = settled
            BY <1>22, <2>4 DEF WorkerCallback
        <3>2. Copies(queue_tasks_unhandled', d) = Copies(queue_tasks_unhandled, d) + InHand(workerTask, d)
            BY <1>b, <2>1, <3>1, CopiesMoved
        <3>3. Queued(d)' = Queued(d) + InHand(workerTask, d)
            BY <1>d, <2>1, <3>2 DEF Queued
        <3>4. Placed(d)' = Placed(d)
            BY <2>1, <3>1 DEF Placed
        <3> QED BY <1>c, <1>d, <2>1, <2>2, <3>3, <3>4
    <2> QED BY <2>3, <2>4
<1>23. CASE WorkerCheck
    BY <1>23, NothingMoved DEF WorkerCheck, mainVars, envVars, Due
<1>24. CASE WorkerWake
    BY <1>24, NothingMoved DEF WorkerWake, mainVars, envVars, Due
<1>25. CASE WorkerLeave
    BY <1>25, NothingMoved DEF WorkerLeave, mainVars, envVars, Due
<1>26. CASE UNCHANGED vars
    BY <1>26, NothingMoved DEF vars, mainVars, workerVars, envVars, Due
<1> QED
    BY <1>1, <1>2, <1>3, <1>4, <1>5, <1>6, <1>7, <1>8, <1>9, <1>10, <1>11, <1>12, <1>13, <1>14,
       <1>15, <1>16, <1>17, <1>18, <1>19, <1>20, <1>21, <1>22, <1>23, <1>24, <1>25, <1>26
    DEF Next, MainStep, WorkerStep, Client, Disconnect, GiveUpMetrics

-----------------------------------------------------------------------------
(* The order of the tasks.                                                  *)

\* Positions of a deque instead of its domain.
LEMMA HoldsAt ==
    ASSUME NEW s \in Seq(Task), NEW c
    PROVE  Holds(s, c) <=> \E i \in 1 .. Len(s) : IsTaskOf(s[i], c)
<1>1. DOMAIN s = 1 .. Len(s)
    OBVIOUS
<1> QED BY <1>1, Zenon DEF Holds

LEMMA BeforeAt ==
    ASSUME NEW s \in Seq(Task), NEW c, NEW d
    PROVE  Before(s, c, d) <=>
              \E i, j \in 1 .. Len(s) : i < j /\ IsTaskOf(s[i], c) /\ IsTaskOf(s[j], d)
<1>1. DOMAIN s = 1 .. Len(s)
    OBVIOUS
<1> QED BY <1>1, Zenon DEF Before

\* Who is in two deques put together, and before whom.
LEMMA OrderConcat ==
    ASSUME NEW s \in Seq(Task), NEW t \in Seq(Task), NEW c, NEW d
    PROVE  /\ Holds(s \o t, c) <=> Holds(s, c) \/ Holds(t, c)
           /\ Before(s \o t, c, d) <=>
                 Before(s, c, d) \/ Before(t, c, d) \/ (Holds(s, c) /\ Holds(t, d))
<1>1. PICK u \in Seq(Task) : u = s \o t
    <2>1. s \o t \in Seq(Task)
        OBVIOUS
    <2> QED BY <2>1, Zenon
<1>2. PICK n \in Nat, m \in Nat : n = Len(s) /\ m = Len(t)
    OBVIOUS
<1>3. Len(u) = n + m
    BY <1>1, <1>2
<1>4. \A i \in 1 .. n : i \in 1 .. Len(u) /\ u[i] = s[i]
    BY <1>1, <1>2
<1>5. \A j \in 1 .. m : j + n \in 1 .. Len(u) /\ u[j + n] = t[j]
    <2> SUFFICES ASSUME NEW j \in 1 .. m PROVE j + n \in 1 .. Len(u) /\ u[j + n] = t[j]
        OBVIOUS
    <2>1. j + n \in 1 .. Len(u) /\ j + n > n /\ (j + n) - n = j
        BY <1>3
    <2>2. (s \o t)[j + n] = t[(j + n) - n]
        BY <1>2, <1>3, <2>1
    <2> QED BY <1>1, <2>1, <2>2, Zenon
<1>6. \A i \in 1 .. Len(u) : i \in 1 .. n \/ \E j \in 1 .. m : i = j + n
    <2> SUFFICES ASSUME NEW i \in 1 .. Len(u), i \notin 1 .. n
                 PROVE  \E j \in 1 .. m : i = j + n
        OBVIOUS
    <2>1. i - n \in 1 .. m /\ i = (i - n) + n
        BY <1>3
    <2> QED BY <2>1
<1>7. /\ \A e : Holds(u, e) <=> \E i \in 1 .. Len(u) : IsTaskOf(u[i], e)
      /\ \A e : Holds(s, e) <=> \E i \in 1 .. n : IsTaskOf(s[i], e)
      /\ \A e : Holds(t, e) <=> \E i \in 1 .. m : IsTaskOf(t[i], e)
    BY <1>2, HoldsAt, Zenon
<1>8. /\ Before(u, c, d) <=>
            \E i, j \in 1 .. Len(u) : i < j /\ IsTaskOf(u[i], c) /\ IsTaskOf(u[j], d)
      /\ Before(s, c, d) <=>
            \E i, j \in 1 .. n : i < j /\ IsTaskOf(s[i], c) /\ IsTaskOf(s[j], d)
      /\ Before(t, c, d) <=>
            \E i, j \in 1 .. m : i < j /\ IsTaskOf(t[i], c) /\ IsTaskOf(t[j], d)
    BY <1>2, BeforeAt, Zenon
<1>9. Holds(u, c) <=> Holds(s, c) \/ Holds(t, c)
    <2>1. Holds(s, c) => Holds(u, c)
        BY <1>4, <1>7, Zenon
    <2>2. Holds(t, c) => Holds(u, c)
        BY <1>5, <1>7, Zenon
    <2>3. ASSUME Holds(u, c) PROVE Holds(s, c) \/ Holds(t, c)
        <3>1. PICK i \in 1 .. Len(u) : IsTaskOf(u[i], c)
            BY <1>7, <2>3, Zenon
        <3>2. CASE i \in 1 .. n
            BY <1>4, <1>7, <3>1, <3>2, Zenon
        <3>3. CASE \E j \in 1 .. m : i = j + n
            BY <1>5, <1>7, <3>1, <3>3, Zenon
        <3> QED BY <1>6, <3>2, <3>3
    <2> QED BY <2>1, <2>2, <2>3
<1>10. Before(s, c, d) => Before(u, c, d)
    BY <1>4, <1>8, Zenon
<1>11. ASSUME Before(t, c, d) PROVE Before(u, c, d)
    <2>1. PICK i \in 1 .. m, j \in 1 .. m : i < j /\ IsTaskOf(t[i], c) /\ IsTaskOf(t[j], d)
        BY <1>8, <1>11, Zenon
    <2>2. i + n < j + n
        BY <2>1
    <2> QED BY <1>5, <1>8, <2>1, <2>2, Zenon
<1>12. ASSUME Holds(s, c), Holds(t, d) PROVE Before(u, c, d)
    <2>1. PICK i \in 1 .. n : IsTaskOf(s[i], c)
        BY <1>7, <1>12, Zenon
    <2>2. PICK j \in 1 .. m : IsTaskOf(t[j], d)
        BY <1>7, <1>12, Zenon
    <2>3. i < j + n
        OBVIOUS
    <2> QED BY <1>4, <1>5, <1>8, <2>1, <2>2, <2>3, Zenon
<1>13. ASSUME Before(u, c, d)
       PROVE  Before(s, c, d) \/ Before(t, c, d) \/ (Holds(s, c) /\ Holds(t, d))
    <2>1. PICK i \in 1 .. Len(u), j \in 1 .. Len(u) : i < j /\ IsTaskOf(u[i], c) /\ IsTaskOf(u[j], d)
        BY <1>8, <1>13, Zenon
    <2>2. CASE j \in 1 .. n
        <3>1. i \in 1 .. n
            BY <2>1, <2>2
        <3>2. IsTaskOf(s[i], c) /\ IsTaskOf(s[j], d)
            BY <1>4, <2>1, <2>2, <3>1, Zenon
        <3> QED BY <1>8, <2>1, <2>2, <3>1, <3>2, Zenon
    <2>3. CASE i \in 1 .. n /\ \E k \in 1 .. m : j = k + n
        <3>1. Holds(s, c)
            BY <1>4, <1>7, <2>1, <2>3, Zenon
        <3>2. Holds(t, d)
            BY <1>5, <1>7, <2>1, <2>3, Zenon
        <3> QED BY <3>1, <3>2
    <2>4. CASE (\E k \in 1 .. m : i = k + n) /\ (\E k \in 1 .. m : j = k + n)
        <3>1. PICK k \in 1 .. m, l \in 1 .. m : i = k + n /\ j = l + n
            BY <2>4, Zenon
        <3>2. k < l
            BY <2>1, <3>1
        <3>3. IsTaskOf(t[k], c) /\ IsTaskOf(t[l], d)
            BY <1>5, <2>1, <3>1, Zenon
        <3> QED BY <1>8, <3>2, <3>3, Zenon
    <2> QED BY <1>6, <2>2, <2>3, <2>4, Zenon
<1> QED BY <1>1, <1>9, <1>10, <1>11, <1>12, <1>13, Zenon

LEMMA OrderOne ==
    /\ \A c, d : ~Holds(<<>>, c) /\ ~Before(<<>>, c, d)
    /\ \A t, c, d : (Holds(<<t>>, c) <=> IsTaskOf(t, c)) /\ ~Before(<<t>>, c, d)
    /\ \A s, c, d : Before(s, c, d) => Holds(s, c) /\ Holds(s, d)
    BY DEF Holds, Before

\* push_back, push_front and pop_front.
LEMMA OrderMoved ==
    ASSUME NEW s \in Seq(Task), NEW t \in Task, NEW c, NEW d
    PROVE  /\ Holds(Append(s, t), c) <=> Holds(s, c) \/ IsTaskOf(t, c)
           /\ Holds(PushFront(s, t), c) <=> Holds(s, c) \/ IsTaskOf(t, c)
           /\ Before(Append(s, t), c, d) <=> Before(s, c, d) \/ (Holds(s, c) /\ IsTaskOf(t, d))
           /\ Before(PushFront(s, t), c, d) <=> Before(s, c, d) \/ (IsTaskOf(t, c) /\ Holds(s, d))
<1>1. PICK o \in Seq(Task) : o = <<t>>
    <2>1. <<t>> \in Seq(Task)
        OBVIOUS
    <2> QED BY <2>1, Zenon
<1>2. Append(s, t) = s \o o /\ PushFront(s, t) = o \o s
    BY <1>1, AppendIsConcat DEF PushFront
<1>3. /\ \A e : Holds(o, e) <=> IsTaskOf(t, e)
      /\ ~Before(o, c, d)
    BY <1>1, OrderOne
<1>4. /\ Holds(s \o o, c) <=> Holds(s, c) \/ Holds(o, c)
      /\ Before(s \o o, c, d) <=> Before(s, c, d) \/ Before(o, c, d) \/ (Holds(s, c) /\ Holds(o, d))
    BY OrderConcat
<1>5. /\ Holds(o \o s, c) <=> Holds(o, c) \/ Holds(s, c)
      /\ Before(o \o s, c, d) <=> Before(o, c, d) \/ Before(s, c, d) \/ (Holds(o, c) /\ Holds(s, d))
    BY OrderConcat
<1> QED BY <1>2, <1>3, <1>4, <1>5, Zenon

LEMMA OrderPopped ==
    ASSUME NEW s \in Seq(Task), s # <<>>, NEW c, NEW d
    PROVE  /\ Holds(s, c) <=> Holds(Tail(s), c) \/ IsTaskOf(Head(s), c)
           /\ Before(s, c, d) <=> Before(Tail(s), c, d) \/ (IsTaskOf(Head(s), c) /\ Holds(Tail(s), d))
<1>1. Head(s) \in Task /\ Tail(s) \in Seq(Task)
    BY TailKeeps
<1>2. s = PushFront(Tail(s), Head(s))
    <2>1. <<Head(s)>> \o Tail(s) \in Seq(Task) /\ Len(<<Head(s)>> \o Tail(s)) = Len(s)
          /\ \A i \in 1 .. Len(s) : (<<Head(s)>> \o Tail(s))[i] = s[i]
        OBVIOUS
    <2> QED BY <2>1, SeqEqual DEF PushFront
<1>3. PICK h \in Task, r \in Seq(Task) : h = Head(s) /\ r = Tail(s)
    BY <1>1
<1>4. /\ Holds(PushFront(r, h), c) <=> Holds(r, c) \/ IsTaskOf(h, c)
      /\ Before(PushFront(r, h), c, d) <=> Before(r, c, d) \/ (IsTaskOf(h, c) /\ Holds(r, d))
    BY OrderMoved
<1>5. s = PushFront(r, h)
    BY <1>2, <1>3, Zenon
<1> QED BY <1>3, <1>4, <1>5, Zenon

\* cleanup_pending_task leaves the others in their order.
LEMMA OrderErased ==
    ASSUME NEW s \in Seq(Task), NEW e, NEW c, c # e, NEW d, d # e
    PROVE  /\ Holds(Erase(s, e), c) <=> Holds(s, c)
           /\ Before(Erase(s, e), c, d) <=> Before(s, c, d)
<1>1. CASE ~Holds(s, e)
    BY <1>1 DEF Holds, Erase
<1>2. CASE Holds(s, e)
    <2>1. PICK a, b \in Seq(Task), t \in Task :
             s = (a \o <<t>>) \o b /\ Erase(s, e) = a \o b /\ IsTaskOf(t, e)
        BY <1>2, EraseSplits
    <2>2. PICK u \in Seq(Task) : u = Append(a, t)
        <3>1. Append(a, t) \in Seq(Task)
            OBVIOUS
        <3> QED BY <3>1, Zenon
    <2>3. s = u \o b
        BY <2>1, <2>2, AppendIsConcat
    <2>4. ~IsTaskOf(t, c) /\ ~IsTaskOf(t, d)
        BY <2>1 DEF IsTaskOf
    <2>5. (Holds(u, c) <=> Holds(a, c)) /\ (Before(u, c, d) <=> Before(a, c, d))
        <3>1. /\ Holds(Append(a, t), c) <=> Holds(a, c) \/ IsTaskOf(t, c)
              /\ Before(Append(a, t), c, d) <=> Before(a, c, d) \/ (Holds(a, c) /\ IsTaskOf(t, d))
            BY OrderMoved
        <3> QED BY <2>2, <2>4, <3>1, Zenon
    <2>6. /\ Holds(u \o b, c) <=> Holds(u, c) \/ Holds(b, c)
          /\ Before(u \o b, c, d) <=> Before(u, c, d) \/ Before(b, c, d) \/ (Holds(u, c) /\ Holds(b, d))
        BY OrderConcat
    <2>7. /\ Holds(a \o b, c) <=> Holds(a, c) \/ Holds(b, c)
          /\ Before(a \o b, c, d) <=> Before(a, c, d) \/ Before(b, c, d) \/ (Holds(a, c) /\ Holds(b, d))
        BY OrderConcat
    <2> QED BY <2>1, <2>3, <2>5, <2>6, <2>7, Zenon
<1> QED BY <1>1, <1>2

\* With one copy of a task there is nothing before itself.
LEMMA OneCopy ==
    ASSUME NEW s \in Seq(Task), NEW c, Copies(s, c) <= 1
    PROVE  ~Before(s, c, c)
<1> SUFFICES ASSUME Before(s, c, c) PROVE FALSE
    OBVIOUS
<1>1. PICK i \in 1 .. Len(s), j \in 1 .. Len(s) : i < j /\ IsTaskOf(s[i], c) /\ IsTaskOf(s[j], c)
    BY BeforeAt, Zenon
<1>2. i \in Places(s, c) /\ j \in Places(s, c) /\ i # j
    BY <1>1 DEF Places
<1>3. IsFiniteSet(Places(s, c)) /\ Cardinality(Places(s, c)) \in Nat
      /\ Cardinality(Places(s, c)) <= 1
    BY CopiesType
<1>4. Cardinality(Places(s, c)) = 0 \/ Cardinality(Places(s, c)) = 1
    BY <1>3
<1>5. Places(s, c) = {} \/ \E x : Places(s, c) = {x}
    BY <1>3, <1>4, FS_EmptySet, FS_Singleton, Zenon
<1>6. Places(s, c) # {}
    BY <1>2
<1>7. PICK x : Places(s, c) = {x}
    BY <1>5, <1>6
<1> QED BY <1>2, <1>7

\* The line, part by part: set aside, in the worker's hands, queued.
Holding(c) == workerTask # NoTask /\ IsTaskOf(workerTask, c)
InLine(c) == Holds(queue_tasks_unhandled, c) \/ Holding(c) \/ Holds(queue_tasks, c)
Ahead(c, d) == \/ Before(queue_tasks_unhandled, c, d)
               \/ Before(queue_tasks, c, d)
               \/ Holds(queue_tasks_unhandled, c) /\ (Holding(d) \/ Holds(queue_tasks, d))
               \/ Holding(c) /\ Holds(queue_tasks, d)
Parts == /\ \A c \in Clients : Holds(Line, c) <=> InLine(c)
         /\ \A c, d \in Clients : Before(Line, c, d) <=> Ahead(c, d)

LEMMA PartsOfLine == TypeOK => Parts
<1> SUFFICES ASSUME TypeOK, NEW c \in Clients, NEW d \in Clients
             PROVE  (Holds(Line, c) <=> InLine(c)) /\ (Before(Line, c, d) <=> Ahead(c, d))
    BY Zenon DEF Parts
<1>1. PICK u \in Seq(Task), q \in Seq(Task) : u = queue_tasks_unhandled /\ q = queue_tasks
    BY DEF TypeOK, DataTypes
<1>2. PICK w \in Seq(Task) : w = IF workerTask = NoTask THEN <<>> ELSE <<workerTask>>
    <2>1. workerTask # NoTask => <<workerTask>> \in Seq(Task)
        BY DEF TypeOK, DataTypes
    <2>2. <<>> \in Seq(Task)
        OBVIOUS
    <2> QED BY <2>1, <2>2, Zenon
<1>3. (Holds(w, c) <=> Holding(c)) /\ (Holds(w, d) <=> Holding(d)) /\ ~Before(w, c, d)
    <2>1. CASE workerTask = NoTask
        BY <1>2, <2>1, OrderOne, Zenon DEF Holding
    <2>2. CASE workerTask # NoTask
        BY <1>2, <2>2, OrderOne, Zenon DEF Holding
    <2> QED BY <2>1, <2>2
<1>4. PICK v \in Seq(Task) : v = u \o w
    <2>1. u \o w \in Seq(Task)
        OBVIOUS
    <2> QED BY <2>1, Zenon
<1>5. /\ Holds(u \o w, c) <=> Holds(u, c) \/ Holds(w, c)
      /\ Before(u \o w, c, d) <=> Before(u, c, d) \/ Before(w, c, d) \/ (Holds(u, c) /\ Holds(w, d))
    BY OrderConcat
<1>6. /\ Holds(v \o q, c) <=> Holds(v, c) \/ Holds(q, c)
      /\ Before(v \o q, c, d) <=> Before(v, c, d) \/ Before(q, c, d) \/ (Holds(v, c) /\ Holds(q, d))
    BY OrderConcat
<1>7. Line = v \o q
    BY <1>1, <1>2, <1>4, Zenon DEF Line
<1>8. Holds(Line, c) <=> Holds(u, c) \/ Holding(c) \/ Holds(q, c)
    BY <1>3, <1>4, <1>5, <1>6, <1>7, Zenon
<1>9. Before(Line, c, d) <=> \/ Before(u, c, d) \/ Before(q, c, d)
                             \/ Holds(u, c) /\ (Holding(d) \/ Holds(q, d))
                             \/ Holding(c) /\ Holds(q, d)
    BY <1>3, <1>4, <1>5, <1>6, <1>7, Zenon
<1> QED BY <1>1, <1>8, <1>9, Zenon DEF InLine, Ahead

LEMMA PartsNext == TypeOK' => Parts'
    BY PartsOfLine, PTL

\* A waiting request is in one part of the line, once.
Once(c) ==
    /\ Copies(queue_tasks, c) <= 1 /\ Copies(queue_tasks_unhandled, c) <= 1
    /\ ~Before(queue_tasks_unhandled, c, c) /\ ~Before(queue_tasks, c, c)
    /\ ~(Holds(queue_tasks_unhandled, c) /\ Holding(c))
    /\ ~(Holds(queue_tasks_unhandled, c) /\ Holds(queue_tasks, c))
    /\ ~(Holding(c) /\ Holds(queue_tasks, c))

LEMMA OnceInLine ==
    ASSUME TypeOK, TaskConservation, NEW c \in Clients
    PROVE  Once(c)
<1>1. queue_tasks \in Seq(Task) /\ queue_tasks_unhandled \in Seq(Task)
      /\ queue_tasks_deferred \in Seq(Task)
    BY DEF TypeOK, DataTypes
<1>2. PICK q \in Nat, u \in Nat, d \in Nat :
         /\ q = Copies(queue_tasks, c) /\ u = Copies(queue_tasks_unhandled, c)
         /\ d = Copies(queue_tasks_deferred, c)
    BY <1>1, CopiesType
<1>3. PICK w \in {0, 1}, m \in {0, 1} : w = InHand(workerTask, c) /\ m = InHand(mainTask, c)
    BY DEF InHand
<1>4. Queued(c) + Hands(c) + Placed(c) = Due(c)
    BY Tally DEF Counts
<1>5. PICK p \in Nat, k \in {0, 1} : p = Placed(c) /\ k = Due(c)
    BY DEF Placed, Due
<1>6. ((q + d) + u) + (m + w) + p = k
    BY <1>2, <1>3, <1>4, <1>5, Zenon DEF Queued, Hands
<1>7. q + u + w <= 1
    BY <1>6
<1>8. /\ Holds(queue_tasks, c) <=> q # 0
      /\ Holds(queue_tasks_unhandled, c) <=> u # 0
    BY <1>1, <1>2, CopiesType
<1>9. Holding(c) <=> w = 1
    BY <1>3 DEF Holding, InHand
<1>10. Copies(queue_tasks, c) <= 1 /\ Copies(queue_tasks_unhandled, c) <= 1
    BY <1>2, <1>7
<1>11. ~Before(queue_tasks_unhandled, c, c) /\ ~Before(queue_tasks, c, c)
    BY <1>1, <1>10, OneCopy
<1>12. ~(u # 0 /\ w = 1) /\ ~(u # 0 /\ q # 0) /\ ~(w = 1 /\ q # 0)
    BY <1>7
<1> QED BY <1>8, <1>9, <1>10, <1>11, <1>12, Zenon DEF Once

\* What a step does to two waiting requests.
InOrder(c, d) == Ahead(c, d) /\ InLine(c)' /\ InLine(d)' => Ahead(c, d)'

\* Steps that put a task at an end of queue_tasks, or leave the line alone.
LEMMA Joins ==
    ASSUME UNCHANGED <<queue_tasks_unhandled, workerTask>>, NEW c, NEW d,
           Holds(queue_tasks, c) => Holds(queue_tasks', c),
           Holds(queue_tasks, d) => Holds(queue_tasks', d),
           Before(queue_tasks, c, d) => Before(queue_tasks', c, d)
    PROVE  InOrder(c, d)
    BY Zenon DEF InOrder, Ahead, Holding

LEMMA NobodyMoves ==
    ASSUME UNCHANGED <<queue_tasks_unhandled, workerTask, queue_tasks>>, NEW c, NEW d
    PROVE  InOrder(c, d)
    BY Zenon DEF InOrder, Ahead, Holding

LEMMA Added ==
    ASSUME DataTypes, UNCHANGED <<queue_tasks_unhandled, workerTask>>, NEW c, NEW d,
           NEW t \in Task,
           queue_tasks' = Append(queue_tasks, t) \/ queue_tasks' = PushFront(queue_tasks, t)
    PROVE  InOrder(c, d)
<1>1. PICK q \in Seq(Task) : q = queue_tasks
    BY DEF DataTypes
<1>2. \A e : /\ Holds(Append(q, t), e) <=> Holds(q, e) \/ IsTaskOf(t, e)
             /\ Holds(PushFront(q, t), e) <=> Holds(q, e) \/ IsTaskOf(t, e)
    BY OrderMoved
<1>3. /\ Before(Append(q, t), c, d) <=> Before(q, c, d) \/ (Holds(q, c) /\ IsTaskOf(t, d))
      /\ Before(PushFront(q, t), c, d) <=> Before(q, c, d) \/ (IsTaskOf(t, c) /\ Holds(q, d))
    BY OrderMoved
<1>4. /\ Holds(queue_tasks, c) => Holds(queue_tasks', c)
      /\ Holds(queue_tasks, d) => Holds(queue_tasks', d)
      /\ Before(queue_tasks, c, d) => Before(queue_tasks', c, d)
    BY <1>1, <1>2, <1>3, Zenon
<1> QED BY <1>4, Joins

\* A deferred task that pop_deferred_task brings back goes before all the others.
LEMMA PoppedBack ==
    ASSUME DataTypes, UNCHANGED <<queue_tasks_unhandled, workerTask>>, PopDeferredTask,
           NEW c, NEW d
    PROVE  InOrder(c, d)
<1>1. CASE queue_tasks_deferred = <<>>
    <2>1. UNCHANGED queue_tasks
        BY <1>1 DEF PopDeferredTask
    <2> QED BY <2>1, NobodyMoves
<1>2. CASE queue_tasks_deferred # <<>>
    <2>1. queue_tasks' = PushFront(queue_tasks, Head(queue_tasks_deferred))
        BY <1>2 DEF PopDeferredTask
    <2>2. Head(queue_tasks_deferred) \in Task
        BY <1>2, TailKeeps DEF DataTypes
    <2> QED BY <2>1, <2>2, Added
<1> QED BY <1>1, <1>2

\* The declined tasks go back in front of the queue; the worker holds none.
LEMMA PutBack ==
    ASSUME DataTypes, workerTask = NoTask, UNCHANGED workerTask, NEW c, NEW d,
           queue_tasks' = queue_tasks_unhandled \o queue_tasks, queue_tasks_unhandled' = <<>>
    PROVE  InOrder(c, d)
<1>1. PICK u \in Seq(Task), q \in Seq(Task) : u = queue_tasks_unhandled /\ q = queue_tasks
    BY DEF DataTypes
<1>2. Before(u \o q, c, d) <=> Before(u, c, d) \/ Before(q, c, d) \/ (Holds(u, c) /\ Holds(q, d))
    BY OrderConcat
<1>3. ~Holding(c) /\ ~Holding(d)
    BY DEF Holding
<1>4. Before(queue_tasks', c, d) <=> \/ Before(queue_tasks_unhandled, c, d) \/ Before(queue_tasks, c, d)
                                     \/ Holds(queue_tasks_unhandled, c) /\ Holds(queue_tasks, d)
    BY <1>1, <1>2, Zenon
<1> QED BY <1>3, <1>4, Zenon DEF InOrder, Ahead

\* What pop_front leaves: the head was before all the others.
LEMMA FrontTaken ==
    ASSUME DataTypes, queue_tasks # <<>>, queue_tasks' = Tail(queue_tasks), NEW c, NEW d
    PROVE  \E h \in Task :
              /\ h = Head(queue_tasks)
              /\ Holds(queue_tasks, c) <=> Holds(queue_tasks', c) \/ IsTaskOf(h, c)
              /\ Holds(queue_tasks, d) <=> Holds(queue_tasks', d) \/ IsTaskOf(h, d)
              /\ Before(queue_tasks, c, d) <=>
                    Before(queue_tasks', c, d) \/ (IsTaskOf(h, c) /\ Holds(queue_tasks', d))
              /\ Before(queue_tasks, c, c) <=>
                    Before(queue_tasks', c, c) \/ (IsTaskOf(h, c) /\ Holds(queue_tasks', c))
<1>1. PICK q \in Seq(Task) : q = queue_tasks /\ q # <<>>
    BY DEF DataTypes
<1>2. Head(q) \in Task
    BY <1>1, TailKeeps
<1>3. \A e : Holds(q, e) <=> Holds(Tail(q), e) \/ IsTaskOf(Head(q), e)
    BY <1>1, OrderPopped
<1>4. \A e : Before(q, c, e) <=> Before(Tail(q), c, e) \/ (IsTaskOf(Head(q), c) /\ Holds(Tail(q), e))
    BY <1>1, OrderPopped
<1> QED BY <1>1, <1>2, <1>3, <1>4, Zenon

\* No step lets a waiting request overtake another.
LEMMA OrderStep ==
    ASSUME IInv, TaskConservation, [Next]_vars, NEW c \in Clients, NEW d \in Clients
    PROVE  InOrder(c, d)
<1>a. TypeOK /\ DataTypes /\ Handshake
    BY DEF IInv, TypeOK
<1>b. Once(c) /\ Once(d)
    BY <1>a, OnceInLine
<1>1. ASSUME NEW e \in Clients, CheckAwake(e) \/ WakeClient(e) PROVE InOrder(c, d)
    BY <1>1, NobodyMoves, Zenon DEF CheckAwake, WakeClient, queueVars, workerVars
<1>2. ASSUME NEW e \in Clients, Post(e) PROVE InOrder(c, d)
    <2>1. UNCHANGED <<queue_tasks_unhandled, workerTask>>
        BY <1>2 DEF Post, workerVars
    <2>2. \/ queue_tasks' = Append(queue_tasks, TaskOf(e))
          \/ queue_tasks' = PushFront(queue_tasks, TaskOf(e))
        BY <1>2 DEF Post
    <2>3. TaskOf(e) \in Task
        BY TasksTyped
    <2> QED BY <1>a, <2>1, <2>2, <2>3, Added
<1>3. ASSUME NEW e \in Clients, PostCancel(e) PROVE InOrder(c, d)
    <2>1. PICK u \in Seq(Task), q \in Seq(Task) : u = queue_tasks_unhandled /\ q = queue_tasks
        BY <1>a DEF DataTypes
    <2>2. /\ queue_tasks_unhandled' = Erase(u, e)
          /\ queue_tasks' = PushFront(Erase(q, e), CancelOf(e))
          /\ UNCHANGED workerTask
        BY <1>3, <2>1 DEF PostCancel, CleanupPendingTask, workerVars
    <2>3. Erase(q, e) \in Seq(Task) /\ Erase(u, e) \in Seq(Task) /\ CancelOf(e) \in Task
        BY EraseType, TasksTyped
    <2>4. PICK r \in Seq(Task), v \in Seq(Task), t \in Task :
             r = Erase(q, e) /\ v = Erase(u, e) /\ t = CancelOf(e)
        BY <2>3, Zenon
    <2>5. \A x : ~IsTaskOf(t, x)
        BY <2>4 DEF IsTaskOf, CancelOf, Requests, ReadOnly
    <2>6. \A x : Holds(PushFront(r, t), x) <=> Holds(r, x) \/ IsTaskOf(t, x)
        BY OrderMoved
    <2>7. Before(PushFront(r, t), c, d) <=> Before(r, c, d) \/ (IsTaskOf(t, c) /\ Holds(r, d))
        BY OrderMoved
    <2>8. queue_tasks' = PushFront(r, t)
        BY <2>2, <2>4, Zenon
    <2>9. /\ \A x : Holds(queue_tasks', x) <=> Holds(r, x)
          /\ Before(queue_tasks', c, d) <=> Before(r, c, d)
        BY <2>5, <2>6, <2>7, <2>8, Zenon
    <2>10. CASE c # e /\ d # e
        <3>1. /\ Holds(r, c) <=> Holds(q, c)
              /\ Holds(r, d) <=> Holds(q, d)
              /\ Before(r, c, d) <=> Before(q, c, d)
            BY <2>4, <2>10, OrderErased
        <3>2. /\ Holds(v, c) <=> Holds(u, c)
              /\ Holds(v, d) <=> Holds(u, d)
              /\ Before(v, c, d) <=> Before(u, c, d)
            BY <2>4, <2>10, OrderErased
        <3> QED BY <2>1, <2>2, <2>4, <2>9, <3>1, <3>2, Zenon DEF InOrder, Ahead, Holding
    <2>11. ASSUME NEW x \in {c, d}, x = e PROVE ~Holds(r, x) /\ ~Holds(v, x)
        <3>1. Copies(q, x) <= 1 /\ Copies(u, x) <= 1
            BY <1>b, <2>1, <2>11 DEF Once
        <3>2. /\ Copies(q, x) \in Nat /\ Copies(u, x) \in Nat
              /\ Holds(q, x) <=> Copies(q, x) # 0
              /\ Holds(u, x) <=> Copies(u, x) # 0
            BY CopiesType
        <3>3. /\ Copies(Erase(q, e), x) = Copies(q, x) - (IF Holds(q, e) /\ x = e THEN 1 ELSE 0)
              /\ Copies(Erase(u, e), x) = Copies(u, x) - (IF Holds(u, e) /\ x = e THEN 1 ELSE 0)
            BY CopiesErased
        <3>4. Copies(r, x) = 0 /\ Copies(v, x) = 0
            BY <2>4, <2>11, <3>1, <3>2, <3>3
        <3> QED BY <3>4, CopiesType
    <2>12. CASE c = e
        <3> SUFFICES ASSUME Ahead(c, d), InLine(c)' PROVE Ahead(c, d)'
            BY DEF InOrder
        <3>1. ~Holds(queue_tasks', c) /\ ~Holds(queue_tasks_unhandled', c)
            BY <2>2, <2>4, <2>9, <2>11, <2>12, Zenon
        <3>2. Holding(c)
            BY <2>2, <3>1, Zenon DEF InLine, Holding
        <3>3. ~Holds(u, c) /\ ~Holds(q, c)
            BY <1>b, <2>1, <3>2, Zenon DEF Once
        <3>4. Holds(q, d)
            <4>1. (Before(u, c, d) => Holds(u, c)) /\ (Before(q, c, d) => Holds(q, c))
                BY OrderOne, Zenon
            <4> QED BY <2>1, <3>3, <4>1, Zenon DEF Ahead
        <3>5. d # e
            BY <2>12, <3>3, <3>4
        <3>6. Holds(r, d)
            BY <2>4, <3>4, <3>5, OrderErased
        <3> QED BY <2>2, <2>9, <3>2, <3>6, Zenon DEF Ahead, Holding
    <2>13. CASE d = e
        <3> SUFFICES ASSUME Ahead(c, d), InLine(d)' PROVE Ahead(c, d)'
            BY DEF InOrder
        <3>1. ~Holds(queue_tasks', d) /\ ~Holds(queue_tasks_unhandled', d)
            BY <2>2, <2>4, <2>9, <2>11, <2>13, Zenon
        <3>2. Holding(d)
            BY <2>2, <3>1, Zenon DEF InLine, Holding
        <3>3. ~Holds(u, d) /\ ~Holds(q, d)
            BY <1>b, <2>1, <3>2, Zenon DEF Once
        <3>4. Holds(u, c)
            <4>1. (Before(u, c, d) => Holds(u, d)) /\ (Before(q, c, d) => Holds(q, d))
                BY OrderOne, Zenon
            <4> QED BY <2>1, <3>3, <4>1, Zenon DEF Ahead
        <3>5. c # e
            BY <2>13, <3>3, <3>4
        <3>6. Holds(v, c)
            BY <2>4, <3>4, <3>5, OrderErased
        <3> QED BY <2>2, <2>4, <3>2, <3>6, Zenon DEF Ahead, Holding
    <2> QED BY <2>10, <2>12, <2>13
<1>4. CASE MainFetch
    <2>1. workerTask = NoTask /\ queue_tasks_unhandled = <<>>
        BY <1>4, <1>a DEF MainFetch, Handshake, InWorkerLoop, InYield
    <2>2. UNCHANGED <<queue_tasks_unhandled, workerTask>>
        BY <1>4 DEF MainFetch, workerVars
    <2>3. CASE UNCHANGED queue_tasks
        BY <2>2, <2>3, NobodyMoves
    <2>4. CASE queue_tasks # <<>> /\ queue_tasks' = Tail(queue_tasks)
        <3>1. PICK h \in Task :
                 /\ Before(queue_tasks, c, d) <=>
                       Before(queue_tasks', c, d) \/ (IsTaskOf(h, c) /\ Holds(queue_tasks', d))
                 /\ Before(queue_tasks, c, c) <=>
                       Before(queue_tasks', c, c) \/ (IsTaskOf(h, c) /\ Holds(queue_tasks', c))
            BY <1>a, <2>4, FrontTaken
        <3>2. ~Before(queue_tasks, c, c)
            BY <1>b DEF Once
        <3>3. \A x : ~Holding(x) /\ ~Holding(x)' /\ ~Holds(queue_tasks_unhandled, x)
            BY <2>1, <2>2, OrderOne, Zenon DEF Holding
        <3>4. ~Before(queue_tasks_unhandled, c, d)
            BY <2>1, OrderOne, Zenon
        <3> QED BY <2>2, <3>1, <3>2, <3>3, <3>4, Zenon DEF InOrder, InLine, Ahead
    <2> QED BY <1>4, <2>3, <2>4 DEF MainFetch
<1>5. CASE MainCallback
    <2>1. UNCHANGED <<queue_tasks_unhandled, workerTask>>
        BY <1>5 DEF MainCallback, EndCallback, workerVars
    <2>2. CASE MainAnswer \/ Launch \/ Defer \/ HandleNextResponse
        BY <2>1, <2>2, NobodyMoves, Zenon DEF MainAnswer, Launch, Defer, HandleNextResponse
    <2>3. CASE HandleCancel
        <3>1. UNCHANGED queue_tasks \/ PopDeferredTask
            BY <2>3 DEF HandleCancel, Release
        <3> QED BY <1>a, <2>1, <3>1, NobodyMoves, PoppedBack
    <2> QED BY <1>5, <2>2, <2>3 DEF MainCallback
<1>6. CASE UpdateSlots
    <2>1. UNCHANGED <<queue_tasks_unhandled, workerTask>>
        BY <1>6 DEF UpdateSlots, workerVars
    <2>2. UNCHANGED queue_tasks \/ queue_tasks' = Append(queue_tasks, NextResponse)
        BY <1>6 DEF UpdateSlots
    <2> QED BY <1>a, <2>1, <2>2, NobodyMoves, Added, TasksTyped
<1>7. ASSUME NEW e \in Clients, FinishSlot(e) PROVE InOrder(c, d)
    <2>1. UNCHANGED <<queue_tasks_unhandled, workerTask>> /\ PopDeferredTask
        BY <1>7 DEF FinishSlot, Release, workerVars
    <2> QED BY <1>a, <2>1, PoppedBack
<1>8. CASE YieldEnd \/ YieldAwait
    <2>1. UNCHANGED workerTask
        BY <1>8 DEF YieldEnd, YieldAwait, workerVars
    <2>2. CASE UNCHANGED <<queue_tasks, queue_tasks_unhandled>>
        BY <2>1, <2>2, NobodyMoves
    <2>3. CASE ~busy /\ queue_tasks' = queue_tasks_unhandled \o queue_tasks
               /\ queue_tasks_unhandled' = <<>>
        <3>1. workerTask = NoTask
            BY <1>a, <2>3 DEF Handshake, InWorkerLoop
        <3> QED BY <1>a, <2>1, <2>3, <3>1, PutBack
    <2>4. CASE YieldEnd
        BY <2>2, <2>3, <2>4 DEF YieldEnd, FinishYield
    <2>5. CASE YieldAwait
        BY <2>2, <2>3, <2>5 DEF YieldAwait, FinishYield
    <2> QED BY <1>8, <2>4, <2>5
<1>9. CASE WorkerFetch
    <2>1. UNCHANGED queue_tasks_unhandled /\ workerTask = NoTask
        BY <1>9, <1>a DEF WorkerFetch, Handshake
    <2>2. CASE UNCHANGED <<queue_tasks, workerTask>>
        BY <2>1, <2>2, NobodyMoves
    <2>3. CASE queue_tasks # <<>> /\ queue_tasks' = Tail(queue_tasks)
               /\ workerTask' = Head(queue_tasks)
        <3>1. PICK h \in Task :
                 /\ h = Head(queue_tasks)
                 /\ Holds(queue_tasks, c) <=> Holds(queue_tasks', c) \/ IsTaskOf(h, c)
                 /\ Holds(queue_tasks, d) <=> Holds(queue_tasks', d) \/ IsTaskOf(h, d)
                 /\ Before(queue_tasks, c, d) <=>
                       Before(queue_tasks', c, d) \/ (IsTaskOf(h, c) /\ Holds(queue_tasks', d))
            BY <1>a, <2>3, FrontTaken
        <3>2. h # NoTask
            BY NoTaskAssumption
        <3>3. \A x : ~Holding(x) /\ (Holding(x)' <=> IsTaskOf(h, x))
            BY <2>1, <2>3, <3>1, <3>2, Zenon DEF Holding
        <3> QED BY <2>1, <3>1, <3>3, Zenon DEF InOrder, Ahead
    <2> QED BY <1>9, <2>2, <2>3 DEF WorkerFetch
<1>10. CASE WorkerCallback
    <2>1. UNCHANGED queue_tasks /\ workerTask' = NoTask
        BY <1>10 DEF WorkerCallback
    <2>2. \A x : ~Holding(x)'
        BY <2>1 DEF Holding
    <2>3. CASE UNCHANGED queue_tasks_unhandled
        BY <1>b, <2>1, <2>2, <2>3, Zenon DEF InOrder, InLine, Ahead, Once
    <2>4. CASE queue_tasks_unhandled' = Append(queue_tasks_unhandled, workerTask)
        <3>1. workerTask \in Task /\ workerTask # NoTask
            BY <1>10, <1>a, NoTaskAssumption DEF WorkerCallback, Handshake, DataTypes
        <3>2. PICK u \in Seq(Task), t \in Task : u = queue_tasks_unhandled /\ t = workerTask
            BY <1>a, <3>1 DEF DataTypes
        <3>3. \A x : Holds(Append(u, t), x) <=> Holds(u, x) \/ IsTaskOf(t, x)
            BY OrderMoved
        <3>4. Before(Append(u, t), c, d) <=> Before(u, c, d) \/ (Holds(u, c) /\ IsTaskOf(t, d))
            BY OrderMoved
        <3>5. \A x : Holding(x) <=> IsTaskOf(t, x)
            BY <3>1, <3>2, Zenon DEF Holding
        <3>6. queue_tasks_unhandled' = Append(u, t)
            BY <2>4, <3>2
        <3> QED BY <2>1, <3>2, <3>3, <3>4, <3>5, <3>6, Zenon DEF InOrder, Ahead
    <2> QED BY <1>10, <2>3, <2>4 DEF WorkerCallback
<1>11. CASE \/ Terminate \/ StartLoop \/ UpdateDone \/ YieldBegin \/ WaitLoop \/ IdleWake
            \/ SleepWake \/ StopWorker \/ JoinWorker \/ WorkerIdle \/ WorkerCheck \/ WorkerWake
            \/ WorkerLeave \/ UNCHANGED vars
    <2>1. UNCHANGED <<queue_tasks_unhandled, workerTask, queue_tasks>>
        BY <1>11 DEF Terminate, StartLoop, UpdateDone, YieldBegin, WaitLoop, IdleWake, SleepWake,
                  StopWorker, JoinWorker, WorkerIdle, WorkerCheck, WorkerWake, WorkerLeave, vars,
                  queueVars, workerVars
    <2> QED BY <2>1, NobodyMoves
<1> QED
    BY <1>1, <1>2, <1>3, <1>4, <1>5, <1>6, <1>7, <1>8, <1>9, <1>10, <1>11
    DEF Next, MainStep, WorkerStep, Client, Disconnect, GiveUpMetrics

-----------------------------------------------------------------------------
(* The theorems.                                                            *)

\* The inductive invariant of the task queue, its two threads and the HTTP threads.
THEOREM Inductive == Spec => []IInv
    BY InitIInv, NextIInv, PTL DEF Spec

\* The flags, deques, program points and slots keep their types.
THEOREM TypeCorrect == Spec => []TypeOK
<1>1. IInv => TypeOK
    BY DEF IInv
<1> QED BY <1>1, Inductive, PTL

\* The worker handles tasks only inside yield_to_queue, and a yield leaves no busy,
\* yielding, exception or declined task behind (server-queue.cpp:222-276).
THEOREM WorkerIsConfined == Spec => []WorkerConfined
<1>1. IInv => WorkerConfined
    BY DEF IInv, Handshake, InWorkerLoop, InYield, WorkerConfined
<1> QED BY <1>1, Inductive, PTL

\* notify_one on the shared condition_tasks leaves no thread waiting for what has
\* happened, except the main thread asleep, and that only while two requests wait for it
\* to wake up (server-queue.cpp:28-130, 222-276).
THEOREM WakeupsAreNotLost == Spec => []NoLostWakeup
<1>1. IInv => NoLostWakeup
    BY DEF IInv, Handshake, WaitSet, Sleepers, NoLostWakeup
<1> QED BY <1>1, Inductive, PTL

\* The main thread rests, and the model is unloaded, only when no slot is processing
\* (update_slots posts NEXT_RESPONSE, and a yield puts it back).
THEOREM RestIsIdle == Spec => []RestsOnlyWhenIdle
<1>1. IInv => RestsOnlyWhenIdle
    BY DEF IInv, TypeOK, DataTypes, Handshake, InWorkerLoop, InYield, SleepControl, Continues,
           RestsOnlyWhenIdle
<1> QED BY <1>1, Inductive, PTL

\* A task is in one place from its post to its end: deferred, declined and put back,
\* cancelled and aborted tasks are neither lost nor duplicated (server-queue.cpp:28-113,
\* 150-176, 254-276, 387-404; get_new_id hands out an id once).
THEOREM TasksAreConserved == Spec => []TaskConservation
<1>1. Init => TaskConservation
    <2> SUFFICES ASSUME Init, NEW c \in Clients
                 PROVE  Copies(<<>>, c) + Copies(<<>>, c) + Copies(<<>>, c) + InHand(NoTask, c)
                        + InHand(NoTask, c) + (IF c \in {} THEN 1 ELSE 0)
                        + (IF c \in {} THEN 1 ELSE 0) = 0
        BY DEF Init, TaskConservation
    <2> QED BY CopiesNone, InHandOf
<1> QED BY <1>1, Inductive, ConservationStep, PTL DEF Spec

\* Waiting requests never overtake one another: declining tasks during a yield, putting
\* them back, deferring, cancelling and bringing back a deferred task keep the order of
\* those that go on waiting (server-queue.cpp:150-276).
THEOREM OrderIsKept == Spec => NoOvertaking
<1> DEFINE Kept == \A c, d \in Clients :
              Before(Line, c, d) /\ Holds(Line', c) /\ Holds(Line', d) => Before(Line', c, d)
<1>1. IInv /\ TaskConservation /\ [Next]_vars => [Kept]_vars
    <2> SUFFICES ASSUME IInv, TaskConservation, [Next]_vars, NEW c \in Clients, NEW d \in Clients,
                        Before(Line, c, d), Holds(Line', c), Holds(Line', d)
                 PROVE  Before(Line', c, d)
        BY Zenon
    <2>1. Ahead(c, d)
        BY PartsOfLine, Zenon DEF IInv, Parts
    <2>2. TypeOK'
        BY NextIInv DEF IInv
    <2>3. Parts'
        BY <2>2, PartsNext
    <2>4. InLine(c)' /\ InLine(d)' /\ (Ahead(c, d)' => Before(Line', c, d))
        BY <2>3, Zenon DEF Parts
    <2>5. InOrder(c, d)
        BY OrderStep
    <2> QED BY <2>1, <2>4, <2>5 DEF InOrder
<1> QED BY <1>1, Inductive, TasksAreConserved, PTL DEF Spec, NoOvertaking

=============================================================================
