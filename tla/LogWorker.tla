----------------------------- MODULE LogWorker -----------------------------
(***************************************************************************)
(* common_log (common/log.cpp 128-330): a ring of entries that any thread  *)
(* adds to and one worker thread prints, and the pause and resume that     *)
(* flush, set_file, set_colors and notify_to_router are made of.  pause    *)
(* and resume are not thread-safe (log.h): one thread calls them.          *)
(* A step is one critical section of mtx, or one entry that the worker     *)
(* prints without holding it.                                              *)
(***************************************************************************)
EXTENDS Integers, Sequences, FiniteSets

CONSTANTS Loggers,      \* the threads that log
          Capacity,     \* the size of the ring, one slot of which stays free
          MaxMessages,  \* bound: messages of one thread
          Empty         \* the content of a slot never written

ASSUME LogAssumption ==
    /\ Capacity \in Nat /\ Capacity >= 2 /\ MaxMessages \in Nat
    /\ IsFiniteSet(Loggers)

VARIABLES queue, head, tail,  \* the ring
          running,
          worker,             \* "none", "check" and "asleep" around cv_new.wait, "flush", "publish"
          cursor, end, stop,  \* flush_queue: h, the tail read under the lock, the result
          logger,             \* "idle", "ready" to take the lock, "asleep" in cv_full.wait
          control,            \* "running", "join" in pause(), "paused"
          sent,               \* the messages each thread has logged
          accepted, printed,  \* history: what entered the ring, what was printed
          wrapped             \* history: pause() was called on a full ring

ring    == <<queue, head, tail, running>>
flush   == <<worker, cursor, end, stop>>
history == <<accepted, printed, wrapped>>
vars == <<ring, flush, logger, control, sent, history>>

Slots == 0 .. Capacity - 1
Message == Loggers \X (1 .. MaxMessages)
Entry == [msg : Message \cup {Empty}, is_end : BOOLEAN]

Next1(i) == (i + 1) % Capacity

IsFull == Next1(tail) = head
IsEmpty == head = tail

-----------------------------------------------------------------------------
Init ==
    /\ queue = [i \in Slots |-> [msg |-> Empty, is_end |-> FALSE]]
    /\ head = 0 /\ tail = 0 /\ running = TRUE
    /\ worker = "check" /\ cursor = 0 /\ end = 0 /\ stop = FALSE
    /\ logger = [l \in Loggers |-> "idle"]
    /\ control = "running"
    /\ sent = [l \in Loggers |-> 0]
    /\ accepted = <<>> /\ printed = <<>> /\ wrapped = FALSE

Log(l) ==
    /\ logger[l] = "idle" /\ sent[l] < MaxMessages
    /\ sent' = [sent EXCEPT ![l] = @ + 1]
    /\ logger' = [logger EXCEPT ![l] = "ready"]
    /\ UNCHANGED <<ring, flush, control, history>>

NotifyWorker == worker' = IF worker = "asleep" THEN "check" ELSE worker

NotifyLoggers ==
    logger' = [l \in Loggers |-> IF logger[l] = "asleep" THEN "ready" ELSE logger[l]]

\* Mutants: the slot keeps the end mark of an earlier pause; the ring has no free slot.
AddKeepingMark(l) ==
    /\ logger[l] = "ready" /\ running /\ ~IsFull
    /\ queue' = [queue EXCEPT ![tail].msg = <<l, sent[l]>>]
    /\ tail' = Next1(tail)
    /\ NotifyWorker
    /\ logger' = [logger EXCEPT ![l] = "idle"]
    /\ accepted' = Append(accepted, <<l, sent[l]>>)
    /\ UNCHANGED <<head, running, cursor, end, stop, control, sent, printed, wrapped>>
AddToFull(l) ==
    /\ logger[l] = "ready" /\ running
    /\ queue' = [queue EXCEPT ![tail] = [msg |-> <<l, sent[l]>>, is_end |-> FALSE]]
    /\ tail' = Next1(tail)
    /\ NotifyWorker
    /\ logger' = [logger EXCEPT ![l] = "idle"]
    /\ accepted' = Append(accepted, <<l, sent[l]>>)
    /\ UNCHANGED <<head, running, cursor, end, stop, control, sent, printed, wrapped>>

Add(l) ==
    /\ logger[l] = "ready" /\ running /\ ~IsFull
    /\ queue' = [queue EXCEPT ![tail] = [msg |-> <<l, sent[l]>>, is_end |-> FALSE]]
    /\ tail' = Next1(tail)
    /\ NotifyWorker
    /\ logger' = [logger EXCEPT ![l] = "idle"]
    /\ accepted' = Append(accepted, <<l, sent[l]>>)
    /\ UNCHANGED <<head, running, cursor, end, stop, control, sent, printed, wrapped>>

\* A message for a full ring waits; one that finds the worker paused is discarded.
AddBlocked(l) ==
    /\ logger[l] = "ready" /\ running /\ IsFull
    /\ logger' = [logger EXCEPT ![l] = "asleep"]
    /\ UNCHANGED <<ring, flush, control, sent, history>>

AddDiscarded(l) ==
    /\ logger[l] = "ready" /\ ~running
    /\ logger' = [logger EXCEPT ![l] = "idle"]
    /\ UNCHANGED <<ring, flush, control, sent, history>>

LoggerStep(l) == Add(l) \/ AddBlocked(l) \/ AddDiscarded(l)

-----------------------------------------------------------------------------
\* The predicate of cv_new.wait is evaluated with the lock held.
WorkerCheck ==
    /\ worker = "check"
    /\ IF IsEmpty THEN worker' = "asleep" /\ UNCHANGED <<cursor, end, stop>>
       ELSE /\ worker' = "flush" /\ cursor' = head /\ end' = tail /\ stop' = FALSE
    /\ UNCHANGED <<ring, logger, control, sent, history>>

\* flush_queue: the lock is not held.
PrintEntry ==
    /\ worker = "flush"
    /\ IF cursor = end \/ stop THEN worker' = "publish" /\ UNCHANGED <<cursor, stop, printed>>
       ELSE /\ cursor' = Next1(cursor)
            /\ stop' = queue[cursor].is_end
            /\ printed' = IF queue[cursor].is_end THEN printed
                          ELSE Append(printed, queue[cursor].msg)
            /\ UNCHANGED worker
    /\ UNCHANGED <<ring, end, logger, control, sent, accepted, wrapped>>

\* Mutant: the threads that wait for a free slot are not woken.
PublishSilently ==
    /\ worker = "publish"
    /\ head' = cursor
    /\ worker' = IF stop THEN "none" ELSE "check"
    /\ cursor' = 0 /\ end' = 0 /\ stop' = FALSE
    /\ UNCHANGED <<queue, tail, running, logger, control, sent, history>>

Publish ==
    /\ worker = "publish"
    /\ head' = cursor
    /\ NotifyLoggers
    /\ worker' = IF stop THEN "none" ELSE "check"
    /\ cursor' = 0 /\ end' = 0 /\ stop' = FALSE
    /\ UNCHANGED <<queue, tail, running, control, sent, history>>

WorkerStep == WorkerCheck \/ PrintEntry \/ Publish

-----------------------------------------------------------------------------
\* Mutants: the caller does not wait for the worker; the worker is not woken.
PauseWithoutJoin ==
    /\ control = "running"
    /\ running' = FALSE
    /\ queue' = [queue EXCEPT ![tail].is_end = TRUE]
    /\ tail' = Next1(tail)
    /\ NotifyWorker /\ NotifyLoggers
    /\ control' = "paused" /\ wrapped' = (wrapped \/ IsFull)
    /\ UNCHANGED <<head, cursor, end, stop, sent, accepted, printed>>

\* The end mark takes a slot without a test whether one is free.
Pause ==
    /\ control = "running"
    /\ running' = FALSE
    /\ queue' = [queue EXCEPT ![tail].is_end = TRUE]
    /\ tail' = Next1(tail)
    /\ NotifyWorker /\ NotifyLoggers
    /\ control' = "join" /\ wrapped' = (wrapped \/ IsFull)
    /\ UNCHANGED <<head, cursor, end, stop, sent, accepted, printed>>

\* thrd.join() returns; set_file and set_colors now change what the worker reads.
Join ==
    /\ control = "join" /\ worker = "none"
    /\ control' = "paused"
    /\ UNCHANGED <<ring, flush, logger, sent, history>>

Resume ==
    /\ control = "paused"
    /\ running' = TRUE /\ worker' = "check" /\ control' = "running"
    /\ UNCHANGED <<queue, head, tail, cursor, end, stop, logger, sent, history>>

Next ==
    \/ \E l \in Loggers : Log(l) \/ LoggerStep(l)
    \/ WorkerStep
    \/ Pause \/ Join \/ Resume

Spec == Init /\ [][Next]_vars

\* The threads run; nobody has to log, pause or resume.
FairSpec ==
    /\ Spec
    /\ \A l \in Loggers : WF_vars(LoggerStep(l))
    /\ WF_vars(WorkerStep) /\ WF_vars(Join)

-----------------------------------------------------------------------------
(* Properties                                                              *)

\* The ring, the threads and the histories keep their types.
TypeOK ==
    /\ queue \in [Slots -> Entry]
    /\ head \in Slots /\ tail \in Slots /\ cursor \in Slots /\ end \in Slots
    /\ running \in BOOLEAN /\ stop \in BOOLEAN /\ wrapped \in BOOLEAN
    /\ worker \in {"none", "check", "asleep", "flush", "publish"}
    /\ logger \in [Loggers -> {"idle", "ready", "asleep"}]
    /\ control \in {"running", "join", "paused"}
    /\ sent \in [Loggers -> 0 .. MaxMessages]
    /\ accepted \in Seq(Message) /\ printed \in Seq(Message)

\* Where the entries begin that are not printed yet.
Front == IF worker \in {"flush", "publish"} THEN cursor ELSE head

\* The ring from there to the tail is what was accepted and is not printed, in the order
\* it was accepted, then the end mark of a pause; so no entry is lost, torn by an add()
\* during the flush, or printed twice.  A pause on a full ring is excepted.
RingHoldsPending ==
    LET held == (tail - Front + Capacity) % Capacity
        mark == IF control = "join" /\ worker # "none" /\ ~stop THEN 1 ELSE 0
        slot(k) == queue[(Front + k - 1) % Capacity]
    IN  wrapped \/
        /\ Len(accepted) = Len(printed) + held - mark
        /\ \A k \in 1 .. Len(printed) : printed[k] = accepted[k]
        /\ \A k \in 1 .. held - mark :
              slot(k) = [msg |-> accepted[Len(printed) + k], is_end |-> FALSE]
        /\ mark = 1 => slot(held).is_end

\* "Call common_log_flush() before exit if you want to ensure all logs are flushed": once
\* pause() has returned, everything accepted is printed and the worker is gone, so that
\* set_file may close the file.
PausedIsFlushed == control = "paused" => printed = accepted /\ worker = "none"

\* A thread that logs is not held up for ever, by a full ring or by a pause.
AddReturns == \A l \in Loggers : logger[l] # "idle" ~> logger[l] = "idle"

\* Every accepted message is printed, unless a pause found the ring full.
EveryMessagePrinted ==
    \A n \in 1 .. MaxMessages * Cardinality(Loggers) :
       Len(accepted) >= n ~> (Len(printed) >= n \/ wrapped)

=============================================================================
