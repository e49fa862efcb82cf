-------------------------- MODULE LogWorkerProofs --------------------------
(***************************************************************************)
(* Proofs about LogWorker, for any ring, any threads and messages: what    *)
(* was accepted and is not printed is in the ring, in order, also while    *)
(* the worker prints without the lock, and pause() is a flush.             *)
(***************************************************************************)
EXTENDS LogWorker, SequenceTheorems, TLAPS

-----------------------------------------------------------------------------
(* The inductive invariant.                                                 *)

\* Positions on the ring: one step round it, and the way from one to another.
Wrap(x) == IF x < Capacity THEN x ELSE x - Capacity
Gap(i, j) == IF i <= j THEN j - i ELSE j + Capacity - i

\* The end mark of a pause that the worker has not reached; what is not printed, with
\* the mark; what is printed in slots that head still covers.
Mark == IF control = "join" /\ worker # "none" /\ ~stop THEN 1 ELSE 0
Pending == Len(accepted) - Len(printed) + Mark
Done == Gap(head, Front)
Slot(k) == queue[Wrap(Front + (k - 1))]

PrefixOK ==
    /\ Len(printed) <= Len(accepted)
    /\ \A k \in 1 .. Len(printed) : printed[k] = accepted[k]

\* One slot stays free, but for a pause on a full ring; the flush ends at an older tail.
RoomOK ==
    /\ tail = Wrap(Front + Pending)
    /\ Done + Pending <= Capacity
    /\ running \/ ~wrapped => Done + Pending < Capacity
    /\ worker = "flush" => Gap(cursor, end) <= Pending /\ Done + Gap(cursor, end) < Capacity

SlotsOK ==
    /\ \A k \in 1 .. Pending - Mark :
          Slot(k) = [msg |-> accepted[Len(printed) + k], is_end |-> FALSE]
    /\ Mark = 1 => Slot(Pending).is_end

\* The worker ends at an end mark only, behind everything that was accepted.
ControlOK ==
    /\ running <=> control = "running"
    /\ worker = "none" => ~running /\ Pending = 0
    /\ control = "paused" => worker = "none"
    /\ stop => worker \in {"flush", "publish"} /\ control = "join" /\ Pending = 0

\* A thread that is about to log has a message.
SentOK == \A l \in Loggers : logger[l] # "idle" => sent[l] >= 1

RingOK == PrefixOK /\ RoomOK /\ SlotsOK /\ ControlOK
Inv == TypeOK /\ SentOK /\ RingOK

-----------------------------------------------------------------------------
(* Arithmetic on the ring.                                                  *)

LEMMA WrapIs ==
    ASSUME NEW x \in 0 .. 2 * Capacity - 1
    PROVE  x % Capacity = Wrap(x) /\ Wrap(x) \in Slots
<1>1. CASE x \in 0 .. Capacity - 1
    <2>1. x % Capacity = x
        BY <1>1, LogAssumption
    <2> QED BY <1>1, <2>1, LogAssumption DEF Wrap, Slots
<1>2. CASE x \in Capacity .. 2 * Capacity - 1
    <2>1. x % Capacity = x - Capacity
        BY <1>2, LogAssumption
    <2> QED BY <1>2, <2>1, LogAssumption DEF Wrap, Slots
<1> QED BY <1>1, <1>2, LogAssumption

LEMMA NextIs ==
    ASSUME NEW i \in Slots
    PROVE  Next1(i) = Wrap(i + 1) /\ Next1(i) \in Slots
<1>1. i + 1 \in 0 .. 2 * Capacity - 1
    BY LogAssumption DEF Slots
<1> QED BY <1>1, WrapIs DEF Next1

LEMMA GapIs ==
    ASSUME NEW i \in Slots, NEW j \in Slots
    PROVE  /\ Gap(i, j) \in 0 .. Capacity - 1
           /\ Wrap(i + Gap(i, j)) = j
           /\ Gap(i, j) = 0 <=> i = j
    BY LogAssumption DEF Gap, Wrap, Slots

LEMMA GapOf ==
    ASSUME NEW i \in Slots, NEW n \in 0 .. Capacity - 1
    PROVE  Wrap(i + n) \in Slots /\ Gap(i, Wrap(i + n)) = n
    BY LogAssumption DEF Gap, Wrap, Slots

LEMMA RoundTheRing ==
    ASSUME NEW i \in Slots
    PROVE  Wrap(i + 0) = i /\ Wrap(i + Capacity) = i
    BY LogAssumption DEF Wrap, Slots

\* Different distances below the size of the ring lead to different slots.
LEMMA WrapApart ==
    ASSUME NEW i \in Slots, NEW m \in 0 .. Capacity - 1, NEW n \in 0 .. Capacity - 1, m # n
    PROVE  Wrap(i + m) # Wrap(i + n)
    BY LogAssumption DEF Wrap, Slots

LEMMA WrapNext ==
    ASSUME NEW i \in Slots, NEW n \in 0 .. Capacity - 1
    PROVE  /\ Next1(Wrap(i + n)) = Wrap(i + (n + 1))
           /\ Wrap(Next1(i) + n) = Wrap(i + (n + 1))
<1>1. Wrap(i + n) \in Slots
    BY GapOf
<1>2. Next1(Wrap(i + n)) = Wrap(Wrap(i + n) + 1) /\ Next1(i) = Wrap(i + 1)
    BY <1>1, NextIs
<1>3. Wrap(Wrap(i + n) + 1) = Wrap(i + (n + 1))
    BY LogAssumption DEF Wrap, Slots
<1>4. Wrap(Wrap(i + 1) + n) = Wrap(i + (n + 1))
    BY LogAssumption DEF Wrap, Slots
<1> QED BY <1>2, <1>3, <1>4

\* The cursor goes on by one.
LEMMA GapNext ==
    ASSUME NEW h \in Slots, NEW i \in Slots, NEW j \in Slots, i # j,
           Gap(h, i) + Gap(i, j) < Capacity
    PROVE  /\ Gap(h, Next1(i)) = Gap(h, i) + 1
           /\ Gap(Next1(i), j) = Gap(i, j) - 1
<1>1. Next1(i) = Wrap(i + 1)
    BY NextIs
<1>2. Gap(h, Wrap(i + 1)) = Gap(h, i) + 1
    BY LogAssumption DEF Gap, Wrap, Slots
<1>3. Gap(Wrap(i + 1), j) = Gap(i, j) - 1
    BY LogAssumption DEF Gap, Wrap, Slots
<1> QED BY <1>1, <1>2, <1>3

-----------------------------------------------------------------------------
(* What the steps do to the ring.                                           *)

LEMMA View ==
    ASSUME Inv
    PROVE  /\ Front \in Slots /\ head \in Slots /\ tail \in Slots
           /\ Mark \in {0, 1} /\ Pending \in Nat /\ Done \in 0 .. Capacity - 1
           /\ Len(accepted) \in Nat /\ Len(printed) \in Nat
<1>1. Front \in Slots /\ head \in Slots /\ tail \in Slots
    BY DEF Inv, TypeOK, Front
<1>2. Mark \in {0, 1}
    BY DEF Mark
<1>3. Len(accepted) \in Nat /\ Len(printed) \in Nat /\ Len(printed) <= Len(accepted)
    BY DEF Inv, TypeOK, RingOK, PrefixOK
<1>4. Pending \in Nat
    BY <1>2, <1>3 DEF Pending
<1>5. Done \in 0 .. Capacity - 1
    BY <1>1, GapIs DEF Done
<1> QED BY <1>1, <1>2, <1>3, <1>4, <1>5

\* The threads that log, but for add() itself, do not touch the ring.
LEMMA RingUntouched ==
    ASSUME RingOK, UNCHANGED <<ring, flush, control, history>>
    PROVE  RingOK'
<1>1. Front' = Front /\ Mark' = Mark /\ Pending' = Pending
    BY DEF Front, Mark, Pending, ring, flush, history
<1>2. Done' = Done /\ \A k : Slot(k)' = Slot(k)
    BY <1>1 DEF Done, Slot, ring
<1>3. PrefixOK'
    BY DEF RingOK, PrefixOK, history
<1>4. RoomOK'
    BY <1>1, <1>2 DEF RingOK, RoomOK, ring, flush, history
<1>5. SlotsOK'
    BY <1>1, <1>2, Zenon DEF RingOK, SlotsOK, history
<1>6. ControlOK'
    BY <1>1 DEF RingOK, ControlOK, ring, flush
<1> QED BY <1>3, <1>4, <1>5, <1>6 DEF RingOK

\* What is accepted before an entry is added stays where it is.
LEMMA PrefixGrows ==
    ASSUME TypeOK, PrefixOK, NEW m \in Message, accepted' = Append(accepted, m), UNCHANGED printed
    PROVE  /\ PrefixOK' /\ Len(accepted') = Len(accepted) + 1
           /\ accepted'[Len(accepted) + 1] = m
           /\ \A k \in 1 .. Len(accepted) : accepted'[k] = accepted[k]
<1>1. accepted \in Seq(Message) /\ printed \in Seq(Message)
    BY DEF TypeOK
<1>2. /\ Len(accepted') = Len(accepted) + 1
      /\ accepted'[Len(accepted) + 1] = m
      /\ \A k \in 1 .. Len(accepted) : accepted'[k] = accepted[k]
    BY <1>1
<1>3. Len(printed) <= Len(accepted) /\ \A k \in 1 .. Len(printed) : printed[k] = accepted[k]
    BY DEF PrefixOK
<1>4. \A k \in 1 .. Len(printed) : k \in 1 .. Len(accepted)
    BY <1>1, <1>3
<1>5. Len(printed') <= Len(accepted')
    BY <1>1, <1>2, <1>3
<1>6. \A k \in 1 .. Len(printed') : printed'[k] = accepted'[k]
    BY <1>2, <1>3, <1>4
<1> QED BY <1>2, <1>5, <1>6 DEF PrefixOK

\* add() takes the free slot behind the tail.
LEMMA AddKeeps ==
    ASSUME Inv, NEW l \in Loggers, Add(l)
    PROVE  RingOK'
<1> DEFINE m == <<l, sent[l]>>
<1>1. /\ queue' = [queue EXCEPT ![tail] = [msg |-> m, is_end |-> FALSE]]
      /\ tail' = Next1(tail) /\ accepted' = Append(accepted, m)
      /\ UNCHANGED <<head, running, cursor, end, stop, control, printed, wrapped>>
      /\ running /\ Next1(tail) # head
      /\ worker' = IF worker = "asleep" THEN "check" ELSE worker
    BY DEF Add, NotifyWorker, IsFull
<1>2. m \in Message
    BY DEF Inv, TypeOK, SentOK, Add, Message
<1> HIDE DEF m
<1>3. /\ control = "running" /\ worker # "none" /\ ~stop
      /\ tail = Wrap(Front + Pending) /\ Done + Pending < Capacity
    BY <1>1 DEF Inv, RingOK, ControlOK, RoomOK
<1>4. /\ PrefixOK' /\ Len(accepted') = Len(accepted) + 1
      /\ accepted'[Len(accepted) + 1] = m
      /\ \A k \in 1 .. Len(accepted) : accepted'[k] = accepted[k]
    BY <1>1, <1>2, PrefixGrows DEF Inv, RingOK
<1>5. Front' = Front /\ Mark = 0 /\ Mark' = 0
    BY <1>1, <1>3 DEF Front, Mark
<1>6. PICK f \in Slots, n \in Nat, d \in Nat, a \in Nat, p \in Nat :
         /\ f = Front /\ n = Pending /\ d = Done
         /\ a = Len(accepted) /\ p = Len(printed) /\ n = a - p
    <2>1. Pending = Len(accepted) - Len(printed)
        BY <1>5, View DEF Pending
    <2>2. Front \in Slots /\ Pending \in Nat /\ Done \in Nat
          /\ Len(accepted) \in Nat /\ Len(printed) \in Nat
        BY View
    <2> QED BY <2>1, <2>2, Zenon
<1>7. Pending' = n + 1 /\ Done' = d
    BY <1>1, <1>4, <1>5, <1>6 DEF Pending, Done
<1>8. n \in 0 .. Capacity - 1
    BY <1>3, <1>6, LogAssumption
<1>9. d + (n + 1) < Capacity
    <2>1. d \in 0 .. Capacity - 1 /\ head \in Slots /\ d = Gap(head, f)
        BY <1>6, View DEF Done
    <2>2. Next1(tail) = Wrap(f + (n + 1))
        BY <1>3, <1>6, <1>8, WrapNext
    <2>3. Wrap(f + (n + 1)) # head
        BY <1>1, <2>2
    <2>4. d + n < Capacity
        BY <1>3, <1>6
    <2>5. d + n # Capacity - 1
        BY <1>8, <2>1, <2>3, LogAssumption DEF Gap, Wrap, Slots
    <2> QED BY <2>1, <2>4, <2>5, <1>8, LogAssumption
<1>10. RoomOK'
    <2>1. tail' = Wrap(Front' + Pending')
        BY <1>1, <1>3, <1>5, <1>6, <1>7, <1>8, WrapNext
    <2>2. Done' + Pending' <= Capacity /\ Done' + Pending' < Capacity
        BY <1>7, <1>9, LogAssumption
    <2>3. worker' = "flush" => Gap(cursor, end) <= n /\ d + Gap(cursor, end) < Capacity
        BY <1>1, <1>6 DEF Inv, RingOK, RoomOK
    <2>4. worker' = "flush" => Gap(cursor', end') <= Pending' /\ Done' + Gap(cursor', end') < Capacity
        <3>1. Gap(cursor, end) \in Nat
            BY GapIs DEF Inv, TypeOK
        <3>2. Gap(cursor', end') = Gap(cursor, end)
            BY <1>1
        <3> QED BY <1>7, <2>3, <3>1, <3>2
    <2> QED BY <2>1, <2>2, <2>4 DEF RoomOK
<1>11. SlotsOK'
    <2>1. Pending' - Mark' = n + 1 /\ Mark' # 1
        BY <1>5, <1>7
    <2> SUFFICES ASSUME NEW k \in 1 .. n + 1
                 PROVE  queue'[Wrap(f + (k - 1))] = [msg |-> accepted'[p + k], is_end |-> FALSE]
        BY <1>1, <1>5, <1>6, <2>1 DEF SlotsOK, Slot
    <2>2. queue \in [Slots -> Entry] /\ tail \in Slots
        BY DEF Inv, TypeOK
    <2>3. CASE k = n + 1
        <3>1. k - 1 = n /\ p + k = a + 1
            BY <1>6, <2>3
        <3>2. Wrap(f + (k - 1)) = tail
            BY <1>3, <1>6, <3>1
        <3> QED BY <1>1, <1>4, <1>6, <2>2, <3>1, <3>2
    <2>4. CASE k \in 1 .. n
        <3>1. k - 1 \in 0 .. Capacity - 1 /\ k - 1 # n
            BY <1>8, <2>4, LogAssumption
        <3>2. Wrap(f + (k - 1)) \in Slots /\ Wrap(f + (k - 1)) # tail
            BY <1>3, <1>6, <1>8, <3>1, GapOf, WrapApart
        <3>3. queue'[Wrap(f + (k - 1))] = queue[Wrap(f + (k - 1))]
            BY <1>1, <2>2, <3>2
        <3>4. queue[Wrap(f + (k - 1))] = [msg |-> accepted[p + k], is_end |-> FALSE]
            <4>1. Pending - Mark = n
                BY <1>5, <1>6
            <4> QED BY <1>6, <2>4, <4>1 DEF Inv, RingOK, SlotsOK, Slot
        <3>5. p + k \in 1 .. a
            BY <1>6, <2>4
        <3> QED BY <1>4, <1>6, <3>3, <3>4, <3>5
    <2> QED BY <2>3, <2>4
<1>12. ControlOK'
    BY <1>1, <1>3 DEF Inv, RingOK, ControlOK
<1> QED BY <1>4, <1>10, <1>11, <1>12 DEF RingOK

\* The worker takes the ring as it is, or goes to sleep.
LEMMA CheckKeeps ==
    ASSUME Inv, WorkerCheck
    PROVE  RingOK'
<1>1. /\ worker = "check" /\ UNCHANGED <<queue, head, tail, running, control, accepted, printed, wrapped>>
      /\ \/ head = tail /\ worker' = "asleep" /\ UNCHANGED <<cursor, end, stop>>
         \/ head # tail /\ worker' = "flush" /\ cursor' = head /\ end' = tail /\ stop' = FALSE
    BY DEF WorkerCheck, IsEmpty, ring, history
<1>2. ~stop
    BY <1>1 DEF Inv, RingOK, ControlOK
<1>3. Front' = Front /\ Front = head
    BY <1>1 DEF Front
<1>4. Mark' = Mark
    BY <1>1, <1>2 DEF Mark
<1>5. Pending' = Pending
    BY <1>1, <1>4 DEF Pending
<1>6. Done' = Done /\ \A k : Slot(k)' = Slot(k)
    BY <1>1, <1>3 DEF Done, Slot
<1>7. Done = 0
    BY <1>3, View, GapIs DEF Done
<1>8. ASSUME worker' = "flush" PROVE Gap(cursor', end') <= Pending' /\ Done' + Gap(cursor', end') < Capacity
    <2>1. tail = Wrap(head + Pending) /\ Pending <= Capacity /\ Pending \in Nat
        BY <1>3, <1>7, View DEF Inv, RingOK, RoomOK
    <2>2. head # tail /\ cursor' = head /\ end' = tail
        BY <1>1, <1>8
    <2>3. Pending # Capacity
        BY <2>1, <2>2, RoundTheRing DEF Inv, TypeOK
    <2>4. Pending \in 0 .. Capacity - 1
        BY <2>1, <2>3, LogAssumption
    <2>5. Gap(head, tail) = Pending
        BY <2>1, <2>4, GapOf DEF Inv, TypeOK
    <2> QED BY <1>5, <1>6, <1>7, <2>2, <2>4, <2>5, LogAssumption
<1>9. PrefixOK'
    BY <1>1 DEF Inv, RingOK, PrefixOK
<1>10. RoomOK'
    BY <1>1, <1>3, <1>5, <1>6, <1>8 DEF Inv, RingOK, RoomOK
<1>11. SlotsOK'
    BY <1>1, <1>4, <1>5, <1>6, Zenon DEF Inv, RingOK, SlotsOK
<1>12. ControlOK'
    BY <1>1, <1>2, <1>5 DEF Inv, RingOK, ControlOK
<1> QED BY <1>9, <1>10, <1>11, <1>12 DEF RingOK

\* The entry at the cursor is the oldest one that is not printed, or the end mark.
LEMMA PrintKeeps ==
    ASSUME Inv, PrintEntry
    PROVE  RingOK' /\ printed' \in Seq(Message)
<1>1. /\ worker = "flush"
      /\ UNCHANGED <<queue, head, tail, running, end, control, accepted, wrapped>>
    BY DEF PrintEntry, ring
<1>2. cursor \in Slots /\ end \in Slots /\ head \in Slots /\ Front = cursor
    BY <1>1 DEF Inv, TypeOK, Front
<1>3. accepted \in Seq(Message) /\ printed \in Seq(Message)
    BY DEF Inv, TypeOK
<1>4. CASE cursor = end \/ stop
    <2>1. worker' = "publish" /\ UNCHANGED <<cursor, stop, printed>>
        BY <1>4 DEF PrintEntry
    <2>2. Front' = Front /\ Mark' = Mark
        BY <1>1, <2>1 DEF Front, Mark
    <2>3. Pending' = Pending
        BY <1>1, <2>1, <2>2 DEF Pending
    <2>4. Done' = Done /\ \A k : Slot(k)' = Slot(k)
        BY <1>1, <2>2 DEF Done, Slot
    <2>5. PrefixOK'
        BY <1>1, <2>1 DEF Inv, RingOK, PrefixOK
    <2>6. RoomOK'
        BY <1>1, <2>1, <2>2, <2>3, <2>4 DEF Inv, RingOK, RoomOK
    <2>7. SlotsOK'
        BY <1>1, <2>1, <2>2, <2>3, <2>4, Zenon DEF Inv, RingOK, SlotsOK
    <2>8. ControlOK'
        BY <1>1, <2>1, <2>3 DEF Inv, RingOK, ControlOK
    <2> QED BY <1>3, <2>1, <2>5, <2>6, <2>7, <2>8 DEF RingOK
<1>5. CASE cursor # end /\ ~stop
    <2>1. /\ cursor' = Next1(cursor) /\ stop' = queue[cursor].is_end /\ worker' = "flush"
          /\ printed' = IF queue[cursor].is_end THEN printed
                        ELSE Append(printed, queue[cursor].msg)
        BY <1>1, <1>5 DEF PrintEntry
    <2>2. PICK n \in Nat, d \in Nat, g \in Nat, a \in Nat, p \in Nat :
             /\ n = Pending /\ d = Done /\ g = Gap(cursor, end)
             /\ a = Len(accepted) /\ p = Len(printed)
        <3>1. Gap(cursor, end) \in Nat
            BY <1>2, GapIs
        <3>2. Pending \in Nat /\ Done \in Nat /\ Len(accepted) \in Nat /\ Len(printed) \in Nat
            BY View
        <3> QED BY <3>1, <3>2, Zenon
    <2>3. g >= 1 /\ g <= n /\ d + g < Capacity /\ d + n <= Capacity
          /\ (running \/ ~wrapped => d + n < Capacity)
        <3>1. g # 0
            BY <1>2, <1>5, <2>2, GapIs
        <3>2. g <= n /\ d + g < Capacity /\ d + n <= Capacity
              /\ (running \/ ~wrapped => d + n < Capacity)
            BY <1>1, <2>2 DEF Inv, RingOK, RoomOK
        <3> QED BY <3>1, <3>2
    <2>4. Front' = Next1(cursor) /\ Front' \in Slots
        BY <1>2, <2>1, NextIs DEF Front
    <2>5. Done' = d + 1 /\ Gap(cursor', end') = g - 1
        <3>1. d = Gap(head, cursor)
            BY <1>2, <2>2 DEF Done
        <3>2. Gap(head, Next1(cursor)) = d + 1 /\ Gap(Next1(cursor), end) = g - 1
            BY <1>2, <1>5, <2>2, <2>3, <3>1, GapNext
        <3> QED BY <1>1, <2>1, <2>4, <3>2 DEF Done
    <2>6. n - 1 \in 0 .. Capacity - 1 /\ tail = Wrap(cursor + n)
        BY <1>2, <2>2, <2>3, LogAssumption DEF Inv, RingOK, RoomOK
    <2>7. tail = Wrap(Next1(cursor) + (n - 1))
        <3>1. Wrap(Next1(cursor) + (n - 1)) = Wrap(cursor + ((n - 1) + 1))
            BY <1>2, <2>6, WrapNext
        <3>2. (n - 1) + 1 = n
            BY <2>6
        <3> QED BY <2>6, <3>1, <3>2
    <2>8. Slot(1) = queue[cursor]
        <3>1. Slot(1) = queue[Wrap(cursor + 0)]
            BY <1>2 DEF Slot
        <3> QED BY <1>2, <3>1, RoundTheRing
    <2>9. Slot(n) = queue[Wrap(cursor + (n - 1))]
        BY <1>2 DEF Slot
    <2>10. ASSUME Pending' = n - 1 PROVE RoomOK'
        <3>1. tail' = Wrap(Front' + Pending')
            BY <1>1, <2>4, <2>7, <2>10
        <3>2. Done' + Pending' = d + n
            BY <2>3, <2>5, <2>10
        <3>3. Gap(cursor', end') <= Pending' /\ Done' + Gap(cursor', end') = d + g
            BY <2>3, <2>5, <2>10
        <3>4. UNCHANGED <<running, wrapped>>
            BY <1>1
        <3> QED BY <2>3, <3>1, <3>2, <3>3, <3>4 DEF RoomOK
    <2>11. Mark \in {0, 1} /\ n = a - p + Mark /\ p <= a
        BY <2>2, View DEF Pending, Inv, RingOK, PrefixOK
    <2>12. \A k \in 1 .. n - Mark :
              queue[Wrap(cursor + (k - 1))] = [msg |-> accepted[p + k], is_end |-> FALSE]
        BY <1>2, <2>2 DEF Inv, RingOK, SlotsOK, Slot
    <2>13. CASE n - Mark >= 1
        <3>1. 1 \in 1 .. n - Mark
            BY <2>11, <2>13
        <3>2. queue[cursor] = [msg |-> accepted[p + 1], is_end |-> FALSE]
            <4>1. Slot(1) = [msg |-> accepted[p + 1], is_end |-> FALSE]
                BY <2>2, <3>1 DEF Inv, RingOK, SlotsOK
            <4> QED BY <2>8, <4>1
        <3>3. ~stop' /\ printed' = Append(printed, accepted[p + 1])
            BY <2>1, <3>2
        <3>4. p + 1 \in 1 .. a /\ accepted[p + 1] \in Message
            <4>1. p + 1 \in 1 .. a
                BY <2>11, <2>13
            <4> QED BY <1>3, <2>2, <4>1
        <3>5. /\ printed' \in Seq(Message) /\ Len(printed') = p + 1
              /\ printed'[p + 1] = accepted[p + 1]
              /\ \A k \in 1 .. p : printed'[k] = printed[k]
            BY <1>3, <2>2, <3>3, <3>4
        <3>6. Mark' = Mark
            BY <1>1, <1>5, <2>1, <3>3 DEF Mark
        <3>7. Pending' = n - 1
            BY <1>1, <2>2, <2>11, <3>5, <3>6 DEF Pending
        <3>8. PrefixOK'
            <4>1. Len(printed') <= Len(accepted')
                BY <1>1, <2>2, <3>4, <3>5
            <4>2. \A k \in 1 .. p : printed[k] = accepted[k]
                BY <2>2 DEF Inv, RingOK, PrefixOK
            <4>3. \A k \in 1 .. p + 1 : k = p + 1 \/ k \in 1 .. p
                OBVIOUS
            <4>4. \A k \in 1 .. p + 1 : printed'[k] = accepted[k]
                BY <3>5, <4>2, <4>3, Zenon
            <4> QED BY <1>1, <3>5, <4>1, <4>4 DEF PrefixOK
        <3>9. SlotsOK'
            <4>1. ASSUME NEW k \in 1 .. (n - 1) - Mark
                  PROVE  queue[Wrap(Next1(cursor) + (k - 1))]
                             = [msg |-> accepted[(p + 1) + k], is_end |-> FALSE]
                <5>1. k + 1 \in 1 .. n - Mark /\ k - 1 \in 0 .. Capacity - 1
                    BY <2>6, <2>11, LogAssumption
                <5>2. Wrap(Next1(cursor) + (k - 1)) = Wrap(cursor + ((k - 1) + 1))
                    BY <1>2, <5>1, WrapNext
                <5>3. (k - 1) + 1 = (k + 1) - 1 /\ p + (k + 1) = (p + 1) + k
                    BY <5>1
                <5> QED BY <2>12, <5>1, <5>2, <5>3
            <4>2. ASSUME Mark = 1
                  PROVE  queue[Wrap(Next1(cursor) + ((n - 1) - 1))].is_end
                <5>1. n - 2 \in 0 .. Capacity - 1
                    BY <2>6, <2>13, <4>2, LogAssumption
                <5>2. Wrap(Next1(cursor) + (n - 2)) = Wrap(cursor + ((n - 2) + 1))
                    BY <1>2, <5>1, WrapNext
                <5>3. (n - 2) + 1 = n - 1 /\ (n - 1) - 1 = n - 2
                    BY <5>1
                <5>4. queue[Wrap(cursor + (n - 1))].is_end
                    BY <2>2, <2>9, <4>2 DEF Inv, RingOK, SlotsOK
                <5> QED BY <5>2, <5>3, <5>4
            <4> QED BY <1>1, <2>4, <3>5, <3>6, <3>7, <4>1, <4>2 DEF SlotsOK, Slot
        <3>10. ControlOK'
            BY <1>1, <1>5, <2>1, <3>3 DEF Inv, RingOK, ControlOK
        <3> QED BY <2>10, <3>5, <3>7, <3>8, <3>9, <3>10 DEF RingOK
    <2>14. CASE n - Mark < 1
        <3>1. Mark = 1 /\ n = 1 /\ a = p
            BY <2>3, <2>11, <2>14
        <3>2. queue[cursor].is_end
            BY <2>2, <2>8, <3>1 DEF Inv, RingOK, SlotsOK
        <3>3. stop' = TRUE /\ UNCHANGED printed
            <4>1. queue[cursor].is_end = TRUE
                BY <1>2, <3>2 DEF Inv, TypeOK, Entry
            <4> QED BY <2>1, <4>1
        <3>4. Mark' = 0 /\ control = "join"
            BY <3>1, <3>3 DEF Mark
        <3>5. Pending' = n - 1
            BY <1>1, <2>2, <3>1, <3>3, <3>4 DEF Pending
        <3>6. PrefixOK'
            BY <1>1, <3>3 DEF Inv, RingOK, PrefixOK
        <3>7. SlotsOK'
            BY <3>1, <3>4, <3>5 DEF SlotsOK
        <3>8. ControlOK'
            BY <1>1, <2>1, <3>1, <3>4, <3>5 DEF Inv, RingOK, ControlOK
        <3> QED BY <1>3, <2>10, <3>3, <3>5, <3>6, <3>7, <3>8 DEF RingOK
    <2> QED BY <2>11, <2>13, <2>14
<1> QED BY <1>4, <1>5

\* The head catches up with what was printed.
LEMMA PublishKeeps ==
    ASSUME Inv, Publish
    PROVE  RingOK'
<1>1. /\ worker = "publish" /\ head' = cursor /\ stop' = FALSE
      /\ worker' = IF stop THEN "none" ELSE "check"
      /\ UNCHANGED <<queue, tail, running, control, accepted, printed, wrapped>>
    BY DEF Publish, history
<1>2. Front = cursor /\ Front' = cursor /\ cursor \in Slots
    BY <1>1 DEF Front, Inv, TypeOK
<1>3. Mark' = Mark
    BY <1>1 DEF Mark, Inv, TypeOK
<1>4. Pending' = Pending
    BY <1>1, <1>3 DEF Pending
<1>5. Done' = 0
    BY <1>1, <1>2, GapIs DEF Done
<1>6. \A k : Slot(k)' = Slot(k)
    BY <1>1, <1>2 DEF Slot
<1>7. PrefixOK'
    BY <1>1 DEF Inv, RingOK, PrefixOK
<1>8. RoomOK'
    <2>1. tail' = Wrap(Front' + Pending')
        BY <1>1, <1>2, <1>4 DEF Inv, RingOK, RoomOK
    <2>2. Pending <= Capacity /\ (running \/ ~wrapped => Pending < Capacity)
        BY View, LogAssumption DEF Inv, RingOK, RoomOK
    <2>3. Done' + Pending' = Pending
        BY <1>4, <1>5, View
    <2> QED BY <1>1, <2>1, <2>2, <2>3 DEF RoomOK
<1>9. SlotsOK'
    BY <1>1, <1>3, <1>4, <1>6, Zenon DEF Inv, RingOK, SlotsOK
<1>10. ControlOK'
    BY <1>1, <1>4 DEF Inv, RingOK, ControlOK
<1> QED BY <1>7, <1>8, <1>9, <1>10 DEF RingOK

\* pause() marks the slot at the tail, free or not.
LEMMA PauseKeeps ==
    ASSUME Inv, Pause
    PROVE  RingOK'
<1>1. /\ control = "running" /\ control' = "join" /\ running' = FALSE
      /\ queue' = [queue EXCEPT ![tail].is_end = TRUE]
      /\ tail' = Next1(tail) /\ wrapped' = (wrapped \/ Next1(tail) = head)
      /\ worker' = IF worker = "asleep" THEN "check" ELSE worker
      /\ UNCHANGED <<head, cursor, end, stop, accepted, printed>>
    BY DEF Pause, NotifyWorker, IsFull
<1>2. /\ running /\ worker # "none" /\ ~stop
      /\ tail = Wrap(Front + Pending) /\ Done + Pending < Capacity
    BY <1>1 DEF Inv, RingOK, ControlOK, RoomOK
<1>3. Front' = Front /\ Mark = 0 /\ Mark' = 1
    BY <1>1, <1>2 DEF Front, Mark
<1>4. PICK f \in Slots, n \in Nat, d \in Nat :
         f = Front /\ n = Pending /\ d = Done
    <2>1. Front \in Slots /\ Pending \in Nat /\ Done \in Nat
        BY View
    <2> QED BY <2>1, Zenon
<1>5. Pending' = n + 1 /\ Done' = d
    <2>1. n = Len(accepted) - Len(printed)
        BY <1>3, <1>4, View DEF Pending
    <2>2. Pending' = Len(accepted) - Len(printed) + 1
        BY <1>1, <1>3 DEF Pending
    <2> QED BY <1>1, <1>3, <1>4, <2>1, <2>2 DEF Done
<1>6. n \in 0 .. Capacity - 1 /\ d + n < Capacity
    BY <1>2, <1>4, LogAssumption
<1>7. queue \in [Slots -> Entry] /\ tail \in Slots
    BY DEF Inv, TypeOK
<1>8. PrefixOK'
    BY <1>1 DEF Inv, RingOK, PrefixOK
<1>9. RoomOK'
    <2>1. tail' = Wrap(Front' + Pending')
        BY <1>1, <1>2, <1>3, <1>4, <1>5, <1>6, WrapNext
    <2>2. d + (n + 1) <= Capacity
        BY <1>6, LogAssumption
    <2>3. ASSUME ~wrapped' PROVE d + (n + 1) < Capacity
        <3>1. d \in 0 .. Capacity - 1 /\ head \in Slots /\ d = Gap(head, f)
            BY <1>4, View DEF Done
        <3>2. Next1(tail) = Wrap(f + (n + 1))
            BY <1>2, <1>4, <1>6, WrapNext
        <3>3. Wrap(f + (n + 1)) # head
            BY <1>1, <2>3, <3>2
        <3>4. d + n # Capacity - 1
            BY <1>6, <3>1, <3>3, LogAssumption DEF Gap, Wrap, Slots
        <3> QED BY <1>6, <3>1, <3>4, LogAssumption
    <2>4. worker' = "flush" => Gap(cursor', end') <= n + 1 /\ d + Gap(cursor', end') < Capacity
        <3>1. Gap(cursor, end) \in Nat
            BY GapIs DEF Inv, TypeOK
        <3>2. worker' = "flush" => Gap(cursor, end) <= n /\ d + Gap(cursor, end) < Capacity
            BY <1>1, <1>4 DEF Inv, RingOK, RoomOK
        <3>3. Gap(cursor', end') = Gap(cursor, end)
            BY <1>1
        <3> QED BY <3>1, <3>2, <3>3
    <2> QED BY <1>1, <1>5, <2>1, <2>2, <2>3, <2>4 DEF RoomOK
<1>10. SlotsOK'
    <2>1. Pending' - Mark' = n
        BY <1>3, <1>5
    <2>2. ASSUME NEW k \in 1 .. n PROVE Slot(k)' = Slot(k)
        <3>1. k - 1 \in 0 .. Capacity - 1 /\ k - 1 # n
            BY <1>6, <2>2, LogAssumption
        <3>2. Wrap(f + (k - 1)) \in Slots /\ Wrap(f + (k - 1)) # tail
            BY <1>2, <1>4, <1>6, <3>1, GapOf, WrapApart
        <3>3. queue'[Wrap(f + (k - 1))] = queue[Wrap(f + (k - 1))]
            BY <1>1, <1>7, <3>2
        <3> QED BY <1>3, <1>4, <3>3 DEF Slot
    <2>3. \A k \in 1 .. n : Slot(k) = [msg |-> accepted[Len(printed) + k], is_end |-> FALSE]
        <3>1. Pending - Mark = n
            BY <1>3, <1>4
        <3> QED BY <3>1 DEF Inv, RingOK, SlotsOK
    <2>4. Slot(n + 1)'.is_end
        <3>1. (n + 1) - 1 = n
            OBVIOUS
        <3>2. Slot(n + 1)' = queue'[tail]
            BY <1>2, <1>3, <1>4, <3>1 DEF Slot
        <3>3. queue'[tail].is_end = TRUE
            BY <1>1, <1>7 DEF Entry
        <3> QED BY <3>2, <3>3
    <2>5. UNCHANGED <<accepted, printed>>
        BY <1>1
    <2> QED BY <1>5, <2>1, <2>2, <2>3, <2>4, <2>5, Zenon DEF SlotsOK
<1>11. ControlOK'
    BY <1>1, <1>2 DEF Inv, RingOK, ControlOK
<1> QED BY <1>8, <1>9, <1>10, <1>11 DEF RingOK

\* The join of the worker and its restart find nothing pending.
LEMMA JoinKeeps ==
    ASSUME Inv, Join \/ Resume
    PROVE  RingOK'
<1>1. /\ worker = "none" /\ ~running /\ Pending = 0 /\ ~stop
      /\ UNCHANGED <<queue, head, tail, cursor, end, stop, accepted, printed, wrapped>>
      /\ \/ control' = "paused" /\ UNCHANGED <<worker, running>>
         \/ control' = "running" /\ worker' = "check" /\ running' = TRUE
    BY DEF Inv, RingOK, ControlOK, Join, Resume, ring, flush, history
<1>2. Mark = 0 /\ Mark' = 0
    BY <1>1 DEF Mark
<1>3. Pending' = Pending
    BY <1>1, <1>2 DEF Pending
<1>4. Front = head /\ Front' = head /\ head \in Slots
    BY <1>1 DEF Front, Inv, TypeOK
<1>5. Done' = 0
    BY <1>1, <1>4, GapIs DEF Done
<1>6. PrefixOK'
    BY <1>1 DEF Inv, RingOK, PrefixOK
<1>7. RoomOK'
    <2>1. tail' = Wrap(Front' + Pending')
        BY <1>1, <1>3, <1>4 DEF Inv, RingOK, RoomOK
    <2>2. Done' + Pending' = 0
        BY <1>1, <1>3, <1>5
    <2> QED BY <1>1, <2>1, <2>2, LogAssumption DEF RoomOK
<1>8. SlotsOK'
    BY <1>1, <1>2, <1>3 DEF SlotsOK
<1>9. ControlOK'
    BY <1>1, <1>3 DEF ControlOK
<1> QED BY <1>6, <1>7, <1>8, <1>9 DEF RingOK

-----------------------------------------------------------------------------
(* Types.                                                                   *)

LEMMA TypeStep == Inv /\ [Next]_vars => TypeOK' /\ SentOK'
<1> SUFFICES ASSUME Inv, [Next]_vars PROVE TypeOK' /\ SentOK'
    OBVIOUS
<1>a. TypeOK /\ SentOK
    BY DEF Inv
<1>b. Next1(tail) \in Slots
    BY <1>a, NextIs DEF TypeOK
<1>1. ASSUME NEW l \in Loggers, Log(l) PROVE TypeOK' /\ SentOK'
    <2>1. /\ sent' = [sent EXCEPT ![l] = @ + 1] /\ logger' = [logger EXCEPT ![l] = "ready"]
          /\ sent[l] < MaxMessages /\ UNCHANGED <<ring, flush, control, history>>
        BY <1>1 DEF Log
    <2>2. sent' \in [Loggers -> 0 .. MaxMessages]
        <3>1. sent[l] + 1 \in 0 .. MaxMessages
            BY <1>a, <2>1, LogAssumption DEF TypeOK
        <3> QED BY <1>a, <2>1, <3>1 DEF TypeOK
    <2>3. logger' \in [Loggers -> {"idle", "ready", "asleep"}]
        BY <1>a, <2>1 DEF TypeOK
    <2>4. \A k \in Loggers : k # l => sent'[k] = sent[k] /\ logger'[k] = logger[k]
        BY <1>a, <2>1 DEF TypeOK
    <2>5. sent'[l] >= 1
        BY <1>a, <2>1, LogAssumption DEF TypeOK
    <2>6. SentOK'
        BY <1>a, <2>4, <2>5 DEF SentOK
    <2>7. TypeOK'
        BY <1>a, <2>1, <2>2, <2>3 DEF TypeOK, ring, flush, history
    <2> QED BY <2>6, <2>7
<1>2. ASSUME NEW l \in Loggers, Add(l) PROVE TypeOK' /\ SentOK'
    <2>1. <<l, sent[l]>> \in Message
        BY <1>2, <1>a DEF Add, TypeOK, SentOK, Message
    <2>2. accepted' \in Seq(Message)
        BY <1>2, <1>a, <2>1 DEF Add, TypeOK
    <2>3. queue' \in [Slots -> Entry]
        <3>1. [msg |-> <<l, sent[l]>>, is_end |-> FALSE] \in Entry
            BY <2>1 DEF Entry
        <3> QED BY <1>2, <1>a, <3>1 DEF Add, TypeOK
    <2>4. logger' \in [Loggers -> {"idle", "ready", "asleep"}]
        BY <1>2, <1>a DEF Add, TypeOK
    <2>5. worker' \in {"none", "check", "asleep", "flush", "publish"}
        BY <1>2, <1>a DEF Add, NotifyWorker, TypeOK
    <2>6. /\ tail' = Next1(tail)
          /\ UNCHANGED <<head, running, cursor, end, stop, control, sent, printed, wrapped>>
        BY <1>2 DEF Add
    <2>7. TypeOK'
        BY <1>a, <1>b, <2>2, <2>3, <2>4, <2>5, <2>6 DEF TypeOK
    <2>8. \A k \in Loggers : logger'[k] = logger[k] \/ logger'[k] = "idle"
        BY <1>2, <1>a DEF Add, TypeOK
    <2>9. SentOK'
        BY <1>a, <2>6, <2>8 DEF SentOK
    <2> QED BY <2>7, <2>9
<1>3. ASSUME NEW l \in Loggers, AddBlocked(l) \/ AddDiscarded(l) PROVE TypeOK' /\ SentOK'
    <2>1. /\ logger[l] = "ready" /\ UNCHANGED <<ring, flush, control, sent, history>>
          /\ \E x \in {"idle", "asleep"} : logger' = [logger EXCEPT ![l] = x]
        BY <1>3 DEF AddBlocked, AddDiscarded
    <2>2. logger' \in [Loggers -> {"idle", "ready", "asleep"}]
        BY <1>a, <2>1 DEF TypeOK
    <2>3. \A k \in Loggers : logger'[k] # "idle" => logger[k] # "idle"
        BY <1>a, <2>1 DEF TypeOK
    <2>4. TypeOK'
        BY <1>a, <2>1, <2>2 DEF TypeOK, ring, flush, history
    <2>5. SentOK'
        BY <1>a, <2>1, <2>3 DEF SentOK
    <2> QED BY <2>4, <2>5
<1>4. CASE WorkerCheck
    BY <1>4, <1>a DEF WorkerCheck, TypeOK, SentOK, ring, history
<1>5. CASE PrintEntry
    <2>1. printed' \in Seq(Message)
        BY <1>5, PrintKeeps
    <2>2. cursor' \in Slots
        BY <1>5, <1>a, NextIs DEF PrintEntry, TypeOK
    <2>3. stop' \in BOOLEAN
        BY <1>5, <1>a DEF PrintEntry, TypeOK, Entry
    <2>4. worker' \in {"flush", "publish"}
        BY <1>5 DEF PrintEntry
    <2>5. UNCHANGED <<queue, head, tail, running, end, logger, control, sent, accepted, wrapped>>
        BY <1>5 DEF PrintEntry, ring
    <2> QED BY <1>a, <2>1, <2>2, <2>3, <2>4, <2>5 DEF TypeOK, SentOK
<1>c. ASSUME NotifyLoggers
      PROVE  /\ logger' \in [Loggers -> {"idle", "ready", "asleep"}]
             /\ \A k \in Loggers : logger'[k] # "idle" => logger[k] # "idle"
    BY <1>a, <1>c DEF NotifyLoggers, TypeOK
<1>6. CASE Publish
    <2>1. /\ head' \in Slots /\ cursor' \in Slots /\ end' \in Slots /\ stop' \in BOOLEAN
          /\ worker' \in {"none", "check"}
        <3>1. 0 \in Slots
            BY LogAssumption DEF Slots
        <3> QED BY <1>6, <1>a, <3>1 DEF Publish, TypeOK
    <2>2. NotifyLoggers /\ UNCHANGED <<queue, tail, running, control, sent, accepted, printed, wrapped>>
        BY <1>6 DEF Publish, history
    <2>3. TypeOK'
        BY <1>a, <1>c, <2>1, <2>2 DEF TypeOK
    <2>4. SentOK'
        BY <1>a, <1>c, <2>2 DEF SentOK
    <2> QED BY <2>3, <2>4
<1>7. CASE Pause
    <2>1. queue' \in [Slots -> Entry]
        <3>1. queue \in [Slots -> Entry] /\ tail \in Slots
            BY <1>a DEF TypeOK
        <3>2. queue' = [queue EXCEPT ![tail].is_end = TRUE]
            BY <1>7 DEF Pause
        <3>3. [queue[tail] EXCEPT !.is_end = TRUE] \in Entry
            BY <3>1 DEF Entry
        <3> QED BY <3>1, <3>2, <3>3
    <2>2. worker' \in {"none", "check", "asleep", "flush", "publish"}
        BY <1>7, <1>a DEF Pause, NotifyWorker, TypeOK
    <2>3. /\ NotifyLoggers /\ tail' = Next1(tail) /\ running' = FALSE /\ control' = "join"
          /\ wrapped' = (wrapped \/ IsFull)
          /\ UNCHANGED <<head, cursor, end, stop, sent, accepted, printed>>
        BY <1>7 DEF Pause
    <2>4. wrapped' \in BOOLEAN
        BY <2>3
    <2>5. TypeOK'
        BY <1>a, <1>b, <1>c, <2>1, <2>2, <2>3, <2>4 DEF TypeOK
    <2>6. SentOK'
        BY <1>a, <1>c, <2>3 DEF SentOK
    <2> QED BY <2>5, <2>6
<1>8. CASE Join \/ Resume
    BY <1>8, <1>a DEF Join, Resume, TypeOK, SentOK, ring, flush, history
<1>9. CASE UNCHANGED vars
    BY <1>9, <1>a DEF vars, TypeOK, SentOK, ring, flush, history
<1> QED
    BY <1>1, <1>2, <1>3, <1>4, <1>5, <1>6, <1>7, <1>8, <1>9 DEF Next, LoggerStep, WorkerStep

-----------------------------------------------------------------------------
(* The theorems.                                                            *)

\* The inductive invariant of the logger: what is pending is in the ring, in order.
THEOREM LogInvariant == Spec => []Inv
<1>1. Init => Inv
    <2> SUFFICES ASSUME Init PROVE Inv
        OBVIOUS
    <2>1. 0 \in Slots
        BY LogAssumption DEF Slots
    <2>2. TypeOK
        <3>1. [msg |-> Empty, is_end |-> FALSE] \in Entry
            BY DEF Entry
        <3>2. queue \in [Slots -> Entry]
            BY <3>1 DEF Init
        <3>3. sent \in [Loggers -> 0 .. MaxMessages]
            BY LogAssumption DEF Init
        <3>4. logger \in [Loggers -> {"idle", "ready", "asleep"}]
            BY DEF Init
        <3> QED BY <2>1, <3>2, <3>3, <3>4 DEF Init, TypeOK
    <2>3. SentOK
        BY DEF Init, SentOK
    <2>4. Mark = 0 /\ Pending = 0 /\ Front = 0
        BY DEF Init, Mark, Pending, Front
    <2>5. Done = 0
        BY <2>1, <2>4, GapIs DEF Init, Done
    <2>6. PrefixOK
        BY DEF Init, PrefixOK
    <2>7. RoomOK
        <3>1. tail = Wrap(Front + Pending)
            BY <2>1, <2>4, RoundTheRing DEF Init
        <3> QED BY <2>4, <2>5, <3>1, LogAssumption DEF Init, RoomOK
    <2>8. SlotsOK
        BY <2>4 DEF SlotsOK
    <2>9. ControlOK
        BY DEF Init, ControlOK
    <2> QED BY <2>2, <2>3, <2>6, <2>7, <2>8, <2>9 DEF Inv, RingOK
<1>2. Inv /\ [Next]_vars => Inv'
    <2> SUFFICES ASSUME Inv, [Next]_vars PROVE Inv'
        OBVIOUS
    <2>1. TypeOK' /\ SentOK'
        BY TypeStep
    <2>2. ASSUME NEW l \in Loggers, Log(l) \/ LoggerStep(l) PROVE RingOK'
        <3>1. CASE Add(l)
            BY <3>1, AddKeeps
        <3>2. CASE Log(l) \/ AddBlocked(l) \/ AddDiscarded(l)
            <4>1. UNCHANGED <<ring, flush, control, history>>
                BY <3>2 DEF Log, AddBlocked, AddDiscarded
            <4> QED BY <4>1, RingUntouched DEF Inv
        <3> QED BY <2>2, <3>1, <3>2 DEF LoggerStep
    <2>3. ASSUME WorkerStep PROVE RingOK'
        BY <2>3, CheckKeeps, PrintKeeps, PublishKeeps DEF WorkerStep
    <2>4. ASSUME Pause PROVE RingOK'
        BY <2>4, PauseKeeps
    <2>5. ASSUME Join \/ Resume PROVE RingOK'
        BY <2>5, JoinKeeps
    <2>6. ASSUME UNCHANGED vars PROVE RingOK'
        <3>1. UNCHANGED <<ring, flush, control, history>>
            BY <2>6 DEF vars
        <3> QED BY <3>1, RingUntouched DEF Inv
    <2>7. RingOK'
        BY <2>2, <2>3, <2>4, <2>5, <2>6 DEF Next
    <2> QED BY <2>1, <2>7 DEF Inv
<1> QED BY <1>1, <1>2, PTL DEF Spec

\* The ring, the threads and the histories keep their types.
THEOREM LogTypes == Spec => []TypeOK
<1>1. Inv => TypeOK
    BY DEF Inv
<1> QED BY <1>1, LogInvariant, PTL

\* What was accepted and is not printed is in the ring in its order, then the end mark of
\* a pause: nothing is lost, torn by an add() during a flush or printed twice, unless a
\* pause found the ring full (log.cpp:186-330).
THEOREM RingIsWhole == Spec => []RingHoldsPending
<1>1. Inv => RingHoldsPending
    <2> SUFFICES ASSUME Inv, ~wrapped PROVE RingHoldsPending
        BY DEF RingHoldsPending
    <2> DEFINE held == (tail - Front + Capacity) % Capacity
               slot(k) == queue[(Front + k - 1) % Capacity]
    <2>1. Front \in Slots /\ tail \in Slots /\ Mark \in {0, 1} /\ Pending \in Nat
          /\ Len(accepted) \in Nat /\ Len(printed) \in Nat
        BY View
    <2>2. Pending \in 0 .. Capacity - 1 /\ tail = Wrap(Front + Pending)
        <3>1. Done + Pending < Capacity /\ Done \in Nat
            BY View DEF Inv, RingOK, RoomOK
        <3>2. tail = Wrap(Front + Pending)
            BY DEF Inv, RingOK, RoomOK
        <3> QED BY <2>1, <3>1, <3>2, LogAssumption
    <2>3. held = Pending
        <3>1. tail - Front + Capacity \in 0 .. 2 * Capacity - 1
            BY <2>1, LogAssumption DEF Slots
        <3>2. held = Wrap(tail - Front + Capacity)
            BY <3>1, WrapIs
        <3>3. Wrap(tail - Front + Capacity) = Pending
            BY <2>1, <2>2, LogAssumption DEF Wrap, Slots
        <3> QED BY <3>2, <3>3
    <2>4. ASSUME NEW k \in 1 .. Pending PROVE slot(k) = Slot(k)
        <3>1. Front + k - 1 \in 0 .. 2 * Capacity - 1 /\ Front + k - 1 = Front + (k - 1)
            BY <2>1, <2>2, LogAssumption DEF Slots
        <3>2. (Front + k - 1) % Capacity = Wrap(Front + (k - 1))
            BY <3>1, WrapIs
        <3> QED BY <3>2 DEF Slot
    <2> HIDE DEF held, slot
    <2>5. Len(accepted) = Len(printed) + held - Mark
        BY <2>1, <2>3 DEF Pending
    <2>6. \A k \in 1 .. Len(printed) : printed[k] = accepted[k]
        BY DEF Inv, RingOK, PrefixOK
    <2>7. \A k \in 1 .. held - Mark :
             slot(k) = [msg |-> accepted[Len(printed) + k], is_end |-> FALSE]
        <3>1. \A k \in 1 .. held - Mark : k \in 1 .. Pending
            BY <2>1, <2>3
        <3>2. \A k \in 1 .. held - Mark :
                 Slot(k) = [msg |-> accepted[Len(printed) + k], is_end |-> FALSE]
            BY <2>3 DEF Inv, RingOK, SlotsOK
        <3> QED BY <2>4, <3>1, <3>2, Zenon
    <2>8. Mark = 1 => slot(held).is_end
        <3> SUFFICES ASSUME Mark = 1 PROVE slot(held).is_end
            OBVIOUS
        <3>1. Pending \in 1 .. Pending
            <4>1. Len(printed) <= Len(accepted)
                BY DEF Inv, RingOK, PrefixOK
            <4> QED BY <2>1, <4>1 DEF Pending
        <3>2. Slot(Pending).is_end
            BY DEF Inv, RingOK, SlotsOK
        <3>3. slot(Pending) = Slot(Pending)
            BY <2>4, <3>1
        <3> QED BY <2>3, <3>2, <3>3
    <2> QED BY <2>5, <2>6, <2>7, <2>8, Zenon DEF RingHoldsPending, Mark, held, slot
<1> QED BY <1>1, LogInvariant, PTL

\* Once pause() has returned everything accepted is printed and the worker has ended, so
\* that set_file may close the file (log.cpp:283-330).
THEOREM PauseFlushes == Spec => []PausedIsFlushed
<1>1. Inv => PausedIsFlushed
    <2> SUFFICES ASSUME Inv, control = "paused" PROVE printed = accepted /\ worker = "none"
        BY DEF PausedIsFlushed
    <2>1. worker = "none" /\ Pending = 0
        BY DEF Inv, RingOK, ControlOK
    <2>2. Mark = 0
        BY <2>1 DEF Mark
    <2>3. Len(printed) = Len(accepted)
        BY <2>1, <2>2, View DEF Pending
    <2>4. printed \in Seq(Message) /\ accepted \in Seq(Message)
        BY DEF Inv, TypeOK
    <2>5. \A k \in 1 .. Len(printed) : printed[k] = accepted[k]
        BY DEF Inv, RingOK, PrefixOK
    <2>6. printed = accepted
        BY <2>3, <2>4, <2>5, SeqEqual
    <2> QED BY <2>1, <2>6
<1> QED BY <1>1, LogInvariant, PTL

=============================================================================
