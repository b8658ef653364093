------------------------ MODULE RemoteQueue_proofs ------------------------
(***************************************************************************)
(* Proofs about the command queue, for every number of slots and every set *)
(* of commands.  The ring of module RemoteQueue is well formed and         *)
(* implements the drop-oldest queue.  In module RemoteInject the commands  *)
(* reach the UI in the order of their arrival, even when the interrupt     *)
(* strikes inside Remote_Dequeue and leaves a wrong count; and all of them *)
(* do when it does not and the ring has never been full.                   *)
(***************************************************************************)
EXTENDS RemoteInject, SequenceTheorems, TLAPS

\* Advance is the successor on a ring: the % never does more than wrap once.
LEMMA AdvanceWraps ==
  ASSUME NEW i \in Slots
  PROVE  Advance(i) = IF i + 1 = SIZE THEN 0 ELSE i + 1
  <1>1. SIZE \in Nat /\ SIZE > 0
    BY SizeAssumption
  <1>2. CASE i + 1 = SIZE
    <2>1. SIZE % SIZE = 0
      BY <1>1, SMT
    <2> QED BY <2>1, <1>2 DEF Advance
  <1>3. CASE i + 1 # SIZE
    <2>1. i + 1 \in 0 .. SIZE - 1
      BY <1>1, <1>3 DEF Slots
    <2>2. (i + 1) % SIZE = i + 1
      BY <1>1, <2>1, SMT
    <2> QED BY <2>2, <1>3 DEF Advance
  <1> QED BY <1>2, <1>3

\* Taking the oldest command keeps the ring well formed and removes exactly the
\* head of its content.
LEMMA DequeueTakesHead ==
  ASSUME NEW s \in QueueType, WellFormed(s), s.count > 0
  PROVE  /\ Dequeued(s) \in QueueType
         /\ WellFormed(Dequeued(s))
         /\ Content(s) \in Seq(Cmd) /\ Content(s) # <<>> /\ Len(Content(s)) = s.count
         /\ Content(Dequeued(s)) = Tail(Content(s))
         /\ Oldest(s) = Head(Content(s))
  <1> DEFINE d == Dequeued(s)
  <1>0. SIZE \in Nat /\ SIZE > 0
    BY SizeAssumption
  <1>1. /\ s.count \in 1 .. SIZE /\ s.tail \in Slots /\ s.head \in Slots
        /\ s.buf \in [Slots -> Cmd \cup {NoCmd}]
    BY DEF QueueType
  <1>2. d = [s EXCEPT !.tail = Advance(s.tail), !.count = s.count - 1]
    BY DEF Dequeued
  <1>3. d.tail = IF s.tail + 1 = SIZE THEN 0 ELSE s.tail + 1
    BY <1>1, <1>2, AdvanceWraps DEF QueueType
  <1>4. /\ d.buf = s.buf /\ d.head = s.head /\ d.count = s.count - 1
        /\ d \in QueueType
    <2>1. d = [buf |-> s.buf, head |-> s.head,
               tail |-> Advance(s.tail), count |-> s.count - 1]
      BY <1>2 DEF QueueType
    <2>2. Advance(s.tail) \in Slots /\ s.count - 1 \in 0 .. SIZE
      BY <1>0, <1>1, AdvanceWraps DEF Slots
    <2> QED BY <1>1, <2>1, <2>2 DEF QueueType
  <1> HIDE DEF d
  <1>5. ASSUME NEW k \in 0 .. s.count - 2
        PROVE  SlotOf(d, k) = SlotOf(s, k + 1)
    <2>1. SlotOf(d, k) = IF d.tail + k < SIZE THEN d.tail + k ELSE d.tail + k - SIZE
      BY DEF SlotOf
    <2>2. SlotOf(s, k + 1) =
            IF s.tail + (k + 1) < SIZE THEN s.tail + (k + 1) ELSE s.tail + (k + 1) - SIZE
      BY DEF SlotOf
    <2>3. s.tail \in Int /\ s.tail >= 0 /\ s.tail < SIZE /\ k \in Int
          /\ k >= 0 /\ k < SIZE
      BY <1>0, <1>1 DEF Slots
    <2>4. CASE s.tail + 1 = SIZE
      BY <1>0, <1>3, <2>1, <2>2, <2>3, <2>4
    <2>5. CASE s.tail + 1 # SIZE
      BY <1>0, <1>3, <2>1, <2>2, <2>3, <2>5
    <2> QED BY <2>4, <2>5
  <1>6. WellFormed(d)
    <2>1. d.head = IF d.count = SIZE THEN d.tail ELSE SlotOf(d, d.count)
      <3>1. d.count # SIZE
        BY <1>0, <1>1, <1>4
      <3>2. CASE s.count = SIZE
        <4>1. SlotOf(d, d.count) =
                IF d.tail + (SIZE - 1) < SIZE THEN d.tail + (SIZE - 1)
                ELSE d.tail + (SIZE - 1) - SIZE
          BY <3>2, <1>4 DEF SlotOf
        <4>2. s.head = s.tail
          BY <3>2 DEF WellFormed
        <4> QED BY <4>1, <4>2, <3>1, <1>0, <1>1, <1>3, <1>4 DEF Slots
      <3>3. CASE s.count # SIZE
        <4>1. SlotOf(d, d.count) =
                IF d.tail + (s.count - 1) < SIZE THEN d.tail + (s.count - 1)
                ELSE d.tail + (s.count - 1) - SIZE
          BY <1>4 DEF SlotOf
        <4>2. s.head = IF s.tail + s.count < SIZE THEN s.tail + s.count
                       ELSE s.tail + s.count - SIZE
          BY <3>3 DEF WellFormed, SlotOf
        <4> QED BY <4>1, <4>2, <3>1, <1>0, <1>1, <1>3, <1>4 DEF Slots
      <3> QED BY <3>2, <3>3
    <2>2. ASSUME NEW k \in 0 .. d.count - 1
          PROVE  d.buf[SlotOf(d, k)] \in Cmd
      <3>1. k + 1 \in 0 .. s.count - 1 /\ k \in 0 .. s.count - 2
        BY <1>0, <1>1, <1>4
      <3> QED BY <3>1, <1>4, <1>5 DEF WellFormed
    <2> QED BY <2>1, <2>2 DEF WellFormed
  <1>7. /\ Content(s) \in Seq(Cmd) /\ Len(Content(s)) = s.count
        /\ Content(s) # <<>>
    <2>1. \A k \in 1 .. s.count : s.buf[SlotOf(s, k - 1)] \in Cmd
      <3> TAKE k \in 1 .. s.count
      <3>1. k - 1 \in 0 .. s.count - 1
        BY <1>0, <1>1
      <3> QED BY <3>1 DEF WellFormed
    <2> QED BY <1>0, <1>1, <2>1 DEF Content
  <1>8. Content(d) = Tail(Content(s))
    <2>1. Tail(Content(s)) = [k \in 1 .. s.count - 1 |-> Content(s)[k + 1]]
      BY <1>1, <1>7 DEF Content
    <2>2. Content(d) = [k \in 1 .. s.count - 1 |-> s.buf[SlotOf(d, k - 1)]]
      BY <1>4 DEF Content
    <2>3. ASSUME NEW k \in 1 .. s.count - 1
          PROVE  Content(s)[k + 1] = s.buf[SlotOf(d, k - 1)]
      <3>1. /\ k - 1 \in 0 .. s.count - 2 /\ k + 1 \in 1 .. s.count
            /\ (k - 1) + 1 = (k + 1) - 1
        BY <1>0, <1>1
      <3>2. Content(s)[k + 1] = s.buf[SlotOf(s, (k + 1) - 1)]
        BY <3>1 DEF Content
      <3> QED BY <3>1, <3>2, <1>5
    <2> QED BY <2>1, <2>2, <2>3
  <1>9. Oldest(s) = Head(Content(s))
    <2>1. SlotOf(s, 1 - 1) = s.tail
      BY <1>0, <1>1 DEF SlotOf, Slots
    <2> QED BY <2>1, <1>1, <1>7 DEF Oldest, Content
  <1> QED BY <1>4, <1>6, <1>7, <1>8, <1>9 DEF d

\* Different ages live in different slots of the ring.
LEMMA SlotsDistinct ==
  ASSUME NEW s \in QueueType, NEW j \in 0 .. SIZE - 1, NEW k \in 0 .. SIZE - 1, j # k
  PROVE  SlotOf(s, j) \in Slots /\ SlotOf(s, j) # SlotOf(s, k)
  <1>1. SIZE \in Nat /\ SIZE > 0 /\ s.tail \in Int /\ s.tail >= 0 /\ s.tail < SIZE
    BY SizeAssumption DEF QueueType, Slots
  <1> QED BY <1>1 DEF SlotOf, Slots

\* Storing a command in a ring with a free slot appends it to the content.
LEMMA StoreAppends ==
  ASSUME NEW s \in QueueType, WellFormed(s), s.count < SIZE, NEW c \in Cmd,
         NEW e, e = [s EXCEPT !.buf = [s.buf EXCEPT ![s.head] = c],
                              !.head = Advance(s.head), !.count = s.count + 1]
  PROVE  /\ e \in QueueType
         /\ WellFormed(e)
         /\ Content(s) \in Seq(Cmd) /\ Len(Content(s)) = s.count
         /\ Content(e) = Append(Content(s), c)
  <1>0. SIZE \in Nat /\ SIZE > 0
    BY SizeAssumption
  <1>1. /\ s.count \in 0 .. SIZE - 1 /\ s.tail \in Slots /\ s.head \in Slots
        /\ s.buf \in [Slots -> Cmd \cup {NoCmd}]
    BY <1>0 DEF QueueType
  <1>2. e = [buf |-> [s.buf EXCEPT ![s.head] = c], head |-> Advance(s.head),
             tail |-> s.tail, count |-> s.count + 1]
    BY DEF QueueType
  <1>3. Advance(s.head) = IF s.head + 1 = SIZE THEN 0 ELSE s.head + 1
    BY <1>1, AdvanceWraps
  <1>4. /\ e.buf = [s.buf EXCEPT ![s.head] = c] /\ e.tail = s.tail
        /\ e.count = s.count + 1 /\ e.head = Advance(s.head)
    BY <1>2
  <1>5. e \in QueueType
    <2>1. Advance(s.head) \in Slots /\ s.count + 1 \in 0 .. SIZE
      BY <1>0, <1>1, <1>3 DEF Slots
    <2> QED BY <1>1, <1>2, <2>1 DEF QueueType
  <1>6. /\ s.head = SlotOf(s, s.count)
        /\ \A k : SlotOf(e, k) = SlotOf(s, k)
    BY <1>0, <1>1, <1>4 DEF WellFormed, SlotOf
  <1>7. ASSUME NEW k \in 0 .. s.count - 1
        PROVE  e.buf[SlotOf(e, k)] = s.buf[SlotOf(s, k)] /\ s.buf[SlotOf(s, k)] \in Cmd
    <2>1. k \in 0 .. SIZE - 1 /\ s.count \in 0 .. SIZE - 1 /\ k # s.count
      BY <1>0, <1>1
    <2>2. SlotOf(s, k) \in Slots /\ SlotOf(s, k) # s.head
      BY <2>1, <1>6, SlotsDistinct
    <2> QED BY <2>2, <1>1, <1>4, <1>6 DEF WellFormed
  <1>8. e.buf[SlotOf(e, s.count)] = c
    BY <1>1, <1>4, <1>6
  <1>9. WellFormed(e)
    <2>1. e.head = IF e.count = SIZE THEN e.tail ELSE SlotOf(e, e.count)
      <3>1. s.head = IF s.tail + s.count < SIZE THEN s.tail + s.count
                     ELSE s.tail + s.count - SIZE
        BY <1>6 DEF SlotOf
      <3>2. SlotOf(e, e.count) = IF s.tail + (s.count + 1) < SIZE THEN s.tail + (s.count + 1)
                                 ELSE s.tail + (s.count + 1) - SIZE
        BY <1>4 DEF SlotOf
      <3>3. CASE s.count + 1 = SIZE
        BY <3>1, <3>3, <1>0, <1>1, <1>3, <1>4 DEF Slots
      <3>4. CASE s.count + 1 # SIZE
        BY <3>1, <3>2, <3>4, <1>0, <1>1, <1>3, <1>4 DEF Slots
      <3> QED BY <3>3, <3>4
    <2>2. ASSUME NEW k \in 0 .. e.count - 1 PROVE e.buf[SlotOf(e, k)] \in Cmd
      <3>1. k \in 0 .. s.count - 1 \/ k = s.count
        BY <1>0, <1>1, <1>4
      <3> QED BY <3>1, <1>7, <1>8
    <2> QED BY <2>1, <2>2 DEF WellFormed
  <1>10. ASSUME NEW k \in 1 .. s.count
         PROVE  /\ Content(s)[k] \in Cmd
                /\ Content(s)[k] = s.buf[SlotOf(s, k - 1)]
                /\ e.buf[SlotOf(e, k - 1)] = s.buf[SlotOf(s, k - 1)]
    <2>1. k - 1 \in 0 .. s.count - 1
      BY <1>0, <1>1
    <2> QED BY <2>1, <1>7 DEF Content
  <1>11. Content(s) \in Seq(Cmd) /\ Len(Content(s)) = s.count
    <2>1. \A k \in 1 .. s.count : s.buf[SlotOf(s, k - 1)] \in Cmd
      BY <1>10
    <2> QED BY <1>0, <1>1, <2>1 DEF Content
  <1>12. Content(e) = Append(Content(s), c)
    <2> DEFINE f == Append(Content(s), c)
    <2>1. /\ Content(e) \in Seq(Cmd) /\ Len(Content(e)) = s.count + 1
          /\ \A k \in 1 .. s.count + 1 : Content(e)[k] = e.buf[SlotOf(e, k - 1)]
      <3>1. \A k \in 1 .. s.count + 1 : e.buf[SlotOf(e, k - 1)] \in Cmd
        <4> TAKE k \in 1 .. s.count + 1
        <4>1. k - 1 \in 0 .. e.count - 1
          BY <1>0, <1>1, <1>4
        <4> QED BY <4>1, <1>9 DEF WellFormed
      <3>2. Content(e) = [k \in 1 .. s.count + 1 |-> e.buf[SlotOf(e, k - 1)]]
        BY <1>4 DEF Content
      <3>3. s.count + 1 \in Nat
        BY <1>0, <1>1
      <3> HIDE DEF Content
      <3> QED BY <3>1, <3>2, <3>3
    <2>2. /\ f \in Seq(Cmd) /\ Len(f) = s.count + 1
          /\ \A k \in 1 .. s.count : f[k] = Content(s)[k]
          /\ f[s.count + 1] = c
      BY <1>11, AppendProperties
    <2>3. ASSUME NEW k \in 1 .. s.count + 1
          PROVE  Content(e)[k] = f[k]
      <3>1. CASE k \in 1 .. s.count
        BY <3>1, <1>10, <2>1, <2>2
      <3>2. CASE k \notin 1 .. s.count
        <4>1. k = s.count + 1 /\ k - 1 = s.count
          BY <1>0, <1>1, <3>2
        <4> QED BY <4>1, <1>8, <2>1, <2>2
      <3> QED BY <3>1, <3>2
    <2> HIDE DEF f
    <2>4. Content(e) = f
      BY <2>1, <2>2, <2>3, SeqEqual
    <2> QED BY <2>4 DEF f
  <1> QED BY <1>5, <1>9, <1>11, <1>12

\* Remote_Enqueue keeps the ring well formed and changes its content the way a
\* drop-oldest queue does.
LEMMA EnqueueDropsOldest ==
  ASSUME NEW s \in QueueType, WellFormed(s), NEW c \in Cmd
  PROVE  /\ Enqueued(s, c) \in QueueType
         /\ WellFormed(Enqueued(s, c))
         /\ Content(Enqueued(s, c)) =
              Append(IF Len(Content(s)) = SIZE THEN Tail(Content(s)) ELSE Content(s), c)
  <1> DEFINE r == WithRoom(s)
  <1>0. SIZE \in Nat /\ SIZE > 0 /\ s.count \in 0 .. SIZE
    BY SizeAssumption DEF QueueType
  <1>1. /\ r \in QueueType /\ WellFormed(r) /\ r.count < SIZE
        /\ Content(r) = IF Len(Content(s)) = SIZE THEN Tail(Content(s)) ELSE Content(s)
    <2>1. CASE s.count >= SIZE
      <3>1. s.count > 0 /\ s.count = SIZE /\ r = Dequeued(s)
        BY <1>0, <2>1 DEF WithRoom
      <3>2. r.count = s.count - 1
        BY <3>1 DEF Dequeued, QueueType
      <3> QED BY <1>0, <3>1, <3>2, DequeueTakesHead
    <2>2. CASE ~(s.count >= SIZE)
      <3>1. s.count < SIZE /\ r = s
        BY <1>0, <2>2 DEF WithRoom
      <3>2. Len(Content(s)) = s.count
        <4> DEFINE e == [s EXCEPT !.buf = [s.buf EXCEPT ![s.head] = c],
                                  !.head = Advance(s.head), !.count = s.count + 1]
        <4>1. PICK e1 : e1 = e
          OBVIOUS
        <4> QED BY <4>1, <3>1, StoreAppends
      <3> QED BY <1>0, <3>1, <3>2
    <2> QED BY <2>1, <2>2
  <1>2. Enqueued(s, c) = [r EXCEPT !.buf = [r.buf EXCEPT ![r.head] = c],
                                   !.head = Advance(r.head), !.count = r.count + 1]
    BY DEF Enqueued
  <1> HIDE DEF r
  <1> QED BY <1>1, <1>2, StoreAppends

Inv == TypeOK /\ IndicesAgree

\* The invariant holds initially and every step keeps it.
LEMMA Inductive ==
  /\ Init => Inv
  /\ Inv /\ [Next]_vars => Inv'
  <1>0. SIZE \in Nat /\ SIZE > 0
    BY SizeAssumption
  <1>1. Init => Inv
    <2> SUFFICES ASSUME Init PROVE Inv
      OBVIOUS
    <2>1. /\ rq \in QueueType /\ rq.head = 0 /\ rq.tail = 0 /\ rq.count = 0
          /\ taken = NoCmd
      BY <1>0 DEF Init, EmptyQueue, QueueType, Slots
    <2>2. WellFormed(rq)
      BY <1>0, <2>1 DEF WellFormed, SlotOf
    <2> QED BY <2>1, <2>2 DEF Inv, TypeOK, IndicesAgree
  <1>2. Inv /\ [Next]_vars => Inv'
    <2> SUFFICES ASSUME Inv, [Next]_vars PROVE Inv'
      OBVIOUS
    <2>1. rq \in QueueType /\ WellFormed(rq) /\ taken \in Cmd \cup {NoCmd}
      BY DEF Inv, TypeOK, IndicesAgree
    <2>2. ASSUME NEW c \in Cmd, Enqueue(c) PROVE Inv'
      BY <2>1, <2>2, EnqueueDropsOldest DEF Enqueue, Inv, TypeOK, IndicesAgree
    <2>3. CASE Dequeue
      <3>1. CASE rq.count = 0
        BY <2>1, <2>3, <3>1 DEF Dequeue, Dequeued, Oldest, Inv, TypeOK, IndicesAgree
      <3>2. CASE rq.count # 0
        <4>1. rq.count > 0
          BY <1>0, <2>1, <3>2 DEF QueueType
        <4>2. Oldest(rq) \in Cmd \cup {NoCmd}
          BY <2>1 DEF Oldest, QueueType
        <4> QED BY <2>1, <2>3, <4>1, <4>2, DequeueTakesHead
                DEF Dequeue, Inv, TypeOK, IndicesAgree
      <3> QED BY <3>1, <3>2
    <2>4. CASE UNCHANGED vars
      BY <2>4 DEF vars, Inv, TypeOK, IndicesAgree, WellFormed, SlotOf
    <2> QED BY <2>2, <2>3, <2>4 DEF Next
  <1> QED BY <1>1, <1>2

\* Type correctness for every ring size.
THEOREM TypeCorrect == Spec => []TypeOK
  <1>1. Inv => TypeOK
    BY DEF Inv
  <1> QED BY <1>1, Inductive, PTL DEF Spec

\* Head, tail and count of the command queue always describe the same ring.
THEOREM IndicesAlwaysAgree == Spec => []IndicesAgree
  <1>1. Inv => IndicesAgree
    BY DEF Inv
  <1> QED BY <1>1, Inductive, PTL DEF Spec

\* Remote_Enqueue and Remote_Dequeue, run to completion, implement the bounded
\* FIFO that drops its oldest entry, for every ring size and command set.
THEOREM Refinement == Spec => ImplementsDropOldest
  <1>0. SIZE \in Nat /\ SIZE > 0
    BY SizeAssumption
  <1>1. Init => Abstract!Init
    BY DEF Init, EmptyQueue, Content, Abstract!Init
  <1>2. Inv /\ [Next]_vars => [Abstract!Next]_(Abstract!vars)
    <2> SUFFICES ASSUME Inv, [Next]_vars
                 PROVE  Abstract!Next \/ UNCHANGED Abstract!vars
      OBVIOUS
    <2>1. rq \in QueueType /\ WellFormed(rq)
      BY DEF Inv, TypeOK, IndicesAgree
    <2>2. ASSUME NEW c \in Cmd, Enqueue(c) PROVE Abstract!Put(c)
      <3>1. Content(rq') =
              Append(IF Len(Content(rq)) = SIZE THEN Tail(Content(rq)) ELSE Content(rq), c)
        BY <2>1, <2>2, EnqueueDropsOldest DEF Enqueue
      <3> QED BY <3>1, <2>2 DEF Enqueue, Abstract!Put
    <2>3. CASE Dequeue /\ rq.count = 0
      <3>1. Content(rq) = <<>>
        BY <2>3 DEF Content
      <3>2. rq' = rq /\ taken' = NoCmd
        BY <2>3 DEF Dequeue, Dequeued, Oldest
      <3> QED BY <3>1, <3>2 DEF Abstract!Next, Abstract!GetNothing
    <2>4. CASE Dequeue /\ rq.count # 0
      <3>1. rq.count > 0
        BY <1>0, <2>1, <2>4 DEF QueueType
      <3>2. /\ Content(rq) # <<>> /\ Content(rq') = Tail(Content(rq))
            /\ taken' = Head(Content(rq))
        BY <2>1, <2>4, <3>1, DequeueTakesHead DEF Dequeue
      <3> QED BY <3>2 DEF Abstract!Next, Abstract!Get
    <2>5. CASE UNCHANGED vars
      BY <2>5 DEF vars, Abstract!vars, Content, SlotOf
    <2> QED BY <2>2, <2>3, <2>4, <2>5 DEF Next, Abstract!Next
  <1> QED BY <1>1, <1>2, Inductive, PTL DEF Spec, ImplementsDropOldest, Abstract!Spec

--------------------------------------------------------------------------------
(***************************************************************************)
(* The ring seen from its head, without the count.                          *)
(***************************************************************************)

\* How many slots the tail is behind the head: what the drain loop has to go.
Lag(s) == IF s.head >= s.tail THEN s.head - s.tail ELSE s.head - s.tail + SIZE

\* The slot written k commands ago, the last one being k = 1.
Behind(s, k) == IF s.head >= k THEN s.head - k ELSE s.head - k + SIZE

\* The ring holds the last SIZE commands received, whatever tail and count say.
HoldsLast == \A k \in 1 .. SIZE : k <= received => rq.buf[Behind(rq, k)] = received - k + 1

\* The commands not yet copied.  Inside Remote_Dequeue, where the loop has seen
\* the indices apart, equal indices mean that the interrupt has closed the ring.
Unread == IF pc \in {"copy", "advance"} /\ Lag(rq) = 0 THEN SIZE ELSE Lag(rq)

\* A step of the head or of the tail, and where the tail is.
LEMMA LagBounds ==
  ASSUME NEW s \in QueueType
  PROVE  Lag(s) \in Slots /\ s.tail = Behind(s, IF Lag(s) = 0 THEN SIZE ELSE Lag(s))
  BY SizeAssumption DEF QueueType, Slots, Lag, Behind

LEMMA AdvanceLag ==
  ASSUME NEW s \in QueueType
  PROVE  LET a == [s EXCEPT !.tail = Advance(s.tail)]
         IN  /\ a \in QueueType /\ a.head = s.head /\ a.buf = s.buf /\ a.count = s.count
             /\ a.tail = Advance(s.tail)
             /\ Lag(a) = IF Lag(s) = 0 THEN SIZE - 1 ELSE Lag(s) - 1
  <1> DEFINE a == [s EXCEPT !.tail = Advance(s.tail)]
  <1>1. SIZE \in Nat /\ SIZE > 0 /\ s.tail \in Slots /\ s.head \in Slots
    BY SizeAssumption DEF QueueType
  <1>2. Advance(s.tail) = IF s.tail + 1 = SIZE THEN 0 ELSE s.tail + 1
    BY <1>1, AdvanceWraps
  <1>3. Advance(s.tail) \in Slots
    BY <1>1, <1>2 DEF Slots
  <1>4. /\ a \in QueueType /\ a.head = s.head /\ a.buf = s.buf /\ a.count = s.count
        /\ a.tail = Advance(s.tail)
    BY <1>3 DEF QueueType
  <1> HIDE DEF a
  <1>5. Lag(a) = IF Lag(s) = 0 THEN SIZE - 1 ELSE Lag(s) - 1
    BY <1>1, <1>2, <1>4 DEF Lag, Slots
  <1> QED
    BY <1>4, <1>5 DEF a

\* Remote_Enqueue writes at the head; in a full ring it moves the tail along.
LEMMA EnqueueLag ==
  ASSUME NEW s \in QueueType, NEW c \in Cmd
  PROVE  LET e == Enqueued(s, c)
         IN  /\ e \in QueueType
             /\ e.buf = [s.buf EXCEPT ![s.head] = c] /\ e.head = Advance(s.head)
             /\ e.count = IF s.count = SIZE THEN SIZE ELSE s.count + 1
             /\ e.tail = IF s.count = SIZE THEN Advance(s.tail) ELSE s.tail
             /\ Lag(e) = IF s.count = SIZE THEN Lag(s)
                         ELSE IF Lag(s) = SIZE - 1 THEN 0 ELSE Lag(s) + 1
  <1> DEFINE e == Enqueued(s, c)
  <1>1. /\ SIZE \in Nat /\ SIZE > 0 /\ s.tail \in Slots /\ s.head \in Slots
        /\ s.count \in 0 .. SIZE /\ s.buf \in [Slots -> Cmd \cup {NoCmd}]
    BY SizeAssumption DEF QueueType
  <1>2. /\ Advance(s.tail) = IF s.tail + 1 = SIZE THEN 0 ELSE s.tail + 1
        /\ Advance(s.head) = IF s.head + 1 = SIZE THEN 0 ELSE s.head + 1
    BY <1>1, AdvanceWraps
  <1>3. Advance(s.tail) \in Slots /\ Advance(s.head) \in Slots
    BY <1>1, <1>2 DEF Slots
  <1>4. e = [buf |-> [s.buf EXCEPT ![s.head] = c], head |-> Advance(s.head),
             tail |-> IF s.count = SIZE THEN Advance(s.tail) ELSE s.tail,
             count |-> IF s.count = SIZE THEN SIZE ELSE s.count + 1]
    <2> DEFINE r == WithRoom(s)
    <2>1. s = [buf |-> s.buf, head |-> s.head, tail |-> s.tail, count |-> s.count]
      BY DEF QueueType
    <2>2. r = [buf |-> s.buf, head |-> s.head,
               tail |-> IF s.count = SIZE THEN Advance(s.tail) ELSE s.tail,
               count |-> IF s.count = SIZE THEN SIZE - 1 ELSE s.count]
      <3>1. CASE s.count = SIZE
        <4>1. r = Dequeued(s) /\ s.count # 0
          BY <1>1, <3>1 DEF WithRoom
        <4>2. r = [s EXCEPT !.tail = Advance(s.tail), !.count = s.count - 1]
          BY <4>1 DEF Dequeued
        <4> HIDE DEF r
        <4> QED
          BY <2>1, <3>1, <4>2
      <3>2. CASE s.count # SIZE
        <4>1. r = s
          BY <1>1, <3>2 DEF WithRoom
        <4> HIDE DEF r
        <4> QED
          BY <2>1, <3>2, <4>1
      <3> QED
        BY <3>1, <3>2
    <2>3. e = [r EXCEPT !.buf = [r.buf EXCEPT ![r.head] = c],
                        !.head = Advance(r.head), !.count = r.count + 1]
      BY DEF Enqueued
    <2>4. (IF s.count = SIZE THEN SIZE - 1 ELSE s.count) + 1
            = IF s.count = SIZE THEN SIZE ELSE s.count + 1
      BY <1>1
    <2> HIDE DEF r, e
    <2> QED
      BY <2>2, <2>3, <2>4
  <1> HIDE DEF e
  <1>5. e \in QueueType
    BY <1>1, <1>3, <1>4 DEF QueueType
  <1>6. Lag(e) = IF s.count = SIZE THEN Lag(s)
                 ELSE IF Lag(s) = SIZE - 1 THEN 0 ELSE Lag(s) + 1
    <2>1. /\ e.head = IF s.head + 1 = SIZE THEN 0 ELSE s.head + 1
          /\ s.count = SIZE => e.tail = IF s.tail + 1 = SIZE THEN 0 ELSE s.tail + 1
          /\ s.count # SIZE => e.tail = s.tail
      BY <1>2, <1>4
    <2>2. s.head \in 0 .. SIZE - 1 /\ s.tail \in 0 .. SIZE - 1
      BY <1>1 DEF Slots
    <2>3. CASE s.count = SIZE
      BY <1>1, <2>1, <2>2, <2>3 DEF Lag
    <2>4. CASE s.count # SIZE
      BY <1>1, <2>1, <2>2, <2>4 DEF Lag
    <2> QED
      BY <2>3, <2>4
  <1> QED
    BY <1>4, <1>5, <1>6 DEF e

\* A new command takes the place of the one received SIZE commands before.
LEMMA EnqueueBehind ==
  ASSUME NEW s \in QueueType, NEW e \in QueueType, e.head = Advance(s.head)
  PROVE  /\ Behind(e, 1) = s.head
         /\ \A k \in 2 .. SIZE : /\ Behind(e, k) = Behind(s, k - 1)
                                 /\ Behind(s, k - 1) \in Slots \ {s.head}
  <1>1. SIZE \in Nat /\ SIZE > 0 /\ s.head \in Slots
    BY SizeAssumption DEF QueueType
  <1>2. Advance(s.head) = IF s.head + 1 = SIZE THEN 0 ELSE s.head + 1
    BY <1>1, AdvanceWraps
  <1> QED
    BY <1>1, <1>2 DEF Behind, Slots

InjectType ==
  /\ rq \in QueueType
  /\ pc \in {"away", "test", "copy", "advance", "uncount", "apply"}
  /\ cmd \in Cmd \cup {NoCmd} /\ taken \in Cmd \cup {NoCmd}
  /\ loaded \in [count : 0 .. SIZE, tail : Slots]
  /\ struck \in BOOLEAN
  /\ received \in 0 .. MaxCmd /\ wasFull \in BOOLEAN /\ torn \in BOOLEAN
  /\ applied \in Seq(Nat \ {0})
  /\ InsideDequeue => rq.count >= 1 /\ loaded.count >= 1

\* What has been applied is older than what has not been copied.
AppliedBefore(n) == \A i \in DOMAIN applied : applied[i] <= n

\* The command copied last and not yet applied is the next one in the order.
CopiedIs(low) == cmd \in Cmd /\ cmd <= low /\ \A i \in DOMAIN applied : applied[i] < cmd

OrderInv ==
  /\ AppliedInOrder /\ HoldsLast
  /\ Unread <= received /\ AppliedBefore(received - Unread)
  /\ pc \in {"copy", "advance"} /\ Lag(rq) = 0 => struck
  /\ pc = "advance" =>
        \/ loaded.tail = rq.tail /\ CopiedIs(received - Unread + 1) /\ cmd = received - Unread + 1
        \/ /\ struck /\ rq.tail = Advance(loaded.tail) /\ Lag(rq) # 0
           /\ CopiedIs(received - Unread)
  /\ pc = "uncount" => CopiedIs(received - Unread)
  /\ pc = "apply" => cmd = NoCmd \/ CopiedIs(received - Unread)

\* While nothing was torn and the ring never full, the count is right and
\* nothing has been skipped.
CompleteInv ==
  ~wasFull /\ ~torn =>
    /\ rq.count < SIZE /\ \A i \in 1 .. Len(applied) : applied[i] = i
    /\ pc \in {"away", "test"} => rq.count = Lag(rq) /\ Len(applied) = received - Lag(rq)
    /\ pc \in {"copy", "advance"} =>
          rq.count = Lag(rq) /\ Lag(rq) > 0 /\ Len(applied) = received - Lag(rq)
    /\ pc = "uncount" => rq.count = Lag(rq) + 1 /\ Len(applied) = received - Lag(rq) - 1
    /\ pc = "apply" => rq.count = Lag(rq) /\ Len(applied) = received - Lag(rq) - 1
    /\ pc \in {"advance", "uncount", "apply"} => cmd = Len(applied) + 1
    /\ pc = "advance" => loaded.tail = rq.tail
    /\ InsideDequeue => loaded.count = rq.count

(***************************************************************************)
(* Type correctness.                                                       *)
(***************************************************************************)

LEMMA InjectTypeStep == InjectType /\ [InjectNext]_allVars => InjectType'
  <1> SUFFICES ASSUME InjectType, [InjectNext]_allVars PROVE InjectType'
    OBVIOUS
  <1> USE DEF InsideDequeue
  <1>0. SIZE \in Nat /\ SIZE > 0 /\ MaxCmd \in Nat /\ Cmd = 1 .. MaxCmd
    BY SizeAssumption, BoundAssumption, NumberedAssumption
  <1>1. rq \in QueueType /\ rq.tail \in Slots /\ rq.count \in 0 .. SIZE
        /\ rq.buf \in [Slots -> Cmd \cup {NoCmd}]
    BY DEF InjectType, QueueType
  <1>2. CASE UartCommand
    <2>1. received + 1 \in Cmd
      BY <1>0, <1>2 DEF UartCommand, InjectType
    <2>2. rq' \in QueueType /\ rq'.count = IF rq.count = SIZE THEN SIZE ELSE rq.count + 1
      <3>1. rq' = Enqueued(rq, received + 1)
        BY <1>2 DEF UartCommand
      <3> QED
        BY <1>1, <2>1, <3>1, EnqueueLag
    <2>3. rq'.count >= 1
      BY <1>0, <1>1, <2>2
    <2> QED
      BY <1>0, <1>2, <2>2, <2>3 DEF UartCommand, InjectType
  <1>3. CASE CallInject \/ LoopExit
    BY <1>3 DEF CallInject, LoopExit, aux, InjectType
  <1>4. CASE LoopEnter
    <2>1. /\ UNCHANGED <<rq, taken, received, applied, wasFull, torn>> /\ struck' = FALSE
          /\ loaded' = [loaded EXCEPT !.count = rq.count]
          /\ \/ pc' = "apply" /\ cmd' = NoCmd
             \/ pc' = "copy" /\ cmd' = cmd /\ rq.count # 0
      BY <1>4 DEF LoopEnter, aux
    <2>2. loaded' \in [count : 0 .. SIZE, tail : Slots] /\ loaded'.count = rq.count
      BY <1>1, <2>1 DEF InjectType
    <2>3. rq.count # 0 => rq.count >= 1
      BY <1>0, <1>1
    <2> QED
      BY <2>1, <2>2, <2>3 DEF InjectType
  <1>5. CASE CopyEntry
    BY <1>1, <1>5 DEF CopyEntry, aux, InjectType
  <1>6. CASE AdvanceTail
    <2>1. PICK t \in Slots : rq' = [rq EXCEPT !.tail = Advance(t)]
      BY <1>1, <1>6 DEF AdvanceTail, InjectType
    <2>2. Advance(t) \in Slots
      BY <1>0, AdvanceWraps DEF Slots
    <2>3. rq' \in QueueType /\ rq'.count = rq.count
      BY <1>1, <2>1, <2>2 DEF QueueType
    <2> QED
      BY <1>6, <2>3 DEF AdvanceTail, aux, InjectType
  <1>7. CASE LowerCount
    <2>1. PICK n \in 1 .. SIZE : rq' = [rq EXCEPT !.count = n - 1]
      <3>1. rq.count \in 1 .. SIZE /\ loaded.count \in 1 .. SIZE
        BY <1>0, <1>1, <1>7 DEF LowerCount, InjectType
      <3> QED
        BY <1>7, <3>1 DEF LowerCount
    <2>2. rq' \in QueueType
      BY <1>0, <1>1, <2>1 DEF QueueType
    <2> QED
      BY <1>7, <2>2 DEF LowerCount, aux, InjectType
  <1>8. CASE Apply
    <2>1. cmd # NoCmd => cmd \in Nat \ {0}
      BY <1>0 DEF InjectType
    <2> QED
      BY <1>8, <2>1 DEF Apply, aux, InjectType
  <1>9. CASE UNCHANGED allVars
    BY <1>9 DEF allVars, InjectType
  <1> QED
    BY <1>2, <1>3, <1>4, <1>5, <1>6, <1>7, <1>8, <1>9 DEF InjectNext, MainStep

LEMMA InjectTypeInit == InjectInit => InjectType
  BY SizeAssumption, BoundAssumption
     DEF InjectInit, Init, EmptyQueue, InjectType, QueueType, Slots, InsideDequeue

(***************************************************************************)
(* The order of the commands.                                              *)
(***************************************************************************)

LEMMA OrderInit == InjectInit => OrderInv
  BY SizeAssumption
     DEF InjectInit, Init, EmptyQueue, OrderInv, AppliedInOrder, HoldsLast, Unread, Lag,
         AppliedBefore

\* What the interrupt makes of the commands not yet copied.
LEMMA UartOrder ==
  ASSUME InjectType, OrderInv, UartCommand PROVE OrderInv'
  <1>0. SIZE \in Nat /\ SIZE > 0 /\ MaxCmd \in Nat /\ Cmd = 1 .. MaxCmd
    BY SizeAssumption, BoundAssumption, NumberedAssumption
  <1>1. /\ rq \in QueueType /\ rq.tail \in Slots /\ rq.count \in 0 .. SIZE /\ received \in Nat
        /\ rq.head \in Slots /\ rq.buf \in [Slots -> Cmd \cup {NoCmd}]
    BY DEF InjectType, QueueType
  <1>2. received' = received + 1 /\ received + 1 \in Cmd
        /\ UNCHANGED <<pc, cmd, loaded, applied>> /\ struck' = InsideDequeue
    BY <1>0 DEF UartCommand, InjectType
  <1>3. /\ rq' \in QueueType
        /\ rq'.buf = [rq.buf EXCEPT ![rq.head] = received + 1] /\ rq'.head = Advance(rq.head)
        /\ rq'.tail = IF rq.count = SIZE THEN Advance(rq.tail) ELSE rq.tail
        /\ Lag(rq') = IF rq.count = SIZE THEN Lag(rq)
                      ELSE IF Lag(rq) = SIZE - 1 THEN 0 ELSE Lag(rq) + 1
    <2>1. rq' = Enqueued(rq, received + 1)
      BY DEF UartCommand
    <2> QED
      BY <1>1, <1>2, <2>1, EnqueueLag
  <1>4. Lag(rq) \in 0 .. SIZE - 1
    BY <1>1, LagBounds DEF Slots
  <1>5. HoldsLast'
    <2> SUFFICES ASSUME NEW k \in 1 .. SIZE, k <= received'
                 PROVE  rq'.buf[Behind(rq', k)] = received' - k + 1
      BY DEF HoldsLast
    <2>1. CASE k = 1
      <3>1. Behind(rq', 1) = rq.head
        BY <1>1, <1>3, EnqueueBehind
      <3> QED
        BY <1>1, <1>2, <1>3, <2>1, <3>1
    <2>2. CASE k # 1
      <3>1. k \in 2 .. SIZE /\ k - 1 \in 1 .. SIZE /\ k - 1 <= received
        BY <1>0, <1>1, <1>2, <2>2
      <3>2. Behind(rq', k) = Behind(rq, k - 1) /\ Behind(rq, k - 1) \in Slots \ {rq.head}
        BY <1>1, <1>3, <3>1, EnqueueBehind
      <3>3. rq.buf[Behind(rq, k - 1)] = received - (k - 1) + 1
        BY <3>1 DEF OrderInv, HoldsLast
      <3> QED
        BY <1>0, <1>1, <1>2, <1>3, <3>1, <3>2, <3>3
    <2> QED
      BY <2>1, <2>2
  <1>6. pc \in {"copy", "advance"} =>
            /\ ~struck /\ Lag(rq) # 0 /\ Unread = Lag(rq) /\ struck'
            /\ Unread' = IF rq.count = SIZE THEN Unread ELSE Unread + 1
    <2> SUFFICES ASSUME pc \in {"copy", "advance"}
                 PROVE  /\ ~struck /\ Lag(rq) # 0 /\ Unread = Lag(rq) /\ struck'
                        /\ Unread' = IF rq.count = SIZE THEN Unread ELSE Unread + 1
      OBVIOUS
    <2>1. ~struck /\ Lag(rq) # 0 /\ Unread = Lag(rq) /\ struck'
      BY <1>2 DEF UartCommand, InsideDequeue, OrderInv, Unread
    <2>2. Unread' = IF Lag(rq') = 0 THEN SIZE ELSE Lag(rq')
      BY <1>2 DEF Unread
    <2> QED
      BY <1>0, <1>3, <1>4, <2>1, <2>2
  <1>7. Unread' <= Unread + 1 /\ Unread \in Nat /\ Unread' \in Nat
    BY <1>0, <1>2, <1>3, <1>4 DEF Unread, OrderInv
  <1>a. /\ received \in Nat /\ received' = received + 1
        /\ received - Unread \in Int /\ received' - Unread' \in Int
        /\ received - Unread <= received' - Unread'
    <2>1. received \in Nat /\ received' = received + 1
      BY <1>1, <1>2
    <2>2. PICK u \in Nat : u = Unread
      BY <1>7
    <2>3. PICK v \in Nat : v = Unread' /\ v <= u + 1
      BY <1>7, <2>2
    <2>4. v <= u + 1
      BY <2>3
    <2>5. received - u \in Int /\ received + 1 - v \in Int /\ received - u <= received + 1 - v
      BY <2>1, <2>4
    <2>6. Unread = u /\ Unread' = v
      BY <2>2, <2>3
    <2> QED
      BY <2>1, <2>5, <2>6
  <1>8. applied \in Seq(Nat \ {0}) /\ cmd \in Cmd \cup {NoCmd}
    BY DEF InjectType
  <1>9. AppliedBefore(received - Unread)'
    <2> SUFFICES ASSUME NEW i \in DOMAIN applied PROVE applied[i] <= received' - Unread'
      BY <1>2 DEF AppliedBefore
    <2>1. applied[i] <= received - Unread /\ applied[i] \in Nat
      BY <1>8 DEF OrderInv, AppliedBefore
    <2> QED
      BY <1>a, <2>1
  <1>10. ASSUME CopiedIs(received - Unread) PROVE CopiedIs(received - Unread)'
    <2>0. cmd <= received - Unread /\ cmd \in Nat
      BY <1>0, <1>10 DEF CopiedIs
    <2>1. cmd <= received' - Unread'
      BY <1>a, <2>0
    <2> QED
      BY <1>2, <1>10, <2>1 DEF CopiedIs
  <1>11. CASE pc = "advance"
    <2>1. loaded.tail = rq.tail /\ CopiedIs(received - Unread + 1) /\ cmd = received - Unread + 1
      BY <1>6, <1>11 DEF OrderInv
    <2>2. CASE rq.count = SIZE
      <3>1. rq'.tail = Advance(loaded.tail) /\ Lag(rq') # 0 /\ Unread' = Unread /\ struck'
        BY <1>3, <1>6, <1>11, <2>1, <2>2
      <3>2. CopiedIs(received - Unread)'
        BY <1>1, <1>2, <1>7, <2>1, <3>1 DEF CopiedIs
      <3> QED
        BY <1>1, <1>2, <1>5, <1>7, <1>9, <1>11, <3>1, <3>2 DEF OrderInv, AppliedInOrder
    <2>3. CASE rq.count # SIZE
      <3>1. rq'.tail = loaded.tail /\ Unread' = Unread + 1 /\ struck'
        BY <1>3, <1>6, <1>11, <2>1, <2>3
      <3>2. CopiedIs(received - Unread + 1)' /\ cmd = received' - Unread' + 1
        BY <1>1, <1>2, <1>7, <2>1, <3>1 DEF CopiedIs
      <3> QED
        BY <1>1, <1>2, <1>5, <1>7, <1>9, <1>11, <3>1, <3>2 DEF OrderInv, AppliedInOrder
    <2> QED
      BY <2>2, <2>3
  <1>12. CASE pc # "advance"
    <2>1. Unread' <= received'
      BY <1>1, <1>2, <1>7 DEF OrderInv
    <2> QED
      BY <1>2, <1>5, <1>6, <1>9, <1>10, <1>12, <2>1 DEF OrderInv, AppliedInOrder
  <1> QED
    BY <1>11, <1>12

\* The ring seen from its head does not depend on the count, nor on the tail.
LEMMA SameRing ==
  ASSUME NEW s \in QueueType, NEW a \in QueueType, a.head = s.head
  PROVE  /\ \A k \in 1 .. SIZE : Behind(a, k) = Behind(s, k)
         /\ a.tail = s.tail => Lag(a) = Lag(s)
  BY DEF Behind, Lag

LEMMA CopyOrder ==
  ASSUME InjectType, OrderInv, CopyEntry PROVE OrderInv'
  <1>0. SIZE \in Nat /\ SIZE > 0 /\ MaxCmd \in Nat /\ Cmd = 1 .. MaxCmd
    BY SizeAssumption, BoundAssumption, NumberedAssumption
  <1>1. /\ UNCHANGED <<rq, received, applied, struck>> /\ pc = "copy" /\ pc' = "advance"
        /\ cmd' = rq.buf[rq.tail] /\ loaded'.tail = rq.tail
    BY DEF CopyEntry, aux, InjectType
  <1>2. rq \in QueueType /\ Lag(rq) \in 0 .. SIZE - 1 /\ received \in 0 .. MaxCmd
        /\ rq.tail = Behind(rq, IF Lag(rq) = 0 THEN SIZE ELSE Lag(rq))
    BY LagBounds DEF InjectType, Slots
  <1>3. Unread = (IF Lag(rq) = 0 THEN SIZE ELSE Lag(rq)) /\ Unread' = Unread
    BY <1>1 DEF Unread
  <1>4. Unread \in 1 .. SIZE /\ Unread <= received
    BY <1>0, <1>2, <1>3 DEF OrderInv
  <1>5. cmd' = received - Unread + 1
    BY <1>1, <1>2, <1>3, <1>4 DEF OrderInv, HoldsLast
  <1>6. received - Unread + 1 \in Cmd
    BY <1>0, <1>2, <1>4
  <1>7. \A i \in DOMAIN applied : applied[i] < received - Unread + 1
    <2> SUFFICES ASSUME NEW i \in DOMAIN applied PROVE applied[i] < received - Unread + 1
      OBVIOUS
    <2>1. applied[i] \in Nat /\ applied[i] <= received - Unread
      BY DEF InjectType, OrderInv, AppliedBefore
    <2> QED
      BY <1>2, <1>4, <2>1
  <1>8. CopiedIs(received - Unread + 1)'
    <2>1. received - Unread + 1 <= received - Unread + 1
      BY <1>2, <1>4
    <2> QED
      BY <1>1, <1>3, <1>5, <1>6, <1>7, <2>1 DEF CopiedIs
  <1>9. HoldsLast' /\ AppliedBefore(received - Unread)' /\ AppliedInOrder'
        /\ Unread' <= received' /\ (Lag(rq') = 0 => struck')
    BY <1>1, <1>3 DEF OrderInv, HoldsLast, AppliedBefore, AppliedInOrder
  <1> QED
    BY <1>1, <1>3, <1>5, <1>8, <1>9 DEF OrderInv

LEMMA AdvanceOrder ==
  ASSUME InjectType, OrderInv, AdvanceTail PROVE OrderInv'
  <1>0. SIZE \in Nat /\ SIZE > 0 /\ MaxCmd \in Nat /\ Cmd = 1 .. MaxCmd
    BY SizeAssumption, BoundAssumption, NumberedAssumption
  <1>1. /\ UNCHANGED <<received, applied, cmd>> /\ pc = "advance" /\ pc' = "uncount"
        /\ \/ rq' = [rq EXCEPT !.tail = Advance(rq.tail)]
           \/ rq' = [rq EXCEPT !.tail = Advance(loaded.tail)]
    BY DEF AdvanceTail, aux
  <1>2. rq \in QueueType /\ Lag(rq) \in 0 .. SIZE - 1 /\ received \in 0 .. MaxCmd
        /\ applied \in Seq(Nat \ {0})
    BY LagBounds DEF InjectType, Slots
  <1>3. Unread = (IF Lag(rq) = 0 THEN SIZE ELSE Lag(rq)) /\ Unread' = Lag(rq')
    BY <1>1 DEF Unread
  <1>4. Unread \in 1 .. SIZE /\ Unread <= received
    BY <1>0, <1>2, <1>3 DEF OrderInv
  \* The tail goes on by one, or stays where the interrupt has put it.
  <1>5. /\ rq' \in QueueType /\ rq'.head = rq.head /\ rq'.buf = rq.buf
        /\ \/ Lag(rq') = Unread - 1
           \/ Lag(rq') = Unread /\ CopiedIs(received - Unread)
        /\ Lag(rq') = Unread - 1 => CopiedIs(received - Unread + 1)
    <2> DEFINE a == [rq EXCEPT !.tail = Advance(rq.tail)]
    <2>1. /\ a \in QueueType /\ a.head = rq.head /\ a.buf = rq.buf
          /\ Lag(a) = Unread - 1
      BY <1>0, <1>2, <1>3, AdvanceLag
    <2>2. CopiedIs(received - Unread) => CopiedIs(received - Unread + 1)
      <3>1. cmd \in Cmd => cmd \in Nat
        BY <1>0
      <3> QED
        BY <1>2, <1>4, <3>1 DEF CopiedIs
    <2>3. CopiedIs(received - Unread + 1)
      BY <1>1, <2>2 DEF OrderInv
    <2>4. CASE rq' = a
      BY <2>1, <2>3, <2>4
    <2>5. CASE rq' # a
      <3>1. rq' = [rq EXCEPT !.tail = Advance(loaded.tail)] /\ loaded.tail # rq.tail
        BY <1>1, <2>5
      <3>2. rq.tail = Advance(loaded.tail) /\ Lag(rq) # 0 /\ CopiedIs(received - Unread)
        BY <1>1, <3>1 DEF OrderInv
      <3>3. rq' = rq
        BY <1>2, <3>1, <3>2 DEF QueueType
      <3> QED
        BY <1>2, <1>3, <2>3, <3>2, <3>3
    <2> QED
      BY <2>4, <2>5
  <1>6. HoldsLast'
    BY <1>1, <1>2, <1>5, SameRing DEF OrderInv, HoldsLast
  <1>7. PICK lag \in 0 .. SIZE : lag = Lag(rq') /\ lag <= Unread /\ CopiedIs(received - lag)
    <2>1. Unread - 1 \in 0 .. SIZE /\ Unread - 1 <= Unread /\ Unread <= Unread
          /\ received - (Unread - 1) = received - Unread + 1
      BY <1>0, <1>2, <1>4
    <2>2. CASE Lag(rq') = Unread - 1
      BY <1>5, <2>1, <2>2
    <2>3. CASE Lag(rq') = Unread /\ CopiedIs(received - Unread)
      BY <1>0, <1>4, <2>1, <2>3
    <2> QED
      BY <1>5, <2>2, <2>3
  <1>8. lag <= received /\ CopiedIs(received - lag) /\ AppliedBefore(received - lag)
    <2>1. lag <= Unread /\ CopiedIs(received - lag)
      BY <1>7
    <2>2. received - Unread <= received - lag /\ lag <= received
          /\ received - Unread \in Int /\ received - lag \in Int
      BY <1>2, <1>4, <2>1
    <2>3. ASSUME NEW i \in DOMAIN applied PROVE applied[i] <= received - lag
      <3>1. applied[i] \in Nat /\ applied[i] <= received - Unread
        BY <1>2 DEF OrderInv, AppliedBefore
      <3> QED
        BY <2>2, <3>1
    <2> QED
      BY <2>1, <2>2, <2>3 DEF AppliedBefore
  <1>9. Unread' = lag
    BY <1>3, <1>7
  <1> QED
    BY <1>1, <1>6, <1>8, <1>9 DEF OrderInv, CopiedIs, AppliedBefore, AppliedInOrder

\* A step that moves neither head nor tail, copies nothing and applies nothing.
LEMMA SameOrder ==
  ASSUME InjectType, InjectType', OrderInv, UNCHANGED <<received, applied>>,
         rq'.head = rq.head, rq'.tail = rq.tail, rq'.buf = rq.buf,
         Unread' = Unread, Lag(rq) = 0 => pc' \notin {"copy", "advance"}, pc' # "advance",
         pc' = "uncount" => CopiedIs(received - Unread)',
         pc' = "apply" => cmd' = NoCmd \/ CopiedIs(received - Unread)'
  PROVE  OrderInv'
  <1>1. rq \in QueueType /\ rq' \in QueueType
    BY DEF InjectType
  <1>2. HoldsLast' /\ Lag(rq') = Lag(rq)
    BY <1>1, SameRing DEF OrderInv, HoldsLast
  <1>3. AppliedBefore(received - Unread)' /\ AppliedInOrder' /\ Unread' <= received'
    BY DEF OrderInv, AppliedBefore, AppliedInOrder
  <1> QED
    BY <1>2, <1>3 DEF OrderInv

LEMMA LoopOrder ==
  ASSUME InjectType, InjectType', OrderInv, CallInject \/ LoopExit \/ LoopEnter
  PROVE  OrderInv'
  <1>1. /\ UNCHANGED <<rq, received, applied>> /\ pc \in {"away", "test"}
        /\ pc' \in {"away", "test", "copy", "apply"}
        /\ pc' = "copy" => rq.tail # rq.head
        /\ pc' = "apply" => cmd' = NoCmd
    BY DEF CallInject, LoopExit, LoopEnter, aux
  <1>2. rq.tail # rq.head => Lag(rq) # 0
    BY SizeAssumption DEF Lag, InjectType, QueueType, Slots
  <1>3. Unread' = Unread
    BY <1>1, <1>2 DEF Unread
  <1> QED
    BY <1>1, <1>2, <1>3, SameOrder

LEMMA LowerOrder ==
  ASSUME InjectType, InjectType', OrderInv, LowerCount PROVE OrderInv'
  <1>1. /\ UNCHANGED <<received, applied, cmd>> /\ pc = "uncount" /\ pc' = "apply"
        /\ rq'.head = rq.head /\ rq'.tail = rq.tail /\ rq'.buf = rq.buf
    BY DEF LowerCount, aux, InjectType, QueueType
  <1>2. Lag(rq') = Lag(rq)
    BY <1>1, SameRing DEF InjectType
  <1>3. Unread = Lag(rq) /\ Unread' = Lag(rq')
    BY <1>1 DEF Unread
  <1>4. CopiedIs(received - Unread)
    BY <1>1 DEF OrderInv
  <1>5. CopiedIs(received - Unread)'
    BY <1>1, <1>2, <1>3, <1>4 DEF CopiedIs
  <1> QED
    BY <1>1, <1>2, <1>3, <1>5, SameOrder

LEMMA ApplyOrder ==
  ASSUME InjectType, InjectType', OrderInv, Apply PROVE OrderInv'
  <1>1. /\ UNCHANGED <<rq, received, cmd>> /\ pc = "apply" /\ pc' = "test"
        /\ applied' = IF cmd = NoCmd THEN applied ELSE Append(applied, cmd)
    BY DEF Apply
  <1>2. Unread = Lag(rq) /\ Unread' = Lag(rq)
    BY <1>1 DEF Unread
  <1>3. CASE cmd = NoCmd
    BY <1>1, <1>2, <1>3, SameOrder
  <1>4. CASE cmd # NoCmd
    <2>1. CopiedIs(received - Unread) /\ applied \in Seq(Nat \ {0}) /\ cmd \in Nat \ {0}
      BY <1>1, <1>4, NumberedAssumption DEF OrderInv, InjectType
    <2>2. /\ Len(applied') = Len(applied) + 1 /\ DOMAIN applied' = 1 .. Len(applied) + 1
          /\ \A i \in DOMAIN applied : applied'[i] = applied[i]
          /\ applied'[Len(applied) + 1] = cmd
      BY <1>1, <1>4, <2>1
    <2>3. AppliedInOrder'
      <3> SUFFICES ASSUME NEW i \in DOMAIN applied', NEW j \in DOMAIN applied', i < j
                   PROVE  applied'[i] < applied'[j]
        BY DEF AppliedInOrder
      <3>1. i \in DOMAIN applied /\ applied'[i] = applied[i]
        BY <2>1, <2>2
      <3>2. CASE j \in DOMAIN applied
        BY <2>2, <3>1, <3>2 DEF OrderInv, AppliedInOrder
      <3>3. CASE j \notin DOMAIN applied
        <4>1. j = Len(applied) + 1
          BY <2>1, <2>2, <3>3
        <4> QED
          BY <2>1, <2>2, <3>1, <4>1 DEF CopiedIs
      <3> QED
        BY <3>2, <3>3
    <2>4. AppliedBefore(received - Unread)'
      <3> SUFFICES ASSUME NEW i \in DOMAIN applied' PROVE applied'[i] <= received - Unread
        BY <1>1, <1>2 DEF AppliedBefore
      <3>1. CASE i \in DOMAIN applied
        BY <2>2, <3>1 DEF OrderInv, AppliedBefore
      <3>2. CASE i \notin DOMAIN applied
        <4>1. i = Len(applied) + 1
          BY <2>1, <2>2, <3>2
        <4> QED
          BY <2>1, <2>2, <4>1 DEF CopiedIs
      <3> QED
        BY <3>1, <3>2
    <2>5. HoldsLast' /\ Unread' <= received'
      BY <1>1, <1>2 DEF OrderInv, HoldsLast
    <2> QED
      BY <1>1, <2>3, <2>4, <2>5 DEF OrderInv
  <1> QED
    BY <1>3, <1>4

LEMMA OrderStep == InjectType /\ OrderInv /\ [InjectNext]_allVars => OrderInv'
  <1> SUFFICES ASSUME InjectType, OrderInv, [InjectNext]_allVars PROVE OrderInv'
    OBVIOUS
  <1>1. InjectType'
    BY InjectTypeStep
  <1>2. CASE UNCHANGED allVars
    BY <1>2 DEF allVars, OrderInv, AppliedInOrder, HoldsLast, Behind, Unread, Lag,
                AppliedBefore, CopiedIs
  <1> QED
    BY <1>1, <1>2, UartOrder, LoopOrder, CopyOrder, AdvanceOrder, LowerOrder, ApplyOrder
       DEF InjectNext, MainStep

\* The variables of interrupt and main loop keep their types in every
\* interleaving: the count, which both sides change, never leaves 0 .. SIZE, and
\* nothing is applied that was not received.
THEOREM InjectTypeCorrect == InjectSpec => []InjectTypeOK
  <1>1. InjectType /\ OrderInv /\ [InjectNext]_allVars => (InjectType /\ OrderInv)'
    BY InjectTypeStep, OrderStep
  <1>2. InjectType /\ OrderInv => InjectTypeOK
    <2> SUFFICES ASSUME InjectType, OrderInv PROVE InjectTypeOK
      OBVIOUS
    <2>1. ASSUME NEW i \in DOMAIN applied PROVE applied[i] \in 1 .. received
      <3>1. /\ applied[i] \in Nat \ {0} /\ received \in Nat /\ Lag(rq) \in Nat /\ SIZE \in Nat
            /\ applied[i] <= received - Unread
        BY LagBounds, SizeAssumption DEF InjectType, OrderInv, AppliedBefore, Slots
      <3>2. Unread \in Nat
        BY <3>1 DEF Unread
      <3> QED
        BY <3>1, <3>2
    <2> QED
      BY <2>1 DEF InjectType, InjectTypeOK, TypeOK
  <1> QED
    BY <1>1, <1>2, InjectTypeInit, OrderInit, PTL DEF InjectSpec

\* For every ring size and any number of commands the UI gets them in the order
\* of their arrival and none twice: an interrupt inside Remote_Dequeue, which may
\* leave a count that is one too low, makes it skip commands at worst.
THEOREM OrderKept == InjectSpec => []AppliedInOrder
  <1>1. InjectType /\ OrderInv /\ [InjectNext]_allVars => (InjectType /\ OrderInv)'
    BY InjectTypeStep, OrderStep
  <1>2. OrderInv => AppliedInOrder
    BY DEF OrderInv
  <1> QED
    BY <1>1, <1>2, InjectTypeInit, OrderInit, PTL DEF InjectSpec

(***************************************************************************)
(* No command is lost.                                                     *)
(***************************************************************************)

LEMMA UartComplete ==
  ASSUME InjectType, CompleteInv, UartCommand PROVE CompleteInv'
  <1> SUFFICES ASSUME ~wasFull', ~torn' PROVE CompleteInv'
    BY DEF CompleteInv
  <1>0. SIZE \in Nat /\ SIZE > 0 /\ MaxCmd \in Nat /\ Cmd = 1 .. MaxCmd
    BY SizeAssumption, BoundAssumption, NumberedAssumption
  <1>1. /\ ~wasFull /\ ~torn /\ ~InsideDequeue /\ rq'.count # SIZE
        /\ received' = received + 1 /\ UNCHANGED <<pc, cmd, applied>>
    BY DEF UartCommand
  <1>2. /\ rq \in QueueType /\ rq.count \in 0 .. SIZE /\ received \in Nat
        /\ Lag(rq) \in 0 .. SIZE - 1 /\ received + 1 \in Cmd
    BY <1>0, LagBounds DEF InjectType, QueueType, Slots, UartCommand
  <1>3. /\ pc \in {"away", "test", "apply"} /\ rq.count < SIZE /\ rq.count = Lag(rq)
        /\ pc \in {"away", "test"} => Len(applied) = received - Lag(rq)
        /\ pc = "apply" => Len(applied) = received - Lag(rq) - 1 /\ cmd = Len(applied) + 1
        /\ \A i \in 1 .. Len(applied) : applied[i] = i
    BY <1>1 DEF CompleteInv, InsideDequeue, InjectType
  <1>4. rq' = Enqueued(rq, received + 1)
    BY DEF UartCommand
  <1>5. rq'.count = rq.count + 1 /\ Lag(rq') = IF Lag(rq) = SIZE - 1 THEN 0 ELSE Lag(rq) + 1
    BY <1>0, <1>1, <1>2, <1>3, <1>4, EnqueueLag
  <1>6. Lag(rq') = Lag(rq) + 1 /\ rq.count + 1 < SIZE
    BY <1>0, <1>1, <1>2, <1>3, <1>5
  <1>8. /\ received' - Lag(rq') = received - Lag(rq) /\ rq'.count = Lag(rq') /\ rq'.count < SIZE
        /\ received' - Lag(rq') - 1 = received - Lag(rq) - 1
    <2>1. PICK lag \in Nat : lag = Lag(rq)
      BY <1>0, <1>2
    <2>2. (received + 1) - (lag + 1) = received - lag
      BY <1>2
    <2>3. received' = received + 1 /\ Lag(rq') = lag + 1
      BY <1>1, <1>6, <2>1
    <2>4. rq'.count = Lag(rq') /\ rq'.count < SIZE
      BY <1>3, <1>5, <1>6
    <2>5. received' - Lag(rq') = received - lag
      <3>1. received' - Lag(rq') = (received + 1) - (lag + 1)
        BY <2>3, Zenon
      <3> QED
        BY <2>2, <3>1, Zenon
    <2> QED
      BY <2>1, <2>4, <2>5, Zenon
  <1>9. Lag(rq)' = Lag(rq')
    BY DEF Lag
  <1> HIDE DEF Lag
  <1> QED
    BY <1>1, <1>3, <1>8, <1>9 DEF CompleteInv, InsideDequeue

LEMMA MainComplete ==
  ASSUME InjectType, OrderInv, CompleteInv, MainStep PROVE CompleteInv'
  <1>0. SIZE \in Nat /\ SIZE > 0 /\ MaxCmd \in Nat /\ Cmd = 1 .. MaxCmd
    BY SizeAssumption, BoundAssumption, NumberedAssumption
  <1>1. UNCHANGED <<received, wasFull, torn>>
    BY DEF MainStep, CallInject, LoopExit, LoopEnter, CopyEntry, AdvanceTail, LowerCount,
           Apply, aux
  <1> SUFFICES ASSUME ~wasFull, ~torn PROVE CompleteInv'
    BY <1>1 DEF CompleteInv
  <1>2. /\ rq \in QueueType /\ rq.count \in 0 .. SIZE /\ received \in Nat
        /\ Lag(rq) \in 0 .. SIZE - 1 /\ applied \in Seq(Nat \ {0}) /\ Len(applied) \in Nat
    BY LagBounds DEF InjectType, QueueType, Slots
  <1>3. CASE CallInject \/ LoopExit
    BY <1>3, <1>1 DEF CallInject, LoopExit, aux, CompleteInv, InsideDequeue, Lag
  <1>4. CASE LoopEnter
    <2>1. Lag(rq) # 0
      BY <1>0, <1>4 DEF LoopEnter, Lag, InjectType, QueueType, Slots
    <2>2. rq.count = Lag(rq) /\ pc = "test"
      BY <1>4 DEF LoopEnter, CompleteInv
    <2>3. pc' = "copy" /\ UNCHANGED <<rq, applied>> /\ loaded'.count = rq.count
      BY <1>4, <2>1, <2>2 DEF LoopEnter, aux, InjectType
    <2>4. Lag(rq) > 0
      BY <1>0, <1>2, <2>1
    <2> QED
      BY <1>1, <2>2, <2>3, <2>4 DEF CompleteInv, Lag
  <1>5. CASE CopyEntry
    <2>1. /\ UNCHANGED <<rq, applied>> /\ pc = "copy" /\ pc' = "advance"
          /\ Lag(rq) > 0 /\ Unread = Lag(rq) /\ Len(applied) = received - Lag(rq)
      BY <1>2, <1>5 DEF CopyEntry, aux, CompleteInv, Unread
    <2>2. cmd' = received - Lag(rq) + 1
      <3>1. rq.tail = Behind(rq, Lag(rq))
        BY <1>2, <2>1, LagBounds
      <3>2. Lag(rq) \in 1 .. SIZE /\ Lag(rq) <= received
        BY <1>0, <1>2, <2>1 DEF OrderInv
      <3> QED
        BY <1>5, <3>1, <3>2 DEF CopyEntry, OrderInv, HoldsLast
    <2>3. cmd' = Len(applied) + 1 /\ loaded'.tail = rq.tail /\ loaded'.count = loaded.count
      BY <1>2, <1>5, <2>1, <2>2 DEF CopyEntry, InjectType
    <2> QED
      BY <1>1, <2>1, <2>3 DEF CompleteInv, InsideDequeue, Lag
  <1>6. CASE AdvanceTail
    <2>1. /\ UNCHANGED <<applied, cmd, loaded>> /\ pc = "advance" /\ pc' = "uncount"
          /\ \E t \in {rq.tail, loaded.tail} : rq' = [rq EXCEPT !.tail = Advance(t)]
      BY <1>6 DEF AdvanceTail, aux
    <2>2. /\ rq.count < SIZE /\ rq.count = Lag(rq) /\ Lag(rq) > 0
          /\ Len(applied) = received - Lag(rq) /\ cmd = Len(applied) + 1
          /\ \A i \in 1 .. Len(applied) : applied[i] = i
      BY <2>1, <1>2 DEF CompleteInv
    <2>3. rq'.count = Lag(rq) /\ Lag(rq') = Lag(rq) - 1
      <3>1. rq' = [rq EXCEPT !.tail = Advance(rq.tail)]
        BY <2>1 DEF CompleteInv
      <3> QED
        BY <1>2, <2>2, <3>1, AdvanceLag
    <2>4. Lag(rq) = Lag(rq) - 1 + 1 /\ received - Lag(rq) = received - (Lag(rq) - 1) - 1
      BY <1>2
    <2>5. loaded.count = rq.count
      BY <2>1 DEF CompleteInv, InsideDequeue
    <2> QED
      BY <1>1, <2>1, <2>2, <2>3, <2>4, <2>5 DEF CompleteInv
  <1>7. CASE LowerCount
    <2>1. /\ UNCHANGED <<applied, cmd>> /\ pc = "uncount" /\ pc' = "apply"
          /\ rq' = [rq EXCEPT !.count = rq.count - 1]
      BY <1>7 DEF LowerCount, aux, CompleteInv, InsideDequeue
    <2>2. rq'.count = rq.count - 1 /\ Lag(rq') = Lag(rq)
      BY <1>2, <2>1 DEF Lag, QueueType
    <2>3. /\ rq.count < SIZE /\ rq.count = Lag(rq) + 1
          /\ Len(applied) = received - Lag(rq) - 1 /\ cmd = Len(applied) + 1
          /\ \A i \in 1 .. Len(applied) : applied[i] = i
      BY <2>1 DEF CompleteInv
    <2>4. rq.count - 1 = Lag(rq) /\ rq.count - 1 < SIZE
      BY <1>0, <1>2, <2>3
    <2> QED
      BY <1>1, <2>1, <2>2, <2>3, <2>4 DEF CompleteInv, InsideDequeue
  <1>8. CASE Apply
    <2>1. /\ UNCHANGED rq /\ pc = "apply" /\ pc' = "test"
          /\ rq.count < SIZE /\ rq.count = Lag(rq)
          /\ Len(applied) = received - Lag(rq) - 1 /\ cmd = Len(applied) + 1
          /\ \A i \in 1 .. Len(applied) : applied[i] = i
      BY <1>8, <1>2 DEF Apply, CompleteInv
    <2>2. cmd # NoCmd /\ cmd \in Nat \ {0}
      <3>1. Len(applied) + 1 \in Cmd
        BY <1>0, <1>2, <2>1 DEF InjectType
      <3> QED
        BY <1>0, <2>1, <3>1, NoCmdAssumption
    <2>3. applied' = Append(applied, cmd)
      BY <1>8, <2>2 DEF Apply
    <2>4. Len(applied') = Len(applied) + 1 /\ \A i \in 1 .. Len(applied) + 1 : applied'[i] = i
      BY <1>2, <2>1, <2>2, <2>3
    <2>5. Len(applied) + 1 = received - Lag(rq)
      BY <1>2, <2>1
    <2> QED
      BY <1>1, <2>1, <2>4, <2>5 DEF CompleteInv, InsideDequeue, Lag
  <1> QED
    BY <1>3, <1>4, <1>5, <1>6, <1>7, <1>8 DEF MainStep

\* For every ring size and any number of commands, none is lost between
\* Remote_Enqueue and the switch of Remote_InjectIntoUI, in every interleaving in
\* which the ring is never full and no interrupt strikes inside Remote_Dequeue.
THEOREM NothingLost == InjectSpec => []CompleteUnlessFull
  <1>1. InjectInit => CompleteInv
    BY SizeAssumption DEF InjectInit, Init, EmptyQueue, CompleteInv, InsideDequeue, Lag
  <1>2. InjectType /\ OrderInv /\ CompleteInv /\ [InjectNext]_allVars => CompleteInv'
    <2>1. CASE UNCHANGED allVars
      BY <2>1 DEF allVars, CompleteInv, InsideDequeue, Lag
    <2> QED
      BY <2>1, UartComplete, MainComplete DEF InjectNext
  <1>3. InjectType /\ OrderInv /\ [InjectNext]_allVars => (InjectType /\ OrderInv)'
    BY InjectTypeStep, OrderStep
  <1>4. InjectType /\ CompleteInv => CompleteUnlessFull
    <2> SUFFICES ASSUME InjectType, CompleteInv, AtRest, ~wasFull, ~torn
                 PROVE  applied = [i \in 1 .. received |-> i]
      BY DEF CompleteUnlessFull
    <2>1. Lag(rq) = 0 /\ received \in Nat /\ applied \in Seq(Nat \ {0})
      BY SizeAssumption DEF AtRest, Lag, InjectType, QueueType, Slots
    <2>2. Len(applied) = received /\ \A i \in 1 .. Len(applied) : applied[i] = i
      BY <2>1 DEF CompleteInv, AtRest
    <2> QED
      BY <2>1, <2>2
  <1> QED
    BY <1>1, <1>2, <1>3, <1>4, InjectTypeInit, OrderInit, PTL DEF InjectSpec
=============================================================================
