---------------------------- MODULE RemoteQueue ----------------------------
(***************************************************************************)
(* The command queue of drivers/remote/remote.c: a ring of SIZE slots with  *)
(* a head, a tail and an explicit count, as the two helpers Remote_Enqueue  *)
(* and Remote_Dequeue leave it when neither interrupts the other.  The      *)
(* interrupt-driven use of the same helpers is module RemoteInject.         *)
(***************************************************************************)
EXTENDS Integers, Sequences

CONSTANTS Cmd,    \* commands a packet can carry
          SIZE,   \* REMOTE_CMD_QUEUE_SIZE
          NoCmd   \* the 0xFF sentinel of Remote_Dequeue

ASSUME SizeAssumption == SIZE \in Nat \ {0}
ASSUME NoCmdAssumption == NoCmd \notin Cmd

VARIABLES rq,     \* [buf, head, tail, count]: the statics remote_cmd_*
          taken   \* what the last Remote_Dequeue stored in *cmd

vars == <<rq, taken>>

Slots == 0 .. SIZE - 1

\* (i + 1) % REMOTE_CMD_QUEUE_SIZE
Advance(i) == (i + 1) % SIZE

QueueType == [buf   : [Slots -> Cmd \cup {NoCmd}],
              head  : Slots,
              tail  : Slots,
              count : 0 .. SIZE]

EmptyQueue == [buf |-> [i \in Slots |-> NoCmd], head |-> 0, tail |-> 0, count |-> 0]

\* The queue after Remote_Dequeue: untouched when the count is zero.
Dequeued(s) ==
  IF s.count = 0 THEN s
  ELSE [s EXCEPT !.tail = Advance(s.tail), !.count = s.count - 1]

\* What Remote_Dequeue hands to its caller.
Oldest(s) == IF s.count = 0 THEN NoCmd ELSE s.buf[s.tail]

\* Mutant: the overflow path drops the newest command instead of the oldest.
WithRoomDropNewest(s) ==
  IF s.count < SIZE THEN s
  ELSE [s EXCEPT !.head = (s.head + SIZE - 1) % SIZE, !.count = s.count - 1]

\* The queue after Remote_Enqueue drops the oldest entry of a full ring.
WithRoom(s) == IF s.count >= SIZE THEN Dequeued(s) ELSE s

\* The queue after Remote_Enqueue(c).
Enqueued(s, c) ==
  LET r == WithRoom(s)
  IN  [r EXCEPT !.buf = [r.buf EXCEPT ![r.head] = c],
                !.head = Advance(r.head), !.count = r.count + 1]
-----------------------------------------------------------------------------
Init == rq = EmptyQueue /\ taken = NoCmd

Enqueue(c) == rq' = Enqueued(rq, c) /\ UNCHANGED taken

Dequeue == taken' = Oldest(rq) /\ rq' = Dequeued(rq)

Next == (\E c \in Cmd : Enqueue(c)) \/ Dequeue

Spec == Init /\ [][Next]_vars
-----------------------------------------------------------------------------
TypeOK == rq \in QueueType /\ taken \in Cmd \cup {NoCmd}

\* The slot that holds the k-th oldest command, k counted from 0.
SlotOf(s, k) == IF s.tail + k < SIZE THEN s.tail + k ELSE s.tail + k - SIZE

\* The queue's content, oldest first.
Content(s) == [k \in 1 .. s.count |-> s.buf[SlotOf(s, k - 1)]]

\* Head, tail and count describe the same ring: the next free slot is count
\* slots behind the tail, and every slot in between holds a received command.
WellFormed(s) ==
  /\ s.head = IF s.count = SIZE THEN s.tail ELSE SlotOf(s, s.count)
  /\ \A k \in 0 .. s.count - 1 : s.buf[SlotOf(s, k)] \in Cmd

\* The three indices of the ring never contradict each other, whatever mix of
\* overflows and reads came before (remote_cmd_head, remote_cmd_tail and
\* remote_cmd_count are updated one by one in Remote_Enqueue and Remote_Dequeue).
IndicesAgree == WellFormed(rq)

\* The ring implements the drop-oldest queue of ARCH.md 10.2.
Abstract == INSTANCE DropOldestQueue
              WITH pending <- Content(rq), taken <- taken, Capacity <- SIZE

ImplementsDropOldest == Abstract!Spec
=============================================================================
