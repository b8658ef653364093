---------------------------- MODULE RemoteInject ----------------------------
(***************************************************************************)
(* The command queue in use on the main unit.  Remote_Enqueue runs inside   *)
(* the USART2 interrupt (Remote_UartRxCallback -> Remote_RxByte ->          *)
(* Remote_ProcessPacket); Remote_InjectIntoUI drains the queue from the     *)
(* main loop with no interrupt lock, so the interrupt may fire between any  *)
(* two memory accesses of Remote_Dequeue.                                   *)
(*                                                                         *)
(* The statics are not volatile and the access is a data race: where the    *)
(* compiler may either keep a value it has loaded or load it again, both    *)
(* outcomes are allowed.  Commands are numbered in the order of arrival.    *)
(***************************************************************************)
EXTENDS RemoteQueue

CONSTANT MaxCmd   \* bound: number of commands received in a behaviour

ASSUME BoundAssumption == MaxCmd \in Nat
ASSUME NumberedAssumption == Cmd = 1 .. MaxCmd

VARIABLES pc,        \* where the main loop is
          cmd,       \* the local remote_cmd_t of Remote_InjectIntoUI
          loaded,    \* [count, tail]: registers of the running Remote_Dequeue
          struck,    \* the interrupt has queued a command during this call
          received,  \* commands received so far
          applied,   \* the commands applied to the UI, in order
          wasFull,   \* history: the ring has held SIZE commands at some time
          torn       \* history: an interrupt has struck inside Remote_Dequeue

aux == <<received, applied, wasFull, torn>>
mainLocals == <<pc, cmd, loaded>>
allVars == <<rq, taken, pc, cmd, loaded, struck, received, applied, wasFull, torn>>

InsideDequeue == pc \in {"copy", "advance", "uncount"}

InjectInit ==
  /\ Init
  /\ pc = "away" /\ cmd = NoCmd /\ loaded = [count |-> 0, tail |-> 0]
  /\ struck = FALSE
  /\ received = 0 /\ applied = <<>> /\ wasFull = FALSE /\ torn = FALSE

\* USART2 interrupt completing a command packet: Remote_Enqueue runs to its end.
\* A packet takes at least five bytes at 115200 baud (434 us), a Remote_Dequeue
\* a few instructions, so at most one packet completes during one call.
UartCommand ==
  /\ received < MaxCmd
  /\ InsideDequeue => ~struck
  /\ rq' = Enqueued(rq, received + 1)
  /\ received' = received + 1
  /\ wasFull' = (wasFull \/ rq'.count = SIZE)
  /\ struck' = InsideDequeue
  /\ torn' = (torn \/ InsideDequeue)
  /\ UNCHANGED <<taken, pc, cmd, loaded, applied>>

\* Remote_Process calls Remote_InjectIntoUI once per main loop pass.
CallInject ==
  /\ pc = "away" /\ pc' = "test"
  /\ UNCHANGED <<rq, taken, cmd, loaded, struck, aux>>

\* while (remote_cmd_tail != remote_cmd_head): leave when the indices meet.
LoopExit ==
  /\ pc = "test" /\ rq.tail = rq.head
  /\ pc' = "away"
  /\ UNCHANGED <<rq, taken, cmd, loaded, struck, aux>>

\* Mutant: the loop tests the count Remote_Dequeue is about to lower.
LoopEnterStale ==
  /\ pc = "test" /\ rq.tail # rq.head
  /\ loaded' = [loaded EXCEPT !.count = rq.count]
  /\ IF rq.count <= 1
     THEN pc' = "apply" /\ cmd' = NoCmd
     ELSE pc' = "copy" /\ UNCHANGED cmd
  /\ struck' = FALSE
  /\ UNCHANGED <<rq, taken, aux>>

\* ... otherwise Remote_Dequeue looks at the count.
LoopEnter ==
  /\ pc = "test" /\ rq.tail # rq.head
  /\ loaded' = [loaded EXCEPT !.count = rq.count]
  /\ IF rq.count = 0
     THEN pc' = "apply" /\ cmd' = NoCmd
     ELSE pc' = "copy" /\ UNCHANGED cmd
  /\ struck' = FALSE
  /\ UNCHANGED <<rq, taken, aux>>

\* Mutant: the newest entry is copied, not the oldest.
CopyNewest ==
  /\ pc = "copy" /\ pc' = "advance"
  /\ cmd' = rq.buf[(rq.head + SIZE - 1) % SIZE]
  /\ loaded' = [loaded EXCEPT !.tail = rq.tail]
  /\ UNCHANGED <<rq, taken, struck, aux>>

\* *cmd = remote_cmd_queue[remote_cmd_tail]
CopyEntry ==
  /\ pc = "copy" /\ pc' = "advance"
  /\ cmd' = rq.buf[rq.tail]
  /\ loaded' = [loaded EXCEPT !.tail = rq.tail]
  /\ UNCHANGED <<rq, taken, struck, aux>>

\* remote_cmd_tail = (remote_cmd_tail + 1) % SIZE, from memory or a register.
AdvanceTail ==
  /\ pc = "advance" /\ pc' = "uncount"
  /\ \E t \in {rq.tail, loaded.tail} : rq' = [rq EXCEPT !.tail = Advance(t)]
  /\ UNCHANGED <<taken, cmd, loaded, struck, aux>>

\* remote_cmd_count--, from memory or from the register tested above.
LowerCount ==
  /\ pc = "uncount" /\ pc' = "apply"
  /\ \E n \in {rq.count, loaded.count} : rq' = [rq EXCEPT !.count = n - 1]
  /\ UNCHANGED <<taken, cmd, loaded, struck, aux>>

\* The switch of Remote_InjectIntoUI; the sentinel falls into its default.
Apply ==
  /\ pc = "apply" /\ pc' = "test"
  /\ applied' = IF cmd = NoCmd THEN applied ELSE Append(applied, cmd)
  /\ taken' = cmd
  /\ UNCHANGED <<rq, cmd, loaded, struck, received, wasFull, torn>>

MainStep ==
  CallInject \/ LoopExit \/ LoopEnter \/ CopyEntry \/ AdvanceTail \/ LowerCount \/ Apply

InjectNext == UartCommand \/ MainStep

InjectSpec == InjectInit /\ [][InjectNext]_allVars

\* The main loop keeps running; nothing forces the peer to send commands.
FairInjectSpec == InjectSpec /\ WF_allVars(MainStep)
-----------------------------------------------------------------------------
InjectTypeOK ==
  /\ TypeOK
  /\ pc \in {"away", "test", "copy", "advance", "uncount", "apply"}
  /\ cmd \in Cmd \cup {NoCmd}
  /\ loaded \in [count : 0 .. SIZE, tail : Slots]
  /\ struck \in BOOLEAN
  /\ received \in 0 .. MaxCmd /\ wasFull \in BOOLEAN /\ torn \in BOOLEAN
  /\ \A i \in DOMAIN applied : applied[i] \in 1 .. received

\* The UI never sees two commands in the wrong order and never sees one twice,
\* even when the interrupt strikes inside Remote_Dequeue.
AppliedInOrder ==
  \A i, j \in DOMAIN applied : i < j => applied[i] < applied[j]

AtRest == pc = "away" /\ rq.tail = rq.head

\* As long as the ring never fills up and no interrupt strikes inside
\* Remote_Dequeue, every command the interrupt received has reached the UI once
\* the main loop finds head and tail equal: nothing is lost between
\* Remote_Enqueue and the switch of Remote_InjectIntoUI.
CompleteUnlessFull ==
  AtRest /\ ~wasFull /\ ~torn => applied = [i \in 1 .. received |-> i]

\* With interrupts between the calls only, the three indices agree outside of
\* Remote_Dequeue (IndicesAgree under the main loop's read schedule).
IndicesAgreeBetweenCalls == ~InsideDequeue /\ ~torn => IndicesAgree

\* Remote_InjectIntoUI comes back to the main loop, so the radio keeps running
\* whatever the peer sends, unless an interrupt strikes inside Remote_Dequeue:
\* a count lost there leaves head and tail apart with a count of zero.
DrainReturns == (pc = "test") ~> (pc = "away" \/ torn)
=============================================================================
