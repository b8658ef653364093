-------------------------- MODULE DropOldestQueue --------------------------
(***************************************************************************)
(* What the remote command queue promises (ARCH.md, section 10.2, and the   *)
(* comment in Remote_Enqueue): a bounded FIFO that never refuses a command  *)
(* and, when it is full, makes room by dropping the oldest one.             *)
(***************************************************************************)
EXTENDS Naturals, Sequences

CONSTANTS Cmd,       \* commands a packet can carry
          Capacity,  \* number of commands held at most
          NoCmd      \* what an empty queue answers

VARIABLES pending,   \* the commands not yet taken, oldest first
          taken      \* the answer of the last Get

vars == <<pending, taken>>

Init == pending = <<>> /\ taken = NoCmd

\* A command arrives: it is always accepted, as the newest one.
Put(c) ==
  /\ pending' = Append(IF Len(pending) = Capacity THEN Tail(pending) ELSE pending, c)
  /\ UNCHANGED taken

\* The consumer takes the oldest command.
Get ==
  /\ pending # <<>>
  /\ taken' = Head(pending)
  /\ pending' = Tail(pending)

\* The consumer asks an empty queue.
GetNothing ==
  /\ pending = <<>>
  /\ taken' = NoCmd
  /\ UNCHANGED pending

Next == (\E c \in Cmd : Put(c)) \/ Get \/ GetNothing

Spec == Init /\ [][Next]_vars
=============================================================================
