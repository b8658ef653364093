------------------------------- MODULE CatDriver -------------------------------
(***************************************************************************)
(* The CAT driver (cat_driver.c): a host sends FT-817 commands over USB.   *)
(* The USB interrupt puts each packet into a ring; the main loop discards  *)
(* what an interrupted host left behind, takes commands of CmdLen bytes    *)
(* out and executes them, clones memories to and from the host, and        *)
(* follows the RTS line as a PTT.                                          *)
(*                                                                         *)
(* A byte is its position within the host's command, so that a command     *)
(* put together from parts of two is told from a whole one.  Time is kept  *)
(* as ages (sysclock minus a stored time, saturated).                      *)
(***************************************************************************)
EXTENDS Integers, Sequences

CONSTANTS
    Size,           \* CAT_BUFFER_SIZE
    CmdLen,         \* bytes of a command
    MaxPacket,      \* most bytes of one USB packet
    BlockLen,       \* bytes of a clone block
    NBlocks,        \* clone blocks
    Timeout,        \* CAT_DRIVER_TIMEOUT
    AckWait,        \* ticks CLONEOUT waits for an acknowledgement
    RecvWait,       \* ticks CLONEIN waits for a block
    MaxLoop         \* bound: ticks between two calls of HandleProtocol

ASSUME CatAssumption ==
    /\ {Size, CmdLen, MaxPacket, BlockLen, NBlocks, Timeout, MaxLoop} \subseteq Nat \ {0}
    /\ {AckWait, RecvWait} \subseteq Nat
    /\ CmdLen < Size /\ BlockLen < Size     \* "our buffer will be able to hold all" (cat_driver.c:923)

VARIABLES
    buffer,         \* cat_buffer from cat_tail to cat_head
    age,            \* sysclock - lastbufferadd_time
    connected,      \* hUsbDeviceFS.dev_state = USBD_STATE_CONFIGURED
    state,          \* ft817.state
    clone,          \* cloneout_state or clonein_state
    block, wait,    \* blockNum; ticks since last_sysclk was set
    pc, bufsz,      \* where the main loop is in HandleProtocol; its local
    loopAge,        \* ticks since HandleProtocol was entered
    rts, rtsLast,   \* PTTKeyPressed(); ptt_key_last_state
    catPtt,         \* cat_ptt_active
    next, quiet,    \* the host: its next byte; ticks since the last one it sent
                    \* (or since the cable was plugged or a clone ended)
    framed, fresh   \* history, see below

proto == <<state, clone, block, wait>>
main  == <<pc, bufsz, loopAge>>
ptt   == <<rts, rtsLast, catPtt>>
host  == <<next, quiet, connected>>
vars  == <<buffer, age, proto, main, ptt, host, framed, fresh>>

Ack     == 0                            \* CLONE_CMD_ACK
Byte    == 0..CmdLen
LongQuiet == Timeout + 2 * MaxLoop      \* a pause the driver is sure to notice
Least(a, b) == IF a < b THEN a ELSE b
Older(t, bound) == IF t > bound THEN t ELSE t + 1

--------------------------------------------------------------------------------
\* The ring, as the sequence of the bytes in it; one slot stays empty.

\* CatDriver_InterfaceBufferHasData.
Count == Len(buffer)

\* cat_buffer_remove, n times.
Remove(n) == /\ buffer' = SubSeq(buffer, n + 1, Count)
             /\ fresh' = Least(fresh, Count - n)

\* CatDriver_InterfaceBufferAddData refuses a byte when there is no room, so of
\* a packet the first bytes that fit are stored.
Stored(n) == Least(n, Size - 1 - Count)

\* CDC_Receive_FS, in the USB interrupt: a packet of n bytes.
\*
\* History.  "framed": since its last long pause, with no clone going on, the
\* host has sent nothing but whole commands, in one piece, and none of their
\* bytes was refused.  "fresh": how many of the bytes in the ring came after
\* the last pause longer than Timeout.
Receive(bytes, whole) ==
    LET n == Len(bytes)
        k == Stored(n)
    IN  /\ connected
        /\ buffer' = buffer \o SubSeq(bytes, 1, k)
        /\ age' = IF k > 0 THEN 0 ELSE age
        /\ fresh' = IF k = 0 THEN fresh ELSE IF age > Timeout THEN k ELSE fresh + k
        /\ framed' = /\ k = n /\ whole
                     /\ next = 1 \/ quiet <= Timeout
                     /\ framed \/ (next = 1 /\ quiet > LongQuiet)
        /\ quiet' = 0
        /\ UNCHANGED <<connected, proto, main, ptt>>

\* The host goes on with its stream of commands.
Send(n) == /\ Receive([i \in 1..n |-> ((next + i - 2) % CmdLen) + 1],
                      state \notin {"CLONEOUT", "CLONEIN"})
           /\ next' = ((next + n - 1) % CmdLen) + 1

\* The host acknowledges a clone block, maybe too late.
SendAck == Receive(<<Ack>>, FALSE) /\ next' = next

\* The host program stops within a command, or is started anew.
BreakOff == /\ next # 1 /\ next' = 1
            /\ framed' = FALSE
            /\ UNCHANGED <<buffer, age, proto, main, ptt, quiet, connected, fresh>>

Plug == /\ ~connected /\ connected' = TRUE
        /\ quiet' = 0
        /\ UNCHANGED <<buffer, age, proto, main, ptt, next, framed, fresh>>

Unplug == /\ connected /\ connected' = FALSE
          /\ next' = 1 /\ framed' = (framed /\ next = 1)
          /\ UNCHANGED <<buffer, age, proto, main, ptt, quiet, fresh>>

\* CDC_SET_CONTROL_LINE_STATE, or the menu item enable_ptt_rts.
SetLine == /\ rts' = ~rts
           /\ UNCHANGED <<buffer, age, proto, main, rtsLast, catPtt, host, framed, fresh>>

--------------------------------------------------------------------------------
\* CatDriver_HandleProtocol, in the main loop.

Enter == pc = "idle" /\ loopAge' = 0

\* Disconnected: cat_buffer_reset, once.
Disconnected ==
    /\ Enter /\ ~connected /\ pc' = "ptt"
    /\ IF state # "INIT"
       THEN Remove(Count) /\ state' = "INIT" /\ framed' = TRUE
       ELSE UNCHANGED <<buffer, state, fresh, framed>>
    /\ clone' = "INIT" /\ block' = 0 /\ wait' = 0
    /\ UNCHANGED <<age, bufsz, ptt, host>>

\* cat_driver_sync_data begins: the amount of data is read first.
SyncSize ==
    /\ Enter /\ connected /\ state \in {"INIT", "CAT"}
    /\ state' = "CAT" /\ bufsz' = Count /\ pc' = "sized"
    /\ UNCHANGED <<buffer, age, clone, block, wait, ptt, host, framed, fresh>>

\* A mutation of SyncAge: nothing is ever too old.
SyncAgeNever ==
    /\ pc = "sized" /\ pc' = "commands" /\ bufsz' = 0
    /\ UNCHANGED <<buffer, age, proto, loopAge, ptt, host, framed, fresh>>

\* ... then the time of the last byte.
SyncAge ==
    /\ pc = "sized"
    /\ LET old == bufsz > 0 /\ age > Timeout IN
          /\ pc' = IF old THEN "expire" ELSE "commands"
          /\ bufsz' = IF old THEN bufsz ELSE 0
    /\ UNCHANGED <<buffer, age, proto, loopAge, ptt, host, framed, fresh>>

\* A mutation of Expire: the ring is emptied, as cat_buffer_reset would.
ExpireAll ==
    /\ pc = "expire" /\ pc' = "commands" /\ bufsz' = 0
    /\ Remove(Count)
    /\ UNCHANGED <<age, proto, loopAge, ptt, host, framed>>

\* ... and that many bytes are removed, one by one.
Expire ==
    /\ pc = "expire"
    /\ IF bufsz > 0
       THEN Remove(Least(1, Count)) /\ bufsz' = bufsz - 1 /\ pc' = pc
       ELSE pc' = "commands" /\ UNCHANGED <<buffer, fresh, bufsz>>
    /\ UNCHANGED <<age, proto, loopAge, ptt, host, framed>>

\* CatDriver_CatEnableTX; TX may be disabled.
CatEnableTX(enable) == catPtt' \in IF enable THEN {catPtt, TRUE} ELSE {FALSE}

\* CatDriver_HandleCommands takes whole commands as long as there are any; of
\* what they do, the PTT is kept.
HandleCommands ==
    /\ pc = "commands"
    /\ IF Count >= CmdLen
       THEN /\ Remove(CmdLen) /\ pc' = pc
            /\ (\E enable \in BOOLEAN : CatEnableTX(enable)) \/ catPtt' = catPtt
       ELSE pc' = "ptt" /\ UNCHANGED <<buffer, fresh, catPtt>>
    /\ UNCHANGED <<age, proto, bufsz, loopAge, rts, rtsLast, host, framed>>

\* One block further, of NBlocks.
NextBlock(again, done) == /\ block' = block + 1
                          /\ clone' = IF block + 1 = NBlocks THEN done ELSE again

\* A mutation of CloneDone: only the clone's own state is reset.
CloneDoneStays == /\ clone' = "INIT" /\ state' = state /\ block' = 0 /\ wait' = 0 /\ quiet' = 0
                  /\ UNCHANGED <<buffer, fresh>>

\* "go back to normal CAT MODE and prepare for next round".
CloneDone == /\ clone' = "INIT" /\ state' = "INIT" /\ block' = 0 /\ wait' = 0 /\ quiet' = 0
             /\ UNCHANGED <<buffer, fresh>>

\* CatDriver_HandleCloneOut, one step per call.  CatDriver_BlockAck looks at
\* one byte, and drops it whatever it is.
CloneOut ==
    /\ Enter /\ connected /\ state = "CLONEOUT" /\ pc' = "ptt"
    /\ CASE clone = "INIT" -> block' = 0 /\ clone' = "SEND" /\ UNCHANGED <<buffer, fresh, wait, state>>
         [] clone = "SEND" -> clone' = "ACK_WAIT" /\ wait' = 0 /\ UNCHANGED <<buffer, fresh, block, state>>
         [] clone = "ACK_WAIT" ->
              /\ IF Count > 0 THEN Remove(1) ELSE UNCHANGED <<buffer, fresh>>
              /\ IF Count > 0 /\ Head(buffer) = Ack THEN NextBlock("SEND", "DONE")
                 ELSE block' = block /\ clone' = IF wait > AckWait THEN "NACK" ELSE clone
              /\ UNCHANGED <<wait, state>>
         [] clone = "NACK" -> clone' = "DONE" /\ UNCHANGED <<buffer, fresh, block, wait, state>>
         [] clone = "DONE" -> CloneDone
    /\ clone # "DONE" => UNCHANGED quiet
    /\ UNCHANGED <<age, bufsz, ptt, next, connected, framed>>

\* CatDriver_HandleCloneIn, one step per call.  Whether the checksum and the
\* number of a received block are right is left open.
CloneIn ==
    /\ Enter /\ connected /\ state = "CLONEIN" /\ pc' = "ptt"
    /\ CASE clone = "INIT" -> block' = 0 /\ clone' = "START" /\ UNCHANGED <<buffer, fresh, wait, state>>
         [] clone = "START" -> clone' = "RECV" /\ wait' = 0 /\ UNCHANGED <<buffer, fresh, block, state>>
         [] clone = "RECV" ->
              /\ IF Count >= BlockLen
                 THEN /\ Remove(BlockLen)
                      /\ NextBlock("START", "FINAL") \/ (clone' = "DONE" /\ block' = block)
                 ELSE /\ clone' = IF wait >= RecvWait THEN "DONE" ELSE clone
                      /\ UNCHANGED <<buffer, fresh, block>>
              /\ UNCHANGED <<wait, state>>
         [] clone = "FINAL" -> clone' = "DONE" /\ UNCHANGED <<buffer, fresh, block, wait, state>>
         [] clone = "DONE" -> CloneDone
    /\ clone # "DONE" => UNCHANGED quiet
    /\ UNCHANGED <<age, bufsz, ptt, next, connected, framed>>

\* A mutation of PttLine: without a host the line is not looked at.
PttLineConnected ==
    /\ pc = "ptt" /\ pc' = "idle"
    /\ rtsLast' = rts
    /\ IF connected /\ rts # rtsLast /\ rts # catPtt THEN CatEnableTX(rts) ELSE catPtt' = catPtt
    /\ UNCHANGED <<buffer, age, proto, bufsz, loopAge, rts, host, framed, fresh>>

\* The emulated PTT line: CatDriver_PTTKeyChangedState and what follows.
PttLine ==
    /\ pc = "ptt" /\ pc' = "idle"
    /\ rtsLast' = rts
    /\ IF rts # rtsLast /\ rts # catPtt THEN CatEnableTX(rts) ELSE catPtt' = catPtt
    /\ UNCHANGED <<buffer, age, proto, bufsz, loopAge, rts, host, framed, fresh>>

\* CatDriver_CloneOutStart and CatDriver_CloneInStart, from the menu.
CloneStart ==
    /\ pc = "idle" /\ state = "CAT"
    /\ state' \in {"CLONEOUT", "CLONEIN"} /\ clone' = "INIT"
    /\ framed' = FALSE
    /\ UNCHANGED <<buffer, age, block, wait, main, ptt, host, fresh>>

--------------------------------------------------------------------------------
\* UiDriver_Callback_AudioISR counts sysclock.
Tick ==
    /\ loopAge < MaxLoop /\ loopAge' = loopAge + 1
    /\ age' = Older(age, Timeout) /\ quiet' = Older(quiet, LongQuiet)
    /\ wait' = IF clone \in {"ACK_WAIT", "RECV"} THEN Older(wait, AckWait + RecvWait) ELSE wait
    /\ fresh' = IF age' > Timeout THEN 0 ELSE fresh
    /\ UNCHANGED <<buffer, state, clone, block, pc, bufsz, ptt, next, connected, framed>>

Init ==
    /\ buffer = <<>>
    /\ age = Timeout + 1 /\ quiet = LongQuiet + 1   \* sysclock is far from 0 when USB is up
    /\ connected = FALSE /\ state = "INIT" /\ clone = "INIT" /\ block = 0 /\ wait = 0
    /\ pc = "idle" /\ bufsz = 0 /\ loopAge = 0
    /\ rts = FALSE /\ rtsLast = FALSE /\ catPtt = FALSE
    /\ next = 1 /\ framed = TRUE /\ fresh = 0

MainLoop == \/ Disconnected \/ SyncSize \/ SyncAge \/ Expire
            \/ HandleCommands \/ CloneOut \/ CloneIn \/ PttLine

Environment == \/ (\E n \in 1..MaxPacket : Send(n)) \/ SendAck \/ BreakOff
               \/ Plug \/ Unplug \/ SetLine \/ CloneStart

Next == MainLoop \/ Environment \/ Tick

\* The main loop and the clock go on; nobody has to send, plug or choose.  USB
\* is slower than the main loop, which so finds the ring short of a command
\* again and again (strong fairness of leaving the loop).
Spec == /\ Init /\ [][Next]_vars
        /\ WF_vars(MainLoop) /\ WF_vars(Tick)
        /\ SF_vars(HandleCommands /\ Count < CmdLen)

--------------------------------------------------------------------------------
\* The state has its type; the ring never holds more than it has room for.
TypeOK ==
    /\ buffer \in Seq(Byte) /\ Count < Size
    /\ age \in 0..Timeout+1 /\ connected \in BOOLEAN
    /\ state \in {"INIT", "CAT", "CLONEOUT", "CLONEIN"}
    /\ clone \in {"INIT", "SEND", "ACK_WAIT", "NACK", "START", "RECV", "FINAL", "DONE"}
    /\ block \in 0..NBlocks /\ wait \in 0..AckWait+RecvWait+1
    /\ pc \in {"idle", "sized", "expire", "commands", "ptt"}
    /\ bufsz \in 0..Size-1 /\ loopAge \in 0..MaxLoop
    /\ {rts, rtsLast, catPtt, framed} \subseteq BOOLEAN
    /\ next \in 1..CmdLen /\ quiet \in 0..LongQuiet+1 /\ fresh \in 0..Count

\* What is discarded is old: "the first bufsz bytes are older than 200ms, if in
\* the meantime new bytes arrive, no problem, we keep them"
\* (cat_driver.c:169-172).  Bytes that came after the last pause survive,
\* whenever between the steps of cat_driver_sync_data they came.
ExpiresOnlyStale == [][pc = "expire" /\ loopAge' = loopAge => fresh' >= fresh]_vars

\* A command is never put together from parts of two: what a host left
\* behind when it stopped within a command, what was refused by a full ring,
\* and the rest of a clone are all gone after a long pause, and the commands
\* that follow are executed as they were sent (CatDriver_HandleCommands).
OnlyWholeCommands ==
    pc = "commands" /\ framed /\ Count >= CmdLen
        => SubSeq(buffer, 1, CmdLen) = [i \in 1..CmdLen |-> i]

\* "after a while we will give up" (cat_driver.c:873): whatever the host
\* answers, or does not, cloning ends and the radio takes commands again.
CloneEnds == state \in {"CLONEOUT", "CLONEIN"} ~> state \in {"INIT", "CAT"}

\* A PTT that was keyed with the RTS line is let go when the line is, with the
\* cable pulled too: nothing else would end that transmission, since
\* HandlePttOnOff skips the return to RX while CAT holds the PTT.
LineReleaseEndsPtt == (catPtt /\ rtsLast /\ ~rts) ~> (~catPtt \/ rts)
================================================================================
