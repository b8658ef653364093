-------------------------------- MODULE FreeDv --------------------------------
(***************************************************************************)
(* FreeDV: the sample rings (rb.c) between the audio interrupt             *)
(* (tx_processor.c, audio_rx.c) and the codec, which runs in PendSV        *)
(* (FreeDv_HandleFreeDv, freedv_uhsdr.c) and is interrupted anywhere.      *)
(*                                                                         *)
(* In TX the interrupt records into the audio ring and sends what the      *)
(* codec puts into the iq ring; in RX it fills the demod ring and plays    *)
(* what the codec puts into the audio ring.  A change of direction (never  *)
(* while the codec runs) swaps the sides of the audio ring, and the demod  *)
(* and the iq ring lie in the same memory (MultiModeBuffer_t).             *)
(*                                                                         *)
(* FreeDV stays selected.  This is the build with the demod ring, without  *)
(* USE_SIMPLE_FREEDV_FILTERS.                                              *)
(***************************************************************************)
EXTENDS Naturals

CONSTANTS
    AudioSize, IqSize, DemodSize,   \* the sizes of the rings
    Frame,      \* samples in a frame of speech, and in one of the modem
    Nin,        \* numbers of samples the decoder may ask for
    Few,        \* an interrupt moves so many samples or one more; 5 in the code
    MaxPut      \* bound: samples the interrupt puts into a ring

ASSUME FdvAssumption ==
    /\ {AudioSize, IqSize, DemodSize, Frame, Few} \subseteq Nat \ {0}
    /\ Nin \subseteq Nat \ {0} /\ MaxPut \in Nat

Ring == {"audio", "iq", "demod"}
RingSize == [audio |-> AudioSize, iq |-> IqSize, demod |-> DemodSize]

VARIABLES
    txrx_mode,
    rb,         \* the rings: size, tail, head, the samples, and as history how many
                \* were put in (a sample is its number) and how many taken out
    tx_was_here, rx_was_here,
    filled,     \* bufferFilled of the interrupt's two sides
    at,         \* where the codec's handler is
    held,       \* what it holds: an index it has loaded (and the number of the sample
                \* there), the length of its transfer, the transfers left
    struck,     \* the interrupt has come while it clears an output ring
    fresh,      \* history: every sample taken was the one due, and for the handler, which
                \* is interrupted, both when it began and when it ended to copy it
    unread      \* history: a frame was encoded that had not been read

history == <<fresh, unread>>
fdvVars == <<txrx_mode, rb, tx_was_here, rx_was_here, filled, at, held, struck, history>>

\* Where the handler reads and the interrupt writes, and the other way round.
In  == IF txrx_mode = "TX" THEN "audio" ELSE "demod"
Out == IF txrx_mode = "TX" THEN "iq" ELSE "audio"

\* The handler has cleared the rings for this direction.
WasHere == IF txrx_mode = "TX" THEN tx_was_here ELSE rx_was_here

--------------------------------------------------------------------------------
(***************************************************************************)
(* The ring buffer.                                                        *)
(***************************************************************************)

\* How many cells on from j the cell i is.
Ahead(i, j, size) == (i + size - j) % size

\* RingBuffer_GetData, RingBuffer_GetRoom
GetData(r) == Ahead(r.head, r.tail, r.size)
GetRoom(r) == LET room == Ahead(r.tail, r.head, r.size)
              IN  IF room = 0 THEN r.size ELSE room

\* The cells the next len samples go to.
Cells(r, len) == {c \in DOMAIN r.mem : Ahead(c, r.head, r.size) < len}

\* The halves of RingBuffer_PutSamples, before and with the store of the index.
Copied(r, len) ==
    [r EXCEPT !.mem = [c \in DOMAIN r.mem |->
        IF c \in Cells(r, len) THEN r.put + 1 + Ahead(c, r.head, r.size) ELSE r.mem[c]]]
AdvanceHead(r, len) == [r EXCEPT !.head = (r.head + len) % r.size, !.put = r.put + len]

\* The end of RingBuffer_GetSamples.
AdvanceTail(r, len) == [r EXCEPT !.tail = (r.tail + len) % r.size, !.got = r.got + len]

\* The next len samples are those that were put in after the last one taken.
Due(r, len) == \A c \in DOMAIN r.mem :
    Ahead(c, r.tail, r.size) < len => r.mem[c] = r.got + 1 + Ahead(c, r.tail, r.size)

Ruined(r, cells) == [r EXCEPT !.mem = [c \in DOMAIN r.mem |-> IF c \in cells THEN 0 ELSE r.mem[c]]]

\* Samples are copied into a ring.  One of the iq ring lies where two of the demod
\* ring do, and ruins them, as they do it.
Copy(ring, len) ==
    LET cells == Cells(rb[ring], len)
    IN  [r \in Ring |->
            CASE r = ring                   -> Copied(rb[r], len)
              [] r = "iq" /\ ring = "demod" -> Ruined(rb[r], {c \div 2 : c \in cells})
              [] r = "demod" /\ ring = "iq" -> Ruined(rb[r], {2 * c : c \in cells}
                                                             \union {2 * c + 1 : c \in cells})
              [] OTHER                      -> rb[r]]

--------------------------------------------------------------------------------
(***************************************************************************)
(* The audio interrupt.                                                    *)
(***************************************************************************)

\* The handler is inside RingBuffer_ClearPutHead.
Clearing == {"loadTail", "storeHead", "testHead"}

\* TxProcessor_FreeDV and AudioDriver_RxProcessorFreeDV: n samples, one by one, into
\* the one ring while it has room, and n2 out of the other, once more than a frame has
\* waited there and until it runs short.  The interrupts are 667 microseconds apart: at
\* most one comes while a ring is cleared.
Interrupt(n, n2) ==
    LET room   == GetRoom(rb[In])
        len    == IF n < room THEN n ELSE room - 1
        data   == GetData(rb[Out])
        enough == /\ filled[txrx_mode] \/ data > Frame
                  /\ data >= IF txrx_mode = "TX" THEN Few + 1 ELSE n2
        rb1    == [Copy(In, len) EXCEPT ![In] = AdvanceHead(@, len)]
    IN  /\ rb[In].put + n <= MaxPut
        /\ at \in Clearing => ~struck
        /\ struck' = (struck \/ at \in Clearing)
        /\ rb' = IF enough THEN [rb1 EXCEPT ![Out] = AdvanceTail(@, n2)] ELSE rb1
        /\ filled' = [filled EXCEPT ![txrx_mode] = enough]
        /\ fresh' = (fresh /\ (enough /\ WasHere => Due(rb[Out], n2)))
        /\ UNCHANGED <<txrx_mode, tx_was_here, rx_was_here, at, held, unread>>

--------------------------------------------------------------------------------
(***************************************************************************)
(* FreeDv_HandleFreeDv, in PendSV.                                         *)
(***************************************************************************)

Goto(step) == at' = step /\ UNCHANGED <<txrx_mode, filled>>
Keep == UNCHANGED <<tx_was_here, rx_was_here, struck>>

\* In TX a frame of speech must wait and one of the modem have room.
Begin == /\ at = "idle"
         /\ IF txrx_mode = "TX"
            THEN IF GetData(rb["audio"]) >= Frame /\ GetRoom(rb["iq"]) >= Frame
                 THEN Goto(IF tx_was_here THEN "get" ELSE "loadHead")
                 ELSE Goto("done")
            ELSE Goto(IF rx_was_here THEN "decode" ELSE "loadHead")
         /\ Keep /\ UNCHANGED <<rb, held, history>>

\* RingBuffer_ClearGetTail of the input ring.
LoadHead == /\ at = "loadHead" /\ Goto("storeTail")
            /\ held' = [held EXCEPT !.index = rb[In].head, !.number = rb[In].put]
            /\ Keep /\ UNCHANGED <<rb, history>>

StoreTail == /\ at = "storeTail" /\ Goto("testTail")
             /\ rb' = [rb EXCEPT ![In].tail = held.index, ![In].got = held.number]
             /\ Keep /\ UNCHANGED <<held, history>>

TestTail == /\ at = "testTail"
            /\ Goto(IF rb[In].tail = rb[In].head THEN "loadTail" ELSE "loadHead")
            /\ struck' = FALSE
            /\ UNCHANGED <<rb, held, tx_was_here, rx_was_here, history>>

\* RingBuffer_ClearPutHead of the output ring.
LoadTail == /\ at = "loadTail" /\ Goto("storeHead")
            /\ held' = [held EXCEPT !.index = rb[Out].tail]
            /\ Keep /\ UNCHANGED <<rb, history>>

StoreHead == /\ at = "storeHead" /\ Goto("testHead")
             /\ rb' = [rb EXCEPT ![Out].head = held.index, ![Out].got = rb[Out].put]
             /\ Keep /\ UNCHANGED <<held, history>>

\* A mutation of TestHead: the head is stored once, whatever the tail is by then.
TestHeadOnce == /\ at = "testHead"
                /\ tx_was_here' = (txrx_mode = "TX") /\ rx_was_here' = (txrx_mode = "RX")
                /\ Goto(IF txrx_mode = "TX" THEN "get" ELSE "decode")
                /\ UNCHANGED <<rb, held, struck, history>>

TestHead == /\ at = "testHead"
            /\ IF rb[Out].tail = rb[Out].head
               THEN /\ tx_was_here' = (txrx_mode = "TX") /\ rx_was_here' = (txrx_mode = "RX")
                    /\ Goto(IF txrx_mode = "TX" THEN "get" ELSE "decode")
               ELSE UNCHANGED <<tx_was_here, rx_was_here>> /\ Goto("loadTail")
            /\ UNCHANGED <<rb, held, struck, history>>

\* RingBuffer_GetSamples of a frame of speech up to its copying; nothing is copied if
\* there is no frame, and the buffer on the stack is encoded as it is.
Get == /\ at = "get" /\ Goto("took")
       /\ LET ready == Frame <= GetData(rb[In])
          IN  /\ held' = [held EXCEPT !.len = IF ready THEN Frame ELSE 0]
              /\ unread' = (unread \/ ~ready)
              /\ fresh' = (fresh /\ (ready => Due(rb[In], Frame)))
       /\ Keep /\ UNCHANGED rb

\* In RX frames are decoded while there is input and room.
Decode(nin) ==
    /\ at = "decode"
    /\ IF GetData(rb[In]) >= nin /\ GetRoom(rb[Out]) >= nin
       THEN /\ held' = [held EXCEPT !.len = nin] /\ fresh' = (fresh /\ Due(rb[In], nin))
            /\ Goto("took")
       ELSE UNCHANGED <<held, fresh>> /\ Goto("done")
    /\ Keep /\ UNCHANGED <<rb, unread>>

\* The end of RingBuffer_GetSamples, and the codec.  What is decoded is put into the
\* audio ring at once, if the decoder is in step; what is encoded sample by sample.
Took == /\ at = "took"
        /\ rb' = [rb EXCEPT ![In] = AdvanceTail(@, held.len)]
        /\ IF txrx_mode = "TX"
           THEN held' = [held EXCEPT !.len = 1, !.todo = Frame] /\ Goto("put")
           ELSE \/ UNCHANGED held /\ Goto("decode")
                \/ \E count \in {Frame, held.len} :
                        held' = [held EXCEPT !.len = count, !.todo = 1] /\ Goto("put")
        /\ fresh' = (fresh /\ Due(rb[In], held.len))
        /\ Keep /\ UNCHANGED unread

\* RingBuffer_PutSamples in its two halves; a ring without room refuses.
Put == /\ at = "put" /\ held.todo > 0
       /\ IF held.len < GetRoom(rb[Out])
          THEN rb' = Copy(Out, held.len) /\ UNCHANGED held /\ Goto("store")
          ELSE held' = [held EXCEPT !.todo = @ - 1] /\ UNCHANGED rb /\ Goto("put")
       /\ Keep /\ UNCHANGED history

Store == /\ at = "store" /\ Goto("put")
         /\ rb' = [rb EXCEPT ![Out] = AdvanceHead(@, held.len)]
         /\ held' = [held EXCEPT !.todo = @ - 1]
         /\ Keep /\ UNCHANGED history

AllPut == /\ at = "put" /\ held.todo = 0
          /\ Goto(IF txrx_mode = "TX" THEN "done" ELSE "decode")
          /\ Keep /\ UNCHANGED <<rb, held, history>>

\* RadioManagement_HandlePttOnOff follows, and may change the direction, or the main
\* loop does: each interrupt is followed by the handler before the main loop goes on.
Return == /\ at = "done" /\ at' = "idle"
          /\ txrx_mode' \in {"RX", "TX"}
          /\ Keep /\ UNCHANGED <<filled, rb, held, history>>

--------------------------------------------------------------------------------
EmptyRing(size) == [size |-> size, tail |-> 0, head |-> 0,
                    mem |-> [c \in 0..size-1 |-> 0], put |-> 0, got |-> 0]

FdvInit ==
    /\ txrx_mode = "RX" /\ rb = [r \in Ring |-> EmptyRing(RingSize[r])]
    /\ tx_was_here = FALSE /\ rx_was_here = TRUE
    /\ filled = [m \in {"RX", "TX"} |-> FALSE]
    /\ at = "idle" /\ held = [index |-> 0, number |-> 0, len |-> 0, todo |-> 0]
    /\ struck = FALSE /\ fresh = TRUE /\ unread = FALSE

HandleFreeDv ==
    \/ Begin \/ LoadHead \/ StoreTail \/ TestTail \/ LoadTail \/ StoreHead \/ TestHead
    \/ Get \/ (\E nin \in Nin : Decode(nin)) \/ Took \/ Put \/ Store \/ AllPut

FdvNext == (\E n, n2 \in {Few, Few + 1} : Interrupt(n, n2)) \/ HandleFreeDv \/ Return

FdvSpec == FdvInit /\ [][FdvNext]_fdvVars

--------------------------------------------------------------------------------
RingOf(size) == [size : {size}, tail : 0..size-1, head : 0..size-1,
                 mem : [0..size-1 -> Nat], put : Nat, got : Nat]

\* The indices stay in their rings, and the handler has its types.
FdvTypeOK ==
    /\ txrx_mode \in {"RX", "TX"} /\ {tx_was_here, rx_was_here, struck, fresh, unread} \subseteq BOOLEAN
    /\ filled \in [{"RX", "TX"} -> BOOLEAN]
    /\ DOMAIN rb = Ring /\ \A r \in Ring : rb[r] \in RingOf(RingSize[r])
    /\ held \in [index : Nat, number : Nat, len : Nat, todo : Nat]

\* Once the rings are cleared for a direction, each sample the interrupt sends or plays
\* and each one the codec encodes or decodes is the one put into that ring next after
\* the last one taken: none is lost, taken twice, overwritten or left from before the
\* clearing, wherever the interrupt comes in the handler (RingBuffer_PutSamples,
\* _GetSamples) and although the sides and the memory of the rings change with the
\* direction.
EachSampleOnce == fresh

\* "if we are transmitting and samples from dv_tx_processor are ready"
\* (freedv_uhsdr.c:184): what is encoded are samples from the interrupt.  The code
\* clears the ring after it has found it ready and does not look at what
\* RingBuffer_GetSamples returns.
EncodesWhatIsReady == ~unread
================================================================================
