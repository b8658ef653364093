------------------------------- MODULE TextBuffer -------------------------------
(***************************************************************************)
(* The text buffer of the digital modes (uhsdr_digi_buffer.c): characters  *)
(* from several sources for one consumer at a time, which alone may take   *)
(* them out.  The ring is the sequence of what is waiting in it; its two   *)
(* indices have one writer each.  The modules that extend this one say who *)
(* calls what.                                                             *)
(***************************************************************************)
EXTENDS Integers, Sequences

CONSTANT Room       \* bound: characters that fit, 127 in the code

ASSUME RoomAssumption == Room \in Nat \ {0}

Consumer == {"RTTY", "BPSK", "CW", "UI"}

\* A buffer of some characters.
BufferOf(chars) == {b \in [waiting : Seq(chars), active : Consumer \union {"none"},
                           prev : Consumer \union {"none"}] : Len(b.waiting) <= Room}

EmptyBuffer(consumer) == [waiting |-> <<>>, active |-> consumer, prev |-> "CW"]

\* DigiModes_TxBufferHasData
HasData(b) == b.waiting # <<>>

\* DigiModes_TxBufferPutChar for a whole text: it is only displayed when its
\* source is the consumer, and what does not fit is dropped.
PutText(b, text, source) ==
    LET all == b.waiting \o text
    IN  IF b.active = source THEN b
        ELSE [b EXCEPT !.waiting = IF Len(all) > Room THEN SubSeq(all, 1, Room) ELSE all]

\* A mutation of CanRemove: whoever asks gets a character.
CanRemoveAny(b, consumer) == HasData(b)

\* DigiModes_TxBufferRemove: whether there is a character for this consumer,
\* and the buffer without it.
CanRemove(b, consumer) == consumer = b.active /\ HasData(b)
Removed(b) == [b EXCEPT !.waiting = Tail(@)]

\* DigiModes_TxBufferReset
ResetBuffer(b) == [b EXCEPT !.waiting = <<>>]

\* A mutation of SetConsumer: the UI may lose the buffer.
SetConsumerAlways(b, consumer) == [b EXCEPT !.prev = b.active, !.active = consumer]

\* DigiModes_Set_BufferConsumer: the UI keeps the buffer while it has it.
SetConsumer(b, consumer) ==
    IF b.active = "UI" THEN [b EXCEPT !.prev = consumer]
    ELSE [b EXCEPT !.prev = b.active, !.active = consumer]

\* DigiModes_Restore_BufferConsumer
RestoreConsumer(b) == [b EXCEPT !.active = b.prev]
================================================================================
