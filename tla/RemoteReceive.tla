----------------------------- MODULE RemoteReceive -----------------------------
(***************************************************************************)
(* The receiving side of the remote link: the bytes of a remote unit's     *)
(* packets come over the UART, one interrupt each, through the parser      *)
(* Remote_RxByte (remote.c) into the command queue RemoteQueue, which the  *)
(* main loop empties.  The bytes are the real ones, the CRC is computed.   *)
(*                                                                         *)
(* The line loses and garbles bytes, and the remote unit may be switched   *)
(* off within a packet; no two faults without a packet accepted in         *)
(* between.  The parser has no clock: it finds back to the packets by      *)
(* their start bytes alone.                                                *)
(***************************************************************************)
EXTENDS RemoteQueue

CONSTANTS Other,    \* payloads the remote unit sends that are no commands
          Noise,    \* what a byte may be garbled into
          MaxLen    \* bound: the longest payload, 252 in the code

Byte == 0..255

\* A payload starts with its type.
ASSUME ByteAssumption == /\ Noise \subseteq Byte /\ MaxLen \in 1..252
                         /\ \A p \in Cmd \union Other : p \in Seq(Byte) /\ Len(p) \in 1..MaxLen

VARIABLES rx,       \* [state, len, crc, payload] of g_rx; idx is Len(payload)
          line,     \* the bytes of the current packet still to come
          sent,     \* history: payloads sent and not accepted yet, the last two
          fault,    \* history: a fault came after the last accepted packet
          forged,   \* history: a packet was acted on that was not sent
          heard     \* history: how the parser has heard the current packet: "whole"
                    \* from its first byte, "garbled" in one byte behind the length
                    \* and else whole, or "broken"

receiver    == <<rx, line, sent, fault, forged, heard>>
receiveVars == <<vars, receiver>>

START1 == 170       \* 0xAA
START2 == 187       \* 0xBB

--------------------------------------------------------------------------------
\* CRC-8-CCITT.

\* a ^ b: the bits in which they differ.
Xor(a, b) ==
    LET bit(w) == w * ((a \div w + b \div w) % 2)
    IN  bit(1) + bit(2) + bit(4) + bit(8) + bit(16) + bit(32) + bit(64) + bit(128)

\* Eight shifts with the polynomial 0x07, for every value of the register.
CrcTable ==
    LET one  == [c \in Byte |-> IF c >= 128 THEN Xor((2 * c) % 256, 7) ELSE 2 * c]
        two  == [c \in Byte |-> one[one[c]]]
        four == [c \in Byte |-> two[two[c]]]
    IN  [c \in Byte |-> four[four[c]]]

\* One byte more.
CrcOf(crc, byte) == CrcTable[Xor(crc, byte)]

\* Remote_CRC8.
CRC8(data) ==
    LET crc[i \in 0..Len(data)] == IF i = 0 THEN 0 ELSE CrcOf(crc[i-1], data[i])
    IN  crc[Len(data)]

\* Remote_BuildPacket.
BuildPacket(p) == <<START1, START2, Len(p)>> \o p \o <<CRC8(p)>>

--------------------------------------------------------------------------------
\* The parser.

\* A mutation of Length: the CRC of the packet before is kept.
LengthKeepsCrc(r, byte) ==
    [r EXCEPT !.len = byte, !.payload = <<>>,
              !.state = CASE byte = 0 -> 4 [] byte > MaxLen -> 0 [] OTHER -> 3]

\* g_rx.state = 2: the length decides what follows.
Length(r, byte) ==
    [r EXCEPT !.len = byte, !.payload = <<>>, !.crc = 0,
              !.state = CASE byte = 0 -> 4 [] byte > MaxLen -> 0 [] OTHER -> 3]

\* g_rx.state = 3: a byte of the payload; the CRC is kept up.
PayloadByte(r, byte) ==
    [r EXCEPT !.payload = Append(@, byte), !.crc = CrcOf(@, byte),
              !.state = IF Len(r.payload) + 1 = r.len THEN 4 ELSE 3]

\* A mutation of RxByte: a packet with a wrong CRC is not left.
RxByteHolds(r, byte) ==
    CASE r.state = 0 -> [r EXCEPT !.state = IF byte = START1 THEN 1 ELSE 0]
      [] r.state = 1 -> [r EXCEPT !.state = CASE byte = START2 -> 2
                                              [] byte = START1 -> 1 [] OTHER -> 0]
      [] r.state = 2 -> Length(r, byte)
      [] r.state = 3 -> PayloadByte(r, byte)
      [] r.state = 4 -> [r EXCEPT !.state = IF byte = r.crc THEN 0 ELSE 4]

\* Remote_RxByte: the parser after a byte.  A second START1 may be the true one.
RxByte(r, byte) ==
    CASE r.state = 0 -> [r EXCEPT !.state = IF byte = START1 THEN 1 ELSE 0]
      [] r.state = 1 -> [r EXCEPT !.state = CASE byte = START2 -> 2
                                              [] byte = START1 -> 1 [] OTHER -> 0]
      [] r.state = 2 -> Length(r, byte)
      [] r.state = 3 -> PayloadByte(r, byte)
      [] r.state = 4 -> [r EXCEPT !.state = 0]

\* A mutation of Accepts: the CRC is not compared.
AcceptsAny(r, byte) == r.state = 4 /\ r.len > 0

\* A packet is complete and its CRC is right; one without a payload is dropped
\* by both Remote_ProcessHandshake and Remote_ProcessPacket.
Accepts(r, byte) == r.state = 4 /\ byte = r.crc /\ r.len > 0

\* The length Remote_ProcessPacket demands of a command.
CommandLength == [type \in {1, 3, 4, 5, 6} |->
                    CASE type = 1 -> 2 [] type \in {3, 4} -> 3 [] type = 5 -> 1 [] type = 6 -> 5]

IsCommand(p) == p[1] \in DOMAIN CommandLength /\ Len(p) = CommandLength[p[1]]

\* The packets something is done about; Remote_ProcessHandshake looks at the
\* type alone.
ActsOn(p) == IsCommand(p) \/ p[1] \in {240, 241, 242}

\* One UART interrupt: Remote_RxByte, and Remote_ProcessPacket or
\* Remote_ProcessHandshake (RemoteLink) on what it accepts.
Receive(byte) ==
    /\ rx' = RxByte(rx, byte)
    /\ rq' = IF Accepts(rx, byte) /\ IsCommand(rx.payload) THEN Enqueued(rq, rx.payload) ELSE rq
    /\ taken' = taken

--------------------------------------------------------------------------------
\* The remote unit and the line.

\* Remote_SendPacket.
StartPacket(p) == /\ line = <<>> /\ line' = BuildPacket(p)
                  /\ sent' = Append(IF Len(sent) = 2 THEN Tail(sent) ELSE sent, p)
                  /\ heard' = IF rx.state = 0 THEN "whole" ELSE "broken"
                  /\ UNCHANGED <<vars, rx, fault, forged>>

\* The history of an interrupt: an accepted payload is no longer owed, nor
\* are those sent before it.
Noted(byte, faulty) ==
    LET owed     == {i \in DOMAIN sent : sent[i] = rx.payload}
        earliest == CHOOSE i \in owed : \A j \in owed : i <= j
    IN  IF Accepts(rx, byte)
        THEN /\ fault' = FALSE
             /\ forged' = (owed = {} /\ ActsOn(rx.payload))
             /\ sent' = IF owed = {} THEN sent ELSE SubSeq(sent, earliest + 1, Len(sent))
        ELSE fault' = (fault \/ faulty) /\ UNCHANGED <<sent, forged>>

ByteArrives == /\ line # <<>> /\ line' = Tail(line)
               /\ Receive(Head(line)) /\ Noted(Head(line), FALSE)
               /\ UNCHANGED heard

ByteLost == /\ line # <<>> /\ ~fault
            /\ line' = Tail(line) /\ fault' = TRUE /\ heard' = "broken"
            /\ UNCHANGED <<vars, rx, sent, forged>>

ByteGarbled(noise) == /\ line # <<>> /\ ~fault /\ noise # Head(line)
                      /\ line' = Tail(line)
                      /\ Receive(noise) /\ Noted(noise, TRUE)
                      /\ heard' = IF heard = "whole" /\ rx.state \in {3, 4}
                                  THEN "garbled" ELSE "broken"

\* The remote unit is switched off within a packet.
Cut == /\ line # <<>> /\ ~fault
       /\ line' = <<>> /\ fault' = TRUE /\ heard' = "broken"
       /\ UNCHANGED <<vars, rx, sent, forged>>

\* Remote_InjectIntoUI takes one command out.
MainTakes == Dequeue /\ UNCHANGED receiver

ReceiveInit == /\ Init
               /\ rx = [state |-> 0, len |-> 0, crc |-> 0, payload |-> <<>>]
               /\ line = <<>> /\ sent = <<>> /\ fault = FALSE /\ forged = FALSE
               /\ heard = "whole"

ReceiveNext == \/ (\E p \in Cmd \union Other : StartPacket(p))
               \/ ByteArrives \/ ByteLost \/ (\E noise \in Noise : ByteGarbled(noise)) \/ Cut
               \/ MainTakes

\* The remote unit keeps sending (its heartbeats at least) and what it sends
\* arrives; faults need not happen.
ReceiveSpec == /\ ReceiveInit /\ [][ReceiveNext]_receiveVars
               /\ WF_receiveVars(\E p \in Cmd \union Other : StartPacket(p))
               /\ WF_receiveVars(ByteArrives)

--------------------------------------------------------------------------------
\* The parser has its types, and no byte is written behind the last one a packet
\* may have (g_rx.payload holds 256).
ReceiveTypeOK ==
    /\ rx \in [state : 0..4, len : Byte, crc : Byte, payload : Seq(Byte)]
    /\ Len(rx.payload) <= MaxLen
    /\ rx.state = 3 => Len(rx.payload) < rx.len /\ rx.len <= MaxLen
    /\ rx.state = 4 => Len(rx.payload) = rx.len
    /\ line \in Seq(Byte) /\ sent \in Seq(Cmd \union Other) /\ Len(sent) <= 2
    /\ {fault, forged} \subseteq BOOLEAN /\ heard \in {"whole", "garbled", "broken"}

\* A packet that begins when the parser is between two packets and of which every
\* byte arrives is decoded as it was built (Remote_BuildPacket, Remote_RxByte),
\* start bytes in its payload included and whatever the line did before: its command
\* is queued at its last byte and nothing before, and the parser is ready for
\* the next packet.
DecodedAsBuilt ==
    [][line # <<>> /\ line' = Tail(line) /\ heard' = "whole" =>
         LET p == sent[Len(sent)]
         IN  /\ rq' = IF line' = <<>> /\ IsCommand(p) THEN Enqueued(rq, p) ELSE rq
             /\ line' = <<>> => rx'.payload = p /\ rx'.state = 0 /\ ~forged']_receiveVars

\* "CRC catches all corrupted" (ARCH.md:732): of a packet that is heard from its
\* start and of which one byte behind the length is garbled, in whatever way and be
\* it the CRC itself, nothing is acted on, and the parser is ready for the next packet
\* at its end.
GarbledDropped ==
    [][line # <<>> /\ line' = Tail(line) /\ heard' = "garbled" =>
         /\ UNCHANGED <<rq, sent, forged>>
         /\ line' = <<>> => rx'.state = 0]_receiveVars

\* Nothing is done that was not sent: with at most one fault of any kind between
\* two accepted packets, a packet that is acted on is one of the last two the
\* remote unit sent, and none is acted on twice, wherever in the stream the parser
\* took its start bytes from.  (A payload of no known type does get through when
\* the length is lost.)
OnlySentActedOn == ~forged

\* After a fault, packets get through again: the parser does not stay out of
\* step with a line that keeps delivering (Remote_RxByte has no timeout).
GetsThrough == fault ~> ~fault
================================================================================
