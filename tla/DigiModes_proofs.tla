---------------------------- MODULE DigiModes_proofs ---------------------------
(***************************************************************************)
(* The digital modes.                                                      *)
(*                                                                         *)
(* Text in PSK and RTTY, for every size of the buffer, every set of macros *)
(* and letters and any number of texts: waiting text is always that of the *)
(* modulator in charge, and what is being recorded is transmitted by none. *)
(*                                                                         *)
(* FreeDV, for rings and frames of every size: the samples go through the  *)
(* rings in order, each of them once, wherever the interrupt comes.        *)
(***************************************************************************)
EXTENDS DigiModes, SequenceTheorems, WellFoundedInduction, TLAPS

\* The UI has the buffer while it records, and no longer: a recording then knows to
\* whom it returns the buffer, which is the modulator of the present mode when that was
\* set with UiDriver_SetDemodMode.
ConsumerInv ==
    /\ recording <=> buffer.active = "UI"
    /\ buffer.prev # "UI"
    /\ told /\ mode \in TextMode => mode = IF recording THEN buffer.prev ELSE buffer.active

--------------------------------------------------------------------------------
(***************************************************************************)
(* The text buffer.                                                        *)
(***************************************************************************)

LEMMA Texts ==
    ASSUME NEW S, NEW s \in Seq(S)
    PROVE  /\ s # <<>> => Tail(s) \in Seq(S) /\ Len(Tail(s)) = Len(s) - 1 /\ Head(s) \in S
           /\ Len(s) \in Nat
           /\ \A n \in 0..Len(s) : SubSeq(s, 1, n) \in Seq(S) /\ Len(SubSeq(s, 1, n)) = n
           /\ \A n \in 0..Len(s) : SubSeq(s, n + 1, Len(s)) \in Seq(S)
                                 /\ Len(SubSeq(s, n + 1, Len(s))) = Len(s) - n
<1>1. \A n \in 0..Len(s) : SubSeq(s, 1, n) \in Seq(S) /\ Len(SubSeq(s, 1, n)) = n
    OBVIOUS
<1>2. \A n \in 0..Len(s) : SubSeq(s, n + 1, Len(s)) \in Seq(S)
                          /\ Len(SubSeq(s, n + 1, Len(s))) = Len(s) - n
    OBVIOUS
<1> QED
    BY <1>1, <1>2

LEMMA Joined ==
    ASSUME NEW S, NEW s \in Seq(S), NEW t \in Seq(S)
    PROVE  s \o t \in Seq(S) /\ Len(s \o t) = Len(s) + Len(t) /\ Len(t) \in Nat
OBVIOUS

LEMMA SeqRetyped ==
    ASSUME NEW S, NEW T, NEW s \in Seq(S), \A i \in DOMAIN s : s[i] \in T
    PROVE  s \in Seq(T)
OBVIOUS

\* The texts the macro buttons put in.
LEMMA MacroType ==
    ASSUME NEW text \in Macros
    PROVE  text \in Seq(Character) /\ Append(text, EOT) \in Seq(Character)
<1>1. text \in Seq(STRING) /\ \A i \in DOMAIN text : text[i] \in Character
    BY TextAssumption DEF Character
<1>2. EOT \in Character
    BY DEF Character
<1>3. text \in Seq(Character)
    BY <1>1, SeqRetyped, Zenon
<1> QED
    BY <1>2, <1>3, AppendProperties, Zenon

LEMMA EmptyType ==
    ASSUME NEW c \in Consumer \union {"none"}
    PROVE  EmptyBuffer(c) \in BufferOf(Character) /\ EmptyBuffer(c).active = c /\ EmptyBuffer(c).prev = "CW"
<1>1. <<>> \in Seq(Character) /\ Len(<<>>) = 0
    OBVIOUS
<1>2. 0 <= Room
    BY RoomAssumption
<1> QED
    BY <1>1, <1>2 DEF EmptyBuffer, BufferOf, Consumer

\* A part of what waits is left.
LEMMA WaitingReplaced ==
    ASSUME NEW b \in BufferOf(Character), NEW w \in Seq(Character), Len(w) <= Room
    PROVE  LET c == [b EXCEPT !.waiting = w]
           IN  c \in BufferOf(Character) /\ c.waiting = w /\ c.active = b.active /\ c.prev = b.prev
BY DEF BufferOf

LEMMA ResetType ==
    ASSUME NEW b \in BufferOf(Character)
    PROVE  /\ ResetBuffer(b) \in BufferOf(Character) /\ ResetBuffer(b).waiting = <<>>
           /\ ResetBuffer(b).active = b.active /\ ResetBuffer(b).prev = b.prev
<1>1. <<>> \in Seq(Character) /\ Len(<<>>) <= Room
    BY RoomAssumption
<1> QED
    BY <1>1, WaitingReplaced DEF ResetBuffer

LEMMA RemovedType ==
    ASSUME NEW b \in BufferOf(Character), HasData(b)
    PROVE  /\ Removed(b) \in BufferOf(Character) /\ Removed(b).active = b.active /\ Removed(b).prev = b.prev
           /\ Head(b.waiting) \in Character
<1>1. b.waiting \in Seq(Character) /\ Len(b.waiting) <= Room /\ b.waiting # <<>>
    BY DEF BufferOf, HasData
<1>2. /\ Tail(b.waiting) \in Seq(Character) /\ Head(b.waiting) \in Character
      /\ Len(Tail(b.waiting)) = Len(b.waiting) - 1 /\ Len(b.waiting) \in Nat
    BY <1>1, Texts, Zenon
<1>3. Len(Tail(b.waiting)) <= Room
    BY <1>1, <1>2, RoomAssumption
<1> QED
    BY <1>2, <1>3, WaitingReplaced DEF Removed

\* Putting a text in adds to what waits, or drops it; whose it is does not change.
LEMMA PutType ==
    ASSUME NEW b \in BufferOf(Character), NEW text \in Seq(Character), NEW source
    PROVE  /\ PutText(b, text, source) \in BufferOf(Character)
           /\ PutText(b, text, source).active = b.active /\ PutText(b, text, source).prev = b.prev
           /\ Len(PutText(b, text, source).waiting) >= Len(b.waiting)
<1> DEFINE all == b.waiting \o text
           w   == IF Len(all) > Room THEN SubSeq(all, 1, Room) ELSE all
<1>1. b.waiting \in Seq(Character) /\ Len(b.waiting) <= Room /\ Len(b.waiting) \in Nat
    BY DEF BufferOf
<1>2. all \in Seq(Character) /\ Len(all) = Len(b.waiting) + Len(text) /\ Len(text) \in Nat
    BY <1>1, Joined, Zenon
<1> HIDE DEF all
<1>3. w \in Seq(Character) /\ Len(w) <= Room /\ Len(w) >= Len(b.waiting)
    <2>1. Room \in Nat /\ Len(all) \in Nat /\ (Len(all) > Room => Room \in 0..Len(all))
        BY <1>1, <1>2, RoomAssumption
    <2>2. Len(all) > Room => SubSeq(all, 1, Room) \in Seq(Character) /\ Len(SubSeq(all, 1, Room)) = Room
        BY <1>2, <2>1, Texts, Zenon
    <2>3. IF Len(all) > Room THEN w = SubSeq(all, 1, Room) ELSE w = all
        OBVIOUS
    <2> HIDE DEF w
    <2>4. w \in Seq(Character) /\ Len(w) = IF Len(all) > Room THEN Room ELSE Len(all)
        BY <1>2, <2>2, <2>3
    <2> QED
        BY <1>1, <1>2, <2>1, <2>4
<1> HIDE DEF w
<1>4. CASE b.active = source
    BY <1>1, <1>4 DEF PutText
<1>5. CASE b.active # source
    <2>1. PutText(b, text, source) = [b EXCEPT !.waiting = w]
        BY <1>5 DEF PutText, w, all
    <2> QED
        BY <1>3, <2>1, WaitingReplaced
<1> QED
    BY <1>4, <1>5

LEMMA ConsumerType ==
    ASSUME NEW b \in BufferOf(Character), NEW c \in Consumer
    PROVE  /\ SetConsumer(b, c) \in BufferOf(Character) /\ SetConsumer(b, c).waiting = b.waiting
           /\ b.active = "UI" => SetConsumer(b, c).active = "UI" /\ SetConsumer(b, c).prev = c
           /\ b.active # "UI" => SetConsumer(b, c).active = c /\ SetConsumer(b, c).prev = b.active
           /\ RestoreConsumer(b) \in BufferOf(Character) /\ RestoreConsumer(b).waiting = b.waiting
           /\ RestoreConsumer(b).active = b.prev /\ RestoreConsumer(b).prev = b.prev
BY DEF SetConsumer, RestoreConsumer, BufferOf

--------------------------------------------------------------------------------
(***************************************************************************)
(* The types.                                                              *)
(***************************************************************************)

Psk == [state : {"OFF", "PREAMBLE", "ACTIVE", "POSTAMBLE", "INACTIVE"},
        bits : Nat, zeros : Nat, ones : 0..Rounds]

PskStates == {"OFF", "PREAMBLE", "ACTIVE", "POSTAMBLE", "INACTIVE"}

LEMMA PskReplaced ==
    ASSUME NEW p \in Psk
    PROVE  /\ \A s \in PskStates : [p EXCEPT !.state = s] \in Psk
           /\ \A b \in Nat : [p EXCEPT !.bits = b] \in Psk
BY DEF Psk, PskStates

LEMMA PskType ==
    ASSUME NEW p \in Psk, NEW c
    PROVE  /\ PrepareTx \in Psk /\ Zero(p) \in Psk /\ Taken(p, c) \in Psk
           /\ Postamble(p) \in Psk /\ Shifted(p) \in Psk
<1>0. Rounds \in Nat /\ OnesBits \in Nat /\ CharBits \in Nat /\ 0 \in 0..Rounds
    BY TextAssumption
<1>1. p.state \in PskStates /\ p.bits \in Nat /\ p.zeros \in Nat /\ p.ones \in 0..Rounds
    BY DEF Psk, PskStates
<1>2. {"ACTIVE", "POSTAMBLE", "INACTIVE"} \subseteq PskStates
    BY DEF PskStates
<1>3. PrepareTx \in Psk
    BY <1>0 DEF PrepareTx, Psk
<1>4. Zero(p) \in Psk
    <2> DEFINE z == p.zeros + 1
               s == IF p.state = "PREAMBLE" /\ p.zeros + 1 >= Preamble THEN "ACTIVE" ELSE p.state
    <2>1. z \in Nat /\ s \in PskStates
        BY <1>1, <1>2
    <2>2. Zero(p) = [p EXCEPT !.zeros = z, !.state = s]
        BY DEF Zero
    <2> HIDE DEF z, s
    <2> QED
        BY <2>1, <2>2 DEF Psk, PskStates
<1>5. Taken(p, c) \in Psk
    <2>1. CASE c = EOT
        BY <1>0, <1>1, <1>2, <2>1, PskReplaced DEF Taken
    <2>2. CASE c # EOT
        <3>1. Taken(p, c) = [p EXCEPT !.state = "ACTIVE", !.bits = CharBits, !.zeros = 0, !.ones = 0]
            BY <2>2 DEF Taken
        <3>2. "ACTIVE" \in PskStates /\ 0 \in Nat
            BY <1>2
        <3> QED
            BY <1>0, <3>1, <3>2 DEF Psk, PskStates
    <2> QED
        BY <2>1, <2>2
<1>6. Postamble(p) \in Psk
    <2>1. CASE p.state # "POSTAMBLE"
        BY <2>1 DEF Postamble
    <2>2. CASE p.state = "POSTAMBLE" /\ p.ones < Rounds
        <3>1. p.ones + 1 \in 0..Rounds
            BY <1>0, <1>1, <2>2
        <3>2. Postamble(p) = [p EXCEPT !.ones = p.ones + 1, !.bits = OnesBits]
            BY <2>2 DEF Postamble
        <3> QED
            BY <1>0, <3>1, <3>2 DEF Psk
    <2>3. CASE p.state = "POSTAMBLE" /\ ~(p.ones < Rounds)
        <3>1. Postamble(p) = [p EXCEPT !.state = "INACTIVE"]
            BY <2>3 DEF Postamble
        <3> QED
            BY <1>0, <1>1, <1>2, <3>1, PskReplaced
    <2> QED
        BY <2>1, <2>2, <2>3
<1>7. Shifted(p) \in Psk
    <2> DEFINE b == IF p.bits = 0 THEN 0 ELSE p.bits - 1
    <2>1. b \in Nat
        BY <1>1
    <2>2. Shifted(p) = [p EXCEPT !.bits = b]
        BY DEF Shifted
    <2> HIDE DEF b
    <2> QED
        BY <1>0, <1>1, <2>1, <2>2, PskReplaced
<1> QED
    BY <1>3, <1>4, <1>5, <1>6, <1>7

LEMMA LeastElement ==
    ASSUME NEW T, T \subseteq Nat, T # {}
    PROVE  \E x \in T : \A y \in T : x <= y
<1>1. PICK x \in T : \A y \in T : ~ (<<y, x>> \in OpToRel(<, Nat))
    BY NatLessThanWellFounded, WFMin
<1>2. \A y \in T : ~ (y < x)
    BY <1>1, Zenon DEF OpToRel
<1> QED
    BY <1>2

\* What the RTTY modulator takes is a part of what waits.
LEMMA RttyTakes ==
    ASSUME buffer \in BufferOf(Character), RttyChar
    PROVE  \E rest \in Seq(Character) :
               Len(rest) <= Room /\ buffer' = [buffer EXCEPT !.waiting = rest]
<1> DEFINE w     == buffer.waiting
           coded == {i \in DOMAIN w : w[i] \in Letters}
           n     == IF coded = {} THEN Len(w) ELSE CHOOSE i \in coded : \A j \in coded : i <= j
<1>1. w \in Seq(Character)
    BY DEF BufferOf
<1>2. DOMAIN w = 1..Len(w) /\ Len(w) \in Nat
    BY <1>1
<1>3. n \in 0..Len(w)
    <2>1. CASE coded = {}
        BY <1>2, <2>1
    <2>2. CASE coded # {}
        <3>1. coded \subseteq Nat /\ coded \subseteq 0..Len(w)
            BY <1>2
        <3>2. n = CHOOSE i \in coded : \A j \in coded : i <= j
            BY <2>2
        <3> HIDE DEF coded, n
        <3>3. \E i \in coded : \A j \in coded : i <= j
            BY <2>2, <3>1, LeastElement
        <3>4. n \in coded
            BY <3>2, <3>3
        <3> QED
            BY <3>1, <3>4
    <2> QED
        BY <2>1, <2>2
<1>4. buffer' = [buffer EXCEPT !.waiting = SubSeq(w, n + 1, Len(w))]
    BY DEF RttyChar
<1>5. w \in Seq(Character) /\ Len(w) <= Room
    BY DEF BufferOf
<1> HIDE DEF n, w
<1> DEFINE rest == SubSeq(w, n + 1, Len(w))
<1>6. rest \in Seq(Character) /\ Len(rest) = Len(w) - n
    BY <1>3, <1>5, Texts, Zenon
<1> HIDE DEF rest
<1>7. Len(rest) <= Room
    BY <1>2, <1>3, <1>5, <1>6, RoomAssumption
<1> QED
    BY <1>4, <1>6, <1>7 DEF w, rest

\* What each kind of step makes of the buffer.
LEMMA BufferStep ==
    ASSUME TypeOK, [Next]_vars
    PROVE  buffer' \in BufferOf(Character)
<1> USE DEF TypeOK
<1>1. CASE PskBitStart
    <2>1. buffer' = buffer \/ (HasData(buffer) /\ buffer' = Removed(buffer))
        BY <1>1 DEF PskBitStart, CanRemove
    <2> QED
        BY <2>1, RemovedType
<1>2. CASE RttyChar
    <2>1. PICK rest \in Seq(Character) :
              Len(rest) <= Room /\ buffer' = [buffer EXCEPT !.waiting = rest]
        BY <1>2, RttyTakes
    <2> QED
        BY <2>1, WaitingReplaced, Zenon
<1>3. ASSUME NEW c \in Letters, KeyerChar(c) PROVE buffer' \in BufferOf(Character)
    <2>1. c \in Character
        BY DEF Character
    <2>3. <<c>> \in Seq(Character)
        BY <2>1
    <2>2. buffer' = PutText(buffer, <<c>>, "CW")
        BY <1>3 DEF KeyerChar
    <2> QED
        BY <2>2, <2>3, PutType
<1>4. ASSUME NEW text \in Macros, PlayKeyerBtn(text) PROVE buffer' \in BufferOf(Character)
    <2>1. text \in Seq(Character) /\ Append(text, EOT) \in Seq(Character)
        BY MacroType
    <2>2. PICK t \in {text, Append(text, EOT)} : buffer' = PutText(buffer, t, "UI")
        BY <1>4 DEF PlayKeyerBtn
    <2>3. t \in Seq(Character)
        BY <2>1, <2>2
    <2> QED
        BY <2>2, <2>3, PutType, Zenon
<1>5. CASE RecordKeyerBtn
    <2>1. buffer' = ResetBuffer(SetConsumer(buffer, "UI")) /\ "UI" \in Consumer
        BY <1>5 DEF RecordKeyerBtn, Consumer
    <2>2. SetConsumer(buffer, "UI") \in BufferOf(Character)
        BY <2>1, ConsumerType
    <2> QED
        BY <2>1, <2>2, ResetType
<1>6. CASE StopRecording
    <2>1. buffer' = RestoreConsumer(ResetBuffer(buffer)) /\ "UI" \in Consumer
        BY <1>6 DEF StopRecording, Consumer
    <2>2. ResetBuffer(buffer) \in BufferOf(Character)
        BY ResetType
    <2> QED
        BY <2>1, <2>2, ConsumerType, Zenon
<1>7. ASSUME NEW m \in Mode, SetDemodMode(m) PROVE buffer' \in BufferOf(Character)
    <2>1. m \in TextMode => m \in Consumer
        BY DEF TextMode, Consumer
    <2> QED
        BY <1>7, <2>1, ConsumerType, ResetType DEF SetDemodMode
<1>8. CASE UNCHANGED buffer
    BY <1>8
<1>9. PskBitMiddle \/ PressLine \/ KeyerBreak \/ Handler \/ ToggleTxRx \/ UNCHANGED vars
          \/ (\E m \in Mode : SetDemodModeOnly(m))
          => UNCHANGED buffer
    BY DEF PskBitMiddle, PressLine, KeyerBreak, Handler, ServeTxOn, ServeTxOff, ClearRequest,
           ToggleTxRx, SetDemodModeOnly, vars
<1> QED
    BY <1>1, <1>2, <1>3, <1>4, <1>5, <1>6, <1>7, <1>8, <1>9
    DEF Next, Audio, Keyer, Operator

\* What a step may do to the PSK modulator.
LEMMA PskStep ==
    ASSUME TypeOK, [Next]_vars
    PROVE  psk' \in Psk
<1>0. psk \in Psk /\ \A s \in PskStates : [psk EXCEPT !.state = s] \in Psk
    BY PskReplaced DEF TypeOK, Psk
<1>1. CASE PskBitStart
    <2>1. \E p \in {psk, Postamble(Zero(psk)), Postamble(psk),
                    Postamble(Taken(psk, Head(buffer.waiting)))} : psk' = Shifted(p)
        <3> DEFINE spacing == psk.zeros < 2 \/ psk.state = "PREAMBLE"
                   takes   == psk.bits = 0 /\ ~spacing /\ CanRemove(buffer, "BPSK")
        <3>1. psk' = Shifted(CASE psk.bits > 0 -> psk
                               [] psk.bits = 0 /\ spacing -> Postamble(Zero(psk))
                               [] takes  -> Postamble(Taken(psk, Head(buffer.waiting)))
                               [] OTHER  -> Postamble(psk))
            BY <1>1 DEF PskBitStart
        <3>2. ~(psk.bits > 0 /\ psk.bits = 0)
            BY <1>0 DEF Psk
        <3> HIDE DEF spacing
        <3> QED
            BY <3>1, <3>2
    <2>2. {psk, Postamble(Zero(psk)), Postamble(psk),
           Postamble(Taken(psk, Head(buffer.waiting)))} \subseteq Psk
        BY <1>0, PskType
    <2> QED
        BY <2>1, <2>2, PskType
<1>2. CASE PskBitMiddle
    BY <1>0, <1>2 DEF PskBitMiddle, PskStates
<1>3. CASE ServeTxOn
    <2>1. psk' \in {psk, PrepareTx}
        BY <1>3 DEF ServeTxOn
    <2> QED
        BY <1>0, <2>1, PskType
<1>4. CASE ServeTxOff
    <2>1. psk' = psk \/ psk' = [psk EXCEPT !.state = "POSTAMBLE"]
        BY <1>4 DEF ServeTxOff
    <2> QED
        BY <1>0, <2>1 DEF PskStates
<1>5. CASE UNCHANGED psk
    BY <1>0, <1>5
<1>6. RttyChar \/ Keyer \/ ClearRequest \/ Operator \/ UNCHANGED vars => UNCHANGED psk
    BY DEF RttyChar, Keyer, PressLine, KeyerBreak, KeyerChar, ClearRequest, Operator, PlayKeyerBtn,
           RecordKeyerBtn, StopRecording, ToggleTxRx, SetDemodMode, SetDemodModeOnly, vars
<1> QED
    BY <1>1, <1>2, <1>3, <1>4, <1>5, <1>6 DEF Next, Audio, Handler

\* Modes, requests, the handler and the history.
RestType ==
    /\ mode \in Mode
    /\ ptt_req \in BOOLEAN /\ tx_stop_req \in BOOLEAN /\ recording \in BOOLEAN
    /\ keyed \in BOOLEAN /\ told \in BOOLEAN
    /\ trx \in {"RX", "TX"} /\ pc \in [at : {"idle", "served", "stopped"}, hit : BOOLEAN]
    /\ inputs \in 0..MaxInputs

LEMMA RestStep ==
    ASSUME RestType, [Next]_vars
    PROVE  RestType'
<1>0. MaxInputs \in Nat
    BY TextAssumption
<1> DEFINE Pc == [at : {"idle", "served", "stopped"}, hit : BOOLEAN]
<1>1. ModulatorStep => pc' \in Pc
    BY DEF ModulatorStep, RestType
<1>2. (inputs < MaxInputs /\ inputs' = inputs + 1) => inputs' \in 0..MaxInputs
    BY <1>0 DEF RestType
<1>3. CASE PskBitStart
    BY <1>1, <1>3 DEF PskBitStart, RestType
<1>4. CASE PskBitMiddle
    BY <1>1, <1>4 DEF PskBitMiddle, RequestTxOff, RestType
<1>5. CASE RttyChar
    <2>1. ptt_req' \in BOOLEAN /\ tx_stop_req' \in BOOLEAN
        BY <1>5 DEF RttyChar, RequestTxOff, RestType
    <2>2. ModulatorStep /\ UNCHANGED <<mode, trx, recording, keyed, inputs, told>>
        BY <1>5 DEF RttyChar
    <2> QED
        BY <1>1, <2>1, <2>2 DEF RestType
<1>6. CASE Keyer
    <2>1. ASSUME NEW c \in Letters, KeyerChar(c) PROVE RestType'
        BY <1>2, <2>1 DEF KeyerChar, RestType, radio
    <2>2. PressLine \/ KeyerBreak => RestType'
        BY DEF PressLine, KeyerBreak, RequestTxOn, RequestTxOff, RestType
    <2> QED
        BY <1>6, <2>1, <2>2 DEF Keyer
<1>7. CASE ServeTxOn
    BY <1>7 DEF ServeTxOn, RestType
<1>8. CASE ServeTxOff
    BY <1>8 DEF ServeTxOff, RestType
<1>9. CASE ClearRequest
    BY <1>9 DEF ClearRequest, RestType
<1>10. CASE Operator
    <2>1. ASSUME NEW text \in Macros, PlayKeyerBtn(text) PROVE RestType'
        BY <1>2, <2>1 DEF PlayKeyerBtn, RequestTxOn, RestType
    <2>2. RecordKeyerBtn \/ StopRecording => RestType'
        BY DEF RecordKeyerBtn, StopRecording, RestType, radio
    <2>3. ToggleTxRx => RestType'
        BY DEF ToggleTxRx, RequestTxOn, RequestTxOff, RestType
    <2>4. ASSUME NEW m \in Mode, SetDemodMode(m) \/ SetDemodModeOnly(m) PROVE RestType'
        BY <2>4 DEF SetDemodMode, SetDemodModeOnly, RestType, radio
    <2> QED
        BY <1>10, <2>1, <2>2, <2>3, <2>4 DEF Operator
<1>11. CASE UNCHANGED vars
    BY <1>11 DEF vars, radio, RestType
<1> QED
    BY <1>3, <1>4, <1>5, <1>6, <1>7, <1>8, <1>9, <1>10, <1>11 DEF Next, Audio, Handler

LEMMA TypeParts == TypeOK <=> buffer \in BufferOf(Character) /\ psk \in Psk /\ RestType
BY DEF TypeOK, Psk, RestType

LEMMA TypeInit == Init => TypeOK
<1> SUFFICES ASSUME Init PROVE TypeOK
    OBVIOUS
<1>1. buffer \in BufferOf(Character)
    BY EmptyType DEF Init, Mode, Consumer
<1>2. psk \in Psk
    BY TextAssumption DEF Init, Psk
<1>3. RestType
    <2>1. inputs \in 0..MaxInputs
        BY TextAssumption DEF Init
    <2>2. pc \in [at : {"idle", "served", "stopped"}, hit : BOOLEAN]
        BY DEF Init
    <2> QED
        BY <2>1, <2>2 DEF Init, RestType
<1> QED
    BY <1>1, <1>2, <1>3, TypeParts

LEMMA TypeStep == TypeOK /\ [Next]_vars => TypeOK'
<1> SUFFICES ASSUME TypeOK, [Next]_vars PROVE TypeOK'
    OBVIOUS
<1>1. buffer' \in BufferOf(Character) /\ psk' \in Psk /\ RestType'
    BY BufferStep, PskStep, RestStep, TypeParts
<1> QED
    BY <1>1 DEF TypeOK, Psk, RestType

\* Over any number of texts and mode changes the buffer never holds more than fits, and
\* a modulator's state is one of the code's.
THEOREM TypeCorrect == Spec => []TypeOK
BY TypeInit, TypeStep, PTL DEF Spec

--------------------------------------------------------------------------------
(***************************************************************************)
(* Whose text it is.                                                       *)
(***************************************************************************)

LEMMA ConsumerInit == Init => ConsumerInv
<1> SUFFICES ASSUME Init PROVE ConsumerInv
    OBVIOUS
<1>1. CASE mode = "USB"
    <2>1. buffer.active = "none" /\ buffer.prev = "CW"
        BY <1>1, EmptyType DEF Init
    <2> QED
        BY <1>1, <2>1 DEF Init, ConsumerInv, TextMode
<1>2. CASE mode # "USB"
    <2>1. mode \in {"BPSK", "RTTY"} /\ mode \in Consumer
        BY <1>2 DEF Init, Mode, Consumer
    <2>2. buffer.active = mode /\ buffer.prev = "CW"
        BY <1>2, <2>1, EmptyType DEF Init
    <2> QED
        BY <2>1, <2>2 DEF Init, ConsumerInv
<1> QED
    BY <1>1, <1>2

\* Taking characters out and putting them in leaves the consumer alone.
LEMMA ConsumerKept ==
    ASSUME ConsumerInv, buffer'.active = buffer.active, buffer'.prev = buffer.prev,
           UNCHANGED <<recording, mode, told>>
    PROVE  ConsumerInv'
BY DEF ConsumerInv

\* The steps that only take out, or only put in.
LEMMA TextMoves ==
    ASSUME TypeOK, Audio \/ (\E c \in Letters : KeyerChar(c)) \/ (\E text \in Macros : PlayKeyerBtn(text))
    PROVE  /\ buffer'.active = buffer.active /\ buffer'.prev = buffer.prev
           /\ UNCHANGED <<recording, mode, told>>
           /\ buffer.active = "UI" => Len(buffer'.waiting) >= Len(buffer.waiting)
<1>0. buffer \in BufferOf(Character) /\ Len(buffer.waiting) \in Nat
    BY DEF TypeOK, BufferOf
<1>1. CASE PskBitStart
    <2>1. /\ buffer' = buffer \/ (CanRemove(buffer, "BPSK") /\ buffer' = Removed(buffer))
          /\ UNCHANGED <<recording, mode, told>>
        BY <1>1 DEF PskBitStart
    <2> QED
        BY <1>0, <2>1, RemovedType DEF CanRemove
<1>2. CASE PskBitMiddle
    BY <1>0, <1>2 DEF PskBitMiddle
<1>3. CASE RttyChar
    <2>1. buffer.active = "RTTY" /\ UNCHANGED <<recording, mode, told>>
        BY <1>3 DEF RttyChar, CanRemove
    <2>2. PICK rest \in Seq(Character) :
              Len(rest) <= Room /\ buffer' = [buffer EXCEPT !.waiting = rest]
        BY <1>0, <1>3, RttyTakes
    <2> QED
        BY <1>0, <2>1, <2>2 DEF BufferOf
<1>4. ASSUME NEW c \in Letters, KeyerChar(c)
      PROVE  /\ buffer'.active = buffer.active /\ buffer'.prev = buffer.prev
             /\ UNCHANGED <<recording, mode, told>>
             /\ Len(buffer'.waiting) >= Len(buffer.waiting)
    <2>1. c \in Character
        BY DEF Character
    <2>2. <<c>> \in Seq(Character)
        BY <2>1
    <2>3. buffer' = PutText(buffer, <<c>>, "CW") /\ UNCHANGED <<recording, mode, told>>
        BY <1>4 DEF KeyerChar
    <2> QED
        BY <1>0, <2>2, <2>3, PutType
<1>5. ASSUME NEW text \in Macros, PlayKeyerBtn(text)
      PROVE  /\ buffer'.active = buffer.active /\ buffer'.prev = buffer.prev
             /\ UNCHANGED <<recording, mode, told>>
             /\ Len(buffer'.waiting) >= Len(buffer.waiting)
    <2>1. text \in Seq(Character) /\ Append(text, EOT) \in Seq(Character)
        BY MacroType
    <2>2. PICK t \in {text, Append(text, EOT)} : buffer' = PutText(buffer, t, "UI")
        BY <1>5 DEF PlayKeyerBtn
    <2>3. t \in Seq(Character) /\ UNCHANGED <<recording, mode, told>>
        BY <1>5, <2>1, <2>2 DEF PlayKeyerBtn
    <2> QED
        BY <1>0, <2>2, <2>3, PutType
<1> QED
    BY <1>1, <1>2, <1>3, <1>4, <1>5 DEF Audio

LEMMA ConsumerStep == TypeOK /\ ConsumerInv /\ [Next]_vars => ConsumerInv'
<1> SUFFICES ASSUME TypeOK, ConsumerInv, [Next]_vars PROVE ConsumerInv'
    OBVIOUS
<1>0. buffer \in BufferOf(Character) /\ "UI" \in Consumer /\ TextMode \subseteq Consumer
      /\ recording \in BOOLEAN /\ "UI" \notin TextMode
    BY DEF TypeOK, Consumer, TextMode
<1>1. CASE Audio \/ (\E c \in Letters : KeyerChar(c)) \/ (\E text \in Macros : PlayKeyerBtn(text))
    BY <1>1, TextMoves, ConsumerKept
<1>2. CASE RecordKeyerBtn
    <2> DEFINE b == SetConsumer(buffer, "UI")
    <2>1. ~recording /\ recording' = TRUE /\ UNCHANGED <<mode, told>> /\ buffer' = ResetBuffer(b)
        BY <1>2 DEF RecordKeyerBtn
    <2>2. buffer.active # "UI"
        BY <2>1 DEF ConsumerInv
    <2>3. b \in BufferOf(Character) /\ b.active = "UI" /\ b.prev = buffer.active
        BY <1>0, <2>2, ConsumerType
    <2> HIDE DEF b
    <2>4. buffer'.active = "UI" /\ buffer'.prev = buffer.active
        BY <2>1, <2>3, ResetType
    <2> QED
        BY <2>1, <2>2, <2>4 DEF ConsumerInv
<1>3. CASE StopRecording
    <2> DEFINE b == ResetBuffer(buffer)
    <2>1. recording /\ recording' = FALSE /\ UNCHANGED <<mode, told>> /\ buffer' = RestoreConsumer(b)
        BY <1>3 DEF StopRecording
    <2>2. b \in BufferOf(Character) /\ b.prev = buffer.prev
        BY <1>0, ResetType
    <2> HIDE DEF b
    <2>3. buffer'.active = buffer.prev /\ buffer'.prev = buffer.prev
        BY <1>0, <2>1, <2>2, ConsumerType
    <2> QED
        BY <2>1, <2>3 DEF ConsumerInv
<1>4. ASSUME NEW m \in Mode, SetDemodMode(m) PROVE ConsumerInv'
    <2> DEFINE b == ResetBuffer(buffer)
    <2>1. mode' = m /\ told' = TRUE /\ recording' = recording
          /\ buffer' = IF m \in TextMode THEN SetConsumer(b, m) ELSE b
        BY <1>4 DEF SetDemodMode
    <2>2. b \in BufferOf(Character) /\ b.active = buffer.active /\ b.prev = buffer.prev
        BY <1>0, ResetType
    <2> HIDE DEF b
    <2>3. CASE m \in TextMode
        <3>1. m \in Consumer /\ m # "UI"
            BY <1>0, <2>3
        <3>2. /\ b.active = "UI" => buffer'.active = "UI" /\ buffer'.prev = m
              /\ b.active # "UI" => buffer'.active = m /\ buffer'.prev = b.active
            BY <2>1, <2>2, <2>3, <3>1, ConsumerType
        <3> QED
            BY <1>0, <2>1, <2>2, <3>1, <3>2 DEF ConsumerInv
    <2>4. CASE m \notin TextMode
        BY <2>1, <2>2, <2>4 DEF ConsumerInv
    <2> QED
        BY <2>3, <2>4
<1>5. ASSUME NEW m \in Mode, SetDemodModeOnly(m) PROVE ConsumerInv'
    BY <1>5 DEF SetDemodModeOnly, ConsumerInv
<1>6. CASE UNCHANGED <<buffer, recording, mode, told>>
    BY <1>6, ConsumerKept
<1>7. PressLine \/ KeyerBreak \/ Handler \/ ToggleTxRx \/ UNCHANGED vars
          => UNCHANGED <<buffer, recording, mode, told>>
    BY DEF PressLine, KeyerBreak, Handler, ServeTxOn, ServeTxOff, ClearRequest, ToggleTxRx, vars
<1> QED
    BY <1>1, <1>2, <1>3, <1>4, <1>5, <1>6, <1>7 DEF Next, Keyer, Operator

\* "The allowed consumer for buffer should be set before using it"
\* (uhsdr_digi_buffer.h:37): for every size of the buffer and any number of texts,
\* recordings and changes of the mode that tell the buffer.
THEOREM TextHasItsConsumer == Spec => []ConsumerSet
<1>1. TypeOK /\ ConsumerInv /\ [Next]_vars => TypeOK' /\ ConsumerInv'
    BY TypeStep, ConsumerStep
<1>2. ConsumerInv => ConsumerSet
    BY DEF ConsumerInv, ConsumerSet
<1> QED
    BY <1>1, <1>2, TypeInit, ConsumerInit, PTL DEF Spec

\* A step leaves what is recorded where it is.
LEMMA RecordingStep ==
    TypeOK /\ ConsumerInv /\ [Next]_vars
        => [recording /\ recording' /\ mode' = mode
                => Len(buffer'.waiting) >= Len(buffer.waiting)]_vars
<1> SUFFICES ASSUME TypeOK, ConsumerInv, [Next]_vars, recording, recording', mode' = mode
             PROVE  Len(buffer'.waiting) >= Len(buffer.waiting)
    OBVIOUS
<1>1. buffer.active = "UI" /\ Len(buffer.waiting) \in Nat
    BY DEF ConsumerInv, TypeOK, BufferOf
<1>2. ~RecordKeyerBtn /\ ~StopRecording
      /\ ~(\E m \in Mode : SetDemodMode(m) \/ SetDemodModeOnly(m))
    BY DEF RecordKeyerBtn, StopRecording, SetDemodMode, SetDemodModeOnly
<1>3. CASE Audio \/ (\E c \in Letters : KeyerChar(c)) \/ (\E text \in Macros : PlayKeyerBtn(text))
    BY <1>1, <1>3, TextMoves
<1>4. CASE UNCHANGED buffer
    BY <1>1, <1>4
<1>5. PressLine \/ KeyerBreak \/ Handler \/ ToggleTxRx \/ UNCHANGED vars => UNCHANGED buffer
    BY DEF PressLine, KeyerBreak, Handler, ServeTxOn, ServeTxOff, ClearRequest, ToggleTxRx, vars
<1> QED
    BY <1>2, <1>3, <1>4, <1>5 DEF Next, Keyer, Operator

\* What is recorded is there at the end of the recording: no modulator, and nothing that
\* is put in, takes a character of it, unless the mode is changed.
THEOREM RecordingIsNotSent == Spec => RecordingKept
<1>1. TypeOK /\ ConsumerInv /\ [Next]_vars => TypeOK' /\ ConsumerInv'
    BY TypeStep, ConsumerStep
<1> QED
    BY <1>1, RecordingStep, TypeInit, ConsumerInit, PTL DEF Spec, RecordingKept

--------------------------------------------------------------------------------
(***************************************************************************)
(* FreeDV: the ring buffer.                                                *)
(***************************************************************************)

LEMMA Remainders == \A a \in Nat, b \in Nat \ {0} : a % b \in 0..b-1
OBVIOUS

LEMMA Wraps ==
    \A size \in Nat \ {0}, n \in Nat : /\ n < size => n % size = n
                                       /\ ~(n < size) /\ n < 2 * size => n % size = n - size
OBVIOUS

\* How far ahead an index is, without a remainder.
LEMMA AheadIs ==
    ASSUME NEW size \in Nat \ {0}, NEW i \in 0..size-1, NEW j \in 0..size-1
    PROVE  Ahead(i, j, size) = (IF j <= i THEN i - j ELSE i + size - j) /\ Ahead(i, j, size) \in 0..size-1
<1>0. i \in Nat /\ j \in Nat /\ i < size /\ j < size
    OBVIOUS
<1>1. i + size - j \in Nat /\ i + size - j < 2 * size
    BY <1>0
<1> DEFINE n == i + size - j
<1> HIDE DEF n
<1>2. n % size = IF n < size THEN n ELSE n - size
    BY <1>1, Wraps DEF n
<1>3. (n < size <=> i < j) /\ n - size = i - j
    BY <1>0 DEF n
<1>4. Ahead(i, j, size) = n % size
    BY DEF Ahead, n
<1>5. n \in Nat
    BY <1>1 DEF n
<1>6. CASE i < j
    <2>1. n % size = n /\ n < size
        BY <1>2, <1>3, <1>6
    <2> QED
        BY <2>1, <1>0, <1>4, <1>5, <1>6 DEF n
<1>7. CASE ~(i < j)
    <2>1. n % size = i - j
        BY <1>2, <1>3, <1>7
    <2>2. i - j \in 0..size-1 /\ j <= i
        BY <1>0, <1>7
    <2> QED
        BY <2>1, <2>2, <1>4
<1> QED
    BY <1>6, <1>7

LEMMA AdvanceTailFields ==
    ASSUME NEW size \in Nat \ {0}, NEW r \in RingOf(size), NEW len \in Nat
    PROVE  LET a == AdvanceTail(r, len)
           IN  /\ a \in RingOf(size) /\ a.tail = (r.tail + len) % size /\ a.got = r.got + len
               /\ a.head = r.head /\ a.put = r.put /\ a.mem = r.mem
<1>1. r.size = size /\ r.tail \in Nat /\ r.got \in Nat
    BY DEF RingOf
<1>2. (r.tail + len) % size \in 0..size-1
    <2>1. r.tail + len \in Nat
        BY <1>1
    <2> QED
        BY <2>1, Remainders, Zenon
<1> DEFINE t == (r.tail + len) % size  g == r.got + len
<1>3. t \in 0..size-1 /\ g \in Nat
    BY <1>1, <1>2
<1>4. AdvanceTail(r, len) = [r EXCEPT !.tail = t, !.got = g]
    BY <1>1 DEF AdvanceTail
<1> HIDE DEF t, g
<1>5. LET a == AdvanceTail(r, len)
      IN  /\ a \in RingOf(size) /\ a.tail = t /\ a.got = g
           /\ a.head = r.head /\ a.put = r.put /\ a.mem = r.mem
    BY <1>3, <1>4 DEF RingOf
<1> QED
    BY <1>5 DEF t, g

LEMMA AdvanceHeadFields ==
    ASSUME NEW size \in Nat \ {0}, NEW r \in RingOf(size), NEW len \in Nat
    PROVE  LET b == AdvanceHead(r, len)
           IN  /\ b \in RingOf(size) /\ b.head = (r.head + len) % size /\ b.put = r.put + len
               /\ b.tail = r.tail /\ b.got = r.got /\ b.mem = r.mem
<1>1. r.size = size /\ r.head \in Nat /\ r.put \in Nat
    BY DEF RingOf
<1>2. (r.head + len) % size \in 0..size-1
    <2>1. r.head + len \in Nat
        BY <1>1
    <2> QED
        BY <2>1, Remainders, Zenon
<1> DEFINE h == (r.head + len) % size  p == r.put + len
<1>3. h \in 0..size-1 /\ p \in Nat
    BY <1>1, <1>2
<1>4. AdvanceHead(r, len) = [r EXCEPT !.head = h, !.put = p]
    BY <1>1 DEF AdvanceHead
<1> HIDE DEF h, p
<1>5. LET b == AdvanceHead(r, len)
      IN  /\ b \in RingOf(size) /\ b.head = h /\ b.put = p
           /\ b.tail = r.tail /\ b.got = r.got /\ b.mem = r.mem
    BY <1>3, <1>4 DEF RingOf
<1> QED
    BY <1>5 DEF h, p

LEMMA CopiedFields ==
    ASSUME NEW size \in Nat \ {0}, NEW r \in RingOf(size), NEW len \in Nat
    PROVE  LET c == Copied(r, len)
           IN  /\ c \in RingOf(size) /\ c.tail = r.tail /\ c.got = r.got
               /\ c.head = r.head /\ c.put = r.put
               /\ \A i \in 0..size-1 : c.mem[i] = IF Ahead(i, r.head, size) < len
                                                  THEN r.put + 1 + Ahead(i, r.head, size)
                                                  ELSE r.mem[i]
<1>1. r.size = size /\ DOMAIN r.mem = 0..size-1 /\ r.head \in 0..size-1 /\ r.put \in Nat
      /\ r.mem \in [0..size-1 -> Nat]
    BY DEF RingOf
<1>2. \A i \in 0..size-1 : Ahead(i, r.head, size) \in Nat
    <2>1. \A i \in 0..size-1 : Ahead(i, r.head, size) \in 0..size-1
        BY <1>1, AheadIs, Zenon
    <2> QED
        BY <2>1
<1> DEFINE mem == [c \in 0..size-1 |-> IF Ahead(c, r.head, size) < len THEN r.put + 1 + Ahead(c, r.head, size)
                                              ELSE r.mem[c]]
<1>3. mem \in [0..size-1 -> Nat]
    BY <1>1, <1>2
<1>4. Copied(r, len) = [r EXCEPT !.mem = mem]
    BY <1>1 DEF Copied, Cells
<1> HIDE DEF mem
<1>5. /\ Copied(r, len) \in RingOf(size) /\ Copied(r, len).tail = r.tail /\ Copied(r, len).got = r.got
      /\ Copied(r, len).head = r.head /\ Copied(r, len).put = r.put /\ Copied(r, len).mem = mem
    BY <1>1, <1>3, <1>4 DEF RingOf
<1>6. \A i \in 0..size-1 : mem[i] = IF Ahead(i, r.head, size) < len
                                    THEN r.put + 1 + Ahead(i, r.head, size) ELSE r.mem[i]
    BY DEF mem
<1> QED
    BY <1>5, <1>6

\* A ring is in order: what waits in it are the samples after the last one taken, up to
\* the last one put in.
Good(r) == Due(r, GetData(r)) /\ r.put = r.got + GetData(r)

\* The next len samples have been copied.
Placed(r, len) == \A c \in Cells(r, len) : r.mem[c] = r.put + 1 + Ahead(c, r.head, r.size)

LEMMA RingFields ==
    ASSUME NEW size \in Nat \ {0}, NEW r \in RingOf(size)
    PROVE  /\ r.size = size /\ r.tail \in 0..size-1 /\ r.head \in 0..size-1
           /\ r.mem \in [0..size-1 -> Nat] /\ DOMAIN r.mem = 0..size-1 /\ r.put \in Nat /\ r.got \in Nat
BY DEF RingOf

LEMMA Counts ==
    ASSUME NEW size \in Nat \ {0}, NEW r \in RingOf(size)
    PROVE  /\ GetData(r) = Ahead(r.head, r.tail, size)
           /\ GetData(r) \in 0..size-1 /\ GetRoom(r) = size - GetData(r) /\ GetRoom(r) \in 1..size
<1>1. r.size = size /\ r.tail \in 0..size-1 /\ r.head \in 0..size-1
    BY RingFields
<1>2. /\ Ahead(r.head, r.tail, size) = (IF r.tail <= r.head THEN r.head - r.tail ELSE r.head + size - r.tail)
      /\ Ahead(r.head, r.tail, size) \in 0..size-1
    BY <1>1, AheadIs
<1>3. /\ Ahead(r.tail, r.head, size) = (IF r.head <= r.tail THEN r.tail - r.head ELSE r.tail + size - r.head)
    BY <1>1, AheadIs
<1>4. GetData(r) = Ahead(r.head, r.tail, size)
    BY <1>1 DEF GetData
<1>5. GetRoom(r) = IF Ahead(r.tail, r.head, size) = 0 THEN size ELSE Ahead(r.tail, r.head, size)
    BY <1>1 DEF GetRoom
<1> QED
    BY <1>1, <1>2, <1>3, <1>4, <1>5

\* The index t is len cells on from j.
Onwards(t, j, len, size) == t = (IF j + len < size THEN j + len ELSE j + len - size) /\ t \in 0..size-1

LEMMA Wrapped ==
    ASSUME NEW size \in Nat \ {0}, NEW j \in 0..size-1, NEW len \in 0..size-1
    PROVE  Onwards((j + len) % size, j, len, size)
<1> DEFINE n == j + len
<1>1. n \in Nat /\ n < 2 * size /\ n = j + len
    OBVIOUS
<1> HIDE DEF n
<1> DEFINE t == n % size
<1>3. t = IF n < size THEN n ELSE n - size
    BY <1>1, Wraps
<1> HIDE DEF t
<1>4. Onwards(t, j, len, size)
    BY <1>1, <1>3 DEF Onwards
<1> QED
    BY <1>4 DEF n, t

\* Moving an index: how far ahead of it the cells are.
LEMMA Moved ==
    ASSUME NEW size \in Nat \ {0}, NEW i \in 0..size-1, NEW j \in 0..size-1, NEW len \in 0..size-1,
           NEW t, Onwards(t, j, len, size)
    PROVE  Ahead(i, t, size) =
                IF Ahead(i, j, size) >= len THEN Ahead(i, j, size) - len
                                            ELSE Ahead(i, j, size) - len + size
<1>2. t \in 0..size-1 /\ t = IF j + len < size THEN j + len ELSE j + len - size
    BY DEF Onwards
<1>3. Ahead(i, t, size) = IF t <= i THEN i - t ELSE i + size - t
    BY <1>2, AheadIs
<1>4. Ahead(i, j, size) = IF j <= i THEN i - j ELSE i + size - j
    BY AheadIs
<1> QED
    BY <1>2, <1>3, <1>4

\* Samples that are taken were due, and what is left is in order.
LEMMA TakingKeeps ==
    ASSUME NEW size \in Nat \ {0}, NEW r \in RingOf(size), NEW len \in Nat, len <= GetData(r)
    PROVE  /\ GetData(AdvanceTail(r, len)) = GetData(r) - len
           /\ Good(r) => Due(r, len) /\ Good(AdvanceTail(r, len))
<1> DEFINE a == AdvanceTail(r, len)
<1>0. /\ a \in RingOf(size) /\ a.tail = (r.tail + len) % size /\ a.got = r.got + len
      /\ a.head = r.head /\ a.put = r.put /\ a.mem = r.mem
    BY AdvanceTailFields
<1>1. /\ r.tail \in 0..size-1 /\ r.head \in 0..size-1 /\ r.size = size
      /\ DOMAIN r.mem = 0..size-1 /\ r.got \in Nat /\ r.put \in Nat
    BY RingFields
<1>2. a.size = size /\ DOMAIN a.mem = 0..size-1
    BY <1>0, RingFields
<1>3. GetData(r) = Ahead(r.head, r.tail, size) /\ GetData(r) \in 0..size-1 /\ len \in 0..size-1
    <2>1. GetData(r) = Ahead(r.head, r.tail, size) /\ GetData(r) \in 0..size-1
        BY Counts
    <2> QED
        BY <2>1
<1>4. GetData(a) = Ahead(a.head, a.tail, size)
    BY <1>0, Counts
<1> HIDE DEF a
<1>5. ASSUME NEW i \in 0..size-1
      PROVE  Ahead(i, a.tail, size) =
              IF Ahead(i, r.tail, size) >= len THEN Ahead(i, r.tail, size) - len
                                               ELSE Ahead(i, r.tail, size) - len + size
    <2>1. Onwards(a.tail, r.tail, len, size)
        BY <1>0, <1>1, <1>3, Wrapped, Zenon
    <2> QED
        BY <2>1, <1>1, <1>3, Moved
<1>6. GetData(a) = GetData(r) - len
    <2>1. Ahead(r.head, a.tail, size) = Ahead(r.head, r.tail, size) - len
        BY <1>1, <1>3, <1>5
    <2> QED
        BY <2>1, <1>0, <1>3, <1>4
<1>7. ASSUME Good(r) PROVE Due(r, len) /\ Good(a)
    <2>1. \A i \in 0..size-1 : Ahead(i, r.tail, size) \in 0..size-1
        BY <1>1, AheadIs
    <2>2. \A i \in 0..size-1 : Ahead(i, r.tail, size) < GetData(r)
                => r.mem[i] = r.got + 1 + Ahead(i, r.tail, size)
        BY <1>7, <1>1 DEF Good, Due
    <2>3. Due(r, len)
        <3>1. \A i \in 0..size-1 : Ahead(i, r.tail, size) < len => Ahead(i, r.tail, size) < GetData(r)
            BY <2>1, <1>3
        <3> QED
            BY <3>1, <2>2, <1>1 DEF Due
    <2>4. ASSUME NEW i \in 0..size-1, Ahead(i, a.tail, size) < GetData(r) - len
          PROVE  r.mem[i] = r.got + len + 1 + Ahead(i, a.tail, size)
        <3>1. Ahead(i, r.tail, size) >= len
            BY <1>5, <2>1, <2>4, <1>3
        <3>2. Ahead(i, a.tail, size) = Ahead(i, r.tail, size) - len
            BY <3>1, <1>5
        <3>3. Ahead(i, r.tail, size) < GetData(r)
            BY <3>2, <2>4, <2>1, <1>3
        <3>4. r.mem[i] = r.got + 1 + Ahead(i, r.tail, size)
            BY <3>3, <2>2
        <3>5. Ahead(i, r.tail, size) \in Nat
            BY <2>1
        <3> DEFINE d == Ahead(i, r.tail, size)
        <3> HIDE DEF d
        <3>6. r.got + 1 + d = r.got + len + 1 + (d - len)
            BY <1>1, <3>5 DEF d
        <3> QED
            BY <3>2, <3>4, <3>6 DEF d
    <2>5. Due(a, GetData(a))
        BY <2>4, <1>0, <1>1, <1>2, <1>6 DEF Due
    <2>6. a.put = a.got + GetData(a)
        <3>1. r.put = r.got + GetData(r)
            BY <1>7 DEF Good
        <3> QED
            BY <3>1, <1>0, <1>1, <1>3, <1>6
    <2> QED
        BY <2>3, <2>5, <2>6 DEF Good
<1> QED
    BY <1>6, <1>7 DEF a

\* Copying leaves what waits alone, while there is room.
LEMMA CopyingKeeps ==
    ASSUME NEW size \in Nat \ {0}, NEW r \in RingOf(size), NEW len \in Nat, len < GetRoom(r)
    PROVE  /\ Placed(Copied(r, len), len) /\ GetRoom(Copied(r, len)) = GetRoom(r)
           /\ GetData(Copied(r, len)) = GetData(r)
           /\ Good(r) => Good(Copied(r, len))
<1> DEFINE c == Copied(r, len)
<1>0. /\ c \in RingOf(size) /\ c.tail = r.tail /\ c.got = r.got
      /\ c.head = r.head /\ c.put = r.put
      /\ \A i \in 0..size-1 : c.mem[i] = IF Ahead(i, r.head, size) < len
                                         THEN r.put + 1 + Ahead(i, r.head, size)
                                         ELSE r.mem[i]
    BY CopiedFields
<1>1. /\ r.tail \in 0..size-1 /\ r.head \in 0..size-1 /\ r.size = size
      /\ DOMAIN r.mem = 0..size-1
    BY RingFields
<1>2. c.size = size /\ DOMAIN c.mem = 0..size-1
    BY <1>0, RingFields
<1>3. GetRoom(r) = size - GetData(r) /\ GetData(r) = Ahead(r.head, r.tail, size) /\ GetData(r) \in 0..size-1
    BY Counts
<1> HIDE DEF c
<1>4. GetData(c) = GetData(r) /\ GetRoom(c) = GetRoom(r)
    BY <1>0, <1>1, <1>2 DEF GetData, GetRoom
<1>5. Placed(c, len)
    BY <1>0, <1>1, <1>2 DEF Placed, Cells
<1>6. ASSUME NEW i \in 0..size-1, Ahead(i, r.tail, size) < GetData(r)
      PROVE  ~(Ahead(i, r.head, size) < len)
    <2>1. Ahead(i, r.head, size) = IF r.head <= i THEN i - r.head ELSE i + size - r.head
        BY <1>1, AheadIs
    <2>2. Ahead(i, r.tail, size) = IF r.tail <= i THEN i - r.tail ELSE i + size - r.tail
        BY <1>1, AheadIs
    <2>3. GetData(r) = IF r.tail <= r.head THEN r.head - r.tail ELSE r.head + size - r.tail
        BY <1>1, <1>3, AheadIs
    <2>4. len < size - GetData(r)
        BY <1>3
    <2> QED
        BY <2>1, <2>2, <2>3, <2>4, <1>1, <1>6
<1>7. Good(r) => Good(c)
    <2>1. SUFFICES ASSUME Good(r) PROVE Due(c, GetData(c))
        BY <1>0, <1>4 DEF Good
    <2>2. \A i \in 0..size-1 : Ahead(i, r.tail, size) < GetData(r) => c.mem[i] = r.mem[i]
        BY <1>0, <1>6
    <2> QED
        BY <2>1, <2>2, <1>0, <1>1, <1>2, <1>4 DEF Good, Due
<1> QED
    BY <1>4, <1>5, <1>7 DEF c

\* The store of the index makes what was copied the last of what waits.
LEMMA StoringKeeps ==
    ASSUME NEW size \in Nat \ {0}, NEW r \in RingOf(size), NEW len \in Nat, len < GetRoom(r)
    PROVE  /\ GetData(AdvanceHead(r, len)) = GetData(r) + len
           /\ Good(r) /\ Placed(r, len) => Good(AdvanceHead(r, len))
<1> DEFINE b == AdvanceHead(r, len)
<1>0. /\ b \in RingOf(size) /\ b.head = (r.head + len) % size /\ b.put = r.put + len
      /\ b.tail = r.tail /\ b.got = r.got /\ b.mem = r.mem
    BY AdvanceHeadFields
<1>1. /\ r.tail \in 0..size-1 /\ r.head \in 0..size-1 /\ r.size = size
      /\ DOMAIN r.mem = 0..size-1 /\ r.put \in Nat /\ r.got \in Nat
    BY RingFields
<1>2. b.size = size /\ DOMAIN b.mem = 0..size-1 /\ b.head \in 0..size-1
    BY <1>0, RingFields
<1>3. /\ GetData(r) = Ahead(r.head, r.tail, size) /\ GetData(r) \in 0..size-1
      /\ len < size - GetData(r)
    <2>1. /\ GetData(r) = Ahead(r.head, r.tail, size) /\ GetData(r) \in 0..size-1
          /\ GetRoom(r) = size - GetData(r)
        BY Counts
    <2> QED
        BY <2>1
<1>4. b.head = IF r.head + len < size THEN r.head + len ELSE r.head + len - size
    <2>1. len \in 0..size-1
        BY <1>3
    <2>2. Onwards(b.head, r.head, len, size)
        BY <2>1, <1>0, <1>1, Wrapped, Zenon
    <2> QED
        BY <2>2 DEF Onwards
<1>5. GetData(b) = Ahead(b.head, b.tail, size)
    BY <1>0, Counts
<1> HIDE DEF b
<1>6. GetData(r) = IF r.tail <= r.head THEN r.head - r.tail ELSE r.head + size - r.tail
    BY <1>1, <1>3, AheadIs
<1>7. GetData(b) = GetData(r) + len
    <2>1. Ahead(b.head, r.tail, size) = IF r.tail <= b.head THEN b.head - r.tail ELSE b.head + size - r.tail
        BY <1>1, <1>2, AheadIs
    <2>2. GetData(b) = Ahead(b.head, r.tail, size)
        BY <1>0, <1>5
    <2>3. /\ b.head \in Nat /\ b.head < size /\ r.tail \in Nat /\ r.head \in Nat
          /\ r.tail < size /\ r.head < size
        BY <1>1, <1>2
    <2>4. GetData(r) = Ahead(r.head, r.tail, size)
        BY <1>3
    <2> DEFINE h == b.head  d == GetData(r)
    <2>5. /\ h \in Nat /\ d = (IF r.tail <= r.head THEN r.head - r.tail ELSE r.head + size - r.tail)
          /\ h = (IF r.head + len < size THEN r.head + len ELSE r.head + len - size)
          /\ len < size - d /\ d \in Nat
        BY <1>3, <1>4, <1>6, <2>3
    <2> HIDE DEF h, d
    <2>6. (IF r.tail <= h THEN h - r.tail ELSE h + size - r.tail) = d + len
        BY <2>3, <2>5
    <2> QED
        BY <2>1, <2>2, <2>6 DEF h, d
<1>8. ASSUME Good(r), Placed(r, len), NEW i \in 0..size-1, Ahead(i, r.tail, size) < GetData(r) + len
      PROVE  r.mem[i] = r.got + 1 + Ahead(i, r.tail, size)
    <2>1. Ahead(i, r.head, size) = IF r.head <= i THEN i - r.head ELSE i + size - r.head
        BY <1>1, AheadIs
    <2>2. Ahead(i, r.tail, size) = IF r.tail <= i THEN i - r.tail ELSE i + size - r.tail
        BY <1>1, AheadIs
    <2>3. CASE Ahead(i, r.tail, size) < GetData(r)
        BY <2>3, <1>1, <1>8 DEF Good, Due
    <2>4. CASE ~(Ahead(i, r.tail, size) < GetData(r))
        <3>1. Ahead(i, r.head, size) = Ahead(i, r.tail, size) - GetData(r)
            BY <2>1, <2>2, <2>4, <1>1, <1>3, <1>6
        <3>2. Ahead(i, r.head, size) < len
            BY <3>1, <2>2, <1>1, <1>3, <1>8
        <3>3. r.mem[i] = r.put + 1 + Ahead(i, r.head, size)
            BY <3>2, <1>1, <1>8 DEF Placed, Cells
        <3>4. r.put = r.got + GetData(r)
            BY <1>8 DEF Good
        <3>5. Ahead(i, r.tail, size) \in 0..size-1
            BY <1>1, AheadIs
        <3> QED
            BY <3>1, <3>3, <3>4, <3>5, <1>1, <1>3
    <2> QED
        BY <2>3, <2>4
<1>9. ASSUME Good(r), Placed(r, len) PROVE Good(b)
    <2>1. Due(b, GetData(b))
        BY <1>0, <1>1, <1>2, <1>7, <1>8, <1>9 DEF Due
    <2>2. r.put = r.got + GetData(r)
        BY <1>9 DEF Good
    <2> QED
        BY <2>1, <2>2, <1>0, <1>1, <1>3, <1>7 DEF Good
<1> QED
    BY <1>7, <1>9 DEF b

\* The ring with the index and the number the handler has loaded.
Loaded(r, index, number) == [r EXCEPT !.tail = index, !.got = number]

LEMMA LoadedFields ==
    ASSUME NEW size \in Nat \ {0}, NEW r \in RingOf(size), NEW index \in 0..size-1, NEW number \in Nat
    PROVE  LET l == Loaded(r, index, number)
           IN  /\ l \in RingOf(size) /\ l.tail = index /\ l.got = number
               /\ l.head = r.head /\ l.put = r.put /\ l.mem = r.mem /\ l.size = r.size
BY DEF Loaded, RingOf

LEMMA SameRing ==
    ASSUME NEW size, NEW r \in RingOf(size), NEW q \in RingOf(size),
           r.tail = q.tail, r.head = q.head, r.mem = q.mem, r.put = q.put, r.got = q.got
    PROVE  r = q
BY DEF RingOf

\* The interrupt puts samples into a ring.
Filled(r, len) == AdvanceHead(Copied(r, len), len)

LEMMA Filling ==
    ASSUME NEW size \in Nat \ {0}, NEW r \in RingOf(size), NEW len \in Nat, len < GetRoom(r)
    PROVE  LET f == Filled(r, len)
           IN  /\ f \in RingOf(size) /\ f.tail = r.tail /\ f.got = r.got
               /\ f.head = (r.head + len) % size /\ f.put = r.put + len /\ f.mem = Copied(r, len).mem
               /\ GetData(f) = GetData(r) + len
               /\ Good(r) => Good(f)
<1> DEFINE c == Copied(r, len)
<1>1. c \in RingOf(size) /\ c.tail = r.tail /\ c.got = r.got /\ c.head = r.head /\ c.put = r.put
    BY CopiedFields
<1>2. Placed(c, len) /\ GetRoom(c) = GetRoom(r) /\ GetData(c) = GetData(r) /\ (Good(r) => Good(c))
    BY CopyingKeeps
<1> HIDE DEF c
<1> DEFINE f == AdvanceHead(c, len)
<1>3. /\ f \in RingOf(size) /\ f.tail = c.tail /\ f.got = c.got
      /\ f.head = (c.head + len) % size /\ f.put = c.put + len /\ f.mem = c.mem
    BY <1>1, AdvanceHeadFields
<1>4. len < GetRoom(c)
    BY <1>2
<1>5. GetData(f) = GetData(c) + len /\ (Good(c) /\ Placed(c, len) => Good(f))
    BY <1>1, <1>4, StoringKeeps
<1>6. Filled(r, len) = f
    BY DEF Filled, c
<1>7. c = Copied(r, len)
    BY DEF c
<1> HIDE DEF f
<1> QED
    BY <1>1, <1>2, <1>3, <1>5, <1>6, <1>7

LEMMA FillingLoaded ==
    ASSUME NEW size \in Nat \ {0}, NEW r \in RingOf(size), NEW len \in Nat, len < GetRoom(r),
           NEW index \in 0..size-1, NEW number \in Nat,
           Good(Loaded(r, index, number)), GetData(Loaded(r, index, number)) <= GetData(r)
    PROVE  LET l == Loaded(Filled(r, len), index, number)
           IN  Good(l) /\ GetData(l) <= GetData(Filled(r, len))
<1> DEFINE l == Loaded(r, index, number)  f == Filled(r, len)
<1>1. /\ l \in RingOf(size) /\ l.tail = index /\ l.got = number
      /\ l.head = r.head /\ l.put = r.put /\ l.mem = r.mem /\ l.size = r.size
    BY LoadedFields
<1>2. Loaded(f, index, number) = Filled(l, len)
    <2>1. Copied(l, len).mem = Copied(r, len).mem
        <3> DEFINE mem == [c \in DOMAIN r.mem |->
                            IF c \in Cells(r, len) THEN r.put + 1 + Ahead(c, r.head, r.size) ELSE r.mem[c]]
        <3>1. Copied(r, len) = [r EXCEPT !.mem = mem]
            BY DEF Copied
        <3>2. Copied(l, len) = [l EXCEPT !.mem = mem]
            BY <1>1 DEF Copied, Cells
        <3> HIDE DEF mem
        <3> QED
            BY <1>1, <3>1, <3>2 DEF RingOf
    <2>2. len < GetRoom(l)
        <3>1. GetRoom(l) = size - GetData(l) /\ GetRoom(r) = size - GetData(r)
              /\ GetData(l) \in Nat /\ GetData(r) \in Nat
            BY <1>1, Counts
        <3>2. GetData(l) <= GetData(r)
            OBVIOUS
        <3> HIDE DEF l
        <3> QED
            BY <3>1, <3>2
    <2>3. /\ f \in RingOf(size) /\ f.head = (r.head + len) % size /\ f.put = r.put + len
          /\ f.mem = Copied(r, len).mem
        BY Filling
    <2> DEFINE a == Loaded(f, index, number)  b == Filled(l, len)
    <2> HIDE DEF l
    <2>4. /\ b \in RingOf(size) /\ b.tail = index /\ b.got = number
          /\ b.head = (r.head + len) % size /\ b.put = r.put + len /\ b.mem = Copied(r, len).mem
        BY <1>1, <2>1, <2>2, Filling
    <2> HIDE DEF b, f
    <2>5. /\ a \in RingOf(size) /\ a.tail = index /\ a.got = number
          /\ a.head = f.head /\ a.put = f.put /\ a.mem = f.mem
        BY <2>3, LoadedFields
    <2> HIDE DEF a
    <2>6. a.tail = b.tail /\ a.got = b.got /\ a.head = b.head /\ a.put = b.put /\ a.mem = b.mem
        BY <2>3, <2>4, <2>5, Zenon
    <2>7. a = b
        BY <2>4, <2>5, <2>6, SameRing, Zenon
    <2> QED
        BY <2>7 DEF a, b
<1>3. GetRoom(l) = size - GetData(l) /\ GetRoom(r) = size - GetData(r) /\ GetData(l) \in Nat /\ GetData(r) \in Nat
    BY <1>1, Counts
<1>4. len < GetRoom(l)
    BY <1>3
<1>5. GetData(Filled(l, len)) = GetData(l) + len /\ Good(Filled(l, len))
    BY <1>1, <1>4, Filling
<1>6. GetData(f) = GetData(r) + len
    BY Filling
<1> HIDE DEF l, f
<1>7. GetData(l) <= GetData(r)
    BY DEF l
<1>8. GetData(Filled(l, len)) <= GetData(f)
    BY <1>3, <1>5, <1>6, <1>7
<1>9. Good(Loaded(f, index, number)) /\ GetData(Loaded(f, index, number)) <= GetData(f)
    BY <1>2, <1>5, <1>8
<1> QED
    BY <1>9 DEF f

\* Samples are taken out of a ring.
LEMMA Emptying ==
    ASSUME NEW size \in Nat \ {0}, NEW r \in RingOf(size), NEW n \in Nat, n <= GetData(r)
    PROVE  LET e == AdvanceTail(r, n)
           IN  /\ e \in RingOf(size) /\ e.head = r.head /\ e.put = r.put
               /\ GetData(e) <= GetData(r) /\ GetRoom(r) <= GetRoom(e)
               /\ Good(r) => Due(r, n) /\ Good(e)
               /\ \A len \in Nat : Placed(r, len) => Placed(e, len)
<1> DEFINE e == AdvanceTail(r, n)
<1>1. e \in RingOf(size) /\ e.head = r.head /\ e.put = r.put /\ e.mem = r.mem
    BY AdvanceTailFields
<1>2. GetData(e) = GetData(r) - n /\ (Good(r) => Due(r, n) /\ Good(e))
    BY TakingKeeps
<1> HIDE DEF e
<1>3. GetRoom(e) = size - GetData(e) /\ GetRoom(r) = size - GetData(r) /\ GetData(r) \in Nat
    BY <1>1, Counts
<1>4. GetData(e) <= GetData(r) /\ GetRoom(r) <= GetRoom(e)
    BY <1>2, <1>3
<1>5. e.size = r.size
    BY <1>1, RingFields
<1>6. ASSUME NEW len \in Nat, Placed(r, len) PROVE Placed(e, len)
    BY <1>1, <1>5, <1>6 DEF Placed, Cells
<1> QED
    BY <1>1, <1>2, <1>4, <1>6 DEF e

\* Nothing waits in a ring that is cleared.
LEMMA Empty ==
    ASSUME NEW size \in Nat \ {0}, NEW r \in RingOf(size), r.head = r.tail, r.put = r.got
    PROVE  GetData(r) = 0 /\ Good(r)
<1>1. r.size = size /\ r.tail \in 0..size-1 /\ DOMAIN r.mem = 0..size-1 /\ r.got \in Nat
    BY RingFields
<1>2. Ahead(r.tail, r.tail, size) = 0
    <2>1. \A t \in 0..size-1 : Ahead(t, t, size) = 0
        BY AheadIs
    <2> QED
        BY <1>1, <2>1
<1>3. GetData(r) = 0
    BY <1>1, <1>2 DEF GetData
<1>4. \A i \in 0..size-1 : Ahead(i, r.tail, size) \in 0..size-1
    BY <1>1, AheadIs, Zenon
<1>5. \A i \in 0..size-1 : ~(Ahead(i, r.tail, size) < 0)
    BY <1>4
<1>6. Due(r, 0)
    BY <1>1, <1>5 DEF Due
<1> QED
    BY <1>1, <1>3, <1>6 DEF Good

LEMMA Ruin ==
    ASSUME NEW size \in Nat \ {0}, NEW r \in RingOf(size), NEW cells
    PROVE  Ruined(r, cells) \in RingOf(size)
<1>1. /\ r.mem \in [0..size-1 -> Nat] /\ DOMAIN r.mem = 0..size-1
    BY RingFields
<1> DEFINE mem == [c \in DOMAIN r.mem |-> IF c \in cells THEN 0 ELSE r.mem[c]]
<1>2. mem \in [0..size-1 -> Nat]
    BY <1>1
<1>3. Ruined(r, cells) = [r EXCEPT !.mem = mem]
    BY DEF Ruined
<1> HIDE DEF mem
<1> QED
    BY <1>2, <1>3 DEF RingOf

--------------------------------------------------------------------------------
(***************************************************************************)
(* The inductive invariant of FreeDV.                                      *)
(***************************************************************************)

\* The handler clears the rings, and then works with them.
First == {"loadHead", "storeTail", "testTail"} \union Clearing
Working == {"get", "decode", "took", "put", "store"}

\* Once it works with the rings it has cleared them for the direction, and not for the
\* other one.
DirectionInv ==
    /\ tx_was_here <=> ~rx_was_here
    /\ at \in {"idle", "done"} \union First \union Working
    /\ at \in First => ~WasHere
    /\ at \in Working => WasHere
    /\ at = "decode" => txrx_mode = "RX"
    /\ at = "get" => txrx_mode = "TX"
    /\ at = "done" /\ txrx_mode = "RX" => rx_was_here

\* What the handler holds between two of its steps is still good, wherever an interrupt
\* came: a tail it is about to store leaves samples in order, a head is the tail unless
\* the interrupt has moved that, and the samples it takes or puts are there.
LoadedInv ==
    /\ at = "storeTail" => /\ held.index \in 0..RingSize[In]-1
                           /\ Good(Loaded(rb[In], held.index, held.number))
                           /\ GetData(Loaded(rb[In], held.index, held.number)) <= GetData(rb[In])
    /\ at = "storeHead" => /\ held.index \in 0..RingSize[Out]-1
                           /\ ~struck => held.index = rb[Out].tail
    /\ at = "testHead" => /\ rb[Out].got = rb[Out].put
                          /\ ~struck => rb[Out].head = rb[Out].tail
    /\ at = "took" => held.len <= GetData(rb[In])
    /\ at = "store" => /\ held.todo > 0 /\ held.len < GetRoom(rb[Out])
                       /\ Placed(rb[Out], held.len)

\* The audio ring is out of order only while the handler clears it for RX and an
\* interrupt has taken samples out of it meanwhile; it then clears it again.
Torn == /\ txrx_mode = "RX" /\ at \in Clearing /\ struck
        /\ at = "storeHead" => held.index = rb["audio"].tail

\* Each ring is in order as long as it is in use.
RingInv ==
    /\ rx_was_here => Good(rb["demod"])
    /\ txrx_mode = "TX" /\ tx_was_here => Good(rb["iq"])
    /\ Good(rb["audio"]) \/ Torn
    /\ at \in {"testTail"} \union Clearing => Good(rb[In])

FdvInv == FdvTypeOK /\ DirectionInv /\ LoadedInv /\ RingInv /\ fresh

LEMMA Sizes == \A r \in Ring : RingSize[r] \in Nat \ {0}
BY FdvAssumption DEF Ring, RingSize

LEMMA Sides ==
    ASSUME FdvTypeOK
    PROVE  /\ In \in Ring /\ Out \in Ring /\ In # Out
           /\ txrx_mode = "TX" => In = "audio" /\ Out = "iq" /\ WasHere = tx_was_here
           /\ txrx_mode = "RX" => In = "demod" /\ Out = "audio" /\ WasHere = rx_was_here
BY DEF FdvTypeOK, In, Out, WasHere, Ring

LEMMA Typed ==
    ASSUME FdvTypeOK, NEW r \in Ring
    PROVE  rb[r] \in RingOf(RingSize[r])
BY DEF FdvTypeOK

\* What an interrupt does to the rings.
LEMMA InterruptEffect ==
    ASSUME FdvTypeOK, NEW n \in {Few, Few + 1}, NEW n2 \in {Few, Few + 1}, Interrupt(n, n2)
    PROVE  /\ \E len \in Nat : len < GetRoom(rb[In]) /\ rb'[In] = Filled(rb[In], len)
           /\ \/ rb'[Out] = rb[Out]
              \/ n2 <= GetData(rb[Out]) /\ rb'[Out] = AdvanceTail(rb[Out], n2)
           /\ fresh /\ (WasHere /\ n2 <= GetData(rb[Out]) => Due(rb[Out], n2)) => fresh'
           /\ DOMAIN rb' = Ring
           /\ txrx_mode = "TX" => rb'["demod"] = rb["demod"]
           /\ txrx_mode = "RX" => rb'["iq"] \in RingOf(RingSize["iq"])
           /\ n \in Nat /\ n2 \in Nat \ {0}
           /\ filled' \in [{"RX", "TX"} -> BOOLEAN] /\ fresh' \in BOOLEAN
<1> DEFINE room   == GetRoom(rb[In])
           len    == IF n < room THEN n ELSE room - 1
           data   == GetData(rb[Out])
           enough == /\ filled[txrx_mode] \/ data > Frame
                     /\ data >= IF txrx_mode = "TX" THEN Few + 1 ELSE n2
           rb1    == [Copy(In, len) EXCEPT ![In] = AdvanceHead(@, len)]
<1>1. n \in Nat /\ n2 \in Nat \ {0} /\ Few \in Nat /\ n2 <= Few + 1
    BY FdvAssumption
<1>2. room \in Nat /\ room > 0 /\ data \in Nat
    BY Sides, Typed, Sizes, Counts
<1>3. /\ rb' = IF enough THEN [rb1 EXCEPT ![Out] = AdvanceTail(@, n2)] ELSE rb1
      /\ filled' = [filled EXCEPT ![txrx_mode] = enough]
      /\ fresh' = (fresh /\ (enough /\ WasHere => Due(rb[Out], n2)))
    BY DEF Interrupt
<1> HIDE DEF room, data
<1>4. len \in Nat /\ len < room
    BY <1>1, <1>2
<1>5. enough => n2 <= data
    BY <1>1, <1>2
<1>6. filled' \in [{"RX", "TX"} -> BOOLEAN] /\ fresh' \in BOOLEAN
    BY <1>3 DEF FdvTypeOK
<1> HIDE DEF len, enough
<1>7. /\ Copy(In, len)[In] = Copied(rb[In], len) /\ Copy(In, len)[Out] = rb[Out]
      /\ DOMAIN Copy(In, len) = Ring
      /\ txrx_mode = "TX" => Copy(In, len)["demod"] = rb["demod"]
      /\ txrx_mode = "RX" => \E cells : Copy(In, len)["iq"] = Ruined(rb["iq"], cells)
    BY Sides DEF Copy, Ring, FdvTypeOK
<1>8. /\ rb1[In] = Filled(rb[In], len) /\ rb1[Out] = rb[Out] /\ DOMAIN rb1 = Ring
      /\ txrx_mode = "TX" => rb1["demod"] = rb["demod"]
      /\ txrx_mode = "RX" => rb1["iq"] = Copy(In, len)["iq"]
    BY <1>7, Sides DEF Filled, Ring
<1> HIDE DEF rb1
<1>9. /\ rb'[In] = Filled(rb[In], len) /\ DOMAIN rb' = Ring
      /\ rb'[Out] = IF enough THEN AdvanceTail(rb[Out], n2) ELSE rb[Out]
      /\ txrx_mode = "TX" => rb'["demod"] = rb["demod"]
      /\ txrx_mode = "RX" => rb'["iq"] = Copy(In, len)["iq"]
    BY <1>3, <1>8, Sides DEF Ring
<1>10. txrx_mode = "RX" => rb'["iq"] \in RingOf(RingSize["iq"])
    <2>1. "iq" \in Ring
        BY DEF Ring
    <2> QED
        BY <2>1, <1>7, <1>9, Typed, Sizes, Ruin
<1> QED
    BY <1>1, <1>3, <1>4, <1>5, <1>6, <1>9, <1>10 DEF room, data
LEMMA InterruptType ==
    ASSUME FdvTypeOK, NEW n \in {Few, Few + 1}, NEW n2 \in {Few, Few + 1}, Interrupt(n, n2)
    PROVE  FdvTypeOK' /\ In' = In /\ Out' = Out
<1>1. /\ In' = In /\ Out' = Out
    BY DEF Interrupt, In, Out
<1>2. rb'[In] \in RingOf(RingSize[In])
    <2>1. PICK len \in Nat : len < GetRoom(rb[In]) /\ rb'[In] = Filled(rb[In], len)
        BY InterruptEffect
    <2> QED
        BY <2>1, Sides, Typed, Sizes, Filling
<1>3. rb'[Out] \in RingOf(RingSize[Out])
    <2>1. \/ rb'[Out] = rb[Out]
          \/ n2 <= GetData(rb[Out]) /\ rb'[Out] = AdvanceTail(rb[Out], n2) /\ n2 \in Nat
        BY InterruptEffect
    <2> QED
        BY <2>1, Sides, Typed, Sizes, Emptying
<1>4. \A r \in Ring : rb'[r] \in RingOf(RingSize[r])
    <2>1. CASE txrx_mode = "TX"
        <3>1. rb'["demod"] = rb["demod"]
            BY <2>1, InterruptEffect
        <3>2. rb'["demod"] \in RingOf(RingSize["demod"])
            BY <3>1, Typed DEF Ring
        <3> QED
            BY <2>1, <3>2, <1>2, <1>3, Sides DEF Ring
    <2>2. CASE txrx_mode = "RX"
        <3>1. rb'["iq"] \in RingOf(RingSize["iq"])
            BY <2>2, InterruptEffect
        <3> QED
            BY <2>2, <3>1, <1>2, <1>3, Sides DEF Ring
    <2> QED
        BY <2>1, <2>2 DEF FdvTypeOK
<1>5. DOMAIN rb' = Ring /\ filled' \in [{"RX", "TX"} -> BOOLEAN] /\ fresh' \in BOOLEAN
    BY InterruptEffect
<1>6. struck' \in BOOLEAN
    BY DEF Interrupt, FdvTypeOK
<1>7. UNCHANGED <<txrx_mode, tx_was_here, rx_was_here, at, held, unread>>
    BY DEF Interrupt
<1> QED
    BY <1>1, <1>4, <1>5, <1>6, <1>7 DEF FdvTypeOK

\* An interrupt, wherever it comes, leaves the rings in order.
LEMMA InterruptKeeps ==
    ASSUME FdvInv, NEW n \in {Few, Few + 1}, NEW n2 \in {Few, Few + 1}, Interrupt(n, n2)
    PROVE  FdvInv'
<1> USE DEF FdvInv
<1>1. FdvTypeOK' /\ In' = In /\ Out' = Out
    BY InterruptType
<1>2. /\ UNCHANGED <<txrx_mode, tx_was_here, rx_was_here, at, held, unread>>
      /\ at \in Clearing => ~struck
      /\ struck' = (struck \/ at \in Clearing)
    BY DEF Interrupt
<1>3. DirectionInv'
    BY <1>2 DEF DirectionInv, WasHere
<1>4. PICK len \in Nat : len < GetRoom(rb[In]) /\ rb'[In] = Filled(rb[In], len)
    BY InterruptEffect
<1>5. /\ GetData(rb[In]) <= GetData(rb'[In])
      /\ Good(rb[In]) => Good(rb'[In])
    <2>1. /\ GetData(rb'[In]) = GetData(rb[In]) + len
          /\ Good(rb[In]) => Good(rb'[In])
        BY <1>4, Sides, Typed, Sizes, Filling
    <2>2. GetData(rb[In]) \in Nat
        BY Sides, Typed, Sizes, Counts
    <2> QED
        BY <2>1, <2>2
<1>6. \/ rb'[Out] = rb[Out]
      \/ n2 <= GetData(rb[Out]) /\ rb'[Out] = AdvanceTail(rb[Out], n2) /\ n2 \in Nat \ {0}
    BY InterruptEffect
<1>7. /\ rb'[Out].head = rb[Out].head /\ rb'[Out].put = rb[Out].put
      /\ GetData(rb'[Out]) <= GetData(rb[Out]) /\ GetRoom(rb[Out]) <= GetRoom(rb'[Out])
      /\ Good(rb[Out]) => Good(rb'[Out])
      /\ \A m \in Nat : Placed(rb[Out], m) => Placed(rb'[Out], m)
    <2>1. CASE rb'[Out] = rb[Out]
        <3>1. GetData(rb[Out]) \in Nat /\ GetRoom(rb[Out]) \in Nat
            BY Sides, Typed, Sizes, Counts
        <3> QED
            BY <2>1, <3>1
    <2>2. CASE n2 <= GetData(rb[Out]) /\ rb'[Out] = AdvanceTail(rb[Out], n2) /\ n2 \in Nat \ {0}
        BY <2>2, Sides, Typed, Sizes, Emptying
    <2> QED
        BY <1>6, <2>1, <2>2
<1>8. WasHere => Good(rb[Out])
    <2>1. CASE txrx_mode = "TX"
        BY <2>1, Sides DEF RingInv
    <2>2. CASE txrx_mode = "RX"
        <3>1. WasHere => ~Torn
            BY DEF DirectionInv, First, Torn
        <3> QED
            BY <2>2, <3>1, Sides DEF RingInv
    <2> QED
        BY <2>1, <2>2 DEF FdvTypeOK
<1>9. fresh'
    <2>1. WasHere /\ n2 <= GetData(rb[Out]) => Due(rb[Out], n2)
        BY <1>8, Sides, Typed, Sizes, Emptying, InterruptEffect
    <2> QED
        BY <2>1, InterruptEffect
<1>10. LoadedInv'
    <2>1. ASSUME at = "storeTail"
          PROVE  /\ held.index \in 0..RingSize[In]-1
                 /\ Good(Loaded(rb'[In], held.index, held.number))
                 /\ GetData(Loaded(rb'[In], held.index, held.number)) <= GetData(rb'[In])
        <3>1. /\ held.index \in 0..RingSize[In]-1 /\ held.number \in Nat
              /\ Good(Loaded(rb[In], held.index, held.number))
              /\ GetData(Loaded(rb[In], held.index, held.number)) <= GetData(rb[In])
            BY <2>1 DEF LoadedInv, FdvTypeOK
        <3> QED
            BY <3>1, <1>4, Sides, Typed, Sizes, FillingLoaded
    <2>2. ASSUME at = "storeHead" PROVE held.index \in 0..RingSize[Out]-1 /\ struck'
        BY <2>2, <1>2 DEF LoadedInv, Clearing
    <2>3. ASSUME at = "testHead" PROVE rb'[Out].got = rb'[Out].put /\ struck'
        <3>1. struck' /\ ~struck /\ rb[Out].got = rb[Out].put /\ rb[Out].head = rb[Out].tail
            BY <2>3, <1>2 DEF LoadedInv, Clearing
        <3>2. GetData(rb[Out]) = 0
            BY <3>1, Sides, Typed, Sizes, Empty
        <3>3. rb'[Out] = rb[Out]
            BY <3>2, <1>6
        <3> QED
            BY <3>1, <3>3
    <2>4. ASSUME at = "took" PROVE held.len <= GetData(rb'[In])
        <3>1. GetData(rb[In]) \in Nat /\ GetData(rb'[In]) \in Nat /\ held.len \in Nat
            <4>1. rb'[In] \in RingOf(RingSize[In]) /\ held.len \in Nat
                BY <1>1, Sides DEF FdvTypeOK
            <4> QED
                BY <4>1, Sides, Typed, Sizes, Counts
        <3>2. held.len <= GetData(rb[In])
            BY <2>4 DEF LoadedInv
        <3> QED
            BY <3>1, <3>2, <1>5
    <2>5. ASSUME at = "store" PROVE held.todo > 0 /\ held.len < GetRoom(rb'[Out]) /\ Placed(rb'[Out], held.len)
        <3>1. GetRoom(rb[Out]) \in Nat /\ GetRoom(rb'[Out]) \in Nat /\ held.len \in Nat
            <4>1. rb'[Out] \in RingOf(RingSize[Out]) /\ held.len \in Nat
                BY <1>1, Sides DEF FdvTypeOK
            <4> QED
                BY <4>1, Sides, Typed, Sizes, Counts
        <3>2. held.todo > 0 /\ held.len < GetRoom(rb[Out]) /\ Placed(rb[Out], held.len)
            BY <2>5 DEF LoadedInv
        <3> QED
            BY <3>1, <3>2, <1>7
    <2> QED
        BY <1>1, <1>2, <2>1, <2>2, <2>3, <2>4, <2>5 DEF LoadedInv
<1>11. RingInv'
    <2>1. CASE txrx_mode = "TX"
        <3>1. In = "audio" /\ Out = "iq" /\ rb'["demod"] = rb["demod"]
            BY <2>1, Sides, InterruptEffect
        <3> QED
            BY <2>1, <3>1, <1>1, <1>2, <1>5, <1>7 DEF RingInv, Torn
    <2>2. CASE txrx_mode = "RX"
        <3>1. In = "demod" /\ Out = "audio"
            BY <2>2, Sides
        <3>2. Good(rb'["audio"]) \/ Torn'
            <4>1. CASE Good(rb["audio"])
                BY <4>1, <3>1, <1>7
            <4>2. CASE Torn
                BY <4>2, <1>2 DEF Torn
            <4> QED
                BY <4>1, <4>2 DEF RingInv
        <3> QED
            BY <2>2, <3>1, <3>2, <1>1, <1>2, <1>5, <1>7 DEF RingInv
    <2> QED
        BY <2>1, <2>2 DEF FdvTypeOK
<1> QED
    BY <1>1, <1>3, <1>9, <1>10, <1>11

\* The steps that leave the rings as they are.
LEMMA BeginKeeps == ASSUME FdvInv, Begin PROVE FdvInv'
<1> USE DEF FdvInv
<1>1. /\ UNCHANGED <<txrx_mode, filled, rb, tx_was_here, rx_was_here, struck, held, fresh, unread>>
      /\ at = "idle"
      /\ \/ txrx_mode = "TX" /\ tx_was_here /\ at' = "get"
         \/ txrx_mode = "TX" /\ at' = "done"
         \/ txrx_mode = "RX" /\ rx_was_here /\ at' = "decode"
         \/ ~WasHere /\ at' = "loadHead"
    BY DEF Begin, Goto, Keep, history, WasHere, FdvTypeOK
<1>2. FdvTypeOK'
    BY <1>1 DEF FdvTypeOK
<1>3. DirectionInv'
    BY <1>1 DEF DirectionInv, WasHere, FdvTypeOK, First, Working, Clearing
<1>4. LoadedInv'
    BY <1>1 DEF LoadedInv
<1>5. RingInv'
    BY <1>1 DEF RingInv, Torn, Clearing
<1> QED
    BY <1>1, <1>2, <1>3, <1>4, <1>5

LEMMA ReturnKeeps == ASSUME FdvInv, Return PROVE FdvInv'
<1> USE DEF FdvInv
<1>1. /\ UNCHANGED <<filled, rb, tx_was_here, rx_was_here, struck, held, fresh, unread>>
      /\ at = "done" /\ at' = "idle" /\ txrx_mode' \in {"RX", "TX"}
    BY DEF Return, Keep, history
<1>2. FdvTypeOK'
    BY <1>1 DEF FdvTypeOK
<1>3. DirectionInv'
    BY <1>1 DEF DirectionInv, First, Working, Clearing
<1>4. LoadedInv'
    BY <1>1 DEF LoadedInv
<1>5. RingInv'
    BY <1>1 DEF RingInv, Torn, Clearing, DirectionInv, FdvTypeOK
<1> QED
    BY <1>1, <1>2, <1>3, <1>4, <1>5

LEMMA AllPutKeeps == ASSUME FdvInv, AllPut PROVE FdvInv'
<1> USE DEF FdvInv
<1>1. /\ UNCHANGED <<txrx_mode, filled, rb, tx_was_here, rx_was_here, struck, held, fresh, unread>>
      /\ at = "put" /\ at' = IF txrx_mode = "TX" THEN "done" ELSE "decode"
    BY DEF AllPut, Goto, Keep, history
<1>2. FdvTypeOK'
    BY <1>1 DEF FdvTypeOK
<1>3. DirectionInv'
    BY <1>1 DEF DirectionInv, WasHere, FdvTypeOK, First, Working, Clearing
<1>4. LoadedInv'
    BY <1>1 DEF LoadedInv
<1>5. RingInv'
    BY <1>1 DEF RingInv, Torn, Clearing
<1> QED
    BY <1>1, <1>2, <1>3, <1>4, <1>5

LEMMA TestTailKeeps == ASSUME FdvInv, TestTail PROVE FdvInv'
<1> USE DEF FdvInv
<1>1. /\ UNCHANGED <<txrx_mode, filled, rb, tx_was_here, rx_was_here, held, fresh, unread>>
      /\ at = "testTail" /\ at' \in {"loadTail", "loadHead"} /\ struck' = FALSE
      /\ In' = In /\ Out' = Out
    BY DEF TestTail, Goto, history, In, Out
<1>2. FdvTypeOK'
    BY <1>1 DEF FdvTypeOK
<1>3. DirectionInv'
    BY <1>1 DEF DirectionInv, WasHere, First, Working, Clearing
<1>4. LoadedInv'
    BY <1>1 DEF LoadedInv
<1>5. RingInv'
    BY <1>1 DEF RingInv, Torn, Clearing
<1> QED
    BY <1>1, <1>2, <1>3, <1>4, <1>5

\* A loaded head is the end of what waits.
LEMMA LoadHeadKeeps == ASSUME FdvInv, LoadHead PROVE FdvInv'
<1> USE DEF FdvInv
<1>0. rb[In] \in RingOf(RingSize[In]) /\ RingSize[In] \in Nat \ {0}
    BY Sides, Typed, Sizes
<1>1. /\ UNCHANGED <<txrx_mode, filled, rb, tx_was_here, rx_was_here, struck, fresh, unread>>
      /\ at = "loadHead" /\ at' = "storeTail"
      /\ held' = [held EXCEPT !.index = rb[In].head, !.number = rb[In].put]
      /\ In' = In /\ Out' = Out
    BY DEF LoadHead, Goto, Keep, history, In, Out
<1>2. /\ rb[In].head \in 0..RingSize[In]-1 /\ rb[In].put \in Nat
    BY <1>0, RingFields, Zenon
<1>3. held'.index = rb[In].head /\ held'.number = rb[In].put
    BY <1>1 DEF FdvTypeOK
<1>4. FdvTypeOK'
    <2>1. rb[In].head \in Nat
        BY <1>2
    <2> QED
        BY <1>1, <1>2, <2>1 DEF FdvTypeOK
<1>5. DirectionInv'
    BY <1>1 DEF DirectionInv, WasHere, First, Working, Clearing
<1>6. LoadedInv'
    <2> DEFINE l == Loaded(rb[In], rb[In].head, rb[In].put)
    <2>1. l \in RingOf(RingSize[In]) /\ l.head = l.tail /\ l.put = l.got
        <3> DEFINE r == rb[In]  size == RingSize[In]
        <3>1. r \in RingOf(size) /\ size \in Nat \ {0} /\ r.head \in 0..size-1 /\ r.put \in Nat
            BY <1>0, <1>2
        <3> DEFINE index == r.head  number == r.put
        <3> HIDE DEF r, size
        <3>2. index \in 0..size-1 /\ number \in Nat /\ r.head = index /\ r.put = number
            BY <3>1
        <3> HIDE DEF index, number
        <3>3. LET q == Loaded(r, index, number)
              IN  q \in RingOf(size) /\ q.head = q.tail /\ q.put = q.got
            BY <3>1, <3>2, LoadedFields
        <3> QED
            BY <3>3 DEF index, number, r, size
    <2> HIDE DEF l
    <2>2. Good(l) /\ GetData(l) = 0
        BY <1>0, <2>1, Empty
    <2>3. GetData(rb[In]) \in Nat
        BY <1>0, Counts
    <2>4. GetData(l) <= GetData(rb[In])
        BY <2>2, <2>3
    <2> QED
        BY <1>1, <1>2, <1>3, <2>2, <2>4 DEF LoadedInv, l
<1>7. RingInv'
    BY <1>1 DEF RingInv, Torn, Clearing
<1> QED
    BY <1>1, <1>4, <1>5, <1>6, <1>7

LEMMA StoreTailKeeps == ASSUME FdvInv, StoreTail PROVE FdvInv'
<1> USE DEF FdvInv
<1>0. rb[In] \in RingOf(RingSize[In]) /\ RingSize[In] \in Nat \ {0}
    BY Sides, Typed, Sizes
<1> DEFINE l == Loaded(rb[In], held.index, held.number)
<1>1. /\ UNCHANGED <<txrx_mode, filled, tx_was_here, rx_was_here, struck, held, fresh, unread>>
      /\ at = "storeTail" /\ at' = "testTail"
      /\ rb' = [rb EXCEPT ![In] = l]
      /\ In' = In /\ Out' = Out
    BY DEF StoreTail, Goto, Keep, history, In, Out, Loaded
<1>2. held.index \in 0..RingSize[In]-1 /\ held.number \in Nat /\ Good(l)
    BY <1>1 DEF LoadedInv, FdvTypeOK
<1>3. l \in RingOf(RingSize[In])
    BY <1>0, <1>2, LoadedFields
<1> HIDE DEF l
<1>4. DOMAIN rb' = Ring /\ rb'[In] = l /\ \A r \in Ring : r # In => rb'[r] = rb[r]
    BY <1>1, Sides DEF FdvTypeOK
<1>5. FdvTypeOK'
    BY <1>1, <1>3, <1>4 DEF FdvTypeOK
<1>6. DirectionInv'
    BY <1>1 DEF DirectionInv, WasHere, First, Working, Clearing
<1>7. LoadedInv'
    BY <1>1 DEF LoadedInv
<1>8. RingInv'
    <2>1. ~WasHere /\ ~Torn
        BY <1>1 DEF DirectionInv, First, Torn, Clearing
    <2>2. CASE txrx_mode = "TX"
        <3>1. rb'["audio"] = l /\ rb'["demod"] = rb["demod"] /\ In = "audio" /\ ~tx_was_here
            BY <1>4, <2>1, <2>2, Sides DEF Ring
        <3> QED
            BY <1>1, <1>2, <1>4, <2>1, <2>2, <3>1 DEF RingInv, Torn, Clearing
    <2>3. CASE txrx_mode = "RX"
        <3>1. rb'["audio"] = rb["audio"] /\ In = "demod" /\ ~rx_was_here
            BY <1>4, <2>1, <2>3, Sides DEF Ring
        <3> QED
            BY <1>1, <1>2, <1>4, <2>1, <2>3, <3>1 DEF RingInv, Torn, Clearing
    <2> QED
        BY <2>2, <2>3 DEF FdvTypeOK
<1> QED
    BY <1>1, <1>5, <1>6, <1>7, <1>8

LEMMA LoadTailKeeps == ASSUME FdvInv, LoadTail PROVE FdvInv'
<1> USE DEF FdvInv
<1>0. rb[Out] \in RingOf(RingSize[Out]) /\ RingSize[Out] \in Nat \ {0}
    BY Sides, Typed, Sizes
<1>1. /\ UNCHANGED <<txrx_mode, filled, rb, tx_was_here, rx_was_here, struck, fresh, unread>>
      /\ at = "loadTail" /\ at' = "storeHead"
      /\ held' = [held EXCEPT !.index = rb[Out].tail]
      /\ In' = In /\ Out' = Out
    BY DEF LoadTail, Goto, Keep, history, In, Out
<1>2. rb[Out].tail \in 0..RingSize[Out]-1
    BY <1>0, RingFields
<1>3. held'.index = rb[Out].tail
    BY <1>1 DEF FdvTypeOK
<1>4. FdvTypeOK'
    BY <1>1, <1>2 DEF FdvTypeOK
<1>5. DirectionInv'
    BY <1>1 DEF DirectionInv, WasHere, First, Working, Clearing
<1>6. LoadedInv'
    BY <1>1, <1>2, <1>3 DEF LoadedInv
<1>7. RingInv'
    <2>1. Torn => Torn'
        BY <1>1, <1>3, Sides DEF Torn, Clearing
    <2> QED
        BY <1>1, <2>1 DEF RingInv, Clearing
<1> QED
    BY <1>1, <1>4, <1>5, <1>6, <1>7

\* The loaded tail becomes the head: the ring is empty, unless an interrupt came.
LEMMA StoreHeadKeeps == ASSUME FdvInv, StoreHead PROVE FdvInv'
<1> USE DEF FdvInv
<1>0. rb[Out] \in RingOf(RingSize[Out]) /\ RingSize[Out] \in Nat \ {0}
    BY Sides, Typed, Sizes
<1> DEFINE h == [rb[Out] EXCEPT !.head = held.index, !.got = rb[Out].put]
<1>1. /\ UNCHANGED <<txrx_mode, filled, tx_was_here, rx_was_here, struck, held, fresh, unread>>
      /\ at = "storeHead" /\ at' = "testHead"
      /\ rb' = [rb EXCEPT ![Out] = h]
      /\ In' = In /\ Out' = Out
    BY DEF StoreHead, Goto, Keep, history, In, Out
<1>2. held.index \in 0..RingSize[Out]-1 /\ rb[Out].put \in Nat
      /\ (~struck => held.index = rb[Out].tail)
    BY <1>0, <1>1, RingFields DEF LoadedInv
<1>3. /\ h \in RingOf(RingSize[Out]) /\ h.head = held.index /\ h.got = rb[Out].put
      /\ h.put = rb[Out].put /\ h.tail = rb[Out].tail
    BY <1>0, <1>2 DEF RingOf
<1> HIDE DEF h
<1>4. DOMAIN rb' = Ring /\ rb'[Out] = h /\ \A r \in Ring : r # Out => rb'[r] = rb[r]
    BY <1>1, Sides DEF FdvTypeOK
<1>5. FdvTypeOK'
    BY <1>1, <1>3, <1>4 DEF FdvTypeOK
<1>6. DirectionInv'
    BY <1>1 DEF DirectionInv, WasHere, First, Working, Clearing
<1>7. LoadedInv'
    BY <1>1, <1>2, <1>3, <1>4 DEF LoadedInv
<1>8. RingInv'
    <2>1. ~WasHere /\ Good(rb[In])
        BY <1>1 DEF DirectionInv, RingInv, First, Clearing
    <2>2. h.head = h.tail => Good(h)
        BY <1>0, <1>3, Empty
    <2>3. CASE txrx_mode = "TX"
        <3>1. rb'["audio"] = rb["audio"] /\ rb'["demod"] = rb["demod"] /\ In = "audio" /\ ~tx_was_here
            BY <1>4, <2>1, <2>3, Sides DEF Ring
        <3> QED
            BY <1>1, <2>1, <2>3, <3>1 DEF RingInv, Torn, Clearing
    <2>4. CASE txrx_mode = "RX"
        <3>1. rb'["demod"] = rb["demod"] /\ In = "demod" /\ Out = "audio" /\ ~rx_was_here
            BY <1>4, <2>1, <2>4, Sides DEF Ring
        <3>2. Good(h) \/ Torn'
            BY <1>1, <1>2, <1>3, <2>2, <2>4 DEF Torn, Clearing, FdvTypeOK
        <3> QED
            BY <1>1, <1>4, <2>1, <2>4, <3>1, <3>2 DEF RingInv, Clearing
    <2> QED
        BY <2>3, <2>4 DEF FdvTypeOK
<1> QED
    BY <1>1, <1>5, <1>6, <1>7, <1>8

LEMMA TestHeadKeeps == ASSUME FdvInv, TestHead PROVE FdvInv'
<1> USE DEF FdvInv
<1>0. rb[Out] \in RingOf(RingSize[Out]) /\ RingSize[Out] \in Nat \ {0}
    BY Sides, Typed, Sizes
<1>1. /\ UNCHANGED <<txrx_mode, filled, rb, struck, held, fresh, unread>>
      /\ at = "testHead" /\ In' = In /\ Out' = Out
    BY DEF TestHead, Goto, history, In, Out
<1>2. Good(rb[In]) /\ ~WasHere
    BY <1>1 DEF DirectionInv, RingInv, First, Clearing
<1>3. CASE rb[Out].tail = rb[Out].head
    <2>1. /\ tx_was_here' = (txrx_mode = "TX") /\ rx_was_here' = (txrx_mode = "RX")
          /\ at' = IF txrx_mode = "TX" THEN "get" ELSE "decode"
        BY <1>3 DEF TestHead, Goto
    <2>2. Good(rb[Out])
        BY <1>0, <1>1, <1>3, Empty DEF LoadedInv
    <2>3. FdvTypeOK'
        BY <1>1, <2>1 DEF FdvTypeOK
    <2>4. DirectionInv'
        BY <1>1, <2>1 DEF DirectionInv, WasHere, FdvTypeOK, First, Working, Clearing
    <2>5. LoadedInv'
        BY <1>1, <2>1 DEF LoadedInv
    <2>6. RingInv'
        BY <1>1, <1>2, <2>1, <2>2, Sides DEF RingInv, FdvTypeOK, Clearing
    <2> QED
        BY <1>1, <2>3, <2>4, <2>5, <2>6
<1>4. CASE rb[Out].tail # rb[Out].head
    <2>1. UNCHANGED <<tx_was_here, rx_was_here>> /\ at' = "loadTail"
        BY <1>4 DEF TestHead, Goto
    <2>2. FdvTypeOK'
        BY <1>1, <2>1 DEF FdvTypeOK
    <2>3. DirectionInv'
        BY <1>1, <2>1 DEF DirectionInv, WasHere, First, Working, Clearing
    <2>4. LoadedInv'
        BY <1>1, <2>1 DEF LoadedInv
    <2>5. RingInv'
        <3>1. Torn => Torn'
            BY <1>1, <2>1 DEF Torn, Clearing
        <3> QED
            BY <1>1, <1>2, <2>1, <3>1 DEF RingInv, Clearing
    <2> QED
        BY <1>1, <2>2, <2>3, <2>4, <2>5
<1> QED
    BY <1>3, <1>4

\* What is taken to be encoded or decoded was due.
LEMMA GetKeeps == ASSUME FdvInv, Get PROVE FdvInv'
<1> USE DEF FdvInv
<1>0. rb[In] \in RingOf(RingSize[In]) /\ RingSize[In] \in Nat \ {0} /\ Frame \in Nat
    BY Sides, Typed, Sizes, FdvAssumption
<1> DEFINE ready == Frame <= GetData(rb[In])
<1>1. /\ UNCHANGED <<txrx_mode, filled, rb, tx_was_here, rx_was_here, struck>>
      /\ at = "get" /\ at' = "took" /\ In' = In /\ Out' = Out
      /\ held' = [held EXCEPT !.len = IF ready THEN Frame ELSE 0]
      /\ unread' = (unread \/ ~ready)
      /\ fresh' = (fresh /\ (ready => Due(rb[In], Frame)))
    BY DEF Get, Goto, Keep, In, Out
<1>2. Good(rb[In])
    <2>1. In = "audio" /\ ~Torn
        BY <1>1, Sides DEF DirectionInv, Torn, Clearing
    <2> QED
        BY <2>1 DEF RingInv
<1>3. ready => Due(rb[In], Frame)
    BY <1>0, <1>2, Emptying
<1>4. held'.len = (IF ready THEN Frame ELSE 0)
    BY <1>1 DEF FdvTypeOK
<1>5. FdvTypeOK'
    BY <1>0, <1>1 DEF FdvTypeOK
<1>6. DirectionInv'
    BY <1>1 DEF DirectionInv, WasHere, First, Working, Clearing
<1>7. LoadedInv'
    <2>1. GetData(rb[In]) \in Nat
        BY <1>0, Counts
    <2>2. held'.len <= GetData(rb[In])
        BY <1>4, <2>1
    <2> QED
        BY <1>1, <2>2 DEF LoadedInv
<1>8. RingInv'
    BY <1>1 DEF RingInv, Torn, Clearing
<1> QED
    BY <1>1, <1>3, <1>5, <1>6, <1>7, <1>8

LEMMA DecodeKeeps == ASSUME FdvInv, NEW nin \in Nin, Decode(nin) PROVE FdvInv'
<1> USE DEF FdvInv
<1>0. rb[In] \in RingOf(RingSize[In]) /\ RingSize[In] \in Nat \ {0} /\ nin \in Nat
    BY Sides, Typed, Sizes, FdvAssumption
<1>1. /\ UNCHANGED <<txrx_mode, filled, rb, tx_was_here, rx_was_here, struck, unread>>
      /\ at = "decode" /\ In' = In /\ Out' = Out /\ txrx_mode = "RX"
      /\ \/ /\ GetData(rb[In]) >= nin /\ at' = "took"
            /\ held' = [held EXCEPT !.len = nin] /\ fresh' = (fresh /\ Due(rb[In], nin))
         \/ at' = "done" /\ held' = held /\ fresh' = fresh
    BY DEF Decode, Goto, Keep, In, Out, DirectionInv
<1>2. rx_was_here /\ In = "demod" /\ Good(rb[In])
    BY <1>1, Sides DEF DirectionInv, Working, RingInv
<1>3. CASE at' = "took"
    <2>1. /\ nin <= GetData(rb[In])
          /\ held' = [held EXCEPT !.len = nin] /\ fresh' = (fresh /\ Due(rb[In], nin))
        BY <1>0, <1>1, <1>3, Counts
    <2>2. Due(rb[In], nin)
        BY <1>0, <1>2, <2>1, Emptying
    <2>3. held'.len = nin
        BY <2>1 DEF FdvTypeOK
    <2>4. FdvTypeOK'
        BY <1>0, <1>1, <2>1, <2>2 DEF FdvTypeOK
    <2>5. DirectionInv'
        BY <1>1, <1>3 DEF DirectionInv, WasHere, First, Working, Clearing
    <2>6. LoadedInv'
        BY <1>1, <1>3, <2>1, <2>3 DEF LoadedInv
    <2>7. RingInv'
        BY <1>1, <1>3 DEF RingInv, Torn, Clearing
    <2> QED
        BY <2>1, <2>2, <2>4, <2>5, <2>6, <2>7
<1>4. CASE at' = "done"
    <2>1. held' = held /\ fresh' = fresh
        BY <1>1, <1>4
    <2>2. FdvTypeOK'
        BY <1>1, <2>1 DEF FdvTypeOK
    <2>3. DirectionInv'
        BY <1>1, <1>2, <1>4 DEF DirectionInv, First, Working, Clearing
    <2>4. LoadedInv'
        BY <1>4 DEF LoadedInv
    <2>5. RingInv'
        BY <1>1, <1>4 DEF RingInv, Torn, Clearing
    <2> QED
        BY <2>1, <2>2, <2>3, <2>4, <2>5
<1> QED
    BY <1>1, <1>3, <1>4

LEMMA TookKeeps == ASSUME FdvInv, Took PROVE FdvInv'
<1> USE DEF FdvInv
<1>0. rb[In] \in RingOf(RingSize[In]) /\ RingSize[In] \in Nat \ {0} /\ Frame \in Nat
    BY Sides, Typed, Sizes, FdvAssumption
<1> DEFINE e == AdvanceTail(rb[In], held.len)
<1>1. /\ UNCHANGED <<txrx_mode, filled, tx_was_here, rx_was_here, struck, unread>>
      /\ fresh' = (fresh /\ Due(rb[In], held.len))
      /\ at = "took" /\ at' \in {"put", "decode"} /\ (at' = "decode" => txrx_mode = "RX")
      /\ rb' = [rb EXCEPT ![In] = e]
      /\ In' = In /\ Out' = Out
    BY DEF Took, Goto, Keep, history, In, Out, FdvTypeOK
<1>2. held' \in [index : Nat, number : Nat, len : Nat, todo : Nat]
    <2>1. \/ held' = held
          \/ \E count, todo \in Nat : held' = [held EXCEPT !.len = count, !.todo = todo]
        BY <1>0 DEF Took, FdvTypeOK
    <2> QED
        BY <2>1 DEF FdvTypeOK
<1>3. held.len \in Nat /\ held.len <= GetData(rb[In]) /\ WasHere /\ ~Torn
    BY <1>1 DEF LoadedInv, DirectionInv, FdvTypeOK, Torn, Clearing, Working
<1>4. e \in RingOf(RingSize[In]) /\ (Good(rb[In]) => Due(rb[In], held.len) /\ Good(e))
    BY <1>0, <1>3, Emptying
<1>5. Good(rb[In]) /\ fresh'
    <2>1. CASE txrx_mode = "TX"
        BY <1>1, <1>3, <1>4, <2>1, Sides DEF RingInv
    <2>2. CASE txrx_mode = "RX"
        BY <1>1, <1>3, <1>4, <2>2, Sides DEF RingInv
    <2> QED
        BY <2>1, <2>2 DEF FdvTypeOK
<1> HIDE DEF e
<1>6. DOMAIN rb' = Ring /\ rb'[In] = e /\ \A r \in Ring : r # In => rb'[r] = rb[r]
    BY <1>1, Sides DEF FdvTypeOK
<1>7. FdvTypeOK'
    BY <1>1, <1>2, <1>4, <1>6, <1>5 DEF FdvTypeOK
<1>8. DirectionInv'
    BY <1>1 DEF DirectionInv, WasHere, First, Working, Clearing
<1>9. LoadedInv'
    BY <1>1 DEF LoadedInv
<1>10. RingInv'
    <2>1. CASE txrx_mode = "TX"
        <3>1. rb'["audio"] = e /\ rb'["demod"] = rb["demod"] /\ rb'["iq"] = rb["iq"] /\ In = "audio"
            BY <1>6, <2>1, Sides DEF Ring
        <3> QED
            BY <1>1, <1>3, <1>4, <2>1, <3>1 DEF RingInv, Clearing
    <2>2. CASE txrx_mode = "RX"
        <3>1. rb'["demod"] = e /\ rb'["audio"] = rb["audio"] /\ In = "demod"
            BY <1>6, <2>2, Sides DEF Ring
        <3> QED
            BY <1>1, <1>3, <1>4, <2>2, <3>1 DEF RingInv, Clearing
    <2> QED
        BY <2>1, <2>2 DEF FdvTypeOK
<1> QED
    BY <1>1, <1>7, <1>8, <1>9, <1>10, <1>5

\* Samples are put into a ring that has room, and no ring in use lies where they go.
LEMMA PutKeeps == ASSUME FdvInv, Put PROVE FdvInv'
<1> USE DEF FdvInv
<1>0. rb[Out] \in RingOf(RingSize[Out]) /\ RingSize[Out] \in Nat \ {0} /\ held.len \in Nat
    BY Sides, Typed, Sizes DEF FdvTypeOK
<1>1. /\ UNCHANGED <<txrx_mode, filled, tx_was_here, rx_was_here, struck, fresh, unread>>
      /\ at = "put" /\ In' = In /\ Out' = Out /\ held.todo > 0
    BY DEF Put, Goto, Keep, history, In, Out
<1>2. WasHere /\ ~Torn
    BY <1>1 DEF DirectionInv, Working, Torn, Clearing
<1>3. CASE held.len < GetRoom(rb[Out])
    <2> DEFINE c == Copied(rb[Out], held.len)
    <2>1. rb' = Copy(Out, held.len) /\ held' = held /\ at' = "store"
        BY <1>3 DEF Put, Goto
    <2>2. /\ c \in RingOf(RingSize[Out]) /\ Placed(c, held.len) /\ GetRoom(c) = GetRoom(rb[Out])
          /\ Good(rb[Out]) => Good(c)
        BY <1>0, <1>3, CopiedFields, CopyingKeeps
    <2>3. /\ rb'[Out] = c /\ DOMAIN rb' = Ring
          /\ txrx_mode = "TX" => /\ rb'["audio"] = rb["audio"]
                                 /\ \E cells : rb'["demod"] = Ruined(rb["demod"], cells)
          /\ txrx_mode = "RX" => rb'["demod"] = rb["demod"] /\ rb'["iq"] = rb["iq"]
        BY <2>1, Sides DEF Copy, Ring, FdvTypeOK
    <2> HIDE DEF c
    <2>4. \A r \in Ring : rb'[r] \in RingOf(RingSize[r])
        <3>1. CASE txrx_mode = "TX"
            <4>1. "demod" \in Ring
                BY DEF Ring
            <4>2. rb'["demod"] \in RingOf(RingSize["demod"])
                BY <2>3, <3>1, <4>1, Typed, Sizes, Ruin
            <4> QED
                BY <2>2, <2>3, <3>1, <4>2, Sides, Typed DEF Ring
        <3>2. CASE txrx_mode = "RX"
            BY <2>2, <2>3, <3>2, Sides, Typed DEF Ring
        <3> QED
            BY <3>1, <3>2 DEF FdvTypeOK
    <2>5. FdvTypeOK'
        BY <1>1, <2>1, <2>3, <2>4 DEF FdvTypeOK
    <2>6. DirectionInv'
        BY <1>1, <2>1 DEF DirectionInv, WasHere, First, Working, Clearing
    <2>7. LoadedInv'
        BY <1>1, <1>3, <2>1, <2>2, <2>3 DEF LoadedInv
    <2>8. RingInv'
        <3>1. CASE txrx_mode = "TX"
            BY <1>1, <1>2, <2>1, <2>2, <2>3, <3>1, Sides DEF RingInv, DirectionInv, Clearing
        <3>2. CASE txrx_mode = "RX"
            BY <1>1, <1>2, <2>1, <2>2, <2>3, <3>2, Sides DEF RingInv, Clearing
        <3> QED
            BY <3>1, <3>2 DEF FdvTypeOK
    <2> QED
        BY <1>1, <2>5, <2>6, <2>7, <2>8
<1>4. CASE ~(held.len < GetRoom(rb[Out]))
    <2>1. rb' = rb /\ held' = [held EXCEPT !.todo = @ - 1] /\ at' = "put"
        BY <1>4 DEF Put, Goto
    <2>2. FdvTypeOK'
        BY <1>1, <2>1 DEF FdvTypeOK
    <2>3. DirectionInv'
        BY <1>1, <2>1 DEF DirectionInv, WasHere, First, Working, Clearing
    <2>4. LoadedInv'
        BY <2>1 DEF LoadedInv
    <2>5. RingInv'
        BY <1>1, <2>1 DEF RingInv, Torn, Clearing
    <2> QED
        BY <1>1, <2>2, <2>3, <2>4, <2>5
<1> QED
    BY <1>3, <1>4

LEMMA StoreKeeps == ASSUME FdvInv, Store PROVE FdvInv'
<1> USE DEF FdvInv
<1>0. rb[Out] \in RingOf(RingSize[Out]) /\ RingSize[Out] \in Nat \ {0} /\ held.len \in Nat
    BY Sides, Typed, Sizes DEF FdvTypeOK
<1> DEFINE b == AdvanceHead(rb[Out], held.len)
<1>1. /\ UNCHANGED <<txrx_mode, filled, tx_was_here, rx_was_here, struck, fresh, unread>>
      /\ at = "store" /\ at' = "put" /\ In' = In /\ Out' = Out
      /\ rb' = [rb EXCEPT ![Out] = b] /\ held' = [held EXCEPT !.todo = @ - 1]
    BY DEF Store, Goto, Keep, history, In, Out
<1>2. /\ WasHere /\ ~Torn /\ held.todo > 0
      /\ held.len < GetRoom(rb[Out]) /\ Placed(rb[Out], held.len)
    BY <1>1 DEF DirectionInv, LoadedInv, Working, Torn, Clearing
<1>3. b \in RingOf(RingSize[Out]) /\ (Good(rb[Out]) => Good(b))
    BY <1>0, <1>2, AdvanceHeadFields, StoringKeeps
<1> HIDE DEF b
<1>4. DOMAIN rb' = Ring /\ rb'[Out] = b /\ \A r \in Ring : r # Out => rb'[r] = rb[r]
    BY <1>1, Sides DEF FdvTypeOK
<1>5. FdvTypeOK'
    BY <1>1, <1>2, <1>3, <1>4 DEF FdvTypeOK
<1>6. DirectionInv'
    BY <1>1 DEF DirectionInv, WasHere, First, Working, Clearing
<1>7. LoadedInv'
    BY <1>1 DEF LoadedInv
<1>8. RingInv'
    <2>1. CASE txrx_mode = "TX"
        <3>1. rb'["iq"] = b /\ rb'["demod"] = rb["demod"] /\ rb'["audio"] = rb["audio"] /\ Out = "iq"
            BY <1>4, <2>1, Sides DEF Ring
        <3> QED
            BY <1>1, <1>2, <1>3, <2>1, <3>1 DEF RingInv, Clearing
    <2>2. CASE txrx_mode = "RX"
        <3>1. rb'["audio"] = b /\ rb'["demod"] = rb["demod"] /\ Out = "audio"
            BY <1>4, <2>2, Sides DEF Ring
        <3> QED
            BY <1>1, <1>2, <1>3, <2>2, <3>1 DEF RingInv, Clearing
    <2> QED
        BY <2>1, <2>2 DEF FdvTypeOK
<1> QED
    BY <1>1, <1>5, <1>6, <1>7, <1>8

LEMMA FreeDvStarts == FdvInit => FdvInv
<1> SUFFICES ASSUME FdvInit PROVE FdvInv
    OBVIOUS
<1>1. ASSUME NEW size \in Nat \ {0}
      PROVE  EmptyRing(size) \in RingOf(size) /\ Good(EmptyRing(size))
    <2>1. EmptyRing(size) \in RingOf(size)
        BY DEF EmptyRing, RingOf
    <2> QED
        BY <2>1, Empty DEF EmptyRing
<1>2. \A r \in Ring : rb[r] \in RingOf(RingSize[r]) /\ Good(rb[r])
    BY <1>1, Sizes DEF FdvInit
<1>3. FdvTypeOK
    <2>1. DOMAIN rb = Ring
        BY DEF FdvInit
    <2>2. filled \in [{"RX", "TX"} -> BOOLEAN]
        BY DEF FdvInit
    <2>3. held \in [index : Nat, number : Nat, len : Nat, todo : Nat]
        BY DEF FdvInit
    <2> QED
        BY <1>2, <2>1, <2>2, <2>3 DEF FdvTypeOK, FdvInit
<1>4. DirectionInv
    BY DEF DirectionInv, FdvInit, First, Working, Clearing
<1>5. LoadedInv
    BY DEF LoadedInv, FdvInit
<1>6. RingInv
    BY <1>2 DEF RingInv, FdvInit, Ring, Clearing
<1> QED
    BY <1>3, <1>4, <1>5, <1>6 DEF FdvInv, FdvInit

LEMMA FreeDvStutters == ASSUME FdvInv, UNCHANGED fdvVars PROVE FdvInv'
BY DEF FdvInv, fdvVars, history, FdvTypeOK, DirectionInv, WasHere, LoadedInv, RingInv, Torn, In, Out

\* In every build with rings of any size and frames of any length the rings of FreeDV
\* that are in use stay in order, wherever the audio interrupt comes in
\* FreeDv_HandleFreeDv and however the direction changes (rb.c, freedv_uhsdr.c).
THEOREM FreeDvInOrder == FdvSpec => []FdvInv
<1>1. FdvInv /\ [FdvNext]_fdvVars => FdvInv'
    <2> SUFFICES ASSUME FdvInv, [FdvNext]_fdvVars PROVE FdvInv'
        OBVIOUS
    <2>1. ASSUME NEW n \in {Few, Few + 1}, NEW n2 \in {Few, Few + 1}, Interrupt(n, n2) PROVE FdvInv'
        BY <2>1, InterruptKeeps
    <2>2. CASE Begin
        BY <2>2, BeginKeeps
    <2>3. CASE LoadHead
        BY <2>3, LoadHeadKeeps
    <2>4. CASE StoreTail
        BY <2>4, StoreTailKeeps
    <2>5. CASE TestTail
        BY <2>5, TestTailKeeps
    <2>6. CASE LoadTail
        BY <2>6, LoadTailKeeps
    <2>7. CASE StoreHead
        BY <2>7, StoreHeadKeeps
    <2>8. CASE TestHead
        BY <2>8, TestHeadKeeps
    <2>9. CASE Get
        BY <2>9, GetKeeps
    <2>10. ASSUME NEW nin \in Nin, Decode(nin) PROVE FdvInv'
        BY <2>10, DecodeKeeps
    <2>11. CASE Took
        BY <2>11, TookKeeps
    <2>12. CASE Put
        BY <2>12, PutKeeps
    <2>13. CASE Store
        BY <2>13, StoreKeeps
    <2>14. CASE AllPut
        BY <2>14, AllPutKeeps
    <2>15. CASE Return
        BY <2>15, ReturnKeeps
    <2>16. CASE UNCHANGED fdvVars
        BY <2>16, FreeDvStutters
    <2> QED
        BY <2>1, <2>2, <2>3, <2>4, <2>5, <2>6, <2>7, <2>8, <2>9, <2>10, <2>11, <2>12, <2>13,
    <2>14, <2>15, <2>16 DEF FdvNext, HandleFreeDv
<1> QED
    BY <1>1, FreeDvStarts, PTL DEF FdvSpec

\* So each sample the interrupt sends or plays and the codec encodes or decodes is the
\* one put in next after the last one taken (RingBuffer_PutSamples, _GetSamples).
THEOREM EachSampleAlwaysOnce == FdvSpec => []EachSampleOnce
<1>1. FdvInv => EachSampleOnce
    BY DEF FdvInv, EachSampleOnce
<1> QED
    BY <1>1, FreeDvInOrder, PTL

--------------------------------------------------------------------------------
\* With both in one radio each moves as its own specification says, so that what is
\* proved of either holds of the radio (TxProcessor_Run and PendSV serve the one that
\* is selected and leave the other's state alone).
THEOREM ModesKeepApart == ModesSpec => Init /\ [][Next]_vars /\ FdvSpec
<1>1. ModesInit => Init /\ FdvInit
    BY DEF ModesInit
<1>2. [ModesNext]_modesVars => [Next]_vars /\ [FdvNext]_fdvVars
  <2> SUFFICES ASSUME [ModesNext]_modesVars
               PROVE  [Next]_vars /\ [FdvNext]_fdvVars
      OBVIOUS
  <2>1. CASE TextStep
      BY <2>1 DEF TextStep
  <2>2. CASE FreeDvStep
      BY <2>2 DEF FreeDvStep
  <2>3. CASE UNCHANGED modesVars
      BY <2>3 DEF modesVars
  <2> QED
      BY <2>1, <2>2, <2>3 DEF ModesNext
<1> QED
    BY <1>1, <1>2, PTL DEF ModesSpec, FdvSpec

\* The safety properties of both, of the radio: waiting text has its consumer, a
\* recording is not transmitted, each sample of FreeDV goes through its ring once and
\* in order, whichever digital mode is selected.
THEOREM RadioSafe == ModesSpec => [](ConsumerSet /\ EachSampleOnce) /\ RecordingKept
<1>1. TypeOK /\ ConsumerInv /\ [Next]_vars => TypeOK' /\ ConsumerInv'
    BY TypeStep, ConsumerStep
<1>2. ConsumerInv => ConsumerSet
    BY DEF ConsumerInv, ConsumerSet
<1> QED
    BY <1>1, <1>2, TypeInit, ConsumerInit, RecordingStep, ModesKeepApart,
       EachSampleAlwaysOnce, PTL DEF RecordingKept
================================================================================
