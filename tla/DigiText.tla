-------------------------------- MODULE DigiText --------------------------------
(***************************************************************************)
(* Text in the digital modes: the PSK and the RTTY modulator, which take   *)
(* the characters of the text buffer (psk.c, rtty.c), the macro buttons    *)
(* that put them in or record them (ui_driver.c), the Morse keyer as a     *)
(* second source of text, and PendSV's handler, which starts and stops the *)
(* transmission (radio_management.c).                                      *)
(*                                                                         *)
(* The audio interrupt makes the steps of the modulators and of the keyer; *)
(* it and the line interrupt may come between the handler's test and its   *)
(* clearing of the request flags.  The main loop runs only when the handler*)
(* does not.  It can run between an audio interrupt and the handler,       *)
(* because it disables switching for a time.                               *)
(***************************************************************************)
EXTENDS TextBuffer

CONSTANTS
    Macros,         \* the texts of the macro buttons
    Letters,        \* the characters with a code
    CharBits,       \* bits of a character's varicode
    OnesBits,       \* bits of one round of the postamble, 16
    Preamble,       \* the zeros of the preamble, the PSK speed
    Rounds,         \* the rounds of the postamble, the PSK speed / 16
    MaxInputs,      \* bound: texts and keyed characters in a behaviour
    Refusals        \* TRUE: a request to transmit may be refused

EOT  == "EOT"
Mode == {"BPSK", "RTTY", "USB"}
TextMode == {"BPSK", "RTTY"}

ASSUME TextAssumption ==
    /\ EOT \notin Letters /\ Macros \subseteq Seq(STRING)
    /\ {CharBits, OnesBits, Preamble, Rounds} \subseteq Nat \ {0}
    /\ MaxInputs \in Nat /\ Refusals \in BOOLEAN

VARIABLES
    mode,       \* ts.dmod_mode and ts.digital_mode
    buffer,     \* the text buffer
    psk,        \* psk_state: tx_mod_state, tx_bits, tx_zeros, tx_ones
    trx, ptt_req, tx_stop_req,
    pc,         \* where PendSV's handler is, and whether a modulator has made a
                \* step meanwhile; the handler is over before the next bit
    recording,  \* keyer_mode.button_recording, ts.cw_text_entry
    keyed,      \* the keyer's break timer runs
    inputs,     \* texts and keyed characters so far
    told        \* the mode was set with UiDriver_SetDemodMode

radio   == <<trx, ptt_req, tx_stop_req, pc>>
vars    == <<mode, buffer, psk, radio, recording, keyed, inputs, told>>

Init ==
    /\ mode \in Mode
    /\ buffer = IF mode = "USB" THEN EmptyBuffer("none") ELSE EmptyBuffer(mode)
    /\ psk = [state |-> "OFF", bits |-> 0, zeros |-> 0, ones |-> 0]
    /\ trx = "RX" /\ ptt_req = FALSE /\ tx_stop_req = FALSE
    /\ pc = [at |-> "idle", hit |-> FALSE]
    /\ recording = FALSE /\ keyed = FALSE /\ inputs = 0 /\ told = TRUE

\* A step of a modulator, at most one while the handler is on its way.
ModulatorStep == ~pc.hit /\ pc' = [pc EXCEPT !.hit = pc.at # "idle"]

RequestTxOn  == ptt_req' = TRUE /\ UNCHANGED tx_stop_req
RequestTxOff == ptt_req' = FALSE /\ tx_stop_req' = TRUE

--------------------------------------------------------------------------------
(***************************************************************************)
(* The PSK modulator.                                                      *)
(***************************************************************************)

\* Psk_Modulator_PrepareTx
PrepareTx == [state |-> "PREAMBLE", bits |-> 0, zeros |-> 0, ones |-> 0]

\* The spacing zeros and the preamble.
Zero(p) == [p EXCEPT !.zeros = @ + 1,
                     !.state = IF @ = "PREAMBLE" /\ p.zeros + 1 >= Preamble THEN "ACTIVE" ELSE @]

\* A character is taken from the buffer.
Taken(p, c) == IF c = EOT THEN [p EXCEPT !.state = "POSTAMBLE"]
               ELSE [p EXCEPT !.state = "ACTIVE", !.bits = CharBits, !.zeros = 0, !.ones = 0]

\* A mutation of Postamble: it is never over.
PostambleForever(p) == IF p.state # "POSTAMBLE" THEN p
                       ELSE [p EXCEPT !.ones = IF @ < Rounds THEN @ + 1 ELSE @, !.bits = OnesBits]

\* A round of the postamble, and its end.
Postamble(p) == IF p.state # "POSTAMBLE" THEN p
                ELSE IF p.ones < Rounds THEN [p EXCEPT !.ones = @ + 1, !.bits = OnesBits]
                ELSE [p EXCEPT !.state = "INACTIVE"]

Shifted(p) == [p EXCEPT !.bits = IF @ = 0 THEN 0 ELSE @ - 1]

\* Psk_Modulator_GenSample at the start of a bit.
PskBitStart ==
    LET spacing == psk.zeros < 2 \/ psk.state = "PREAMBLE"
        takes   == psk.bits = 0 /\ ~spacing /\ CanRemove(buffer, "BPSK")
    IN  /\ trx = "TX" /\ mode = "BPSK" /\ psk.state \notin {"OFF", "INACTIVE"}
        /\ ModulatorStep
        /\ psk' = Shifted(CASE psk.bits > 0 -> psk
                            [] psk.bits = 0 /\ spacing -> Postamble(Zero(psk))
                            [] takes  -> Postamble(Taken(psk, Head(buffer.waiting)))
                            [] OTHER  -> Postamble(psk))
        /\ buffer' = IF takes THEN Removed(buffer) ELSE buffer
        /\ UNCHANGED <<mode, trx, ptt_req, tx_stop_req, recording, keyed, inputs, told>>

\* Psk_Modulator_GenSample in the middle of the last bit.
PskBitMiddle ==
    /\ trx = "TX" /\ mode = "BPSK" /\ psk.state = "INACTIVE"
    /\ ModulatorStep
    /\ psk' = [psk EXCEPT !.state = "OFF"]
    /\ RequestTxOff
    /\ UNCHANGED <<mode, buffer, trx, recording, keyed, inputs, told>>

--------------------------------------------------------------------------------
(***************************************************************************)
(* The RTTY modulator.                                                     *)
(***************************************************************************)

\* Rtty_Modulator_GenSample when a character is over: it takes what is waiting
\* up to the first character with a code; an end of text is passed on the way.
RttyChar ==
    LET w     == buffer.waiting
        coded == {i \in DOMAIN w : w[i] \in Letters}
        n     == IF coded = {} THEN Len(w) ELSE CHOOSE i \in coded : \A j \in coded : i <= j
    IN  /\ trx = "TX" /\ mode = "RTTY" /\ CanRemove(buffer, "RTTY")
        /\ ModulatorStep
        /\ buffer' = [buffer EXCEPT !.waiting = SubSeq(w, n + 1, Len(w))]
        /\ IF \E i \in 1..n : w[i] = EOT THEN RequestTxOff ELSE UNCHANGED <<ptt_req, tx_stop_req>>
        /\ UNCHANGED <<mode, psk, trx, recording, keyed, inputs, told>>

--------------------------------------------------------------------------------
(***************************************************************************)
(* The Morse keyer as a source of text (see CwText).                       *)
(***************************************************************************)

\* HAL_GPIO_EXTI_Callback: a paddle or the PTT line is pressed.
PressLine ==
    /\ mode \in TextMode \/ recording
    /\ RequestTxOn
    /\ UNCHANGED <<mode, buffer, psk, trx, pc, recording, keyed, inputs, told>>

\* CwGen_AddChar: a keyed character; the keyer runs while transmitting
\* (TxProcessor_CwInputForDigitalModes) and while recording.
KeyerChar(c) ==
    /\ (trx = "TX" /\ mode \in TextMode) \/ recording
    /\ inputs < MaxInputs /\ inputs' = inputs + 1
    /\ buffer' = PutText(buffer, <<c>>, "CW")
    /\ keyed' = TRUE
    /\ UNCHANGED <<mode, psk, radio, recording, told>>

\* The keyer's break time is over.
KeyerBreak ==
    /\ keyed /\ keyed' = FALSE
    /\ (trx = "TX" /\ mode \in TextMode) \/ recording
    /\ RequestTxOff
    /\ UNCHANGED <<mode, buffer, psk, trx, pc, recording, inputs, told>>

--------------------------------------------------------------------------------
(***************************************************************************)
(* PendSV's handler.                                                       *)
(***************************************************************************)

\* RadioManagement_HandlePttOnOff serves a request to transmit, which may be
\* refused before the switch (TX disabled) or within it (frequency) ...
ServeTxOn ==
    /\ pc.at = "idle" /\ ptt_req
    /\ pc' = [at |-> "served", hit |-> FALSE]
    /\ IF trx = "RX"
       THEN LET prepared == IF mode = "BPSK" THEN PrepareTx ELSE psk
            IN  \/ trx' = "TX" /\ psk' = prepared
                \/ Refusals /\ trx' = "RX" /\ psk' \in {psk, prepared}
       ELSE UNCHANGED <<trx, psk>>
    /\ UNCHANGED <<mode, buffer, ptt_req, tx_stop_req, recording, keyed, inputs, told>>

\* In a mode without text the transmission ends when the PTT line is released,
\* after the debounce time (see TxRxControl).
LineReleased == trx = "TX" /\ mode = "USB" /\ ~recording

\* A mutation of ServeTxOff: the modulator is always asked to end, even when it
\* has just done so.
ServeTxOffByModem ==
    /\ pc.at = "idle" /\ ~ptt_req /\ (tx_stop_req \/ LineReleased)
    /\ pc' = [at |-> "stopped", hit |-> FALSE]
    /\ IF mode = "BPSK"
       THEN psk' = [psk EXCEPT !.state = "POSTAMBLE"] /\ UNCHANGED trx
       ELSE trx' = "RX" /\ UNCHANGED psk
    /\ UNCHANGED <<mode, buffer, ptt_req, tx_stop_req, recording, keyed, inputs, told>>

\* ... or else a request to stop: an active PSK modulator is told to end ...
ServeTxOff ==
    /\ pc.at = "idle" /\ ~ptt_req /\ (tx_stop_req \/ LineReleased)
    /\ pc' = [at |-> "stopped", hit |-> FALSE]
    /\ IF mode = "BPSK" /\ psk.state = "ACTIVE"
       THEN psk' = [psk EXCEPT !.state = "POSTAMBLE"] /\ UNCHANGED trx
       ELSE trx' = "RX" /\ UNCHANGED psk
    /\ UNCHANGED <<mode, buffer, ptt_req, tx_stop_req, recording, keyed, inputs, told>>

\* ... and the request is cleared.
ClearRequest ==
    /\ pc.at # "idle" /\ pc' = [at |-> "idle", hit |-> FALSE]
    /\ tx_stop_req' = FALSE
    /\ ptt_req' = IF pc.at = "served" THEN FALSE ELSE ptt_req
    /\ UNCHANGED <<mode, buffer, psk, trx, recording, keyed, inputs, told>>

--------------------------------------------------------------------------------
(***************************************************************************)
(* The operator, served by the main loop.                                  *)
(***************************************************************************)

\* UiAction_PlayKeyerBtnN, with or without ts.buffered_tx
PlayKeyerBtn(text) ==
    /\ pc.at = "idle" /\ ~recording
    /\ inputs < MaxInputs /\ inputs' = inputs + 1
    /\ \E buffered \in BOOLEAN :
         buffer' = PutText(buffer, IF buffered THEN Append(text, EOT) ELSE text, "UI")
    /\ IF mode \in TextMode THEN RequestTxOn ELSE UNCHANGED <<ptt_req, tx_stop_req>>
    /\ UNCHANGED <<mode, psk, trx, pc, recording, keyed, told>>

\* UiAction_RecordKeyerBtnN
RecordKeyerBtn ==
    /\ pc.at = "idle" /\ ~recording /\ trx = "RX" /\ mode \in TextMode
    /\ recording' = TRUE
    /\ buffer' = ResetBuffer(SetConsumer(buffer, "UI"))
    /\ UNCHANGED <<mode, psk, radio, keyed, inputs, told>>

\* UiAction_PlayKeyerBtnN while recording: the text becomes the macro.
StopRecording ==
    /\ pc.at = "idle" /\ recording /\ recording' = FALSE
    /\ buffer' = RestoreConsumer(ResetBuffer(buffer))
    /\ UNCHANGED <<mode, psk, radio, keyed, inputs, told>>

\* UiAction_ToggleTxRx
ToggleTxRx ==
    /\ pc.at = "idle" /\ mode \in TextMode
    /\ IF trx = "RX" THEN RequestTxOn ELSE RequestTxOff
    /\ UNCHANGED <<mode, buffer, psk, trx, pc, recording, keyed, inputs, told>>

\* UiDriver_SetDemodMode, from the mode button
SetDemodMode(m) ==
    /\ pc.at = "idle" /\ trx = "RX" /\ m # mode
    /\ mode' = m /\ told' = TRUE
    /\ LET empty == ResetBuffer(buffer)
       IN  buffer' = IF m \in TextMode THEN SetConsumer(empty, m) ELSE empty
    /\ UNCHANGED <<psk, radio, recording, keyed, inputs>>

\* RadioManagement_SetDemodMode, from a band button, a CAT command or the box of
\* the digital mode: the text buffer is not told.
SetDemodModeOnly(m) ==
    /\ pc.at = "idle" /\ trx = "RX" /\ m # mode
    /\ mode' = m /\ told' = FALSE
    /\ UNCHANGED <<buffer, psk, radio, recording, keyed, inputs>>

Operator == \/ \E text \in Macros : PlayKeyerBtn(text)
            \/ RecordKeyerBtn \/ StopRecording \/ ToggleTxRx
            \/ \E m \in Mode : SetDemodMode(m) \/ SetDemodModeOnly(m)

Audio   == PskBitStart \/ PskBitMiddle \/ RttyChar
Keyer   == PressLine \/ KeyerBreak \/ \E c \in Letters : KeyerChar(c)
Handler == ServeTxOn \/ ServeTxOff \/ ClearRequest

Next == Audio \/ Keyer \/ Handler \/ Operator

\* The audio interrupt comes 1500 times a second and triggers PendSV.
Spec == /\ Init /\ [][Next]_vars
        /\ WF_vars(Audio) /\ WF_vars(KeyerBreak) /\ WF_vars(Handler)

--------------------------------------------------------------------------------
\* What the buffer may hold: what is keyed, the end of a text, and the macros.
Character == Letters \union {EOT} \union UNION {{text[i] : i \in DOMAIN text} : text \in Macros}

\* The state has its type; no more waits than there is room for.
TypeOK ==
    /\ mode \in Mode /\ {ptt_req, tx_stop_req, recording, keyed, told} \subseteq BOOLEAN
    /\ buffer \in BufferOf(Character)
    /\ psk \in [state : {"OFF", "PREAMBLE", "ACTIVE", "POSTAMBLE", "INACTIVE"},
                bits : Nat, zeros : Nat, ones : 0..Rounds]
    /\ trx \in {"RX", "TX"} /\ pc \in [at : {"idle", "served", "stopped"}, hit : BOOLEAN]
    /\ inputs \in 0..MaxInputs

\* "The allowed consumer for buffer should be set before using it"
\* (uhsdr_digi_buffer.h:37): text that waits in a text mode can be taken by the
\* modulator of that mode, whatever was recorded and whatever mode was chosen
\* meanwhile, unless it is being recorded, if the mode was set with
\* UiDriver_SetDemodMode.
ConsumerSet ==
    told /\ HasData(buffer) /\ mode \in TextMode => buffer.active = IF recording THEN "UI" ELSE mode

\* What is being recorded is not transmitted: no modulator takes a character of
\* it, although one may be running and sees that the buffer has data.
RecordingKept ==
    [][recording /\ recording' /\ mode' = mode
         => Len(buffer'.waiting) >= Len(buffer.waiting)]_vars

\* A request to transmit cancels a request to stop that is not yet served
\* (radio_management.c:1448); if it is the modulator's own, nothing ends the
\* transmission but the operator.
Dead       == trx = "TX" /\ mode = "BPSK" /\ psk.state = "OFF" /\ ~tx_stop_req
Superseded == Dead \/ (tx_stop_req /\ (ptt_req \/ pc.at = "served"))

\* The end-of-text character "tells the respective consumer to return to
\* receive after transmitting all characters before this" (ui_driver.c:5560), if
\* nothing is put in behind it.
EndsWithEot == HasData(buffer) /\ buffer.waiting[Len(buffer.waiting)] = EOT
EotReturns ==
    \A n \in 0..MaxInputs :
        (trx = "TX" /\ EndsWithEot /\ CanRemove(buffer, mode) /\ inputs = n)
            ~> (trx = "RX" \/ Superseded \/ inputs # n)

\* "Call this to switch off transmit as soon as possible"
\* (radio_management.c:1418).
Stopping  == trx = "TX" /\ tx_stop_req /\ ~ptt_req /\ pc.at = "idle"
StopEnds  == Stopping ~> (trx = "RX" \/ ptt_req)

\* The same when no text waits for the modulator and none is put in.
StopEndsIfEmpty ==
    \A n \in 0..MaxInputs :
        (Stopping /\ ~CanRemove(buffer, mode) /\ inputs = n)
            ~> (trx = "RX" \/ ptt_req \/ inputs # n)
================================================================================
