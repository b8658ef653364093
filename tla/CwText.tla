--------------------------------- MODULE CwText ---------------------------------
(***************************************************************************)
(* The electronic keyer of the CW generator (cw_gen.c): two paddles, the   *)
(* characters of the text buffer, and the transmitter it has to wait for.  *)
(*                                                                         *)
(* The keyer is a state machine run by every audio interrupt, in receive   *)
(* mode too; it goes through several of its states in one run.  A press of *)
(* a paddle is seen by the line interrupt, which asks for TX and throws    *)
(* the text away, and later by the keyer.  PendSV's handler switches       *)
(* between RX and TX; the audio interrupt may come between its test and    *)
(* its clearing of the request flags.                                      *)
(*                                                                         *)
(* A Morse code is a sequence of elements instead of a number in base 4,   *)
(* so CwGen_ReverseCode and the shifting are taking the first element.     *)
(* Times are in runs of the keyer, scaled down; what counts is their order. *)
(***************************************************************************)
EXTENDS TextBuffer

CONSTANTS
    Morse,          \* cw_char_chars, cw_char_codes: the elements of each letter
    Macros,         \* texts of the keyer buttons; may hold characters without code
    ElementTime,    \* dit_time and dah_time
    Pause,          \* pause_time
    Space,          \* space_time
    Settings,       \* the operator's choices of keyer mode (iambic A or B,
                    \* ultimatic) and of CwGen_GetBreakTime
    MaxCode,        \* bound: elements of cw_char that are kept apart
    Refusals        \* TRUE: the frequency may not be permitted for TX

Element == {"dit", "dah"}

NoChar  == "none"

ASSUME MorseAssumption ==
    /\ \A c \in DOMAIN Morse : Morse[c] \in Seq(Element) /\ Len(Morse[c]) \in 1..MaxCode
    /\ {"blank", NoChar} \intersect DOMAIN Morse = {}
    /\ Macros \subseteq Seq(STRING) /\ MaxCode \in Nat
ASSUME TimesAssumption ==
    /\ ElementTime \in [Element -> Nat \ {0}] /\ Pause \in Nat \ {0}
    /\ Space \in Nat /\ Space > ElementTime["dah"]
    /\ Settings \subseteq [mode : {"A", "B", "ultimate"}, breakTime : Nat \ {0}]
    /\ Refusals \in BOOLEAN

VARIABLES
    key,        \* PaddleState ps; pressed holds CW_DIT_L and CW_DAH_L
    buffer,     \* the text buffer
    lines,      \* the paddles that are pressed
    trx, ptt_req, tx_stop_req,
    pc,         \* where PendSV's handler is, and whether the keyer ran meanwhile
    permitted,  \* the dial is on a frequency TX is permitted on
    history     \* see History

radio   == <<trx, ptt_req, tx_stop_req, pc, permitted>>
vars    == <<key, buffer, lines, radio, history>>

\* taken: the character the keyer took and has not decoded yet.  byHand: a
\* paddle had a part in the present character.  wrong: a character was not
\* decoded as it was taken.  last: the last element; squeezed: both paddles
\* have been pressed since it began.  stopped: the last request was made with
\* the operator's TX button or was refused, or the keyer's request to stop was
\* erased by the handler that served the request to transmit before it.
History == [taken : DOMAIN Morse \union {"blank", NoChar}, byHand : BOOLEAN, wrong : BOOLEAN,
            last : Element, squeezed : BOOLEAN, stopped : BOOLEAN]

--------------------------------------------------------------------------------
(***************************************************************************)
(* The keyer as a value.                                                   *)
(***************************************************************************)

\* CwGen_CheckPaddleState
CheckPaddle(k) == [k EXCEPT !.pressed = @ \union lines]

\* CwGen_TestFirstPaddle: a paddle pressed alone is the first one.
TestFirstPaddle(k, pressed) ==
    IF k.mode # "ultimate" \/ pressed \notin {{"dit"}, {"dah"}} THEN k
    ELSE [k EXCEPT !.ultim = (pressed = {"dah"})]

\* A mutation of MayFetch: a letter is fetched while the one before is sent.
MayFetchEarly(k) == ~k.end /\ k.space < Space - ElementTime["dah"] /\ CanRemove(buffer, "CW")

\* CwGen_CheckDigiBufferState takes a character when the last one is decoded
\* and the gap between letters has passed.
MayFetch(k) == /\ k.sending = <<>> /\ ~k.end
               /\ k.space < Space - ElementTime["dah"]
               /\ CanRemove(buffer, "CW")

IsLetter(c) == c \in DOMAIN Morse

\* A blank sets the space timer; a character without a code is passed over.
Fetched(k, c) ==
    CASE IsLetter(c)  -> [k EXCEPT !.sending = Morse[c]]
      [] c = "blank"  -> [k EXCEPT !.sending = <<"blank">>, !.space = Space]
      [] OTHER        -> k

\* The next element of the text is put in as if its paddle were pressed.
NextElement(k) ==
    IF k.sending = <<>> \/ k.sending = <<"blank">> THEN k
    ELSE [k EXCEPT !.pressed = @ \union {Head(k.sending)}, !.sending = Tail(@)]

\* CW_DIT_CHECK, CW_DAH_CHECK and CW_KEY_DOWN: an element begins.
Begin(k, e) ==
    [k EXCEPT !.state = "keyUp", !.timer = ElementTime[e] - 1, !.pressed = {},
              !.ditProc = @ \/ e = "dit",
              !.code = Append(IF Len(@) > MaxCode THEN Tail(@) ELSE @, e)]

\* CW_WAIT: the keyer waits for the transmitter; a dit comes first.
Wait(k) == IF trx # "TX" THEN [k EXCEPT !.state = "wait"]
           ELSE Begin(k, IF "dit" \in k.pressed THEN "dit" ELSE "dah")

\* The end of a character, the end of a word and the end of the transmission,
\* with no paddle pressed.
EndOfChar(k) == IF k.end THEN [k EXCEPT !.end = FALSE, !.code = <<>>, !.space = Space] ELSE k

\* A mutation of EndOfWord: the blank is not marked as sent.
EndOfWordKeepsBlank(k) ==
    CASE k.space = 1 -> [k EXCEPT !.space = 0, !.code = <<>>]
      [] k.space > 1 -> [k EXCEPT !.space = @ - 1]
      [] OTHER       -> k

EndOfWord(k) ==
    CASE k.space = 1 -> [k EXCEPT !.space = 0, !.code = <<>>,
                                  !.sending = IF @ = <<"blank">> THEN <<>> ELSE @]
      [] k.space > 1 -> [k EXCEPT !.space = @ - 1]
      [] OTHER       -> k

\* A mutation of CountDown: the break time never comes to its end.
CountDownOnce(k) == IF k.break > 1 THEN [k EXCEPT !.break = @ - 1] ELSE k

CountDown(k) == IF k.break > 0 THEN [k EXCEPT !.break = @ - 1] ELSE k

\* CW_IDLE, on the keyer after fetching.
Idle(k) ==
    LET next == NextElement(k)
    IN  IF next.pressed # {} THEN Wait(next)
        ELSE CountDown(EndOfWord(EndOfChar([next EXCEPT !.state = "idle"])))

\* An element is over with nothing to follow at once: the rest is decided in
\* CW_IDLE, which this run goes on to.
ToIdle(k) == CheckPaddle([k EXCEPT !.state = "idle", !.end = TRUE, !.break = k.breakTime])

\* A mutation of PauseOver: the dit is not marked as done, so the dah has no
\* turn.
PauseOverNoTurn(k) ==
    LET p == CheckPaddle(k)
    IN  Idle(ToIdle([p EXCEPT !.pressed = @ \ {"dah"}, !.ditProc = FALSE]))

\* The end of CW_PAUSE: iambic keying goes on to the dah after a dit, the
\* ultimatic keyer to the dah when the dit was pressed first.
PauseOver(k) ==
    LET p     == TestFirstPaddle(CheckPaddle(k), lines)
        toDah == [p EXCEPT !.pressed = @ \ {"dit"}, !.ditProc = FALSE]
        ended == Idle(ToIdle([p EXCEPT !.pressed = @ \ {"dah"}]))
    IN  IF p.mode = "ultimate"
        THEN IF "dah" \in p.pressed /\ ~p.ultim THEN Begin(toDah, "dah") ELSE ended
        ELSE IF ~p.ditProc THEN ended
             ELSE IF "dah" \in p.pressed THEN Begin(toDah, "dah") ELSE Idle(ToIdle(toDah))

KeyUp(k) ==
    IF k.timer = 0 THEN [k EXCEPT !.state = "pause", !.timer = Pause]
    ELSE LET down == [k EXCEPT !.timer = @ - 1]
         IN  IF k.mode = "B" THEN CheckPaddle(down) ELSE down

PauseRun(k) == IF k.timer > 1 THEN [k EXCEPT !.timer = @ - 1]
               ELSE PauseOver([k EXCEPT !.timer = 0])

\* CwGen_ProcessIambic for a keyer that has fetched what it may.
ProcessIambic(k) ==
    CASE k.state = "idle"  -> Idle(CheckPaddle(k))
      [] k.state = "wait"  -> Wait(k)
      [] k.state = "keyUp" -> KeyUp(k)
      [] k.state = "pause" -> PauseRun(k)

--------------------------------------------------------------------------------
(***************************************************************************)
(* What happens.                                                           *)
(***************************************************************************)

RequestTxOn  == ptt_req' = TRUE /\ UNCHANGED tx_stop_req
RequestTxOff == ptt_req' = FALSE /\ tx_stop_req' = TRUE

\* What CwGen_AddChar makes of the elements.
Decoded(code) == {c \in DOMAIN Morse : Morse[c] = code}

\* A run in which a character was decoded, one in which the word ended, and
\* one that began an element.
CharEnds(k, k1) == k.code # <<>> /\ k1.code = <<>>
WordEnds(k, k1) == k1.state = "idle" /\ k1.space = 0 /\ k.space = 1
Begins(k, k1)   == k1.state = "keyUp" /\ k1.timer = ElementTime[k1.code[Len(k1.code)]] - 1
                   /\ (k.state # "keyUp")

\* The break time is over; the shortest one ends in the run that sets it.
TimesOut(k, k1) == /\ k1.state = "idle" /\ k1.break = 0
                   /\ k.break = 1 \/ (k.state = "pause" /\ k.breakTime = 1)

Note(k, fetched, c) ==
    LET h       == history
        charEnd == CharEnds(k, key')
        wordEnd == WordEnds(k, key')
        good    == IF charEnd THEN h.taken \in Decoded(k.code)
                   ELSE wordEnd => h.taken \in {"blank", NoChar}
        owed    == h.taken # NoChar
        begun   == Begins(k, key')
    IN  history' =
          [h EXCEPT !.taken = IF fetched /\ (IsLetter(c) \/ c = "blank") THEN c
                              ELSE IF charEnd \/ wordEnd THEN NoChar ELSE @,
                    !.wrong = @ \/ (~h.byHand /\ ((fetched /\ owed) \/ ~good)),
                    !.byHand = lines # {} \/ (@ /\ ~charEnd),
                    !.last = IF begun THEN key'.code[Len(key'.code)] ELSE @,
                    !.squeezed = IF begun THEN lines = Element ELSE @,
                    !.stopped = @ /\ ~(fetched /\ IsLetter(c))]

\* The audio interrupt; PendSV's handler is over before an element is.
KeyerRun ==
    LET fetches == key.state = "idle" /\ MayFetch(key)
        c       == Head(buffer.waiting)
        k       == IF fetches THEN Fetched(key, c) ELSE key
    IN  /\ ~pc.hit
        /\ key' = ProcessIambic(k)
        /\ pc' = IF pc.at = "idle" THEN pc
                 ELSE [at |-> IF pc.at = "served" /\ TimesOut(key, key') THEN "erased" ELSE pc.at,
                       hit |-> TRUE]
        /\ buffer' = IF fetches THEN Removed(buffer) ELSE buffer
        /\ CASE fetches /\ IsLetter(c)                -> RequestTxOn
             [] TimesOut(key, key')                   -> RequestTxOff
             [] OTHER                                 -> UNCHANGED <<ptt_req, tx_stop_req>>
        /\ Note(k, fetches, c)
        /\ UNCHANGED <<lines, trx, permitted>>

\* HAL_GPIO_EXTI_Callback for a paddle: a press throws the text away.
PressPaddle(p) ==
    /\ p \notin lines /\ lines' = lines \union {p}
    /\ RequestTxOn
    /\ buffer' = ResetBuffer(buffer)
    /\ key' = TestFirstPaddle([key EXCEPT !.sending = <<>>], lines')
    /\ history' = [history EXCEPT !.byHand = TRUE, !.taken = NoChar, !.stopped = FALSE]
    /\ UNCHANGED <<trx, pc, permitted>>

\* A press lasts until a run of the keyer has seen it.
ReleasePaddle(p) ==
    /\ p \in lines /\ lines' = lines \ {p}
    /\ key.state # "idle"
    /\ history' = [history EXCEPT !.squeezed = FALSE]
    /\ UNCHANGED <<key, buffer, radio>>

\* UiAction_PlayKeyerBtnN in CW
PlayKeyerBtn(text) ==
    /\ pc.at = "idle"
    /\ buffer' = PutText(buffer, text, "UI")
    /\ RequestTxOn
    /\ history' = [history EXCEPT !.stopped = FALSE]
    /\ UNCHANGED <<key, lines, trx, pc, permitted>>

\* UiAction_ToggleTxRx
ToggleTxRx ==
    /\ pc.at = "idle"
    /\ IF trx = "RX" THEN RequestTxOn ELSE RequestTxOff
    /\ history' = [history EXCEPT !.stopped = TRUE]
    /\ UNCHANGED <<key, buffer, lines, trx, pc, permitted>>

\* The dial, in receive mode.
Dial == /\ Refusals /\ trx = "RX" /\ pc.at = "idle"
        /\ permitted' = ~permitted
        /\ UNCHANGED <<key, buffer, lines, trx, ptt_req, tx_stop_req, pc, history>>

\* RadioManagement_HandlePttOnOff in CW: a request to transmit is served, or
\* else a stop request ...
HandlePttOnOff ==
    /\ pc.at = "idle"
    /\ \/ /\ ptt_req
          /\ trx' = IF trx = "TX" \/ permitted THEN "TX" ELSE "RX"
          /\ pc' = [at |-> "served", hit |-> FALSE]
       \/ /\ ~ptt_req /\ tx_stop_req
          /\ trx' = "RX"
          /\ pc' = [at |-> "stopped", hit |-> FALSE]
    /\ UNCHANGED <<key, buffer, lines, ptt_req, tx_stop_req, permitted, history>>

\* ... and the request is cleared.
ClearRequest ==
    /\ pc.at # "idle" /\ pc' = [at |-> "idle", hit |-> FALSE]
    /\ tx_stop_req' = FALSE
    /\ ptt_req' = IF pc.at = "stopped" THEN ptt_req ELSE FALSE
    /\ history' = [history EXCEPT !.stopped = @ \/ pc.at = "erased" \/ (pc.at = "served" /\ trx = "RX")]
    /\ UNCHANGED <<key, buffer, lines, trx, permitted>>

Init ==
    /\ \E s \in Settings :
         key = [state |-> "idle", pressed |-> {}, ditProc |-> FALSE, end |-> FALSE,
                timer |-> 0, break |-> 0, space |-> 0, code |-> <<>>, sending |-> <<>>,
                ultim |-> FALSE, mode |-> s.mode, breakTime |-> s.breakTime]
    /\ buffer = EmptyBuffer("CW")
    /\ lines = {}
    /\ trx = "RX" /\ ptt_req = FALSE /\ tx_stop_req = FALSE
    /\ pc = [at |-> "idle", hit |-> FALSE]
    /\ permitted = TRUE
    /\ history = [taken |-> NoChar, byHand |-> FALSE, wrong |-> FALSE, last |-> "dit",
                  squeezed |-> FALSE, stopped |-> FALSE]

Operator == \/ \E p \in Element : PressPaddle(p) \/ ReleasePaddle(p)
            \/ \E text \in Macros : PlayKeyerBtn(text)
            \/ ToggleTxRx \/ Dial

Next == KeyerRun \/ HandlePttOnOff \/ ClearRequest \/ Operator

\* The audio interrupt comes 1500 times a second and triggers PendSV.
Spec == /\ Init /\ [][Next]_vars
        /\ WF_vars(KeyerRun) /\ WF_vars(HandlePttOnOff) /\ WF_vars(ClearRequest)

--------------------------------------------------------------------------------
\* PaddleState; sending is the rest of a letter, or the blank.
Keyer == {k \in [state : {"idle", "wait", "keyUp", "pause"}, pressed : SUBSET Element,
                 ditProc : BOOLEAN, end : BOOLEAN, timer : Nat, break : Nat,
                 space : 0..Space, code : Seq(Element),
                 sending : Seq(Element) \union {<<"blank">>}, ultim : BOOLEAN,
                 mode : {"A", "B", "ultimate"}, breakTime : Nat \ {0}] :
              Len(k.code) <= MaxCode + 1}

\* The characters of the macros, which are all that comes into the buffer.
Character == UNION {{text[i] : i \in DOMAIN text} : text \in Macros}

\* The state has its type: no timer runs below zero, and cw_char, which an
\* endless squeeze shifts again and again, keeps a bounded number of elements.
TypeOK ==
    /\ key \in Keyer
    /\ buffer \in BufferOf(Character)
    /\ lines \subseteq Element
    /\ trx \in {"RX", "TX"} /\ {ptt_req, tx_stop_req, permitted} \subseteq BOOLEAN
    /\ pc \in [at : {"idle", "served", "stopped", "erased"}, hit : BOOLEAN]
    /\ history \in History

\* Every character of a macro is sent as itself: it is decoded from its own
\* elements, complete and not run together with a neighbour, before the next
\* one is taken, whatever the break time does between the letters and whatever
\* buttons are pressed, unless a paddle interferes (CwGen_CheckDigiBufferState,
\* the space timer and CwGen_AddChar have to agree for that).
SentAsWritten == ~history.wrong

\* While both paddles are squeezed an iambic keyer alternates dits and dahs: "if
\* Dit/Dah is discriminated in this function, it breaks the Iambic-ness"
\* (cw_gen.c:846), which hangs on CW_DIT_PROC and on which of the two latches
\* each state clears.
SqueezeAlternates ==
    [][history.squeezed /\ key.mode # "ultimate" /\ Begins(key, key')
         => history'.last # history.last]_vars

\* What was put into the buffer is sent: the keyer neither waits for ever for a
\* transmitter it has asked for nor keeps a character for ever, unless the
\* operator stops it, the request is refused, or a paddle throws the text away.
\* Of a text that is always renewed, a next character is taken again and again.
Interfered == history.stopped \/ lines # {}
AllSent    == ~HasData(buffer) /\ history.taken = NoChar
TextIsSent == \/ []<>(AllSent \/ Interfered)
              \/ []<><<HasData(buffer) /\ buffer' = Removed(buffer)>>_vars

\* A transmission in which an element was keyed ends, when no more text comes:
\* the break time is set at the end of every element, and nobody else ends a CW
\* transmission.
KeyedTransmissionEnds ==
    (trx = "TX" /\ key.state = "keyUp")
        ~> (trx = "RX" \/ HasData(buffer) \/ Interfered)
================================================================================
