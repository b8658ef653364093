----------------------------- MODULE CwStraightKey -----------------------------
(***************************************************************************)
(* The straight key of the CW generator (cw_gen.c) together with the       *)
(* TX/RX switching of TxRxControl.                                         *)
(*                                                                         *)
(* In CW nobody but the keyer ends a transmission: HandlePttOnOff returns  *)
(* to RX on a stop request only, and the keyer makes that request when its *)
(* break time has passed with the key up.  The keyer runs in the audio     *)
(* interrupt, and in straight key mode only while the radio transmits; the *)
(* press that starts a transmission is seen by the line interrupt alone.   *)
(***************************************************************************)
EXTENDS TxRxControl

CONSTANTS
    CwBreak,        \* CwGen_GetBreakTime(), in calls of the keyer
    LongPresses     \* TRUE: a press lasts until the keyer has seen it

ASSUME ModeAssumption == Cw
ASSUME KeyAssumption == CwBreak \in Nat \ {0} /\ LongPresses \in BOOLEAN

VARIABLES
    key_timer,      \* 3: rising edge, 2: key down, 1: falling edge, 0: off
    break_timer,    \* calls left before the transmission is ended
    source          \* history: who made the last request, the key or another

keyVars == <<key_timer, break_timer, source>>
allVars == <<vars, keyVars>>

\* The keyer's variables have their types: the break time is never exceeded.
KeyTypeOK == /\ key_timer \in 0..3 /\ break_timer \in 0..CwBreak
             /\ source \in {"key", "other"}

\* A mutation of KeyRuns: the break time is not set at the end of the falling
\* edge, as if the one set at the rising edge were still whole.
KeyRunsOneBreak(down) ==
    LET pressed == down /\ key_timer = 0
        phase   == IF pressed THEN 3 ELSE key_timer
    IN  IF phase = 0
        THEN key_timer' = 0 /\ break_timer' = IF break_timer > 0 THEN break_timer - 1 ELSE 0
        ELSE /\ key_timer' = CASE phase = 1 -> 0 [] phase > 1 /\ ~down -> 1 [] OTHER -> 2
             /\ break_timer' = IF phase = 1 THEN 0 ELSE IF pressed THEN CwBreak ELSE break_timer

\* CwGen_ProcessStraightKey: key up counts the break time down; key down goes
\* through the edges of the symbol (each of one call here, longer in the
\* code), the break time being set at the beginning and at the end of it.
KeyRuns(down) ==
    LET pressed == down /\ key_timer = 0
        phase   == IF pressed THEN 3 ELSE key_timer
    IN  IF phase = 0
        THEN key_timer' = 0 /\ break_timer' = IF break_timer > 0 THEN break_timer - 1 ELSE 0
        ELSE /\ key_timer' = CASE phase = 1 -> 0 [] phase > 1 /\ ~down -> 1 [] OTHER -> 2
             /\ break_timer' = IF pressed \/ phase = 1 THEN CwBreak ELSE break_timer

\* The audio interrupt while the radio transmits and is not tuning.  PendSV's
\* handler was started by the interrupt before and is long done, so it is not
\* interrupted.  When the break time is over the keyer asks for RX.
KeyerInterrupt ==
    /\ radio.trx = "TX" /\ ~tune /\ pc["pendsv"] = "idle"
    /\ line \/ key_timer > 0 \/ break_timer > 0
    /\ KeyRuns(line)
    /\ IF key_timer = 0 /\ ~line /\ break_timer = 1
       THEN RequestTxOff /\ source' = "key"
       ELSE UNCHANGED <<requests, source>>
    /\ UNCHANGED <<radio, power, tune, inputs, breakTimer, pc, faults, history>>

\* The operator's key.  With LongPresses it is not touched while tuning and is
\* held until the keyer runs, or until the radio has refused to transmit.
PressKey == /\ LongPresses => ~tune /\ pc["main"] \notin KeyStep
            /\ PressLine /\ source' = "key"
            /\ UNCHANGED <<key_timer, break_timer>>

ReleaseKey == /\ LongPresses => \/ key_timer > 0
                                \/ radio.trx = "RX" /\ ~ptt_req /\ pc["pendsv"] = "idle"
              /\ ReleaseLine
              /\ UNCHANGED keyVars

OtherRequest == /\ ToggleTxRx \/ CatEnableTX
                /\ source' = "other"
                /\ UNCHANGED <<key_timer, break_timer>>

Others == /\ \/ Handlers \/ ToggleTune \/ TuneSwitch \/ TuneRead \/ TuneStore
             \/ ToggleTxDisable \/ StoreTxDisable \/ ChangeDial \/ FollowDial
             \/ (\E d \in Freq : Dial(d)) \/ Retune \/ Tick
          /\ UNCHANGED keyVars

KeyInit == Init /\ key_timer = 0 /\ break_timer = 0 /\ source = "other"

KeyNext == KeyerInterrupt \/ PressKey \/ ReleaseKey \/ OtherRequest \/ Others

\* Besides the fairness of TxRxControl, the audio interrupt keeps coming; it
\* finds PendSV idle, which its predecessor started and which is short.
KeySpec == /\ KeyInit /\ [][KeyNext]_allVars
           /\ WF_allVars(HandlePttOnOff("pendsv") /\ UNCHANGED keyVars)
           /\ WF_allVars(Tick /\ UNCHANGED keyVars)
           /\ SF_allVars(MainGoesOn /\ UNCHANGED keyVars)
           /\ SF_allVars(Retune /\ UNCHANGED keyVars)
           /\ SF_allVars(KeyerInterrupt)

\* A transmission that a touch of the key started ends by itself: "request
\* switch to TX and sets timers" (cw_gen.c:1075-1081).  Left alone with the
\* key up, the radio comes back to RX.
KeyedTransmissionEnds ==
    (radio.trx = "TX" /\ source = "key")
        ~> (radio.trx = "RX" \/ line \/ tune \/ catPtt \/ source # "key")

\* The key is never left in mid-symbol with the radio transmitting and nothing
\* counting towards the end: with the key up and its own request the last one
\* served, the keyer still has something to do or has asked for RX.
SomethingEndsIt ==
    radio.trx = "TX" /\ source = "key" /\ ~line /\ ~tune /\ ~catPtt /\ MainIdle
       => key_timer > 0 \/ break_timer > 0 \/ ptt_req \/ tx_stop_req
================================================================================
