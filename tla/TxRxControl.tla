------------------------------ MODULE TxRxControl ------------------------------
(***************************************************************************)
(* Switching the radio between receive and transmit (radio_management.c).  *)
(*                                                                         *)
(* Three contexts touch the same state.  Interrupts (the PTT line, audio)  *)
(* only set the request flags ptt_req and tx_stop_req and may come at any  *)
(* moment.  PendSV runs HandlePttOnOff and preempts the main loop.  The    *)
(* main loop runs CAT, the encoders and retuning inside critical sections  *)
(* that keep PendSV's handler out, but key actions and remote commands run *)
(* outside of them, so those are split into the steps PendSV can come      *)
(* between.  SwitchTxRx is one step: while it runs, the flag               *)
(* radioManagement_SwitchTxRx_running keeps PendSV's handler out, and      *)
(* interrupts change nothing it reads.                                     *)
(*                                                                         *)
(* Time is counted in ticks of ts.sysclock (10 ms).                        *)
(***************************************************************************)
EXTENDS Integers, FiniteSets

CONSTANTS
    Cw,          \* TRUE: the demodulation mode is CW, FALSE: a voice mode
    Split,       \* TRUE: split mode, receive and transmit VFO differ
    Freq,        \* dial frequencies
    TxFreq,      \* those ValidateFrequencyForTX permits
    Tunable,     \* those the local oscillator can be set to
    Home,        \* the dial frequency at start
    Debounce,    \* ptt_debounce_time
    Lockout,     \* minimal age of the last LO change, in ticks, less one
    LoFaults,    \* how often the LO may fail to take a frequency
    KeyRace,     \* TRUE: PendSV may run between the steps of a key action
    RemotePtt    \* TRUE: remote PTT_TOGGLE commands arrive

ASSUME FreqAssumption == Home \in TxFreq \intersect Tunable
                         /\ TxFreq \subseteq Freq /\ Tunable \subseteq Freq
ASSUME TimeAssumption == Debounce \in Nat /\ Lockout \in Nat /\ LoFaults \in Nat
ASSUME FlagAssumption == {Cw, Split, KeyRace, RemotePtt} \subseteq BOOLEAN

VARIABLES
    radio,       \* what SwitchTxRx and ChangeFrequency read and write
    power,       \* ts.power_level and ts.power_temp
    tune,        \* ts.tune
    ptt_req, tx_stop_req,
    line,        \* the PTT / DAH line is pressed
    catPtt,      \* cat_driver.cat_ptt_active
    breakTimer,  \* ticks since ptt_break_timer was started, or Idle
    pc,          \* where PendSV and the main loop are in their handlers
    faults,      \* LO failures so far
    chosen,      \* history: the receive frequency the operator last chose
    retuned      \* history: the frequency was changed since TX began

vars == <<radio, power, tune, ptt_req, tx_stop_req, line, catPtt, breakTimer,
          pc, faults, chosen, retuned>>
requests == <<ptt_req, tx_stop_req>>
inputs   == <<line, catPtt>>
history  == <<chosen, retuned>>

Mode     == {"RX", "TX"}
Context  == {"pendsv", "main"}
Idle     == -1                      \* PTT_BREAK_IDLE
Settled  == Lockout + 1             \* lockAge: the LO may be changed
Expired  == Debounce + 1            \* breakTimer: the break time is over
HandlerStep == {"request", "cancelStop", "served", "release", "stopped"}
KeyStep  == {"tuneSwitch", "tuneRead", "tuneStoreOn", "tuneStoreOff", "disable"}

\* The LO frequency of a dial frequency: RIT and the CW offset are taken to
\* be in use, so that receive and transmit need different LO settings.
TuneFrequency(dial, m) == <<dial, m>>

IsTxDisabled(r) == r.tx_disable # {}

(***************************************************************************)
(* The radio as a value.  ok says whether the LO takes the frequency over  *)
(* I2C when it is asked to.                                                *)
(***************************************************************************)

\* A mutation of ChangeFrequency: what was asked for is noted only when the
\* change is carried out, so a change that came too early is forgotten.
ChangeFrequencyForgets(r, dial, m, ok) ==
    IF r.lo = TuneFrequency(dial, m) \/ r.lockAge <= Lockout THEN r
    ELSE [r EXCEPT !.lo = TuneFrequency(dial, m), !.loReq = TuneFrequency(dial, m),
                   !.lockAge = 0]

\* RadioManagement_ChangeFrequency(false, dial, m): nothing happens while the
\* last change is too recent; the main loop tries again later.  A frequency
\* out of range counts as set, an I2C failure does not; both disable TX.
ChangeFrequency(r, dial, m, ok) ==
    LET wanted == TuneFrequency(dial, m)
        good   == ok /\ dial \in Tunable
        taken  == ok \/ dial \notin Tunable
    IN  IF r.lo = wanted \/ r.lockAge <= Lockout
        THEN [r EXCEPT !.loReq = wanted]
        ELSE [r EXCEPT !.loReq = wanted,
                       !.lockAge = 0,
                       !.lo = IF taken THEN wanted ELSE @,
                       !.tx_disable = IF good THEN @ \ {"OUTOFRANGE"}
                                              ELSE @ \union {"OUTOFRANGE"}]

Validates(dial) == dial \in TxFreq \intersect Tunable

\* A mutation of SavedVfo: the dial is saved also when the radio transmits.
SavedVfoAlways(r, want) == IF Split /\ want = "TX" THEN [r.vfo EXCEPT !["RX"] = r.dial] ELSE r.vfo

\* In split mode the dial is saved into the receive VFO on the way to TX.
SavedVfo(r, want) ==
    IF Split /\ want = "TX" /\ r.trx = "RX" THEN [r.vfo EXCEPT !["RX"] = r.dial] ELSE r.vfo

\* A mutation of Granted: the frequency is not validated.
GrantedAnywhere(r, dial) == ~IsTxDisabled(r) \/ Cw

\* tx_ok: whether the radio may transmit on this frequency.  In CW a disabled
\* transmitter does not count, to allow for training.
Granted(r, dial) == Validates(dial) /\ (~IsTxDisabled(r) \/ Cw)

\* A mutation of Antenna: it is switched although TX is disabled.
AntennaLoud(r, final) == final = "TX"

\* Board_EnableTXSignalPath: whether the antenna is on the transmitter.
Antenna(r, final) == final = "TX" /\ (r.path \/ ~IsTxDisabled(r))

\* RadioManagement_SwitchTxRx(want, ..).  In split mode the frequency comes
\* from the VFO of the wanted direction.  A refused TX runs the same steps as
\* a switch to RX.
SwitchTxRx(r, want, ok) ==
    LET vfo   == SavedVfo(r, want)
        dial  == IF Split THEN vfo[want] ELSE r.dial
        final == IF want = "TX" /\ Granted(r, dial) THEN "TX" ELSE "RX"
        new   == [r EXCEPT !.vfo = vfo, !.dial = dial, !.path = Antenna(r, final)]
    IN  IF final = "TX" /\ r.trx = "TX" THEN [r EXCEPT !.vfo = vfo]
        ELSE [ChangeFrequency(new, dial, final, ok) EXCEPT !.trx = final]

\* The LO answers: it fails at most LoFaults times.  Choosing a failure costs
\* one of them whether or not the LO was asked at all.
LoAnswers(ok) == /\ ok \/ faults < LoFaults
                 /\ faults' = faults + (IF ok THEN 0 ELSE 1)

Switch(want) ==
    /\ \E ok \in BOOLEAN : LoAnswers(ok) /\ radio' = SwitchTxRx(radio, want, ok)
    /\ retuned' = (retuned /\ radio'.trx = "TX")

\* UiDriver_UpdateFrequency: the LO is set for the dial and the direction, in one
\* step, as PendSV keeps off while I2C is in use (readyForIrqCall).
SetLo == \E ok \in BOOLEAN :
            LoAnswers(ok) /\ radio' = ChangeFrequency(radio, radio.dial, radio.trx, ok)

(***************************************************************************)
(* Who may run.                                                            *)
(***************************************************************************)

\* The main loop runs only when PendSV is done.
CanRun(c) == c = "pendsv" \/ pc["pendsv"] = "idle"

\* PendSV's handler starts when SwitchTxRx_Possible: not in a critical section
\* (those are single steps here) nor, unless KeyRace, inside a key action.
CanStart(c) == /\ pc[c] = "idle" /\ CanRun(c)
               /\ c = "main" => RemotePtt
               /\ pc["main"] \in KeyStep => KeyRace

MainIdle == pc = [c \in Context |-> "idle"]

Goto(c, step) == pc' = [pc EXCEPT ![c] = step]

(***************************************************************************)
(* RadioManagement_HandlePttOnOff, run by PendSV 1500 times a second and by *)
(* the main loop for a remote PTT_TOGGLE.                                  *)
(***************************************************************************)

\* Mutations of TuneBlocksPtt and of BreakTime: the handler runs while tuning;
\* the break timer starts again on each call.
TuneBlocksPttNever == FALSE
BreakTimeRestarts == IF line THEN Idle ELSE 0

TuneBlocksPtt == tune

\* The handler's choice: serve a request to transmit, else see whether the
\* transmission is over.  CAT's PTT holds TX; in CW only a stop request ends it.
StartHandler(c) ==
    /\ CanStart(c) /\ ~TuneBlocksPtt
    /\ \/ ptt_req /\ Goto(c, "request")
       \/ ~ptt_req /\ ~catPtt /\ (~Cw \/ tx_stop_req) /\ Goto(c, "release")
    /\ UNCHANGED <<radio, power, tune, requests, inputs, breakTimer, faults, history>>

ServeRequest(c) ==
    /\ pc[c] = "request" /\ CanRun(c)
    /\ IF radio.trx = "RX" /\ (~IsTxDisabled(radio) \/ Cw) THEN Switch("TX")
       ELSE UNCHANGED <<radio, faults, retuned>>
    /\ Goto(c, "cancelStop")
    /\ UNCHANGED <<power, tune, requests, inputs, breakTimer, chosen>>

\* A request to transmit cancels the stop requests ...
CancelStop(c) ==
    /\ pc[c] = "cancelStop" /\ CanRun(c)
    /\ tx_stop_req' = FALSE
    /\ Goto(c, "served")
    /\ UNCHANGED <<radio, power, tune, ptt_req, inputs, breakTimer, faults, history>>

\* ... and has been processed.
Served(c) ==
    /\ pc[c] = "served" /\ CanRun(c)
    /\ ptt_req' = FALSE
    /\ Goto(c, "idle")
    /\ UNCHANGED <<radio, power, tune, tx_stop_req, inputs, breakTimer, faults, history>>

\* The break timer runs from the moment the line is seen released.
BreakTime == IF line THEN Idle ELSE IF breakTimer = Idle THEN 0 ELSE breakTimer

\* Back to RX when the break time is over or TX has to stop at once.
Release(c) ==
    /\ pc[c] = "release" /\ CanRun(c)
    /\ IF radio.trx = "RX" THEN UNCHANGED <<radio, faults, breakTimer, retuned>>
       ELSE IF BreakTime = Expired \/ tx_stop_req
            THEN Switch("RX") /\ breakTimer' = Idle
            ELSE breakTimer' = BreakTime /\ UNCHANGED <<radio, faults, retuned>>
    /\ Goto(c, "stopped")
    /\ UNCHANGED <<power, tune, requests, inputs, chosen>>

Stopped(c) ==
    /\ pc[c] = "stopped" /\ CanRun(c)
    /\ tx_stop_req' = FALSE
    /\ Goto(c, "idle")
    /\ UNCHANGED <<radio, power, tune, ptt_req, inputs, breakTimer, faults, history>>

HandlePttOnOff(c) == StartHandler(c) \/ ServeRequest(c) \/ CancelStop(c) \/ Served(c)
                     \/ Release(c) \/ Stopped(c)

(***************************************************************************)
(* Key actions of the main loop, outside of its critical sections.         *)
(***************************************************************************)

\* UiAction_ToggleTuneMode: ts.tune = RadioManagement_Tune(!ts.tune).  With TX
\* disabled there is no tuning; otherwise the power level is set aside.
ToggleTune ==
    /\ MainIdle
    /\ IF IsTxDisabled(radio)
       THEN tune' = FALSE /\ UNCHANGED <<power, pc>>
       ELSE /\ Goto("main", "tuneSwitch")
            /\ power' = IF tune THEN power ELSE [level |-> "tune", temp |-> power.level]
            /\ UNCHANGED tune
    /\ UNCHANGED <<radio, requests, inputs, breakTimer, faults, history>>

TuneSwitch ==
    /\ pc["main"] = "tuneSwitch" /\ CanRun("main")
    /\ Switch(IF tune THEN "RX" ELSE "TX")
    /\ Goto("main", "tuneRead")
    /\ UNCHANGED <<power, tune, requests, inputs, breakTimer, chosen>>

\* A mutation of PowerAfterTune: the level set aside is not restored.
PowerAfterTuneKept == power

PowerAfterTune == IF tune THEN [power EXCEPT !.level = power.temp] ELSE power

\* The result of RadioManagement_Tune: whether the radio transmits now.
TuneRead ==
    /\ pc["main"] = "tuneRead" /\ CanRun("main")
    /\ power' = PowerAfterTune
    /\ Goto("main", IF radio.trx = "TX" THEN "tuneStoreOn" ELSE "tuneStoreOff")
    /\ UNCHANGED <<radio, tune, requests, inputs, breakTimer, faults, history>>

TuneStore ==
    /\ pc["main"] \in {"tuneStoreOn", "tuneStoreOff"} /\ CanRun("main")
    /\ tune' = (pc["main"] = "tuneStoreOn")
    /\ Goto("main", "idle")
    /\ UNCHANGED <<radio, power, requests, inputs, breakTimer, faults, history>>

\* UiAction_ToggleTxDisable, allowed only in receive mode.
ToggleTxDisable ==
    /\ MainIdle /\ radio.trx = "RX"
    /\ Goto("main", "disable")
    /\ UNCHANGED <<radio, power, tune, requests, inputs, breakTimer, faults, history>>

StoreTxDisable ==
    /\ pc["main"] = "disable" /\ CanRun("main")
    /\ radio' = [radio EXCEPT !.tx_disable =
                    IF "USER" \in @ THEN @ \ {"USER"} ELSE @ \union {"USER"}]
    /\ Goto("main", "idle")
    /\ UNCHANGED <<power, tune, requests, inputs, breakTimer, faults, history>>

RequestTxOn  == ptt_req' = TRUE /\ UNCHANGED tx_stop_req
RequestTxOff == ptt_req' = FALSE /\ tx_stop_req' = TRUE

\* UiAction_ToggleTxRx
ToggleTxRx ==
    /\ MainIdle
    /\ IF radio.trx = "RX" THEN RequestTxOn ELSE RequestTxOff
    /\ UNCHANGED <<radio, power, tune, inputs, breakTimer, pc, faults, history>>

\* A new frequency.  Whoever sets it, nobody looks at the transmit band, and
\* but for the encoder and the band buttons not at the direction either.
Redials(vfo, d) ==
    /\ MainIdle
    /\ radio' = [radio EXCEPT !.vfo = vfo, !.dial = d]
    /\ retuned' = (radio.trx = "TX")
    /\ UNCHANGED <<power, tune, requests, inputs, breakTimer, faults>>

DialsOnly(d) == /\ Redials(radio.vfo, d)
                /\ chosen' = IF Split /\ radio.trx = "TX" THEN chosen ELSE d

\* The active VFO's stored frequency and the other one's.  Without split mode the
\* former is written before it is read (ToggleVfoAB), so it is kept at Home.
VfoPair(rx, tx) == [m \in Mode |-> IF m = "TX" THEN tx ELSE IF Split THEN rx ELSE Home]

\* A touch of the spectrum and the key that rounds down to 1 kHz.
KeyDial(d) == DialsOnly(d) /\ Goto("main", "follow")

\* UiAction_ToggleVfoAB: the frequency the LO is set for (df.tune_old) is kept in
\* the active VFO and the other one becomes active, in split mode for receiving.
\* The CAT command of the same effect is this action, too.
ToggleVfoAB ==
    /\ Redials(VfoPair(radio.vfo["TX"], radio.lo[1]), radio.vfo["TX"])
    /\ chosen' = radio.vfo["TX"]
    /\ Goto("main", "follow")

\* UiAction_CopyVfoAB: the dial is copied into the other VFO.
CopyVfoAB ==
    /\ MainIdle
    /\ radio' = [radio EXCEPT !.vfo = VfoPair(@["RX"], radio.dial)]
    /\ Goto("main", "follow")
    /\ UNCHANGED <<power, tune, requests, inputs, breakTimer, faults, history>>

\* UiDriver_SelectBandMemory, from the band buttons, the band keypad and the
\* frequency keypad: the VFOs are those of another band, with any frequencies.
SelectBandMemory(rx, tx) ==
    /\ Redials(VfoPair(rx, tx), rx)
    /\ chosen' = rx
    /\ Goto("main", "follow")

\* UiDriver_FrequencyUpdateLOandDisplay, the end of each of these; PendSV may
\* have changed the direction, and in split mode the dial, in between.
FollowDial ==
    /\ pc["main"] = "follow" /\ CanRun("main")
    /\ SetLo
    /\ Goto("main", "idle")
    /\ UNCHANGED <<power, tune, requests, inputs, breakTimer, history>>

ChangeDial == \/ CopyVfoAB \/ ToggleVfoAB
              \/ \E d \in Freq : KeyDial(d) \/ \E tx \in Freq : SelectBandMemory(d, tx)

KeyActions == ToggleTune \/ TuneSwitch \/ TuneRead \/ TuneStore
              \/ ToggleTxDisable \/ StoreTxDisable \/ ToggleTxRx
              \/ ChangeDial \/ FollowDial

(***************************************************************************)
(* The critical sections of the main loop.                                 *)
(***************************************************************************)

\* CatDriver_CatEnableTX, on a CAT command or an edge of the RTS line.
CatEnableTX ==
    /\ MainIdle
    /\ \/ ~catPtt /\ ~IsTxDisabled(radio) /\ catPtt' = TRUE /\ RequestTxOn
       \/ catPtt /\ catPtt' = FALSE /\ RequestTxOff
    /\ UNCHANGED <<radio, power, tune, line, breakTimer, pc, faults, history>>

\* The frequency encoder, in receive mode only, and CAT commands at any time.
Dial(d) == DialsOnly(d) /\ UNCHANGED pc

\* STATE_UPDATE_FREQUENCY: the LO follows the dial, and an LO change that came
\* too early is tried again.  df.tune_old is the dial frequency of the LO.
Retune ==
    /\ MainIdle
    /\ radio.lo[1] # radio.dial \/ radio.lo # radio.loReq
    /\ SetLo
    /\ UNCHANGED <<power, tune, requests, inputs, breakTimer, pc, history>>

CriticalSections == CatEnableTX \/ (\E d \in Freq : Dial(d)) \/ Retune

(***************************************************************************)
(* Interrupts and time.                                                    *)
(***************************************************************************)

\* HAL_GPIO_EXTI_Callback: the PTT line was pressed.
PressLine ==
    /\ ~line /\ line' = TRUE
    /\ RequestTxOn
    /\ UNCHANGED <<radio, power, tune, catPtt, breakTimer, pc, faults, history>>

ReleaseLine ==
    /\ line /\ line' = FALSE
    /\ UNCHANGED <<radio, power, tune, requests, catPtt, breakTimer, pc, faults, history>>

Tick ==
    /\ \/ radio.lockAge < Settled
       \/ breakTimer \in 0..Debounce
    /\ radio' = [radio EXCEPT !.lockAge = IF @ < Settled THEN @ + 1 ELSE @]
    /\ breakTimer' = IF breakTimer \in 0..Debounce THEN breakTimer + 1 ELSE breakTimer
    /\ UNCHANGED <<power, tune, requests, inputs, pc, faults, history>>

Init ==
    /\ \E txDial \in Freq :
          radio = [trx |-> "RX", path |-> FALSE, dial |-> Home,
                   lo |-> TuneFrequency(Home, "RX"), loReq |-> TuneFrequency(Home, "RX"),
                   lockAge |-> Settled, tx_disable |-> {},
                   vfo |-> VfoPair(Home, txDial)]
    /\ power = [level |-> "normal", temp |-> "normal"]
    /\ tune = FALSE /\ ptt_req = FALSE /\ tx_stop_req = FALSE
    /\ line = FALSE /\ catPtt = FALSE
    /\ breakTimer = Idle
    /\ pc = [c \in Context |-> "idle"]
    /\ faults = 0 /\ chosen = Home /\ retuned = FALSE

Handlers == \E c \in Context : HandlePttOnOff(c)

Next == Handlers \/ KeyActions \/ CriticalSections
        \/ PressLine \/ ReleaseLine \/ Tick

Spec == Init /\ [][Next]_vars

\* A handler or key action of the main loop that was begun.
MainGoesOn == ServeRequest("main") \/ CancelStop("main") \/ Served("main")
              \/ Release("main") \/ Stopped("main")
              \/ TuneSwitch \/ TuneRead \/ TuneStore \/ StoreTxDisable
              \/ FollowDial

\* PendSV is triggered by every audio interrupt and time passes.  PendSV's
\* handler is short, so the main loop gets its turn in between again and
\* again (strong fairness); what it began, it finishes, and it comes round to
\* retuning.  Nobody has to press a key or send a command.
Fairness == /\ WF_vars(HandlePttOnOff("pendsv")) /\ WF_vars(Tick)
            /\ SF_vars(MainGoesOn) /\ SF_vars(Retune)

FairSpec == Spec /\ Fairness

(***************************************************************************)
(* Properties.                                                             *)
(***************************************************************************)

RadioType == [trx : Mode, path : BOOLEAN, dial : Freq,
              lo : Freq \X Mode, loReq : Freq \X Mode, lockAge : 0..Settled,
              tx_disable : SUBSET {"USER", "OUTOFRANGE"}, vfo : [Mode -> Freq]]

\* The state has its type; the antenna is on the transmitter only in TX, retuned
\* says nothing of earlier transmissions, and PendSV never runs a key action.
TypeOK ==
    /\ radio \in RadioType
    /\ radio.path => radio.trx = "TX"
    /\ power \in [level : {"normal", "tune"}, temp : {"normal", "tune"}]
    /\ tune \in BOOLEAN /\ ptt_req \in BOOLEAN /\ tx_stop_req \in BOOLEAN
    /\ line \in BOOLEAN /\ catPtt \in BOOLEAN
    /\ breakTimer \in {Idle} \union 0..Expired
    /\ pc \in [Context -> {"idle", "follow"} \union HandlerStep \union KeyStep]
    /\ pc["pendsv"] \notin KeyStep \union {"follow"}
    /\ faults \in 0..LoFaults /\ chosen \in Freq
    /\ retuned \in BOOLEAN /\ (retuned => radio.trx = "TX")

\* While ts.tune is set, between two key actions, the radio does transmit,
\* whatever the PTT line, CAT and the LO did meanwhile: HandlePttOnOff leaves
\* it alone "until tune is being stopped" (radio_management.c:1437).
TuneMeansTransmit == tune /\ pc["main"] \notin KeyStep => radio.trx = "TX"

\* With TX disabled by the user the antenna never goes to the transmitter, in
\* CW training and while tuning either (radio_management.c:970-984).
UserDisableIsSilent == "USER" \in radio.tx_disable => ~radio.path

\* Whatever sequence of requests, refusals, VFO exchanges, postponed changes and
\* LO failures led there, a transmission begins on a frequency TX is permitted
\* on (SwitchTxRx, ValidateFrequencyForTX) and stays on it: with the antenna on
\* the transmitter the dial is in band, and the LO, unless it is still to be
\* set, is on the dial.  A frequency that is changed while the radio transmits
\* is not validated again, so that case is left out.
TransmitsInBand ==
    radio.path /\ ~retuned => /\ radio.dial \in TxFreq
                              /\ radio.lo = radio.loReq
                                    => radio.lo = TuneFrequency(radio.dial, "TX")

\* In receive mode the dial shows the frequency the operator dialled, or chose
\* with a VFO or a band, for receiving, after any number of transmissions on
\* another VFO.
ReceiveDialKept == radio.trx = "RX" => radio.dial = chosen

\* The power level for tuning is temporary ("our temporarily changed level",
\* radio_management.c:553): with no tuning going on, the level is the normal
\* one.
PowerIsTemporary == ~tune /\ pc["main"] \notin KeyStep => power.level = "normal"

\* A voice transmission ends: with the line released, no CAT PTT and no
\* tuning, the radio goes back to RX, or is asked to transmit again.
TransmissionEnds ==
    (radio.trx = "TX") ~> (radio.trx = "RX" \/ line \/ catPtt \/ tune \/ ptt_req)

\* The LO comes to the dial frequency and direction, although a change that is
\* too close to the one before is not carried out and I2C may fail: once the
\* dial and the direction stay, the LO is right.
LoFollows == []<>(radio.lo = TuneFrequency(radio.dial, radio.trx))
             \/ []<><<radio'.dial # radio.dial \/ radio'.trx # radio.trx>>_vars

\* "in any other case, it is not okay to transmit with ts.tx_disable == true"
\* (radio_management.c:982), whoever set it; the code does not keep to this when
\* the LO fails.
DisabledMeansSilent == IsTxDisabled(radio) => ~radio.path
================================================================================
