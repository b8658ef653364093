--------------------------- MODULE TxRxControl_proofs ---------------------------
(***************************************************************************)
(* What TxRxControl guarantees for every set of frequencies, debounce and  *)
(* lock-out time and number of LO failures: the state keeps its type; with *)
(* key actions not interrupted, tuning means transmitting and a user's TX  *)
(* disable silences the antenna; a transmission begins on a permitted      *)
(* frequency and stays on it until it is retuned; and where no             *)
(* transmission is refused, the receive dial and the power level come back.*)
(*                                                                         *)
(* The second part is about CwStraightKey: the keyer's interrupts break    *)
(* none of that, and a transmission the key began always has something     *)
(* left that ends it.                                                      *)
(***************************************************************************)
EXTENDS CwStraightKey, TLAPS

(***************************************************************************)
(* The operators on the radio.                                             *)
(***************************************************************************)

\* A change of the LO frequency leaves direction, antenna, dial, VFOs and the
\* user's TX disable alone; one that succeeds disables nothing.
LEMMA ChangeFrequencyKeeps ==
    ASSUME NEW r \in RadioType, NEW dial \in Freq, NEW m \in Mode, NEW ok \in BOOLEAN
    PROVE  LET n == ChangeFrequency(r, dial, m, ok)
           IN  /\ n \in RadioType
               /\ n.trx = r.trx /\ n.path = r.path /\ n.dial = r.dial /\ n.vfo = r.vfo
               /\ n.loReq = TuneFrequency(dial, m)
               /\ ("USER" \in n.tx_disable) = ("USER" \in r.tx_disable)
               /\ ok /\ dial \in Tunable => n.tx_disable \subseteq r.tx_disable
  <1> DEFINE n == ChangeFrequency(r, dial, m, ok)
  <1>1. r = [trx |-> r.trx, path |-> r.path, dial |-> r.dial, lo |-> r.lo,
             loReq |-> r.loReq, lockAge |-> r.lockAge, tx_disable |-> r.tx_disable,
             vfo |-> r.vfo]
    BY DEF RadioType
  <1>2. TuneFrequency(dial, m) \in Freq \X Mode
    BY DEF TuneFrequency
  <1>3. 0 \in 0..Settled
    BY TimeAssumption DEF Settled
  <1>4. CASE r.lo = TuneFrequency(dial, m) \/ r.lockAge <= Lockout
    <2>1. n = [r EXCEPT !.loReq = TuneFrequency(dial, m)]
      BY <1>4 DEF ChangeFrequency
    <2> QED
      BY <1>2, <2>1 DEF RadioType
  <1>5. CASE ~(r.lo = TuneFrequency(dial, m) \/ r.lockAge <= Lockout)
    <2>1. PICK lo \in Freq \X Mode, d \in SUBSET {"USER", "OUTOFRANGE"} :
             /\ n = [r EXCEPT !.loReq = TuneFrequency(dial, m), !.lockAge = 0,
                              !.lo = lo, !.tx_disable = d]
             /\ ("USER" \in d) = ("USER" \in r.tx_disable)
             /\ ok /\ dial \in Tunable => d \subseteq r.tx_disable
      <3> DEFINE lo == IF ok \/ dial \notin Tunable THEN TuneFrequency(dial, m) ELSE r.lo
                 d  == IF ok /\ dial \in Tunable THEN r.tx_disable \ {"OUTOFRANGE"}
                                                 ELSE r.tx_disable \union {"OUTOFRANGE"}
      <3>1. lo \in Freq \X Mode /\ d \in SUBSET {"USER", "OUTOFRANGE"}
        BY <1>2 DEF RadioType
      <3>2. /\ ("USER" \in d) = ("USER" \in r.tx_disable)
            /\ ok /\ dial \in Tunable => d \subseteq r.tx_disable
        OBVIOUS
      <3>3. n = [r EXCEPT !.loReq = TuneFrequency(dial, m), !.lockAge = 0,
                          !.lo = lo, !.tx_disable = d]
        BY <1>5, <1>1 DEF ChangeFrequency
      <3> HIDE DEF lo, d, n
      <3> QED
        BY <3>1, <3>2, <3>3
    <2> QED
      BY <1>2, <1>3, <2>1 DEF RadioType
  <1> QED
    BY <1>4, <1>5

\* What holds of the radio's antenna: it is on the transmitter only in TX, and
\* never while the user disabled TX.
Quiet(r) == /\ r.path => r.trx = "TX"
            /\ "USER" \in r.tx_disable => ~r.path

\* With the antenna on the transmitter, the dial is in band and the LO was asked
\* to follow it.
InBand(r) == r.path => r.dial \in TxFreq /\ r.loReq = TuneFrequency(r.dial, "TX")

\* The frequency SwitchTxRx wants, and whether it transmits on it.
WantedDial(r, want) == IF Split THEN SavedVfo(r, want)[want] ELSE r.dial
Outcome(r, want)    == IF want = "TX" /\ Granted(r, WantedDial(r, want)) THEN "TX" ELSE "RX"
Stays(r, want)      == Outcome(r, want) = "TX" /\ r.trx = "TX"

\* What SwitchTxRx makes of each part of the radio.
LEMMA SwitchTxRxResult ==
    ASSUME NEW r \in RadioType, NEW want \in Mode, NEW ok \in BOOLEAN
    PROVE  LET n    == SwitchTxRx(r, want, ok)
               dial == WantedDial(r, want)
           IN  /\ n \in RadioType /\ dial \in Freq
               /\ n.trx = Outcome(r, want) /\ n.vfo = SavedVfo(r, want)
               /\ n.path = IF Stays(r, want) THEN r.path ELSE Antenna(r, Outcome(r, want))
               /\ n.dial = IF Stays(r, want) THEN r.dial ELSE dial
               /\ n.loReq = IF Stays(r, want) THEN r.loReq
                            ELSE TuneFrequency(dial, Outcome(r, want))
               /\ ("USER" \in n.tx_disable) = ("USER" \in r.tx_disable)
               /\ ok /\ dial \in Tunable => n.tx_disable \subseteq r.tx_disable
  <1> DEFINE n     == SwitchTxRx(r, want, ok)
             vfo   == SavedVfo(r, want)
             dial  == WantedDial(r, want)
             final == Outcome(r, want)
             new   == [r EXCEPT !.vfo = vfo, !.dial = dial, !.path = Antenna(r, final)]
             set   == ChangeFrequency(new, dial, final, ok)
  <1>1. vfo \in [Mode -> Freq]
    BY DEF SavedVfo, RadioType
  <1>2. dial \in Freq
    BY <1>1 DEF WantedDial, RadioType
  <1>3. final \in Mode
    BY DEF Mode, Outcome
  <1>4. Antenna(r, final) \in BOOLEAN
    BY DEF Antenna, RadioType
  <1>5. n = IF final = "TX" /\ r.trx = "TX" THEN [r EXCEPT !.vfo = vfo]
            ELSE [set EXCEPT !.trx = final]
    BY DEF SwitchTxRx, Outcome, WantedDial
  <1> HIDE DEF vfo, dial, final, n
  <1>6. /\ new \in RadioType /\ new.path = Antenna(r, final) /\ new.dial = dial
        /\ new.vfo = vfo /\ new.tx_disable = r.tx_disable
    BY <1>1, <1>2, <1>4 DEF RadioType
  <1> HIDE DEF new
  <1>7. /\ set \in RadioType /\ set.path = Antenna(r, final) /\ set.dial = dial
        /\ set.vfo = vfo /\ set.loReq = TuneFrequency(dial, final)
        /\ ("USER" \in set.tx_disable) = ("USER" \in r.tx_disable)
        /\ ok /\ dial \in Tunable => set.tx_disable \subseteq r.tx_disable
    BY <1>2, <1>3, <1>6, ChangeFrequencyKeeps
  <1> HIDE DEF set
  <1>8. CASE final = "TX" /\ r.trx = "TX"
    <2>1. n = [r EXCEPT !.vfo = vfo]
      BY <1>5, <1>8
    <2>2. /\ n \in RadioType /\ n.path = r.path /\ n.trx = r.trx /\ n.dial = r.dial
          /\ n.vfo = vfo /\ n.tx_disable = r.tx_disable /\ n.loReq = r.loReq
      BY <1>1, <2>1 DEF RadioType
    <2> QED
      BY <1>2, <1>8, <2>2 DEF Stays, n, vfo, dial, final
  <1>9. CASE ~(final = "TX" /\ r.trx = "TX")
    <2>1. n = [set EXCEPT !.trx = final]
      BY <1>5, <1>9
    <2>2. /\ n \in RadioType /\ n.path = Antenna(r, final) /\ n.trx = final /\ n.dial = dial
          /\ n.vfo = vfo /\ n.tx_disable = set.tx_disable /\ n.loReq = set.loReq
      BY <1>3, <1>7, <2>1 DEF RadioType
    <2> QED
      BY <1>2, <1>7, <1>9, <2>2 DEF Stays, n, vfo, dial, final
  <1> QED
    BY <1>8, <1>9

\* SwitchTxRx keeps the antenna quiet and in band.
LEMMA SwitchTxRxKeeps ==
    ASSUME NEW r \in RadioType, NEW want \in Mode, NEW ok \in BOOLEAN,
           r.path => r.trx = "TX"
    PROVE  LET n == SwitchTxRx(r, want, ok)
           IN  /\ n \in RadioType
               /\ n.path => n.trx = "TX"
               /\ Quiet(r) => Quiet(n)
               /\ InBand(r) => InBand(n)
  <1> DEFINE n     == SwitchTxRx(r, want, ok)
             dial  == WantedDial(r, want)
             final == Outcome(r, want)
  <1>1. /\ n \in RadioType /\ n.trx = final
        /\ n.path = IF Stays(r, want) THEN r.path ELSE Antenna(r, final)
        /\ n.dial = IF Stays(r, want) THEN r.dial ELSE dial
        /\ n.loReq = IF Stays(r, want) THEN r.loReq ELSE TuneFrequency(dial, final)
        /\ ("USER" \in n.tx_disable) = ("USER" \in r.tx_disable)
    BY SwitchTxRxResult
  <1>2. final = "TX" => dial \in TxFreq
    BY DEF Outcome, Granted, Validates
  <1>3. (Antenna(r, final) => final = "TX")
        /\ ("USER" \in r.tx_disable /\ ~r.path => ~Antenna(r, final))
    BY DEF Antenna, IsTxDisabled, RadioType
  <1> HIDE DEF n, dial, final
  <1>4. Stays(r, want) => final = "TX" /\ r.trx = "TX"
    BY DEF Stays, final
  <1> QED
    BY <1>1, <1>2, <1>3, <1>4 DEF Quiet, InBand, n

\* The same for the step of a handler or key action that switches.
LEMMA SwitchKeeps ==
    ASSUME TypeOK, NEW want \in Mode, Switch(want)
    PROVE  /\ radio' \in RadioType /\ faults' \in 0..LoFaults
           /\ radio'.path => radio'.trx = "TX"
           /\ retuned' \in BOOLEAN /\ (retuned' => retuned /\ radio'.trx = "TX")
           /\ Quiet(radio) => Quiet(radio')
           /\ InBand(radio) => InBand(radio')
  <1>1. PICK ok \in BOOLEAN : LoAnswers(ok) /\ radio' = SwitchTxRx(radio, want, ok)
    BY DEF Switch
  <1>2. faults' \in 0..LoFaults
    BY <1>1, TimeAssumption DEF LoAnswers, TypeOK
  <1>7. retuned' \in BOOLEAN /\ (retuned' => retuned /\ radio'.trx = "TX")
    BY Zenon DEF Switch
  <1>3. radio \in RadioType /\ (radio.path => radio.trx = "TX")
    BY DEF TypeOK
  <1> DEFINE n == SwitchTxRx(radio, want, ok)
  <1>4. /\ n \in RadioType
        /\ n.path => n.trx = "TX"
        /\ Quiet(radio) => Quiet(n)
        /\ InBand(radio) => InBand(n)
    BY <1>3, SwitchTxRxKeeps
  <1>5. radio' = n
    BY <1>1
  <1> HIDE DEF n
  <1>6. (Quiet(n) => Quiet(radio')) /\ (InBand(n) => InBand(radio'))
    BY <1>5 DEF Quiet, InBand
  <1> QED
    BY <1>2, <1>4, <1>5, <1>6, <1>7

LEMMA SwitchResult ==
    ASSUME TypeOK, NEW want \in Mode, Switch(want)
    PROVE  LET dial == WantedDial(radio, want)
           IN  /\ dial \in Freq
               /\ radio'.trx = Outcome(radio, want) /\ radio'.vfo = SavedVfo(radio, want)
               /\ radio'.dial = IF Stays(radio, want) THEN radio.dial ELSE dial
               /\ LoFaults = 0 /\ dial \in Tunable
                    => radio'.tx_disable \subseteq radio.tx_disable
  <1> DEFINE dial == WantedDial(radio, want)
  <1>1. PICK ok \in BOOLEAN : LoAnswers(ok) /\ radio' = SwitchTxRx(radio, want, ok)
    BY DEF Switch
  <1>2. LoFaults = 0 => ok
    BY <1>1 DEF LoAnswers, TypeOK
  <1>3. radio \in RadioType
    BY DEF TypeOK
  <1> DEFINE n == SwitchTxRx(radio, want, ok)
  <1>4. /\ dial \in Freq
        /\ n.trx = Outcome(radio, want) /\ n.vfo = SavedVfo(radio, want)
        /\ n.dial = IF Stays(radio, want) THEN radio.dial ELSE dial
        /\ ok /\ dial \in Tunable => n.tx_disable \subseteq radio.tx_disable
    BY <1>3, SwitchTxRxResult
  <1>5. radio' = n
    BY <1>1
  <1> HIDE DEF n, dial
  <1> QED
    BY <1>2, <1>4, <1>5 DEF dial

\* And for the steps of the main loop that set the LO.
LEMMA SetLoKeeps ==
    ASSUME TypeOK, SetLo
    PROVE  /\ radio' \in RadioType /\ faults' \in 0..LoFaults
           /\ radio'.trx = radio.trx /\ radio'.path = radio.path /\ radio'.dial = radio.dial
           /\ radio'.vfo = radio.vfo /\ radio'.loReq = TuneFrequency(radio.dial, radio.trx)
           /\ ("USER" \in radio'.tx_disable) = ("USER" \in radio.tx_disable)
           /\ LoFaults = 0 /\ radio.dial \in Tunable
                => radio'.tx_disable \subseteq radio.tx_disable
  <1>1. PICK ok \in BOOLEAN :
           LoAnswers(ok) /\ radio' = ChangeFrequency(radio, radio.dial, radio.trx, ok)
    BY DEF SetLo
  <1>2. faults' \in 0..LoFaults
    BY <1>1, TimeAssumption DEF LoAnswers, TypeOK
  <1>3. radio \in RadioType /\ radio.dial \in Freq /\ radio.trx \in Mode
    BY DEF TypeOK, RadioType
  <1> DEFINE n == ChangeFrequency(radio, radio.dial, radio.trx, ok)
  <1>4. /\ n \in RadioType
        /\ n.trx = radio.trx /\ n.path = radio.path /\ n.dial = radio.dial
        /\ n.vfo = radio.vfo /\ n.loReq = TuneFrequency(radio.dial, radio.trx)
        /\ ("USER" \in n.tx_disable) = ("USER" \in radio.tx_disable)
        /\ ok /\ radio.dial \in Tunable => n.tx_disable \subseteq radio.tx_disable
    BY <1>3, ChangeFrequencyKeeps
  <1>5. radio' = n
    BY <1>1
  <1>6. LoFaults = 0 => ok
    BY <1>1 DEF LoAnswers, TypeOK
  <1> HIDE DEF n
  <1> QED
    BY <1>2, <1>4, <1>5, <1>6

\* A VFO is exchanged, copied or selected, or the dial moved: each of the VFOs and
\* the dial has a frequency, and all else stays.
LEMMA RedialsKeeps ==
    ASSUME TypeOK, NEW vfo \in [Mode -> Freq], NEW d \in Freq, Redials(vfo, d)
    PROVE  /\ radio' \in RadioType
           /\ radio'.trx = radio.trx /\ radio'.path = radio.path
           /\ radio'.tx_disable = radio.tx_disable
           /\ radio'.dial = d /\ radio'.vfo = vfo
           /\ retuned' = (radio.trx = "TX") /\ pc = [c \in Context |-> "idle"]
           /\ UNCHANGED <<power, tune, ptt_req, tx_stop_req, line, catPtt, breakTimer, faults>>
  BY DEF Redials, TypeOK, RadioType, MainIdle, requests, inputs

LEMMA VfoPairType ==
    ASSUME NEW rx \in Freq, NEW tx \in Freq
    PROVE  /\ VfoPair(rx, tx) \in [Mode -> Freq]
           /\ Split => VfoPair(rx, tx)["RX"] = rx
  BY FreqAssumption DEF VfoPair, Mode

\* Hence the same of each action that moves the dial, and what of the operator's
\* choice it leaves: in receive mode the dial, while transmitting the receive VFO.
Moves == /\ radio' \in RadioType
         /\ radio'.trx = radio.trx /\ radio'.path = radio.path
         /\ radio'.tx_disable = radio.tx_disable
         /\ chosen' \in Freq /\ retuned' \in BOOLEAN
         /\ \/ UNCHANGED <<chosen, retuned>> /\ radio'.dial = radio.dial
               /\ radio'.loReq = radio.loReq
               /\ (Split => radio'.vfo["RX"] = radio.vfo["RX"])
            \/ /\ retuned' = (radio.trx = "TX")
               /\ radio.trx = "RX" \/ ~Split => radio'.dial = chosen'
               /\ Split /\ radio.trx = "TX" =>
                      \/ radio'.vfo["RX"] = chosen'
                      \/ chosen' = chosen /\ radio'.vfo = radio.vfo
         /\ pc = [c \in Context |-> "idle"]
         /\ UNCHANGED <<power, tune, ptt_req, tx_stop_req, line, catPtt, breakTimer, faults>>

LEMMA DialMoves ==
    ASSUME TypeOK, (\E d \in Freq : Dial(d)) \/ ChangeDial
    PROVE  /\ Moves
           /\ pc' = pc \/ pc' = [pc EXCEPT !["main"] = "follow"]
  <1>1. radio \in RadioType /\ radio.vfo \in [Mode -> Freq] /\ radio.vfo["TX"] \in Freq
        /\ radio.vfo["RX"] \in Freq
        /\ radio.dial \in Freq /\ radio.lo[1] \in Freq /\ chosen \in Freq
        /\ radio.trx \in Mode
    BY DEF TypeOK, RadioType, Mode
  <1>2. ASSUME NEW d \in Freq, DialsOnly(d) PROVE Moves
    BY <1>1, <1>2, RedialsKeeps DEF DialsOnly, Moves, Mode
  <1>3. CASE \E d \in Freq : Dial(d) \/ KeyDial(d)
    BY <1>2, <1>3 DEF Dial, KeyDial, Goto
  <1>4. CASE ToggleVfoAB
    <2>1. VfoPair(radio.vfo["TX"], radio.lo[1]) \in [Mode -> Freq]
          /\ (Split => VfoPair(radio.vfo["TX"], radio.lo[1])["RX"] = radio.vfo["TX"])
      BY <1>1, VfoPairType
    <2> QED
      BY <1>1, <1>4, <2>1, RedialsKeeps DEF ToggleVfoAB, Goto, Moves
  <1>5. ASSUME NEW rx \in Freq, NEW tx \in Freq, SelectBandMemory(rx, tx)
        PROVE  Moves /\ pc' = [pc EXCEPT !["main"] = "follow"]
    <2>1. VfoPair(rx, tx) \in [Mode -> Freq] /\ (Split => VfoPair(rx, tx)["RX"] = rx)
      BY VfoPairType
    <2> QED
      BY <1>1, <1>5, <2>1, RedialsKeeps DEF SelectBandMemory, Goto, Moves
  <1>6. CASE CopyVfoAB
    <2> DEFINE vfo == VfoPair(radio.vfo["RX"], radio.dial)
    <2>1. vfo \in [Mode -> Freq] /\ (Split => vfo["RX"] = radio.vfo["RX"])
      BY <1>1, VfoPairType
    <2>2. radio' = [radio EXCEPT !.vfo = vfo]
      BY <1>1, <1>6 DEF CopyVfoAB, RadioType
    <2> HIDE DEF vfo
    <2>3. /\ radio' \in RadioType
          /\ radio'.trx = radio.trx /\ radio'.path = radio.path /\ radio'.dial = radio.dial
          /\ radio'.tx_disable = radio.tx_disable /\ radio'.vfo = vfo
          /\ radio'.loReq = radio.loReq
      BY <1>1, <2>1, <2>2 DEF RadioType
    <2> QED
      BY <1>1, <1>6, <2>1, <2>3
         DEF CopyVfoAB, MainIdle, Goto, Moves, requests, inputs, history, TypeOK
  <1> QED
    BY <1>3, <1>4, <1>5, <1>6 DEF ChangeDial

(***************************************************************************)
(* Type correctness.                                                       *)
(***************************************************************************)

Steps == {"idle", "follow"} \union HandlerStep \union KeyStep

NotPendSV == KeyStep \union {"follow"}

\* A context goes on to another step of its own.
LEMMA GotoKeeps ==
    ASSUME TypeOK, NEW c \in Context, NEW step \in Steps, Goto(c, step),
           c = "main" \/ step \notin NotPendSV
    PROVE  pc' \in [Context -> Steps] /\ pc'["pendsv"] \notin NotPendSV
  BY DEF TypeOK, Goto, Steps, NotPendSV, Context

LEMMA TypeInit == Init => TypeOK
  <1> SUFFICES ASSUME Init PROVE TypeOK
    OBVIOUS
  <1>1. PICK txDial \in Freq :
           radio = [trx |-> "RX", path |-> FALSE, dial |-> Home,
                    lo |-> TuneFrequency(Home, "RX"), loReq |-> TuneFrequency(Home, "RX"),
                    lockAge |-> Settled, tx_disable |-> {},
                    vfo |-> VfoPair(Home, txDial)]
    BY FreqAssumption DEF Init
  <1>2. Settled \in 0..Settled /\ Home \in Freq /\ 0 \in 0..LoFaults
    BY TimeAssumption, FreqAssumption DEF Settled
  <1>3. VfoPair(Home, txDial) \in [Mode -> Freq]
    BY <1>2, VfoPairType
  <1>4. radio \in RadioType /\ radio.path = FALSE
    BY <1>1, <1>2, <1>3 DEF RadioType, Mode, TuneFrequency
  <1>5. pc \in [Context -> Steps] /\ pc["pendsv"] \notin NotPendSV
    BY DEF Init, Context, Steps, KeyStep, NotPendSV
  <1> QED
    BY <1>2, <1>4, <1>5 DEF Init, TypeOK, Steps, NotPendSV

LEMMA TypeStep == TypeOK /\ [Next]_vars => TypeOK'
  <1> SUFFICES ASSUME TypeOK, [Next]_vars PROVE TypeOK'
    OBVIOUS
  <1> USE DEF requests, inputs, history, NotPendSV
  <1>1. ASSUME NEW c \in Context, StartHandler(c) PROVE TypeOK'
    <2>1. pc' \in [Context -> Steps] /\ pc'["pendsv"] \notin NotPendSV
      BY <1>1, GotoKeeps DEF StartHandler, Steps, HandlerStep, KeyStep
    <2> QED
      BY <1>1, <2>1 DEF TypeOK, StartHandler, Steps
  <1>2. ASSUME NEW c \in Context, ServeRequest(c) PROVE TypeOK'
    <2>1. pc' \in [Context -> Steps] /\ pc'["pendsv"] \notin NotPendSV
      BY <1>2, GotoKeeps DEF ServeRequest, Steps, HandlerStep, KeyStep
    <2>2. /\ radio' \in RadioType /\ faults' \in 0..LoFaults
          /\ radio'.path => radio'.trx = "TX"
          /\ retuned' \in BOOLEAN /\ (retuned' => radio'.trx = "TX")
      BY <1>2, SwitchKeeps DEF ServeRequest, Mode, TypeOK
    <2> QED
      BY <1>2, <2>1, <2>2 DEF TypeOK, ServeRequest, Steps
  <1>3. ASSUME NEW c \in Context, CancelStop(c) \/ Served(c) \/ Stopped(c) PROVE TypeOK'
    <2>1. pc' \in [Context -> Steps] /\ pc'["pendsv"] \notin NotPendSV
      BY <1>3, GotoKeeps DEF CancelStop, Served, Stopped, Steps, HandlerStep, KeyStep
    <2>2. /\ ptt_req' \in BOOLEAN /\ tx_stop_req' \in BOOLEAN
          /\ UNCHANGED <<radio, power, tune, line, catPtt, breakTimer, faults, chosen, retuned>>
      BY <1>3 DEF TypeOK, CancelStop, Served, Stopped
    <2> QED
      BY <2>1, <2>2 DEF TypeOK, Steps
  <1>4. ASSUME NEW c \in Context, Release(c) PROVE TypeOK'
    <2>1. pc' \in [Context -> Steps] /\ pc'["pendsv"] \notin NotPendSV
      BY <1>4, GotoKeeps DEF Release, Steps, HandlerStep, KeyStep
    <2>2. /\ radio' \in RadioType /\ faults' \in 0..LoFaults
          /\ radio'.path => radio'.trx = "TX"
          /\ retuned' \in BOOLEAN /\ (retuned' => radio'.trx = "TX")
      BY <1>4, SwitchKeeps DEF Release, Mode, TypeOK
    <2>3. BreakTime \in {Idle} \union 0..Expired
      BY TimeAssumption DEF BreakTime, TypeOK, Expired, Idle
    <2> QED
      BY <1>4, <2>1, <2>2, <2>3 DEF TypeOK, Release, Steps
  <1>5. CASE ToggleTune
    <2>1. pc' \in [Context -> Steps] /\ pc'["pendsv"] \notin NotPendSV
      BY <1>5, GotoKeeps DEF ToggleTune, Steps, Context, KeyStep, TypeOK
    <2>2. power' \in [level : {"normal", "tune"}, temp : {"normal", "tune"}]
      BY <1>5 DEF ToggleTune, TypeOK
    <2> QED
      BY <1>5, <2>1, <2>2 DEF TypeOK, ToggleTune, Steps
  <1>6. CASE TuneSwitch
    <2>1. pc' \in [Context -> Steps] /\ pc'["pendsv"] \notin NotPendSV
      BY <1>6, GotoKeeps DEF TuneSwitch, Steps, Context, KeyStep
    <2>2. /\ radio' \in RadioType /\ faults' \in 0..LoFaults
          /\ radio'.path => radio'.trx = "TX"
          /\ retuned' \in BOOLEAN /\ (retuned' => radio'.trx = "TX")
      BY <1>6, SwitchKeeps DEF TuneSwitch, Mode
    <2> QED
      BY <1>6, <2>1, <2>2 DEF TypeOK, TuneSwitch, Steps
  <1>7. CASE TuneRead
    <2>1. pc' \in [Context -> Steps] /\ pc'["pendsv"] \notin NotPendSV
      BY <1>7, GotoKeeps DEF TuneRead, Steps, Context, KeyStep
    <2>2. power' \in [level : {"normal", "tune"}, temp : {"normal", "tune"}]
      BY <1>7 DEF TuneRead, PowerAfterTune, TypeOK
    <2> QED
      BY <1>7, <2>1, <2>2 DEF TypeOK, TuneRead, Steps
  <1>8. CASE TuneStore
    <2>1. pc' \in [Context -> Steps] /\ pc'["pendsv"] \notin NotPendSV
      BY <1>8, GotoKeeps DEF TuneStore, Steps, Context, KeyStep
    <2> QED
      BY <1>8, <2>1 DEF TypeOK, TuneStore, Steps
  <1>9. CASE ToggleTxDisable
    <2>1. pc' \in [Context -> Steps] /\ pc'["pendsv"] \notin NotPendSV
      BY <1>9, GotoKeeps DEF ToggleTxDisable, Steps, Context, KeyStep
    <2> QED
      BY <1>9, <2>1 DEF TypeOK, ToggleTxDisable, Steps
  <1>10. CASE StoreTxDisable
    <2>1. pc' \in [Context -> Steps] /\ pc'["pendsv"] \notin NotPendSV
      BY <1>10, GotoKeeps DEF StoreTxDisable, Steps, Context, KeyStep
    <2>2. radio' \in RadioType /\ radio'.path = radio.path /\ radio'.trx = radio.trx
      BY <1>10 DEF StoreTxDisable, TypeOK, RadioType
    <2> QED
      BY <1>10, <2>1, <2>2 DEF TypeOK, StoreTxDisable, Steps
  <1>11. CASE ToggleTxRx \/ CatEnableTX \/ PressLine \/ ReleaseLine
    <2>1. /\ ptt_req' \in BOOLEAN /\ tx_stop_req' \in BOOLEAN
          /\ line' \in BOOLEAN /\ catPtt' \in BOOLEAN
          /\ UNCHANGED <<radio, power, tune, breakTimer, pc, faults, chosen, retuned>>
      BY <1>11 DEF TypeOK, ToggleTxRx, CatEnableTX, PressLine, ReleaseLine,
                   RequestTxOn, RequestTxOff
    <2> QED
      BY <2>1 DEF TypeOK
  <1>12. CASE (\E d \in Freq : Dial(d)) \/ ChangeDial
    <2>1. Moves /\ (pc' = pc \/ pc' = [pc EXCEPT !["main"] = "follow"])
      BY <1>12, DialMoves
    <2>2. pc' \in [Context -> Steps] /\ pc'["pendsv"] \notin NotPendSV
      BY <2>1 DEF TypeOK, Steps, Context
    <2> QED
      BY <2>1, <2>2 DEF TypeOK, Moves, Steps
  <1>13. CASE Retune
    BY <1>13, SetLoKeeps DEF TypeOK, Retune
  <1>16. CASE FollowDial
    <2>1. pc' \in [Context -> Steps] /\ pc'["pendsv"] \notin NotPendSV
      BY <1>16, GotoKeeps DEF FollowDial, Steps, Context, KeyStep
    <2> QED
      BY <1>16, <2>1, SetLoKeeps DEF TypeOK, FollowDial, Steps
  <1>14. CASE Tick
    <2>1. radio.lockAge \in 0..Settled
      BY DEF TypeOK, RadioType
    <2>2. (IF radio.lockAge < Settled THEN radio.lockAge + 1 ELSE radio.lockAge) \in 0..Settled
      BY <2>1, TimeAssumption DEF Settled
    <2>3. radio' \in RadioType /\ radio'.path = radio.path /\ radio'.trx = radio.trx
      BY <1>14, <2>2 DEF Tick, TypeOK, RadioType
    <2>4. breakTimer' \in {Idle} \union 0..Expired
      BY <1>14, TimeAssumption DEF Tick, TypeOK, Expired, Idle
    <2> QED
      BY <1>14, <2>3, <2>4 DEF TypeOK, Tick
  <1>15. CASE UNCHANGED vars
    BY <1>15 DEF TypeOK, vars
  <1> QED
    BY <1>1, <1>2, <1>3, <1>4, <1>5, <1>6, <1>7, <1>8, <1>9, <1>10, <1>11, <1>12,
       <1>13, <1>14, <1>15, <1>16
       DEF Next, Handlers, HandlePttOnOff, KeyActions, CriticalSections

\* Every variable of the radio control keeps its type, and the antenna is on
\* the transmitter only in TX, in every interleaving of PendSV, main loop and
\* interrupts.
THEOREM TypeCorrect == Spec => []TypeOK
  <1>1. Init => TypeOK
    BY TypeInit
  <1>2. TypeOK /\ [Next]_vars => TypeOK'
    BY TypeStep
  <1> QED
    BY <1>1, <1>2, PTL DEF Spec

(***************************************************************************)
(* What a protected key action gives.  Without KeyRace PendSV's handler    *)
(* does not run inside a key action of the main loop.                      *)
(***************************************************************************)

\* The inductive invariant: a handler under way found ts.tune clear, a key
\* action under way keeps PendSV out, and so what ToggleTxDisable and Tune
\* found out about the direction still holds when they store their result.
KeyInv ==
    /\ pc["main"] \in KeyStep => pc["pendsv"] = "idle"
    /\ \A c \in Context : pc[c] \in HandlerStep => ~tune
    /\ TuneMeansTransmit
    /\ pc["main"] = "tuneStoreOn" => radio.trx = "TX"
    /\ pc["main"] = "disable" => radio.trx = "RX" /\ ~tune
    /\ UserDisableIsSilent

SafeInv == TypeOK /\ KeyInv

LEMMA SafeInit == Init => SafeInv
  <1>1. Init => TypeOK
    BY TypeInit
  <1>2. Init => KeyInv
    BY DEF Init, KeyInv, TuneMeansTransmit, UserDisableIsSilent, Context, HandlerStep, KeyStep
  <1> QED
    BY <1>1, <1>2 DEF SafeInv

LEMMA SafeStep == ASSUME ~KeyRace PROVE SafeInv /\ [Next]_vars => SafeInv'
  <1> SUFFICES ASSUME SafeInv, [Next]_vars PROVE KeyInv'
    BY TypeStep DEF SafeInv
  <1> USE DEF requests, inputs, history, Context, HandlerStep, KeyStep
  <1>0. TypeOK /\ KeyInv
    BY DEF SafeInv
  <1>a. Quiet(radio)
    BY <1>0 DEF TypeOK, KeyInv, UserDisableIsSilent, Quiet
  <1>b. pc = [c \in Context |-> pc[c]]
    BY <1>0 DEF TypeOK
  <1>1. ASSUME NEW c \in Context, StartHandler(c) PROVE KeyInv'
    <2>1. pc["main"] \notin KeyStep /\ ~tune
      BY <1>1, <1>0 DEF StartHandler, CanStart, TuneBlocksPtt
    <2> QED
      BY <1>1, <1>0, <1>b, <2>1
         DEF StartHandler, Goto, KeyInv, TuneMeansTransmit, UserDisableIsSilent
  <1>2. ASSUME NEW c \in Context, ServeRequest(c) PROVE KeyInv'
    <2>1. pc["main"] \notin KeyStep /\ ~tune
      BY <1>2, <1>0 DEF ServeRequest, KeyInv
    <2>2. "USER" \in radio'.tx_disable => ~radio'.path
      BY <1>2, <1>0, <1>a, SwitchKeeps DEF ServeRequest, Mode, Quiet
    <2> QED
      BY <1>2, <1>0, <1>b, <2>1, <2>2
         DEF ServeRequest, Goto, KeyInv, TuneMeansTransmit, UserDisableIsSilent
  <1>3. ASSUME NEW c \in Context, CancelStop(c) \/ Served(c) \/ Stopped(c) PROVE KeyInv'
    <2>1. pc["main"] \notin KeyStep /\ ~tune
      BY <1>3, <1>0 DEF CancelStop, Served, Stopped, KeyInv
    <2> QED
      BY <1>3, <1>0, <1>b, <2>1
         DEF CancelStop, Served, Stopped, Goto, KeyInv, TuneMeansTransmit, UserDisableIsSilent
  <1>4. ASSUME NEW c \in Context, Release(c) PROVE KeyInv'
    <2>1. pc["main"] \notin KeyStep /\ ~tune
      BY <1>4, <1>0 DEF Release, KeyInv
    <2>2. "USER" \in radio'.tx_disable => ~radio'.path
      BY <1>4, <1>0, <1>a, SwitchKeeps DEF Release, Mode, Quiet
    <2> QED
      BY <1>4, <1>0, <1>b, <2>1, <2>2
         DEF Release, Goto, KeyInv, TuneMeansTransmit, UserDisableIsSilent
  <1>5. CASE ToggleTune
    BY <1>5, <1>0, <1>b
       DEF ToggleTune, MainIdle, Goto, KeyInv, TuneMeansTransmit, UserDisableIsSilent
  <1>6. CASE TuneSwitch
    <2>1. "USER" \in radio'.tx_disable => ~radio'.path
      BY <1>6, <1>0, <1>a, SwitchKeeps DEF TuneSwitch, Mode, Quiet
    <2> QED
      BY <1>6, <1>0, <1>b, <2>1
         DEF TuneSwitch, Goto, KeyInv, TuneMeansTransmit, UserDisableIsSilent
  <1>7. CASE TuneRead
    BY <1>7, <1>0, <1>b
       DEF TuneRead, Goto, KeyInv, TuneMeansTransmit, UserDisableIsSilent
  <1>8. CASE TuneStore
    BY <1>8, <1>0, <1>b
       DEF TuneStore, Goto, KeyInv, TuneMeansTransmit, UserDisableIsSilent
  <1>9. CASE ToggleTxDisable
    BY <1>9, <1>0, <1>b
       DEF ToggleTxDisable, MainIdle, Goto, KeyInv, TuneMeansTransmit, UserDisableIsSilent
  <1>10. CASE StoreTxDisable
    <2>1. radio.trx = "RX" /\ ~radio.path
      BY <1>10, <1>0 DEF StoreTxDisable, KeyInv, TypeOK
    <2>2. ~radio'.path
      BY <1>10, <1>0, <2>1 DEF StoreTxDisable, TypeOK, RadioType
    <2>3. ~tune
      BY <1>10, <1>0 DEF StoreTxDisable, KeyInv
    <2> QED
      BY <1>10, <1>0, <1>b, <2>1, <2>2, <2>3
         DEF StoreTxDisable, Goto, KeyInv, TuneMeansTransmit, UserDisableIsSilent
  <1>11. CASE ToggleTxRx \/ CatEnableTX \/ PressLine \/ ReleaseLine
    BY <1>11, <1>0
       DEF ToggleTxRx, CatEnableTX, PressLine, ReleaseLine, RequestTxOn, RequestTxOff,
           KeyInv, TuneMeansTransmit, UserDisableIsSilent
  <1>12. CASE (\E d \in Freq : Dial(d)) \/ ChangeDial
    <2>1. Moves /\ (pc' = pc \/ pc' = [pc EXCEPT !["main"] = "follow"])
      BY <1>12, <1>0, DialMoves
    <2> QED
      BY <1>0, <2>1 DEF Moves, KeyInv, TuneMeansTransmit, UserDisableIsSilent
  <1>13. CASE Retune
    BY <1>13, <1>0, SetLoKeeps DEF Retune, KeyInv, TuneMeansTransmit, UserDisableIsSilent
  <1>16. CASE FollowDial
    <2>1. /\ pc["main"] = "follow" /\ pc["pendsv"] = "idle"
          /\ pc'["main"] = "idle" /\ pc'["pendsv"] = "idle" /\ UNCHANGED tune
      BY <1>16, <1>b DEF FollowDial, CanRun, Goto
    <2>2. radio'.trx = radio.trx /\ radio'.path = radio.path
          /\ ("USER" \in radio'.tx_disable) = ("USER" \in radio.tx_disable)
      BY <1>16, <1>0, SetLoKeeps DEF FollowDial
    <2> QED
      BY <1>0, <2>1, <2>2 DEF KeyInv, TuneMeansTransmit, UserDisableIsSilent
  <1>14. CASE Tick
    <2>1. radio'.path = radio.path /\ radio'.trx = radio.trx
          /\ radio'.tx_disable = radio.tx_disable
      BY <1>14, <1>0 DEF Tick, TypeOK, RadioType
    <2> QED
      BY <1>14, <1>0, <2>1 DEF Tick, KeyInv, TuneMeansTransmit, UserDisableIsSilent
  <1>15. CASE UNCHANGED vars
    BY <1>15, <1>0 DEF vars, KeyInv, TuneMeansTransmit, UserDisableIsSilent
  <1> QED
    BY <1>1, <1>2, <1>3, <1>4, <1>5, <1>6, <1>7, <1>8, <1>9, <1>10, <1>11, <1>12,
       <1>13, <1>14, <1>15, <1>16
       DEF Next, Handlers, HandlePttOnOff, KeyActions, CriticalSections

\* While the radio tunes it transmits, for every debounce and lock-out time,
\* LO failure and remote command, as long as key actions are not interrupted.
THEOREM TuningTransmits == ASSUME ~KeyRace PROVE Spec => []TuneMeansTransmit
  <1>1. SafeInv /\ [Next]_vars => SafeInv'
    BY SafeStep
  <1>2. SafeInv => TuneMeansTransmit
    BY DEF SafeInv, KeyInv
  <1> QED
    BY <1>1, <1>2, SafeInit, PTL DEF Spec

\* A TX disable set by the user keeps the antenna off the transmitter, in CW
\* training too, as long as key actions are not interrupted.
THEOREM UserDisableHolds == ASSUME ~KeyRace PROVE Spec => []UserDisableIsSilent
  <1>1. SafeInv /\ [Next]_vars => SafeInv'
    BY SafeStep
  <1>2. SafeInv => UserDisableIsSilent
    BY DEF SafeInv, KeyInv
  <1> QED
    BY <1>1, <1>2, SafeInit, PTL DEF Spec

(***************************************************************************)
(* Transmitting in band.                                                   *)
(***************************************************************************)

\* The inductive invariant: as long as nobody retunes, the transmitting radio is
\* on a permitted frequency and that is what the LO was asked for last.
OnChannel == ~retuned => InBand(radio)

LEMMA OnChannelStep == TypeOK /\ OnChannel /\ [Next]_vars => OnChannel'
  <1> SUFFICES ASSUME TypeOK, OnChannel, [Next]_vars PROVE OnChannel'
    OBVIOUS
  <1> USE DEF history
  <1>1. ASSUME NEW want \in Mode, Switch(want) PROVE OnChannel'
    <2>1. CASE retuned /\ retuned'
      BY <2>1 DEF OnChannel
    <2>2. CASE ~retuned
      BY <1>1, <2>2, SwitchKeeps DEF OnChannel, InBand
    <2>3. CASE retuned /\ ~retuned'
      <3>1. radio'.trx # "TX"
        BY <1>1, <2>3 DEF Switch
      <3>2. ~radio'.path
        BY <1>1, <3>1, SwitchKeeps
      <3> QED
        BY <3>2 DEF OnChannel, InBand
    <2> QED
      BY <2>1, <2>2, <2>3 DEF TypeOK
  <1>2. CASE UNCHANGED <<radio, retuned>>
    BY <1>2 DEF OnChannel, InBand
  <1>3. CASE (\E d \in Freq : Dial(d)) \/ ChangeDial
    <2>1. Moves
      BY <1>3, DialMoves
    <2>2. CASE radio.trx = "TX" /\ retuned'
      BY <2>2 DEF OnChannel
    <2>3. CASE radio.trx = "RX"
      BY <2>1, <2>3 DEF Moves, OnChannel, InBand, TypeOK
    <2>4. CASE UNCHANGED retuned /\ radio'.dial = radio.dial /\ radio'.loReq = radio.loReq
      BY <2>1, <2>4 DEF Moves, OnChannel, InBand
    <2> QED
      BY <2>1, <2>2, <2>3, <2>4 DEF Moves, TypeOK, RadioType, Mode
  <1>4. CASE StoreTxDisable \/ Tick
    <2>1. radio'.path = radio.path /\ radio'.dial = radio.dial /\ radio'.loReq = radio.loReq
          /\ UNCHANGED retuned
      BY <1>4 DEF StoreTxDisable, Tick, TypeOK, RadioType
    <2> QED
      BY <2>1 DEF OnChannel, InBand
  <1>5. CASE SetLo /\ UNCHANGED retuned
    <2>1. /\ radio'.path = radio.path /\ radio'.dial = radio.dial
          /\ radio'.loReq = TuneFrequency(radio.dial, radio.trx)
      BY <1>5, SetLoKeeps
    <2> QED
      BY <1>5, <2>1 DEF OnChannel, InBand, TypeOK
  <1>6. ASSUME NEW c \in Context, ServeRequest(c) \/ Release(c) PROVE OnChannel'
    BY <1>1, <1>2, <1>6 DEF ServeRequest, Release, Mode
  <1>7. CASE TuneSwitch
    BY <1>1, <1>7 DEF TuneSwitch, Mode
  <1> QED
    BY <1>2, <1>3, <1>4, <1>5, <1>6, <1>7
       DEF Next, Handlers, HandlePttOnOff, KeyActions, CriticalSections, StartHandler,
           CancelStop, Served, Stopped, ToggleTune, TuneRead, TuneStore, ToggleTxDisable,
           ToggleTxRx, CatEnableTX, PressLine, ReleaseLine, Retune, FollowDial, vars

\* For every set of permitted frequencies, with any interruption of key
\* actions, any exchange of VFOs and bands and any LO failure, a transmission
\* begins on a permitted frequency, its LO is not settled anywhere else, and
\* both remain so until the frequency is changed while the radio transmits.
THEOREM StaysInBand == Spec => []TransmitsInBand
  <1>1. Init => TypeOK /\ OnChannel
    <2>1. Init => radio.path = FALSE
      BY DEF Init
    <2> QED
      BY <2>1, TypeInit DEF OnChannel, InBand
  <1>2. TypeOK /\ OnChannel /\ [Next]_vars => (TypeOK /\ OnChannel)'
    BY TypeStep, OnChannelStep
  <1>3. OnChannel => TransmitsInBand
    BY DEF OnChannel, InBand, TransmitsInBand
  <1> QED
    BY <1>1, <1>2, <1>3, PTL DEF Spec

(***************************************************************************)
(* What a transmission leaves behind: the dial and the power level.         *)
(***************************************************************************)

\* No request to transmit is refused for its frequency, and key actions are not
\* interrupted.
NeverRefused == ~KeyRace /\ Freq \subseteq TxFreq \intersect Tunable

\* When tuning is about to switch, the radio transmits if tuning is to end, and
\* TX is not disabled if it is to begin.
TuneReady == pc["main"] = "tuneSwitch" =>
                 IF tune THEN radio.trx = "TX" ELSE ~IsTxDisabled(radio)

\* The inductive invariant behind ReceiveDialKept: in split mode the dialled
\* frequency waits in the receive VFO while the radio transmits.
DialInv == /\ TuneReady
           /\ radio.trx = "RX" => radio.dial = chosen
           /\ radio.trx = "TX" => radio.vfo["RX"] = chosen

\* A switch in split mode that cannot be refused: to TX from RX, or back.
LEMMA SplitSwitch ==
    ASSUME TypeOK, DialInv, Split, NeverRefused, chosen' = chosen,
           NEW want \in Mode, Switch(want),
           want = "TX" => ~IsTxDisabled(radio) \/ Cw,
           want = "RX" => radio.trx = "TX"
    PROVE  /\ radio'.trx = "RX" => radio'.dial = chosen'
           /\ radio'.trx = "TX" => radio'.vfo["RX"] = chosen'
  <1> DEFINE dial == WantedDial(radio, want)
  <1>1. /\ dial \in Freq
        /\ radio'.trx = Outcome(radio, want) /\ radio'.vfo = SavedVfo(radio, want)
        /\ radio'.dial = IF Stays(radio, want) THEN radio.dial ELSE dial
    BY SwitchResult
  <1>2. radio.trx \in Mode /\ radio.vfo \in [Mode -> Freq]
    BY DEF TypeOK, RadioType
  <1>3. CASE want = "TX"
    <2>1. radio'.trx = "TX"
      BY <1>1, <1>3 DEF Outcome, Granted, Validates, NeverRefused
    <2>2. SavedVfo(radio, want)["RX"] = chosen
      BY <1>2, <1>3 DEF SavedVfo, DialInv, Mode
    <2> QED
      BY <1>1, <2>1, <2>2
  <1>4. CASE want = "RX"
    <2>1. radio'.trx = "RX" /\ radio'.dial = dial
      BY <1>1, <1>4 DEF Outcome, Stays
    <2>2. dial = chosen
      BY <1>4 DEF WantedDial, SavedVfo, DialInv
    <2> QED
      BY <2>1, <2>2
  <1> QED
    BY <1>3, <1>4 DEF Mode

LEMMA DialInit == Init => DialInv
  <1>1. Init => radio.trx = "RX" /\ radio.dial = chosen /\ pc["main"] = "idle"
    BY DEF Init, Context
  <1> QED
    BY <1>1 DEF DialInv, TuneReady

LEMMA DialStep ==
    ASSUME Split, NeverRefused PROVE SafeInv /\ DialInv /\ [Next]_vars => DialInv'
  <1> SUFFICES ASSUME SafeInv, DialInv, [Next]_vars PROVE DialInv'
    OBVIOUS
  <1> USE DEF requests, inputs, history, Context, HandlerStep, KeyStep
  <1>0. TypeOK /\ KeyInv
    BY DEF SafeInv
  <1>a. pc = [c \in Context |-> pc[c]] /\ radio.trx \in Mode
    BY <1>0 DEF TypeOK, RadioType
  <1>b. ASSUME UNCHANGED <<radio, chosen, tune>>,
               pc'["main"] = "tuneSwitch" => pc["main"] = "tuneSwitch"
        PROVE  DialInv'
    BY <1>b DEF DialInv, TuneReady, IsTxDisabled
  <1>1. ASSUME NEW c \in Context,
               StartHandler(c) \/ CancelStop(c) \/ Served(c) \/ Stopped(c)
        PROVE  DialInv'
    BY <1>1, <1>a, <1>b DEF StartHandler, CancelStop, Served, Stopped, Goto
  <1>2. ASSUME NEW c \in Context, ServeRequest(c) PROVE DialInv'
    <2>1. pc'["main"] # "tuneSwitch"
      BY <1>2, <1>0, <1>a DEF ServeRequest, KeyInv, Goto
    <2>2. CASE radio.trx = "RX" /\ (~IsTxDisabled(radio) \/ Cw)
      BY <1>2, <1>0, <2>1, <2>2, SplitSwitch DEF ServeRequest, DialInv, TuneReady, Mode
    <2>3. CASE ~(radio.trx = "RX" /\ (~IsTxDisabled(radio) \/ Cw))
      BY <1>2, <1>b, <2>1, <2>3 DEF ServeRequest
    <2> QED
      BY <2>2, <2>3
  <1>3. ASSUME NEW c \in Context, Release(c) PROVE DialInv'
    <2>1. pc'["main"] # "tuneSwitch"
      BY <1>3, <1>0, <1>a DEF Release, KeyInv, Goto
    <2>2. CASE Switch("RX") /\ radio.trx = "TX"
      BY <1>3, <1>0, <2>1, <2>2, SplitSwitch DEF Release, DialInv, TuneReady, Mode
    <2>3. CASE UNCHANGED radio
      BY <1>3, <1>b, <2>1, <2>3 DEF Release
    <2> QED
      BY <1>3, <1>a, <2>2, <2>3 DEF Release, Mode
  <1>4. CASE ToggleTune
    <2>1. UNCHANGED <<radio, chosen>>
      BY <1>4 DEF ToggleTune
    <2>2. TuneReady'
      BY <1>4, <1>0, <1>a
         DEF ToggleTune, MainIdle, Goto, TuneReady, IsTxDisabled, KeyInv, TuneMeansTransmit
    <2> QED
      BY <2>1, <2>2 DEF DialInv
  <1>5. CASE TuneSwitch
    <2>1. pc'["main"] = "tuneRead" /\ chosen' = chosen
      BY <1>5, <1>a DEF TuneSwitch, Goto
    <2>2. IF tune THEN radio.trx = "TX" ELSE ~IsTxDisabled(radio)
      BY <1>5 DEF TuneSwitch, DialInv, TuneReady
    <2> QED
      BY <1>5, <1>0, <2>1, <2>2, SplitSwitch DEF TuneSwitch, DialInv, TuneReady, Mode
  <1>6. CASE TuneRead \/ TuneStore \/ ToggleTxDisable
    BY <1>6, <1>a DEF TuneRead, TuneStore, ToggleTxDisable, Goto, DialInv, TuneReady
  <1>7. CASE StoreTxDisable
    <2>1. radio'.trx = radio.trx /\ radio'.dial = radio.dial /\ radio'.vfo = radio.vfo
      BY <1>7, <1>0 DEF StoreTxDisable, TypeOK, RadioType
    <2> QED
      BY <1>7, <1>a, <2>1 DEF StoreTxDisable, Goto, DialInv, TuneReady
  <1>8. CASE ToggleTxRx \/ CatEnableTX \/ PressLine \/ ReleaseLine
    BY <1>8, <1>b DEF ToggleTxRx, CatEnableTX, PressLine, ReleaseLine
  <1>9. CASE (\E d \in Freq : Dial(d)) \/ ChangeDial
    <2>1. Moves /\ (pc' = pc \/ pc' = [pc EXCEPT !["main"] = "follow"])
      BY <1>9, <1>0, DialMoves
    <2>2. pc'["main"] # "tuneSwitch"
      BY <1>a, <2>1 DEF Moves
    <2> QED
      BY <1>a, <2>1, <2>2 DEF Moves, DialInv, TuneReady, Mode
  <1>10. CASE Retune \/ FollowDial
    <2>1. radio'.trx = radio.trx /\ radio'.dial = radio.dial /\ radio'.vfo = radio.vfo
      BY <1>10, <1>0, SetLoKeeps DEF Retune, FollowDial
    <2>2. pc'["main"] # "tuneSwitch" /\ UNCHANGED chosen
      BY <1>10, <1>a DEF Retune, FollowDial, MainIdle, Goto
    <2> QED
      BY <2>1, <2>2 DEF DialInv, TuneReady
  <1>11. CASE Tick
    <2>1. radio'.trx = radio.trx /\ radio'.dial = radio.dial /\ radio'.vfo = radio.vfo
          /\ radio'.tx_disable = radio.tx_disable
      BY <1>11, <1>0 DEF Tick, TypeOK, RadioType
    <2> QED
      BY <1>11, <1>a, <2>1 DEF Tick, DialInv, TuneReady, IsTxDisabled
  <1>12. CASE UNCHANGED vars
    BY <1>12, <1>b DEF vars
  <1> QED
    BY <1>1, <1>2, <1>3, <1>4, <1>5, <1>6, <1>7, <1>8, <1>9, <1>10, <1>11, <1>12
       DEF Next, Handlers, HandlePttOnOff, KeyActions, CriticalSections

\* Without split mode there is one dial, which only the operator turns.
OneDial == radio.dial = chosen

LEMMA OneDialInit == Init => OneDial
  BY DEF Init, OneDial

LEMMA OneDialStep == ASSUME ~Split PROVE TypeOK /\ OneDial /\ [Next]_vars => OneDial'
  <1> SUFFICES ASSUME TypeOK, radio.dial = chosen, [Next]_vars
               PROVE  radio'.dial = chosen'
    BY DEF OneDial
  <1> USE DEF history
  <1>1. ASSUME UNCHANGED <<radio, chosen>> PROVE radio'.dial = chosen'
    BY <1>1
  <1>2. ASSUME NEW want \in Mode, Switch(want), UNCHANGED chosen PROVE radio'.dial = chosen'
    BY <1>2, SwitchResult DEF WantedDial
  <1>3. ASSUME NEW c \in Context, ServeRequest(c) \/ Release(c) PROVE radio'.dial = chosen'
    BY <1>1, <1>2, <1>3 DEF ServeRequest, Release, Mode
  <1>4. CASE TuneSwitch
    BY <1>2, <1>4 DEF TuneSwitch, Mode
  <1>5. CASE (\E d \in Freq : Dial(d)) \/ ChangeDial
    BY <1>5, DialMoves DEF Moves
  <1>6. CASE Retune \/ FollowDial
    BY <1>6, SetLoKeeps DEF Retune, FollowDial
  <1>7. CASE StoreTxDisable \/ Tick
    BY <1>7 DEF StoreTxDisable, Tick, TypeOK, RadioType
  <1> QED
    BY <1>1, <1>3, <1>4, <1>5, <1>6, <1>7
       DEF Next, Handlers, HandlePttOnOff, KeyActions, CriticalSections, StartHandler,
           CancelStop, Served, Stopped, ToggleTune, TuneRead, TuneStore, ToggleTxDisable,
           ToggleTxRx, CatEnableTX, PressLine, ReleaseLine, vars

\* After any number of transmissions, tunings, LO failures and CAT commands
\* the dial in receive mode is the one the operator chose for receiving:
\* always without split mode, and with it as long as no request to transmit is
\* refused for its frequency (a refusal copies the transmit VFO to the dial).
THEOREM DialComesBack == ASSUME ~Split \/ NeverRefused PROVE Spec => []ReceiveDialKept
  <1>1. CASE ~Split
    <2>1. TypeOK /\ OneDial /\ [Next]_vars => (TypeOK /\ OneDial)'
      BY <1>1, TypeStep, OneDialStep
    <2>2. OneDial => ReceiveDialKept
      BY DEF OneDial, ReceiveDialKept
    <2> QED
      BY <2>1, <2>2, TypeInit, OneDialInit, PTL DEF Spec
  <1>2. CASE Split /\ NeverRefused
    <2>1. SafeInv /\ DialInv /\ [Next]_vars => (SafeInv /\ DialInv)'
      BY <1>2, SafeStep, DialStep DEF NeverRefused
    <2>2. DialInv => ReceiveDialKept
      BY DEF DialInv, ReceiveDialKept
    <2> QED
      BY <2>1, <2>2, SafeInit, DialInit, PTL DEF Spec
  <1> QED
    BY <1>1, <1>2

\* The inductive invariant behind PowerIsTemporary: from the moment tuning sets
\* the level aside, temp holds the normal one, TX is not disabled, and so
\* RadioManagement_Tune finds the direction it asked for.
PowerInv ==
    /\ PowerIsTemporary
    /\ tune => power.temp = "normal" /\ ~IsTxDisabled(radio)
    /\ pc["main"] = "tuneSwitch" =>
          power.temp = "normal" /\ ~IsTxDisabled(radio) /\ (tune => radio.trx = "TX")
    /\ pc["main"] = "tuneRead" =>
          power.temp = "normal" /\ IF tune THEN radio.trx = "RX"
                                   ELSE radio.trx = "TX" /\ ~IsTxDisabled(radio)
    /\ pc["main"] = "tuneStoreOn" => power.temp = "normal" /\ ~IsTxDisabled(radio)
    /\ pc["main"] \in {"tuneStoreOff", "disable"} => power.level = "normal"

LEMMA PowerInit == Init => PowerInv
  BY DEF Init, PowerInv, PowerIsTemporary, Context, KeyStep

\* Where no request is refused and the LO never fails, only the user disables TX.
LEMMA NothingElseDisables ==
    ASSUME NeverRefused, LoFaults = 0, TypeOK, NEW want \in Mode, Switch(want) \/ SetLo,
           ~IsTxDisabled(radio)
    PROVE  ~IsTxDisabled(radio)'
  <1>1. radio.dial \in Tunable /\ Freq \subseteq Tunable
    BY DEF TypeOK, RadioType, NeverRefused
  <1>2. radio'.tx_disable \subseteq radio.tx_disable
    BY <1>1, SwitchResult, SetLoKeeps
  <1> QED
    BY <1>2 DEF IsTxDisabled

LEMMA PowerStep ==
    ASSUME NeverRefused, LoFaults = 0
    PROVE  SafeInv /\ PowerInv /\ [Next]_vars => PowerInv'
  <1> SUFFICES ASSUME SafeInv, PowerInv, [Next]_vars PROVE PowerInv'
    OBVIOUS
  <1> USE DEF requests, inputs, history, Context, HandlerStep, KeyStep
  <1>0. TypeOK /\ KeyInv
    BY DEF SafeInv
  <1>a. pc = [c \in Context |-> pc[c]] /\ radio.trx \in Mode /\ tune \in BOOLEAN
        /\ power = [level |-> power.level, temp |-> power.temp]
    BY <1>0 DEF TypeOK, RadioType
  <1>b. ASSUME UNCHANGED <<power, tune>>, ~tune,
               pc["main"] \notin KeyStep, pc'["main"] \notin KeyStep
        PROVE  PowerInv'
    BY <1>b DEF PowerInv, PowerIsTemporary
  <1>1. ASSUME NEW c \in Context, HandlePttOnOff(c) PROVE PowerInv'
    <2>1. pc["main"] \notin KeyStep /\ ~tune
      BY <1>1, <1>0 DEF HandlePttOnOff, StartHandler, ServeRequest, CancelStop, Served,
                        Release, Stopped, CanStart, TuneBlocksPtt, KeyInv, NeverRefused
    <2>2. pc'["main"] \notin KeyStep /\ UNCHANGED <<power, tune>>
      BY <1>1, <1>a, <2>1 DEF HandlePttOnOff, StartHandler, ServeRequest, CancelStop,
                              Served, Release, Stopped, Goto
    <2> QED
      BY <1>b, <2>1, <2>2
  <1>2. CASE ToggleTune
    <2>2. CASE IsTxDisabled(radio)
      <3>1. ~tune
        BY <2>2 DEF PowerInv
      <3>2. pc["main"] = "idle" /\ tune' = FALSE /\ UNCHANGED <<power, pc>>
        BY <1>2, <2>2 DEF ToggleTune, MainIdle
      <3> QED
        BY <1>a, <1>b, <3>1, <3>2
    <2>3. CASE ~IsTxDisabled(radio)
      <3>1. pc'["main"] = "tuneSwitch" /\ UNCHANGED <<radio, tune>>
        BY <1>2, <1>a, <2>3 DEF ToggleTune, Goto
      <3>2. power'.temp = "normal"
        BY <1>2, <1>a, <2>3 DEF ToggleTune, MainIdle, PowerInv, PowerIsTemporary
      <3>3. tune => radio.trx = "TX"
        BY <1>2, <1>0 DEF ToggleTune, MainIdle, KeyInv, TuneMeansTransmit
      <3> QED
        BY <2>3, <3>1, <3>2, <3>3 DEF PowerInv, PowerIsTemporary, IsTxDisabled
    <2> QED
      BY <2>2, <2>3
  <1>3. CASE TuneSwitch
    <2> DEFINE want == IF tune THEN "RX" ELSE "TX"
    <2>1. pc["main"] = "tuneSwitch" /\ pc'["main"] = "tuneRead" /\ UNCHANGED <<power, tune>>
      BY <1>3, <1>a DEF TuneSwitch, Goto
    <2>2. power.temp = "normal" /\ ~IsTxDisabled(radio)
      BY <2>1 DEF PowerInv
    <2>3. want \in Mode /\ Switch(want)
      BY <1>3 DEF TuneSwitch, Mode
    <2>4. radio'.trx = Outcome(radio, want) /\ WantedDial(radio, want) \in Freq
      BY <1>0, <2>3, SwitchResult
    <2>5. Outcome(radio, want) = want
      BY <2>2, <2>4 DEF Outcome, Granted, Validates, NeverRefused
    <2>6. ~IsTxDisabled(radio)'
      BY <1>0, <2>2, <2>3, NothingElseDisables
    <2> QED
      BY <1>a, <2>1, <2>2, <2>4, <2>5, <2>6 DEF PowerInv, PowerIsTemporary
  <1>4. CASE TuneRead
    <2>1. /\ pc["main"] = "tuneRead" /\ UNCHANGED <<radio, tune>>
          /\ pc'["main"] = IF radio.trx = "TX" THEN "tuneStoreOn" ELSE "tuneStoreOff"
          /\ power' = PowerAfterTune
      BY <1>4, <1>a DEF TuneRead, Goto
    <2>2. power'.temp = "normal" /\ (tune => power'.level = "normal")
      BY <1>a, <2>1 DEF PowerAfterTune, PowerInv
    <2> QED
      BY <1>a, <2>1, <2>2 DEF PowerInv, PowerIsTemporary, IsTxDisabled
  <1>5. CASE TuneStore
    <2>1. /\ pc["main"] \in {"tuneStoreOn", "tuneStoreOff"} /\ pc'["main"] = "idle"
          /\ tune' = (pc["main"] = "tuneStoreOn") /\ UNCHANGED <<radio, power>>
      BY <1>5, <1>a DEF TuneStore, Goto
    <2> QED
      BY <2>1 DEF PowerInv, PowerIsTemporary, IsTxDisabled
  <1>6. CASE ToggleTxDisable
    <2>1. /\ pc["main"] = "idle" /\ pc'["main"] = "disable"
          /\ radio.trx = "RX" /\ UNCHANGED <<radio, power, tune>>
      BY <1>6, <1>a DEF ToggleTxDisable, MainIdle, Goto
    <2>2. ~tune
      BY <1>0, <2>1 DEF KeyInv, TuneMeansTransmit
    <2> QED
      BY <2>1, <2>2 DEF PowerInv, PowerIsTemporary
  <1>7. CASE StoreTxDisable
    <2>1. pc["main"] = "disable" /\ pc'["main"] = "idle" /\ UNCHANGED <<power, tune>>
      BY <1>7, <1>a DEF StoreTxDisable, Goto
    <2>2. ~tune
      BY <1>0, <2>1 DEF KeyInv
    <2> QED
      BY <2>1, <2>2 DEF PowerInv, PowerIsTemporary
  <1>8. CASE UNCHANGED <<power, tune, pc, radio>>
    BY <1>8 DEF PowerInv, PowerIsTemporary, IsTxDisabled
  <1>9. CASE (\E d \in Freq : Dial(d)) \/ ChangeDial \/ Tick
    <2>1. /\ radio'.trx = radio.trx /\ radio'.tx_disable = radio.tx_disable
          /\ UNCHANGED <<power, tune>>
          /\ pc' = pc \/ (pc["main"] = "idle" /\ pc' = [pc EXCEPT !["main"] = "follow"])
      <3>1. CASE Tick
        BY <1>0, <3>1 DEF Tick, TypeOK, RadioType
      <3> QED
        BY <1>9, <1>0, <3>1, DialMoves DEF Moves
    <2>2. pc' = pc \/ (pc["main"] = "idle" /\ pc'["main"] = "follow")
      BY <1>a, <2>1
    <2> QED
      BY <2>1, <2>2 DEF PowerInv, PowerIsTemporary, IsTxDisabled
  <1>10. CASE Retune \/ FollowDial
    <2>1. radio'.trx = radio.trx /\ UNCHANGED <<power, tune>>
      BY <1>10, <1>0, SetLoKeeps DEF Retune, FollowDial
    <2>2. ~IsTxDisabled(radio) => ~IsTxDisabled(radio)'
      BY <1>10, <1>0, NothingElseDisables DEF Retune, FollowDial, Mode
    <2>3. pc' = pc \/ (pc["main"] = "follow" /\ pc'["main"] = "idle")
      BY <1>10, <1>a DEF Retune, FollowDial, Goto
    <2> QED
      BY <2>1, <2>2, <2>3 DEF PowerInv, PowerIsTemporary
  <1> QED
    BY <1>1, <1>2, <1>3, <1>4, <1>5, <1>6, <1>7, <1>8, <1>9, <1>10, FreqAssumption
       DEF Next, Handlers, KeyActions, CriticalSections, ToggleTxRx, CatEnableTX,
           PressLine, ReleaseLine, vars

\* The power level for tuning never outlives the tuning, whatever requests,
\* retunings and CAT commands come in between: as long as no request to
\* transmit is refused for its frequency and the LO takes its settings.
THEOREM PowerComesBack ==
    ASSUME NeverRefused, LoFaults = 0 PROVE Spec => []PowerIsTemporary
  <1>1. SafeInv /\ PowerInv /\ [Next]_vars => (SafeInv /\ PowerInv)'
    BY SafeStep, PowerStep DEF NeverRefused
  <1>2. PowerInv => PowerIsTemporary
    BY DEF PowerInv
  <1> QED
    BY <1>1, <1>2, SafeInit, PowerInit, PTL DEF Spec

--------------------------------------------------------------------------------
(***************************************************************************)
(* The keyer's interrupt beside the switching.                             *)
(***************************************************************************)

\* A step of the whole is a step of the switching or the keyer's interrupt,
\* which makes at most a request.
KeyerAsks == UNCHANGED <<radio, power, tune, inputs, breakTimer, pc, faults, history>>
             /\ ptt_req' \in BOOLEAN /\ tx_stop_req' \in BOOLEAN

LEMMA KeyStepSplits == TypeOK /\ [KeyNext]_allVars => [Next]_vars \/ KeyerAsks
  BY DEF KeyNext, PressKey, ReleaseKey, OtherRequest, Others, KeyerInterrupt, RequestTxOff,
         KeyerAsks, requests, Next, KeyActions, CriticalSections, allVars, TypeOK

LEMMA TypeKeyStep == TypeOK /\ [KeyNext]_allVars => TypeOK'
  <1>1. TypeOK /\ KeyerAsks => TypeOK'
    BY DEF TypeOK, KeyerAsks, inputs, history
  <1> QED
    BY <1>1, KeyStepSplits, TypeStep

LEMMA SafeKeyStep == ASSUME ~KeyRace PROVE SafeInv /\ [KeyNext]_allVars => SafeInv'
  <1>1. SafeInv /\ KeyerAsks => SafeInv'
    BY DEF SafeInv, KeyInv, TuneMeansTransmit, UserDisableIsSilent, TypeOK, KeyerAsks, inputs, history
  <1> QED
    BY <1>1, KeyStepSplits, SafeStep DEF SafeInv

LEMMA PowerKeyStep ==
    ASSUME NeverRefused, LoFaults = 0
    PROVE  SafeInv /\ PowerInv /\ [KeyNext]_allVars => PowerInv'
  <1>1. PowerInv /\ KeyerAsks => PowerInv'
    BY DEF PowerInv, PowerIsTemporary, IsTxDisabled, KeyerAsks
  <1> QED
    BY <1>1, KeyStepSplits, PowerStep DEF SafeInv

LEMMA DialKeyStep ==
    ASSUME Split, NeverRefused
    PROVE  SafeInv /\ DialInv /\ [KeyNext]_allVars => DialInv'
  <1>1. DialInv /\ KeyerAsks => DialInv'
    BY DEF DialInv, TuneReady, IsTxDisabled, KeyerAsks, history
  <1> QED
    BY <1>1, KeyStepSplits, DialStep DEF SafeInv

LEMMA OneDialKeyStep == ASSUME ~Split PROVE TypeOK /\ OneDial /\ [KeyNext]_allVars => OneDial'
  <1>1. OneDial /\ KeyerAsks => OneDial'
    BY DEF OneDial, KeyerAsks, history
  <1> QED
    BY <1>1, KeyStepSplits, OneDialStep

\* The keyer's variables keep their types: no sequence of edges, interrupts and
\* transmissions counts the break time beyond what was set.
THEOREM KeyTypeCorrect == KeySpec => [](TypeOK /\ KeyTypeOK)
  <1>1. KeyInit => TypeOK /\ KeyTypeOK
    BY TypeInit, KeyAssumption DEF KeyInit, KeyTypeOK
  <1>2. TypeOK /\ KeyTypeOK /\ [KeyNext]_allVars => KeyTypeOK'
    <2> SUFFICES ASSUME TypeOK, KeyTypeOK, [KeyNext]_allVars PROVE KeyTypeOK'
      OBVIOUS
    <2>1. CASE KeyerInterrupt
      <3>1. KeyRuns(line) => key_timer' \in 0..3 /\ break_timer' \in 0..CwBreak
        BY KeyAssumption DEF KeyRuns, KeyTypeOK
      <3> QED
        BY <2>1, <3>1 DEF KeyerInterrupt, KeyTypeOK
    <2>2. CASE PressKey \/ ReleaseKey \/ OtherRequest \/ Others \/ UNCHANGED allVars
      BY <2>2 DEF PressKey, ReleaseKey, OtherRequest, Others, keyVars, allVars, KeyTypeOK
    <2> QED
      BY <2>1, <2>2 DEF KeyNext
  <1> QED
    BY <1>1, <1>2, TypeKeyStep, PTL DEF KeySpec

\* A TX disable set by the user holds against the key, too.
THEOREM UserDisableHoldsInCw == ASSUME ~KeyRace PROVE KeySpec => []UserDisableIsSilent
  <1>1. KeyInit => SafeInv
    BY SafeInit DEF KeyInit
  <1>2. SafeInv => UserDisableIsSilent
    BY DEF SafeInv, KeyInv
  <1>3. SafeInv /\ [KeyNext]_allVars => SafeInv'
    BY SafeKeyStep
  <1> QED
    BY <1>1, <1>2, <1>3, PTL DEF KeySpec

\* The receive dial comes back after keyed transmissions as after any other.
THEOREM DialComesBackInCw ==
    ASSUME ~Split \/ NeverRefused PROVE KeySpec => []ReceiveDialKept
  <1>1. CASE ~Split
    <2>1. KeyInit => TypeOK /\ OneDial
      BY TypeInit, OneDialInit DEF KeyInit
    <2>2. TypeOK /\ OneDial /\ [KeyNext]_allVars => (TypeOK /\ OneDial)'
      BY <1>1, TypeKeyStep, OneDialKeyStep
    <2>3. OneDial => ReceiveDialKept
      BY DEF OneDial, ReceiveDialKept
    <2> QED
      BY <2>1, <2>2, <2>3, PTL DEF KeySpec
  <1>2. CASE Split /\ NeverRefused
    <2>1. SafeInv /\ DialInv /\ [KeyNext]_allVars => (SafeInv /\ DialInv)'
      BY <1>2, SafeKeyStep, DialKeyStep DEF NeverRefused
    <2>2. DialInv => ReceiveDialKept
      BY DEF DialInv, ReceiveDialKept
    <2>3. KeyInit => SafeInv /\ DialInv
      BY SafeInit, DialInit DEF KeyInit
    <2> QED
      BY <2>1, <2>2, <2>3, PTL DEF KeySpec
  <1> QED
    BY <1>1, <1>2

\* So does the power level.
THEOREM PowerComesBackInCw ==
    ASSUME NeverRefused, LoFaults = 0 PROVE KeySpec => []PowerIsTemporary
  <1>1. SafeInv /\ PowerInv /\ [KeyNext]_allVars => (SafeInv /\ PowerInv)'
    BY SafeKeyStep, PowerKeyStep DEF NeverRefused
  <1>2. PowerInv => PowerIsTemporary
    BY DEF PowerInv
  <1>3. KeyInit => SafeInv /\ PowerInv
    BY SafeInit, PowerInit DEF KeyInit
  <1> QED
    BY <1>1, <1>2, <1>3, PTL DEF KeySpec

(***************************************************************************)
(* Something ends a transmission the key began.                            *)
(***************************************************************************)

Underway == {"request", "cancelStop", "served"}

KeyerCounts == key_timer > 0 \/ break_timer > 0

\* The inductive invariant behind SomethingEndsIt: a request of the key that
\* is pending or being served finds the key down or the keyer counting, and so
\* does a transmission it began, or the stop request is there already; what
\* the handler clears at its end, it has served.
EndInv ==
    /\ source = "key" /\ (ptt_req \/ pc["pendsv"] \in Underway) => line \/ KeyerCounts
    /\ radio.trx = "TX" /\ source = "key" /\ ~tune /\ pc["main"] \notin KeyStep
          => line \/ KeyerCounts \/ tx_stop_req
    /\ pc["pendsv"] = "stopped" => radio.trx = "RX" \/ ~tx_stop_req
    /\ pc["main"] = "tuneStoreOff" => radio.trx = "RX"
    /\ pc["main"] \notin HandlerStep

\* What EndInv needs to know of a state of the switching: PendSV waits while a
\* key action is under way, and tuning ends in receive mode.
Premise == SafeInv /\ PowerInv /\ KeyTypeOK /\ EndInv

LEMMA EndKeyer ==
    ASSUME Premise, KeyerInterrupt PROVE EndInv'
  <1> USE DEF inputs
  <1>1. /\ pc["pendsv"] = "idle" /\ UNCHANGED <<pc, radio, line, tune>>
        /\ key_timer \in 0..3 /\ break_timer \in 0..CwBreak
        /\ CwBreak \in Nat \ {0} /\ KeyRuns(line)
    BY KeyAssumption DEF KeyerInterrupt, Premise, KeyTypeOK
  <1>2. CASE line
    BY <1>1, <1>2 DEF Premise, EndInv, Underway
  <1>3. CASE ~line /\ key_timer = 0 /\ break_timer = 1
    BY <1>1, <1>3 DEF KeyerInterrupt, RequestTxOff, Premise, EndInv, Underway
  <1>4. CASE ~line /\ ~(key_timer = 0 /\ break_timer = 1)
    <2>1. UNCHANGED <<ptt_req, tx_stop_req, source>>
      BY <1>4 DEF KeyerInterrupt, requests
    <2>2. KeyerCounts'
      <3>1. key_timer > 0 \/ break_timer > 1
        BY <1>1, <1>4 DEF KeyerInterrupt
      <3> QED
        BY <1>1, <1>4, <3>1 DEF KeyRuns, KeyerCounts
    <2> QED
      BY <1>1, <2>1, <2>2 DEF Premise, EndInv, Underway
  <1> QED
    BY <1>2, <1>3, <1>4

\* The operator's key and the other sources of requests.
LEMMA EndInputs ==
    ASSUME LongPresses, Premise, PressKey \/ ReleaseKey \/ OtherRequest PROVE EndInv'
  <1>1. CASE PressKey
    BY <1>1 DEF PressKey, PressLine, RequestTxOn, Premise, EndInv
  <1>2. CASE ReleaseKey
    <2>1. /\ line' = FALSE
          /\ UNCHANGED <<radio, tune, ptt_req, tx_stop_req, pc, key_timer, break_timer, source>>
      BY <1>2 DEF ReleaseKey, ReleaseLine, keyVars, requests
    <2>2. key_timer > 0 \/ (radio.trx = "RX" /\ ~ptt_req /\ pc["pendsv"] = "idle")
      BY <1>2 DEF ReleaseKey
    <2> QED
      BY <2>1, <2>2 DEF Premise, EndInv, KeyerCounts, Underway
  <1>3. CASE OtherRequest
    <2>1. UNCHANGED <<radio, pc>> /\ source' = "other" /\ pc["pendsv"] = "idle"
      BY <1>3 DEF OtherRequest, ToggleTxRx, CatEnableTX, MainIdle, Context
    <2> QED
      BY <2>1 DEF Premise, EndInv
  <1> QED
    BY <1>1, <1>2, <1>3

\* PendSV's handler; the main loop runs none of it.
LEMMA EndHandlers ==
    ASSUME ~KeyRace, ~RemotePtt, Premise, NEW c \in Context, HandlePttOnOff(c),
           UNCHANGED keyVars
    PROVE  EndInv'
  <1> USE DEF requests, inputs, keyVars, Context, HandlerStep, KeyStep
  <1>1. c = "pendsv" /\ pc["main"] \notin KeyStep
    BY DEF HandlePttOnOff, StartHandler, ServeRequest, CancelStop, Served, Release, Stopped,
           CanStart, Premise, EndInv, SafeInv, KeyInv
  <1>2. /\ pc = [d \in Context |-> pc[d]] /\ radio.trx \in Mode
        /\ tune \in BOOLEAN /\ line \in BOOLEAN
        /\ ptt_req \in BOOLEAN /\ tx_stop_req \in BOOLEAN
    BY DEF Premise, SafeInv, TypeOK, RadioType
  <1>3. UNCHANGED <<tune, line, key_timer, break_timer, source>> /\ pc'["main"] = pc["main"]
        /\ KeyerCounts' = KeyerCounts
    BY <1>1, <1>2 DEF HandlePttOnOff, StartHandler, ServeRequest, CancelStop, Served,
                      Release, Stopped, Goto, KeyerCounts
  <1>4. CASE StartHandler(c)
    BY <1>1, <1>2, <1>3, <1>4 DEF StartHandler, Goto, Premise, EndInv, Underway
  <1>5. CASE ServeRequest(c)
    BY <1>1, <1>2, <1>3, <1>5 DEF ServeRequest, Goto, Premise, EndInv, Underway
  <1>6. CASE CancelStop(c)
    BY <1>1, <1>2, <1>3, <1>6 DEF CancelStop, Goto, Premise, EndInv, Underway
  <1>7. CASE Served(c)
    BY <1>1, <1>2, <1>3, <1>7 DEF Served, Goto, Premise, EndInv, Underway
  <1>8. CASE Release(c)
    <2>1. UNCHANGED <<ptt_req, tx_stop_req>> /\ pc'["pendsv"] = "stopped"
      BY <1>1, <1>2, <1>8 DEF Release, Goto
    <2>2. radio'.trx = "RX" \/ (UNCHANGED radio /\ ~tx_stop_req)
      <3>1. Switch("RX") => radio'.trx = "RX"
        BY SwitchResult DEF Outcome, Mode, Premise, SafeInv
      <3> QED
        BY <1>2, <1>8, <3>1 DEF Release, Mode
    <2> QED
      BY <1>1, <1>2, <1>3, <2>1, <2>2 DEF Premise, EndInv, Underway
  <1>9. CASE Stopped(c)
    BY <1>1, <1>2, <1>3, <1>9 DEF Stopped, Goto, Premise, EndInv, Underway
  <1> QED
    BY <1>4, <1>5, <1>6, <1>7, <1>8, <1>9 DEF HandlePttOnOff

\* The key actions, the critical sections and time.
LEMMA EndMain ==
    ASSUME Premise, UNCHANGED keyVars,
           \/ ToggleTune \/ TuneSwitch \/ TuneRead \/ TuneStore
           \/ ToggleTxDisable \/ StoreTxDisable
           \/ (\E d \in Freq : Dial(d)) \/ ChangeDial \/ FollowDial \/ Retune \/ Tick
    PROVE  EndInv'
  <1> USE DEF requests, inputs, keyVars, Context, HandlerStep, KeyStep
  <1>1. /\ pc = [c \in Context |-> pc[c]] /\ radio.trx \in Mode /\ tune \in BOOLEAN
        /\ line \in BOOLEAN /\ ptt_req \in BOOLEAN /\ tx_stop_req \in BOOLEAN
    BY DEF Premise, SafeInv, TypeOK, RadioType
  <1>2. UNCHANGED <<line, ptt_req, tx_stop_req, source>> /\ KeyerCounts' = KeyerCounts
    <2>1. CASE (\E d \in Freq : Dial(d)) \/ ChangeDial
      BY <2>1, DialMoves DEF Moves, KeyerCounts, Premise, SafeInv
    <2> QED
      BY <2>1 DEF ToggleTune, TuneSwitch, TuneRead, TuneStore, ToggleTxDisable,
                  StoreTxDisable, FollowDial, Retune, Tick, KeyerCounts
  <1>3. CASE ToggleTune
    <2>1. tune => ~IsTxDisabled(radio)
      BY DEF Premise, PowerInv
    <2>2. tune' = tune /\ pc["main"] = "idle" /\ pc["pendsv"] = "idle" /\ UNCHANGED radio
      BY <1>1, <1>3, <2>1 DEF ToggleTune, MainIdle
    <2>3. pc' = pc \/ Goto("main", "tuneSwitch")
      BY <1>3 DEF ToggleTune
    <2> QED
      BY <1>1, <1>2, <2>2, <2>3 DEF Goto, Premise, EndInv, Underway
  <1>4. CASE TuneSwitch
    BY <1>1, <1>2, <1>4 DEF TuneSwitch, CanRun, Goto, Premise, EndInv, Underway
  <1>5. CASE TuneRead
    <2>1. /\ pc["pendsv"] = "idle" /\ UNCHANGED <<radio, tune>>
          /\ pc' = [pc EXCEPT !["main"] = IF radio.trx = "TX" THEN "tuneStoreOn"
                                                              ELSE "tuneStoreOff"]
      BY <1>5 DEF TuneRead, CanRun, Goto
    <2>2. /\ pc'["pendsv"] = "idle" /\ pc'["main"] \in {"tuneStoreOn", "tuneStoreOff"}
          /\ pc'["main"] = "tuneStoreOff" => radio.trx = "RX"
      BY <1>1, <2>1 DEF Mode
    <2> QED
      BY <1>2, <2>1, <2>2 DEF Premise, EndInv, Underway
  <1>6. CASE TuneStore
    <2>1. /\ pc["pendsv"] = "idle" /\ pc["main"] \in {"tuneStoreOn", "tuneStoreOff"}
          /\ pc' = [pc EXCEPT !["main"] = "idle"]
          /\ UNCHANGED radio /\ tune' = (pc["main"] = "tuneStoreOn")
      BY <1>6 DEF TuneStore, CanRun, Goto
    <2>2. pc'["pendsv"] = "idle" /\ pc'["main"] = "idle"
      BY <1>1, <2>1
    <2>3. tune' \/ radio.trx = "RX"
      BY <2>1 DEF Premise, EndInv
    <2> QED
      BY <1>1, <1>2, <2>1, <2>2, <2>3 DEF Premise, EndInv, Underway
  <1>7. CASE ToggleTxDisable
    BY <1>1, <1>2, <1>7 DEF ToggleTxDisable, MainIdle, Goto, Premise, EndInv, Underway
  <1>8. CASE StoreTxDisable
    <2>1. radio.trx = "RX" /\ radio'.trx = radio.trx
      BY <1>8 DEF StoreTxDisable, Premise, SafeInv, KeyInv, TypeOK, RadioType
    <2> QED
      BY <1>1, <1>2, <1>8, <2>1 DEF StoreTxDisable, CanRun, Goto, Premise, EndInv, Underway
  <1>9. CASE (\E d \in Freq : Dial(d)) \/ ChangeDial
    <2>1. radio'.trx = radio.trx /\ UNCHANGED tune /\ pc = [c \in Context |-> "idle"]
          /\ (pc' = pc \/ pc' = [pc EXCEPT !["main"] = "follow"])
      BY <1>9, DialMoves DEF Moves, Premise, SafeInv
    <2>2. /\ pc["main"] = "idle" /\ pc["pendsv"] = "idle"
          /\ pc'["main"] \in {"idle", "follow"} /\ pc'["pendsv"] = "idle"
      BY <2>1
    <2> QED
      BY <1>2, <2>1, <2>2 DEF Premise, EndInv, Underway
  <1>10. CASE FollowDial
    <2>1. radio'.trx = radio.trx /\ UNCHANGED tune
      BY <1>10, SetLoKeeps DEF FollowDial, Premise, SafeInv
    <2>2. /\ pc["main"] = "follow" /\ pc["pendsv"] = "idle"
          /\ pc'["main"] = "idle" /\ pc'["pendsv"] = "idle"
      BY <1>1, <1>10 DEF FollowDial, CanRun, Goto
    <2> QED
      BY <1>2, <2>1, <2>2 DEF Premise, EndInv, Underway
  <1>11. CASE Retune \/ Tick
    <2>1. radio'.trx = radio.trx
      BY <1>11, SetLoKeeps DEF Retune, Tick, Premise, SafeInv, TypeOK, RadioType
    <2>2. UNCHANGED <<pc, tune>>
      BY <1>11 DEF Retune, Tick
    <2> QED
      BY <1>2, <2>1, <2>2 DEF Premise, EndInv
  <1> QED
    BY <1>3, <1>4, <1>5, <1>6, <1>7, <1>8, <1>9, <1>10, <1>11

\* A transmission the key began always has something left that ends it, for
\* every length of the break time, whatever tuning, dialling and other requests
\* come in between: as long as a press lasts until the keyer sees it, PTT is not
\* toggled remotely and nothing but the user disables TX.
THEOREM KeyerStaysInCharge ==
    ASSUME LongPresses, ~RemotePtt, NeverRefused, LoFaults = 0
    PROVE  KeySpec => []SomethingEndsIt
  <1>1. KeyInit => SafeInv /\ PowerInv /\ EndInv
    BY SafeInit, PowerInit
       DEF KeyInit, Init, EndInv, Underway, Context, HandlerStep, KeyStep
  <1>2. SafeInv /\ PowerInv /\ [KeyNext]_allVars => (SafeInv /\ PowerInv)'
    BY SafeKeyStep, PowerKeyStep DEF NeverRefused
  <1>3. SafeInv /\ PowerInv /\ KeyTypeOK /\ EndInv /\ [KeyNext]_allVars => EndInv'
    <2> SUFFICES ASSUME Premise, [KeyNext]_allVars PROVE EndInv'
      BY DEF Premise
    <2>1. CASE KeyerInterrupt
      BY <2>1, EndKeyer
    <2>2. CASE PressKey \/ ReleaseKey \/ OtherRequest
      BY <2>2, EndInputs
    <2>3. CASE Others
      BY <2>3, EndHandlers, EndMain DEF Others, Handlers, NeverRefused
    <2>4. CASE UNCHANGED allVars
      BY <2>4 DEF allVars, vars, keyVars, Premise, EndInv, KeyerCounts
    <2> QED
      BY <2>1, <2>2, <2>3, <2>4 DEF KeyNext
  <1>4. SafeInv /\ EndInv => SomethingEndsIt
    BY DEF SafeInv, EndInv, SomethingEndsIt, MainIdle, KeyerCounts, Context, KeyStep
  <1> QED
    BY <1>1, <1>2, <1>3, <1>4, KeyTypeCorrect, PTL DEF KeySpec
================================================================================
