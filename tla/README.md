# A TLA+ model of the UHSDR firmware

UHSDR is the firmware of a family of software defined amateur radio transceivers
(mcHF, OVI40): a bare-metal C program on an STM32, with an operator's interface, a DSP
chain, a transmitter that must not be on at the wrong time, and settings that must
survive being switched off. This directory holds TLA+ modules of the parts of it in which the
order of events decides whether it works, the TLC configurations that check them on
small instances, and theorems that TLAPS checks for all values of the constants.

Paths below are relative to `src/mchf-eclipse/` unless they name another directory.

## 1. The system

### 1.1 Contexts of execution

There is no operating system. Four kinds of code share all state:

| context | what runs there | preempts |
|---|---|---|
| main loop (`uhsdr_main.c`, `UiDriver_TaskHandler_MainTasks`) | user interface, CAT, remote commands, retuning, settings | nothing |
| PendSV (`UiDriver_TaskHandler_HighPrioTasks`) | `RadioManagement_HandlePttOnOff`, triggered by every audio interrupt | main loop |
| audio DMA interrupt (`audio_driver.c`) | DSP, CW keyer, PTT requests of the keyer | both |
| USART2, EXTI, USB interrupts | bytes of the remote unit, key and PTT lines, CAT bytes | both; USB also the audio interrupt, which the lines (EXTI) cannot |

PendSV starts its handler only if `RadioManagement_SwitchTxRx_Possible` (`radio_management.c:918`)
says so: no critical section of the main loop is open (CAT, encoders, retuning), no I2C
transfer is under way and no switch is running. Key actions, remote commands and the
remote command queue have no such protection, and that is where most hazards are.

### 1.2 Components

| component | state | operations | works when |
|---|---|---|---|
| remote command queue (`drivers/remote/remote.c`) | ring, head, tail, count | `Remote_Enqueue` in the interrupt, `Remote_Dequeue` / `Remote_InjectIntoUI` in the main loop | the UI gets every command once, in order, unless the ring overflowed |
| remote session (`remote.c`) | states of both units, time stamps | HELLO, MAIN_ACK, HEARTBEAT, time-out | a silent peer is noticed, a live one is not dropped, the link comes up |
| remote packet framing (`remote.c`, `remote_protocol.c`) | byte state machine, CRC | `Remote_RxByte`, `Remote_BuildPacket` | a packet is decoded as it was built, after any garbage |
| settings flash (`misc/v_eprom/uhsdr_flash.c`) | two flash pages | `Flash_Init`, `Flash_UpdateVariable`, `Flash_ReadVariable`, page transfer | what was stored is read back, over power losses |
| configuration storage (`misc/config_storage.c`, `misc/serial_eeprom.c`, `drivers/ui/ui_configuration.c`) | flash, serial EEPROM with signature, RAM cache, which of them is in use | start-up, migration, load, save, backup, restore, erase | there is one current copy of the settings and it is complete |
| TX/RX control (`drivers/ui/radio_management.c`) | direction, antenna, LO, dial, VFOs, TX disable, requests, power level | `RadioManagement_SwitchTxRx`, `_HandlePttOnOff`, `_ChangeFrequency`, `_Tune` | the transmitter is on only when it may be, and goes off again |
| CW keyer (`drivers/audio/cw/cw_gen.c`) | symbol timer, break timer, iambic state | `CwGen_Process` in the audio interrupt | a keyed transmission ends, symbols are sent as keyed |
| CAT driver (`drivers/cat/cat_driver.c`) | receive ring, command and clone state, RTS line | USB interrupt, `CatDriver_HandleProtocol` | commands are cut out of the byte stream, cloning ends, a PTT that was keyed is let go |
| text buffer (`drivers/audio/cw/uhsdr_digi_buffer.c`) | ring of characters, its consumer | put by macros and keyer, removed by keyer and modulators | what is put in is taken out by the one it is for |
| modulators (`drivers/audio/psk.c`, `drivers/audio/rtty.c`) | preamble, characters, postamble | `Psk_Modulator_GenSample`, `Rtty_Modulator_GenSample` in the audio interrupt | text is sent, the transmission ends after it or when asked to |
| sample rings (`drivers/audio/rb.c`, `freedv_uhsdr.c`) | rings with two indices each, which direction they were cleared for | `FreeDv_HandleFreeDv` in PendSV, `TxProcessor_FreeDV` and `AudioDriver_RxProcessorFreeDV` in the audio interrupt | each sample goes through its ring once and in order |
| audio DSP, oscillator drivers, UI and menus, board support, boot loader, USB | numeric, register and display state | | not modelled, see 7 |

They interact by shared globals (`ts`, `df`): remote commands and CAT set frequency and PTT
requests; the keyer and the lines set `ts.ptt_req` and `ts.tx_stop_req`; TX/RX control
reads them in PendSV. The keyer reads the text buffer in CW and writes it in the other text modes; the modulators
read it and ask for the end of the transmission. The configuration storage saves the same globals from the main
loop when the operator asks for it or switches off, and sits on the flash emulation.

### 1.3 What is hard

Interrupts between two memory accesses (queue, time-out test, key actions); steps of
several main-loop, PendSV and interrupt handlers in any order; an LO that refuses a
frequency halfway through the switch to TX; timers that are started in one handler and
stopped in another; lost packets and restarts of one of two units; power losses between any two flash
or EEPROM operations; long sequences of legal writes that fill a page; a byte stream without time-out or with one, out of
step with its packets; requests to start and to stop a transmission that cancel each other; a buffer whose reader changes with the mode; rings whose two
sides change hands with the direction. `PROJECT.json`
lists each of them under `hazards` with its line and the properties aimed at it.

## 2. The modules

| module | models | extends / uses |
|---|---|---|
| `DropOldestQueue` | what the command queue promises: a bounded FIFO that drops its oldest entry | |
| `RemoteQueue` | the ring buffer | refines `DropOldestQueue` |
| `RemoteInject` | the ring with the receive interrupt striking inside the main loop's dequeue | `RemoteQueue` |
| `RemoteReceive` | the bytes from the line through the parser into the ring | `RemoteQueue` |
| `RemoteQueue_proofs` | proofs | `RemoteInject` and with it `RemoteQueue` |
| `RemoteLink` | the session between main and remote unit | |
| `RemoteLink_proofs` | proofs | `RemoteLink`, `RemoteReceive` |
| `SettingsStore` | what a settings memory promises | |
| `FlashEeprom` | the flash emulation, one step per flash operation | refines `SettingsStore` before its first transfer |
| `FlashEeprom_proofs` | proofs | `FlashEeprom` |
| `ConfigStorage` | flash, serial EEPROM and RAM cache together | abstracts the flash to what `SettingsStore` promises |
| `ConfigStorage_proofs` | proofs | `ConfigStorage` |
| `TxRxControl` | TX/RX switching | |
| `CwStraightKey` | the straight key driving TX/RX control | `TxRxControl` |
| `TxRxControl_proofs` | proofs | `CwStraightKey` and with it `TxRxControl` |
| `CatDriver` | CAT: the ring, commands, cloning, the RTS line | |
| `CatDriver_proofs` | proofs | `CatDriver` |
| `TextBuffer` | the text buffer as a value | |
| `CwText` | the electronic keyer: paddles and text in CW | `TextBuffer` |
| `CwText_proofs` | proofs | `CwText` |
| `DigiText` | PSK and RTTY text, macros and their recording | `TextBuffer` |
| `FreeDv` | FreeDV: the sample rings between the codec and the audio interrupt | |
| `DigiModes` | the digital modes in one radio: text or FreeDV | `DigiText`, `FreeDv` |
| `DigiModes_proofs` | proofs | `DigiModes` and with it `DigiText` and `FreeDv` |
| `MCRemoteReceive`, `MCCwText`, `MCDigiText`, `MCDigiModes` | constants of the runs that a `.cfg` cannot write | |

Definitions named `...Late`, `...Never`, `...Unchecked` and the like, commented as
mutants or mutations, are deliberately wrong versions of the definition below them. They are not part of any specification;
each shows that a property notices the mistake it stands for (`mutants` in
`PROJECT.json`). `TypeOK` of a module that no run lists holds too and is proved (section 4). The runs spend their time on the others.

### 2.1 RemoteQueue, DropOldestQueue, RemoteInject

`rq` is the record of `remote_cmd_queue`, `remote_cmd_head`, `remote_cmd_tail` and
`remote_cmd_count`; `Enqueued` and `Dequeued` are `Remote_Enqueue` and `Remote_Dequeue`
as functions of it, `WithRoom` the overflow path (`remote.c:86`). `Content` reads the
ring from the tail on; under it the ring is the abstract queue.

`RemoteInject` splits the drain loop at its memory accesses (`LoopEnter`, `CopyEntry`,
`AdvanceTail`, `LowerCount`, `Apply`); `UartCommand` is the receive interrupt and may
come between any two. The variables are plain statics shared without a lock, so where the
compiler may keep a loaded value or load it again both are allowed. One packet at most
completes during a dequeue: it takes 434 microseconds on the wire.

### 2.2 RemoteLink

Both units, two wires as sequences of packets, ages instead of time stamps (a time stamp
is only ever subtracted from the clock). `MainSample` and `MainCheck` are the two loads of
the time-out test (`remote.c:432`), with `SplitRead` the clock and the interrupts may come between
them. A unit's main loop runs once per tick; packets arrive within a tick or are lost
(`LosePacket`); either unit may be switched off and on. `lostBeats` is a history variable: the heartbeats lost
since the last sign of life arrived.

### 2.3 FlashEeprom, SettingsStore

A page is its status word and the list of (address, value) words programmed so far. A
call computes `plan`, the sequence of flash operations it will issue, and each of them is
a step: `EraseSector`, `ProgramHeader`, `CopyVariable`, `PutVariable`. `PowerLoss` may come
between and within them (`Torn`: a header or a sector half erased), `OperationFails` is an error reported by the
hardware. `FindPage`, `InitPlan`, `TransferFullPage` and `PageTransfer` are the decisions of the
functions of the same names. What the code does with the double translation of an
address (`uhsdr_flash.c:168`) and with page numbers used as sector ids (`:188`) is in the model.

### 2.4 ConfigStorage

`flash`, `eeprom`, `signature`, `cache` and `inUse` (`ts.configstore_in_use`) are the stores;
`settings` is what is in RAM. `job` and `next` say what the main loop is doing and at which
page or variable, so that power loss (`PowerOff`) and I2C failure (`Access`) can hit
every one. One page holds one variable. The jobs: start-up with chip detection and use
state (`Boot...`), migration, comparison and marking (`Migrate`, `Verify`, `Mark`), load with
range check, save by bulk write over the RAM cache or variable by variable to flash,
the keyer macros, and the four menu functions (backup, restore, erase, forget). Variable 1
stands for band, mode and frequency, which are not saved while CAT runs in its sandbox.
`UiDriver_PowerDownCleanup`'s two saves are one request that is followed by a second.

### 2.5 TxRxControl

`radio` is the record of what `RadioManagement_SwitchTxRx` and `_ChangeFrequency` write:
direction `trx`, `path` (the antenna is on the transmitter), `dial`, `lo` and `loReq` (frequency
and direction of the LO, set and asked for), `lockAge`, `tx_disable`, `vfo`. `SwitchTxRx` and `ChangeFrequency` are
functions of that record, because the flag `radioManagement_SwitchTxRx_running` keeps PendSV out
while they run. `HandlePttOnOff` is split at the points where an interrupt may set a
request (`StartHandler`, `ServeRequest`, `CancelStop`, `Served`, `Release`, `Stopped`), and `pc` holds
where each of the two contexts that run it is. Key actions are split where PendSV can
come between (`ToggleTune`, `TuneSwitch`, `TuneRead`, `TuneStore`; `ToggleTxDisable`, `StoreTxDisable`);
with `KeyRace = FALSE` PendSV does not run inside of them.

The frequency changes by the encoder and CAT (`Dial`), a touch of the spectrum or the key for the next kHz (`KeyDial`), F4
(`ToggleVfoAB`), the copy of a VFO (`CopyVfoAB`) and the band buttons and keypads (`SelectBandMemory`). Only the encoder and
the band buttons look at the direction, so all but `Dial` of the encoder may come at any time; none looks at the transmit band. The keys and the touch then set the LO
themselves (`FollowDial`, a step later, as PendSV may come between), `Dial` leaves it to `Retune`. What one key stores before it sets the LO is one step.
`vfo` has the stored frequencies of the active VFO (`"RX"`) and of the other; without split mode the former is written
before it is read and is kept constant (`VfoPair`). The mode stored with a VFO is taken to be the present one.

Two history variables: `chosen` is the frequency the operator last chose for receiving, `retuned` says that the frequency was changed since the
radio began to transmit.

### 2.6 CwStraightKey

The keyer's timers on top of all of `TxRxControl`. In CW nothing but the keyer asks for the end of
a transmission, so `KeyedTransmissionEnds` depends on both. `source` is a history variable.

### 2.7 RemoteReceive

`rx` is `g_rx`; `RxByte`, `Accepts` and `IsCommand` are the three parts of `Remote_RxByte` and
`Remote_ProcessPacket` that decide about a byte, and `Receive` is one UART interrupt. The bytes are the
real ones and the CRC is computed, because what the parser does out of step depends on the values:
a start byte, a length or a CRC may be found in the middle of a packet. Xor is written in arithmetic, the table of the CRC as a function composed
of eight equal shifts. `line` is what is still to come of the current
packet; `ByteLost`, `ByteGarbled` and `Cut` are the faults, no two without an accepted packet in between. `sent`,
`forged` and `heard` are history: a packet acted on must be one of those sent and not accepted before; `heard` tells whether the parser was
between two packets when the current one began and every byte of it has arrived since (`whole`), one of them garbled (`garbled`), or neither (`broken`).

### 2.8 CatDriver

A byte is its place in the host's command, so a command that is put together from two is told from a whole
one. `SyncSize`, `SyncAge`, `Expire` are the memory accesses of `cat_driver_sync_data`, with the USB
interrupt (`Receive`) between any two; `HandleCommands` takes a command out; `CloneOut` and `CloneIn` make one step of
their state machines per call; `PttLine` ends every call. The host sends whole commands or breaks off in one, acknowledges late or
wrongly, is plugged and unplugged, and moves RTS. Each time is kept as an age; `sysclock` being less than the time-out (the first 0.3 seconds, before USB is up) and its
wrap after 497 days are left out.

### 2.9 TextBuffer, CwText, DigiText

The ring of characters is the sequence of what waits in it: each of its two indices has one writer at a time (but see 6.2 on
the reset). `active` and `prev` are the consumers (`DigiModes_Set_BufferConsumer`).

`CwText`: `key` is `ps`, and a run of the keyer (`KeyerRun`) is `ProcessIambic` as a function of it, going through several
states as the `do ... while` of the code does. `Idle`, `Wait`, `Begin`, `KeyUp`, `PauseRun`, `PauseOver` are the
cases of its `switch`, `MayFetch`, `Fetched`, `NextElement` the parts of `CwGen_CheckDigiBufferState`. Handler and requests
are those of `TxRxControl` without LO, split mode and power, which are nothing to the keyer but a delay or a refusal.
A code is a sequence of elements instead of a number in base 4.

`DigiText`: a step of the PSK modulator is a bit (`PskBitStart`, `PskBitMiddle`), one of the RTTY modulator a
character. The handler (`ServeTxOn`, `ServeTxOff`, `ClearRequest`) is split where the audio interrupt may set a request;
it is over before the next bit. `told` says whether the mode was last set with `UiDriver_SetDemodMode`, which tells
the buffer, or with `RadioManagement_SetDemodMode`, which does not.

### 2.10 FreeDv, DigiModes

`rb` holds the three rings with their indices and cells. A sample is the number it has among those put into its ring, so a sample
that is lost, taken twice, overwritten or left from before is told from the one that is due; `put` and `got` are history.
`Copied` and `AdvanceHead` are the halves of `RingBuffer_PutSamples`, `Due` and `AdvanceTail` what matters of `RingBuffer_GetSamples`.
The demod and the iq ring are members of one union: `Copy` ruins the cells of one that lie where the other is written.

`at` is where `FreeDv_HandleFreeDv` is, from `Begin` to `AllPut`, with the audio interrupt (`Interrupt`, one action that nothing
of the model preempts) between any two steps. `RingBuffer_ClearGetTail` and `RingBuffer_ClearPutHead` are split into their loads and
stores (`LoadHead`, `StoreTail`, `TestTail`; `LoadTail`, `StoreHead`, `TestHead`), a put into its copying and the store of the index, and a get is
looked at when it begins and when it ends. `Return` may change the direction, which swaps the sides
of the audio ring. `fresh` and `unread` are history: every sample taken was the one due; a frame was encoded that had not been read.

`DigiModes` is the radio with both, of which one is selected (`digital_mode`, the `switch` at `tx_processor.c:963` and the test at `ui_driver.c:6070`); `mode` is
then none of the text modes. They share no state.

## 3. What the runs check

| run | configuration | shows |
|---|---|---|
| `receive` | `RemoteReceive.cfg` | over a faulty line: a packet that arrives is decoded as built and a garbled one dropped, nothing is acted on that was not sent, packets get through again, and the ring is a drop-oldest FIFO |
| `inject` | `RemoteInject.cfg` | under interrupts inside the dequeue the UI gets commands in order and none twice; with interrupts between the calls only, nothing is lost and the drain returns |
| `link` | `RemoteLink.cfg` | silence is noticed; a HELLO gets through; lost heartbeats do not end a session |
| `flash` | `FlashEeprom.cfg` | over power losses and errors: success is readable, the second boot repairs, the store's promise holds until the first transfer |
| `flash_transfer` | `FlashTransfer.cfg` | violation, see 6 |
| `config` | `ConfigStorage.cfg` | over power losses and I2C failures: the EEPROM is marked only when complete, nothing stale is stored, success means stored, stores are not mixed up |
| `txrx_voice` | `TxRxVoice.cfg` | voice, an LO that may fail, remote PTT: tuning transmits, a transmission begins in band and stays there until the frequency is changed, it ends, the LO follows |
| `cw_key` | `CwKey.cfg` | straight key, split, frequency, VFO and band changes at any time: a disabled transmitter is silent, the receive dial and the power level come back, a keyed transmission ends by itself |
| `cat` | `CatDriver.cfg` | commands are whole, discarding spares what is new, cloning ends, RTS lets the PTT go |
| `cw_text` | `CwText.cfg` | characters are sent as themselves, squeezed paddles alternate, text is sent in the end, a keyed transmission ends |
| `digi_modes` | `DigiModes.cfg` | text: what waits has its consumer, a recording is not transmitted, end of text and stop end the transmission; FreeDV: over changes of direction, full and empty rings and with the interrupt anywhere in the codec's handler, each sample goes through once and in order |
| `psk_stop` | `DigiStop.cfg` | violation, see 6 |

### Bounds

- `RemoteReceive`: 2 slots and 2 commands; the ring wraps and overflows at any rotation (the code has 8 slots;
  the theorems about it hold for every size). Payloads of up to 6 bytes instead of 252. The two commands, a heartbeat and a HELLO are chosen so that
  data equal to the CRC of what is before them occurs; bytes are garbled into the start bytes, lengths (0 and one too long
  among them), types and a CRC. One fault between two accepted packets: CRC-8 tells no more apart.
- `RemoteInject`: 3 slots, 7 numbered commands: enough to fill the ring, overflow it and go
  round twice while a dequeue is under way.
- `RemoteLink`: periods 1 and 2, time-out 6 (the code: 10, 100 and 500 ticks), 4 lost packets and 2
  restarts. The time-out is three heartbeat periods (the code: five), so two lost heartbeats in a
  row are just tolerated; a third is an interruption (see 6.2), and one of those occurs within the 4.
- `FlashEeprom`: 2 variables, 2 values, 3 words per page: a page fills after three writes and
  is transferred again and again; `bootErased` and unlimited power losses need no bound.
  Deadlock is not checked: a unit whose boot sectors have been erased does not start again.
- `ConfigStorage`: 2 variables, so that there is a first and a last page and a power loss
  between; 2 values, one of them the default and one what RAM holds; 2 failures in all and any number of power
  losses. `MaxFaults = 2` lets one access fail in one life and another in the next.
- `TxRxControl`: one permitted frequency and one that is not in voice, two permitted ones in CW; one LO failure in voice. Debounce and lock-out are 0 ticks
  in voice and 1 in CW: a released line and an LO change are young before a tick and old after it, so comparisons come out both ways. Frequencies are only compared.
- `CwStraightKey`: break time 2 calls of the keyer, each edge one call.
- `CatDriver`: commands of 2 bytes, 3 bytes of room, packets of 2: the ring refuses the second byte of a packet, and a command lies across
  its end. Clone blocks of 3 bytes, two of them. The time-out is two ticks and the main loop may be one tick late: a byte can be old when the amount is
  read and its successor new when the age is. Clone waits are 1 and 2 ticks (the code: 100 and 600).
- `CwText`: room for 2 characters, so a macro overflows; codes of one and two elements, E, T and A, which E and T run together would be; macros of two
  letters and of a blank and a letter. A dit is 1 run, a dah 2, the gap between words 4; the break times are the shortest possible and one longer
  than the gap, with iambic B and the ultimatic keyer (`Settings`; iambic A only looks at the paddles less often).
- `DigiText`: room for 3 characters, 3 macros or keyed characters in all, of 2 bits each; a preamble of 3 zeros (2 are the
  spacing before a character), a postamble of 2 rounds. One macro, with a character RTTY has no code for and a letter, with or without end of text.
- `FreeDv`: rings of 4, 4 and 6 samples, frames of 2, a decoder that asks for 2 or 3; an interrupt moves 1 or 2 (the code: 5 or 6), as it
  resamples by 6 blocks of 32. Up to `MaxPut = 5` samples are put into a ring before the interrupt puts no more: a ring wraps and fills, and the direction changes several times.
  At most one interrupt comes while a ring is cleared, which is a bound that the code's timing gives: it takes a few
  instructions, and the interrupts are 667 microseconds apart. The theorem holds for all sizes and needs that bound too (see 6.2).

### Fairness

- `RemoteInject`: the main loop keeps running (`WF(MainStep)`); the peer need not send.
- `RemoteLink`: the clock ticks, main loops run and packets that are not lost arrive; between
  two ticks only finitely many steps exist. No loss and no restart is fair.
- `TxRxControl`: PendSV is triggered by every audio interrupt and time passes (weak
  fairness). The main loop is preempted by a handler that is short, so it gets its turn again and again: strong
  fairness of what it has begun and of retuning. No operator, CAT or remote input is fair.
- `CwStraightKey`: the same, and the audio interrupt keeps coming.
- `RemoteReceive`: the remote unit goes on sending (heartbeats) and what is on the line arrives. No fault is fair.
- `CatDriver`: the main loop and the clock go on. The loop over the commands is left (strong fairness), because USB is slower than it.
- `CwText`, `DigiText`: the audio interrupt runs the keyer and the modulators 1500 times a second and triggers
  the handler (weak fairness of each). No operator and no text is fair.
- `FlashEeprom`, `ConfigStorage`: no liveness is stated; the power may go any time.
- `DigiModes`: the fairness of `DigiText` while a text mode is selected. For FreeDV no liveness is stated; with the wrong frame at the start (6.2) and samples that are refused when a ring is
  full, nothing promises that a sample gets through.

## 4. What is proved

12052 obligations, all discharged by SMT, Zenon and PTL; no theorem takes an unproved fact. Every invariant and action property of
the passing runs is a theorem, for all values of the constants; `OnlySentActedOn` only with a condition on the line (see below). Each proof goes
the same way: the type is inductive; with it an invariant that says more than the property; the property follows.

`RemoteQueue_proofs`, for every number of slots and every set of commands (`SizeAssumption`, `NoCmdAssumption`):

- `TypeCorrect`, `IndicesAlwaysAgree`: head, tail and count describe one ring. Type and `WellFormed` are
  inductive only together: the head of a full ring is at its tail, and only the count tells it from an empty one.
- `Refinement`: the ring implements `DropOldestQueue`. `AdvanceWraps` replaces `%` by a case
  distinction, `DequeueTakesHead` and `StoreAppends` say what the helpers do to `Content`, and
  `EnqueueDropsOldest` combines them for the overflow path.
- `InjectTypeCorrect`, `OrderKept`: with the interrupt inside the dequeue the UI gets the commands in order and none twice, although
  the count may be wrong. Hence `OrderInv` speaks of the indices only: the ring holds the last `SIZE` commands received (`HoldsLast`),
  `Unread` of them are not copied yet, and what was applied is older than those. The case to see is the interrupt
  that closes the ring after the loop has found it open: equal indices then mean full, not empty.
- `NothingLost`: while the ring was never full and no update of the count torn, the count is right and every command is applied (`CompleteInv`).

`RemoteLink_proofs`, on the session for all periods, time-outs, losses and restarts (`PeriodAssumption`):

- `LinkTypeCorrect`; `SilenceIsNoticed`, by a bound on the age for each place the main loop can be at within its tick (`TimerInv`).
- `HeartbeatsMayGetLost`: the age of the last sign of life is made up of the heartbeats lost, the one on the wire and the time since the last was
  sent (`BeatInv`), which keeps it below the time-out.

and on the receiving side, for every set of payloads and whatever a byte is garbled into (`ByteAssumption`):

- `OneByteDetected`: data of any length that differ in one byte have different CRCs. Xor with a byte is injective (`XorInjective`, bit by bit) and so
  is each shift (`ShiftInjective`: the lowest bit tells whether the polynomial was added), hence the table and the register as a
  function of either argument. Two registers are equal up to the byte that differs and never again behind it.
- `ReceiveTypeCorrect`: the parser never stores more than the longest payload. `ParserInv` adds that in any state, in step or not, the register is the CRC of
  what has been stored (`CrcByByte`).
- `DecodesAsBuilt`, `GarbledAreDropped`: a packet that is not broken is heard in step (`HeardInv`): there is a number of bytes heard so far that
  says where the parser is, what is stored and what the line still holds. A garbled packet has stored the true length and one
  wrong byte, so `OneByteDetected` tells its CRC from the one that comes.
- `OnlySentOnGarblingLine`: hence nothing is acted on that was not sent, if no packet is broken.
- `FeedsQueue`: behind the parser the ring moves as `RemoteQueue` says, so the theorems about the queue hold there. Its hypothesis is
  that `Cmd` is every sequence of bytes that is a command; in the run `Cmd` is smaller, and what else is found in the stream is looked at by `OnlySentActedOn`.

`FlashEeprom_proofs`, for every page size and number of variables and with power losses and failures anywhere (`FlashAssumption`):

- `TypeCorrect`: no page ever holds more words than fit, which takes a bound on the copies of the plan.
- `SuccessReadsBack`: the write is the last operation of its plan and the only one that ends it well (`LastIsPut`), so that the word
  programmed last is the newest of its variable.
- `SecondBoot`: after a boot that ended without a valid page the pages are such that the next one formats them
  (`FailedBootLeaves`), whatever a power loss during the repair does (`RepairUnderWay`).
- `StoreUntilTransfer`: the refinement of `SettingsStore`. `StoreInv`: before the first transfer a page gets data only while the other
  is blank, and nothing is erased while there is data.

`ConfigStorage_proofs`, for every number of variables, every set of values and any number
of I2C failures and power losses (`ConfigAssumption`):

- `TypeCorrect`.
- `MarkedOnlyWhenComplete`: `MigrationInv` says why. While settings migrate the cache holds the flash's and the pages before `next` are
  already copied; a power loss falsifies neither, as the next boot fills the cache again and begins
  with the first page. Only `Mark` sets the use state (`MarkSetsState`).
- `SavesThePresent`, `SuccessMeansStored`, `OneStoreOnly`, from `SaveInv`: while a save is writing, the cache holds the present settings and,
  for those that are not saved, what the EEPROM holds; the pages before `next` are written.

`TxRxControl_proofs`, for all sets of frequencies, debounce and lock-out times (`FreqAssumption`, `TimeAssumption`, `FlagAssumption`) and break times
(`KeyAssumption`), about `TxRxControl` and then `CwStraightKey` (`...InCw`):

- `TypeCorrect`, `KeyTypeCorrect`: the types, with the antenna on the transmitter only in TX.
- `TuningTransmits`, `UserDisableHolds`, `UserDisableHoldsInCw`, if key actions are not interrupted (`~KeyRace`).
  `KeyInv` adds what a reader of the code would argue: a handler under way has found
  `ts.tune` clear, a key action under way keeps PendSV out, so what the action found out about the
  direction still holds when it stores its result.
- `StaysInBand`, with no hypothesis: not on key races, split mode, the LO or who changes the frequency. The inductive invariant is `OnChannel`: until
  somebody changes the frequency of the transmitting radio, the dial is permitted and the LO was asked for it. What was asked for, not what is
  set, as the lock-out may postpone the change and I2C may fail.
- `DialComesBack`, `DialComesBackInCw`, without split mode or if no transmission is refused (`NeverRefused`: every frequency may be transmitted on
  and set, and key actions are not interrupted). In split mode the dialled frequency waits in the receive VFO while the radio transmits (`DialInv`).
- `PowerComesBack`, `PowerComesBackInCw`, if no transmission is refused and the LO works (`LoFaults = 0`): from the
  moment tuning sets the level aside, TX is not disabled, so `RadioManagement_Tune` finds the direction it asked for (`PowerInv`).
- `KeyerStaysInCharge`, under the same conditions, long presses and no remote PTT: a request of the key, pending, being served or already a
  transmission, finds the key down, the keyer counting or the stop request there (`EndInv`).

These conditions are not for the provers' sake: each excludes a deviation that 6.2 lists.

`CatDriver_proofs`, for all sizes of ring, command, packet and clone block and for all times (`CatAssumption`):

- `TypeCorrect`, with the states a clone can be in (`CloneInv`).
- `StaleOnly`: what was in the ring when its size was read is what is discarded (`TimesInv`).
- `CommandsStayWhole`, if the main loop is never longer than the time-out, as the comment at `cat_driver.c:147` demands. `FramedInv`: the ring holds a contiguous
  part of the host's stream, which but for what is about to be discarded begins with a command. It needs that a call
  of the driver in a pause longer than the time-out empties the ring (`SilenceEmpties`).

`CwText_proofs`, for every alphabet, every set of texts and all keying and break times (`MorseAssumption`: every character with a code has an
element; `TimesAssumption`: a letter's gap is longer than a dah):

- `TypeCorrect`: a keyer at rest has nothing left of the character before (`Coherent`).
- `Iambic`: a squeezed keyer alternates. CW_DIT_PROC says which element was last, and a squeezed keyer that waits for the
  transmitter has a dit to send after a dah (`AltInv`).
- `TextArrives`: what was sent of a letter, the element that waits and what is left make up the letter taken (`TextInv`).

`DigiModes_proofs`, on text, for every buffer, every set of macros and any number of texts (`RoomAssumption`, `TextAssumption`):

- `TypeCorrect`; `TextHasItsConsumer` and `RecordingIsNotSent`: the UI has the buffer exactly while it records, and a
  recording knows to whom it returns it (`ConsumerInv`).

and on FreeDV, for rings, frames and interrupts of every size (`FdvAssumption`):

- `FreeDvInOrder`, `EachSampleAlwaysOnce`: the inductive invariant `FdvInv` and with it `EachSampleOnce`. A ring is `Good` when what waits in it are the samples
  put in last, in order. Taking, copying and storing keep that (`TakingKeeps` and the lemmas beside it), for indices that wrap (`AheadIs` and `Wrapped`
  replace `%` by a case distinction). `RingInv` says which ring is good when: the iq ring only while it is used, as reception
  writes into its memory. `DirectionInv`: once the handler works with the rings it has cleared them for this
  direction and not for the other. `LoadedInv` is about the interrupt: what the handler has loaded and is about to store is still
  right, whatever the interrupt moved meanwhile, as each of the two moves one index of a ring. Clearing the output ring is the exception: it stores as the head a tail
  that the interrupt may have moved since, the audio ring is `Torn` then, and the test of `RingBuffer_ClearPutHead` finds it.
- `ModesKeepApart`, `RadioSafe`: in `DigiModes` each of the two moves as its own specification says, and the safety properties of both hold.

Induction over data is used in one form only: the least element of a non-empty set of numbers (`WFMin`), for the newest word of a variable in the flash, the first
character in what waits that RTTY has a code for, the first byte of a stream that is not where it belongs, and the first byte at which two
CRC registers differ or none exists.

Only model-checked:

- everything about fairness: `TransmissionEnds`, `LoFollows`, `DrainReturns`, `HandshakeCompletes`,
  both `KeyedTransmissionEnds`, `GetsThrough`, `CloneEnds`, `LineReleaseEndsPtt`, `TextIsSent`, `EotReturns`, `StopEndsIfEmpty`. The
  provers know neither ENABLED nor liveness under fairness.
- `OnlySentActedOn` on a line that loses bytes, garbles a length or is cut. The parser then takes its start bytes from the middle of a packet, and whether it finds
  a packet there depends on the payloads: it is not true of every set of them (6.2), so it is checked for those of the run.

## 5. Where a property has a condition

A property that would be false of the code as it is has a condition, and the case it
leaves out is a deviation listed in 6:
`CompleteUnlessFull` (`~wasFull`, `~torn`), `DrainReturns` (`~torn`), `SessionSurvivesLoss`
(the heartbeats lost in a row span less than the time-out, `(lostBeats + 1) * BEAT_PERIOD <= LINK_TIMEOUT`, and
`mAge >= sampled`), `ImplementsStore` (before the first transfer), `SecondBootRepairs`
(two boots), `MarkedWhenComplete`, `NothingStaleStored`, `SavedIsStored`, `OneStoreInUse`
(`clean`: no access has failed since power on), `TuneMeansTransmit` and
`UserDisableIsSilent` (`KeyRace = FALSE`), `TransmitsInBand` (`~retuned`: the frequency has not been changed
since the transmission began; `lo = loReq`: no LO change is still to be carried out),
`ReceiveDialKept` (no refused transmission), `PowerIsTemporary` (no oscillator failure, no refused transmission), `SomethingEndsIt` and `KeyedTransmissionEnds`
of the straight key (no remote PTT commands, presses the keyer sees, no oscillator failure or refusal), `OnlySentActedOn` (payloads something is done about), `OnlyWholeCommands`
(`framed`: after a pause longer than the time-out; a main loop not longer than it), `TextIsSent` and `KeyedTransmissionEnds` of the electronic keyer
(`Interfered`), `ConsumerSet` (`told`), `EotReturns` (`Superseded`), `StopEndsIfEmpty` (no text waits).

## 6. Where the code differs from what is said of it

### 6.1 Shown by a run

- `flash_transfer`: `Flash_TransferFullPage` passes a virtual address to
  `Flash_ReadVariable`, which translates it again (`uhsdr_flash.c:168`): the transfer copies nothing.
- `psk_stop`: a request to stop while the PSK modulator is active starts the postamble and is done with
  (`radio_management.c:1456`); when a character waits the modulator takes it and becomes active again (`psk.c:741`), and nothing ends the
  transmission any more. It takes text with no end of text in it: a macro with `ts.buffered_tx` off or Morse keyed into PSK. The break
  time of the keyer makes the same request.

### 6.2 Met while modelling

No run is kept for these. Each can be seen by dropping the named condition from the property,
setting the named constant or checking the named property, and running TLC again.

- Queue: with exactly as many commands waiting as there are slots head equals tail, and the drain
  loop leaves them all (`remote.c:447`; drop `~wasFull`). An interrupt inside the dequeue
  loses an update of the count (`:105`); with a count of zero and unequal indices the drain
  loop does not end (drop `torn`).
- Session: an ACTIVE remote unit never sends a HELLO and a standalone main unit ignores
  heartbeats (`remote.c:411`, `:261`); after an interruption longer than the time-out the link stays down, where
  `ARCH.md:723` (top of the repository) asks for a reconnect within two seconds (`LinkRestored` with `MaxLoss = 3`). The clock and the time stamp are loaded one after the other (`remote.c:432`); a tick and a
  heartbeat in between make the unsigned difference wrap and end a live session (drop
  `mAge >= sampled`). No transition leads into `REMOTE_STATE_ERROR`. HELLO is sent ten times a
  second, the comment at `:406` says once.
- Framing: with the length byte lost a payload of no known type can pass the CRC of another packet (`ActsOn`).
- Flash: page numbers are passed where sector ids are expected (`uhsdr_flash.c:188`, `:651`), so sectors
  of the boot loader are erased unless they are protected. The result of a copy would be overwritten by
  that of the next operation (`:183`), were anything copied. For the state RECEIVE/ERASED page 0 is erased where the
  comment speaks of page 1 (`:266`): one boot ends without a valid page, hence two in `SecondBootRepairs`.
- Configuration: the EEPROM is marked as in use whatever became of the copy
  (`config_storage.c:213`; drop `clean'` from `MarkedWhenComplete`). A failed read before a save is not
  looked at (`:233`; drop it from `NothingStaleStored`). A failed bulk write leaves the cache
  in use, the keyer macros then succeed without writing, and the save reports success
  (`ui_configuration.c:1030`; drop it from `SavedIsStored`). After one boot without an answer from the EEPROM
  settings go to the flash and are not seen by the next boot (`clean` in `OneStoreInUse`).
  Switching off saves twice (`ui_driver_power.c:103`, `:113`); the first save ends the CAT sandbox
  (`ui_configuration.c:990`), the second stores the frequency CAT set in it (`SandboxNotSaved`).
- TX/RX: F4 (`ui_driver.c:1073`, `radio_management.c:1947`), a touch of the spectrum (`ui_driver.c:5363`), the key for the next kHz (`:5240`), the band and
  frequency keypads (`ui_vkeybrd.c:386`, `:640`) and CAT change the frequency while the radio transmits. The transmit band is not validated again and the
  antenna stays on the transmitter, where the dial encoder and the band buttons refuse (drop `~retuned` from `TransmitsInBand`, with `TxRxVoice.cfg`). In split mode F4
  stores `df.tune_old`, while transmitting the transmit frequency, as that of the VFO it leaves, which was receiving: the receive frequency is lost. In any
  mode `df.tune_old` is the frequency before the last when F4 comes within the lock-out. These keys set the LO without closing the switching as
  `ui_driver.c:6286` does, so PendSV may switch between their reading the direction and setting the LO (not in the model, where `SetLo` is one step).
  A refused transmission in split mode leaves the transmit VFO on the dial
  (`TxFreq` smaller than `Freq` in `CwKey.cfg`). `RadioManagement_ChangeFrequency` may disable the transmitter after the antenna
  has been switched to it (`radio_management.c:1035`; `DisabledMeansSilent` with `TxRxVoice.cfg`). Within the lock-out the LO still has the old
  frequency after the switch (`radio_management.c:705`). The tune key and the TX disable key test
  and set without protection (`ui_driver.c:5465`, `:5536`; set `KeyRace`). Tuning ended with TX disabled
  leaves the radio transmitting at the tune power, and nothing ends a transmission the key began (`LoFaults = 1` in `CwKey.cfg`).
  A tuning that is refused leaves the tune power level set, as `RadioManagement_Tune` restores it
  only when it ends a tuning (`radio_management.c:546`; `TxFreq = {home}` in `CwKey.cfg`, `PowerIsTemporary`). A stop request that arrives while a PTT request is
  served is erased with it (`radio_management.c:1448`).
- CW: a tap shorter than the switch to TX is never seen by the keyer, and nothing ends the
  transmission it started (set `LongPresses` to FALSE in `CwKey.cfg`). Remote PTT commands run the handler in the main loop, where it
  erases the keyer's stop request (`RemotePtt` in `CwKey.cfg`).
- Electronic keyer: after a refused request it waits in CW_WAIT until somebody transmits, then sends
  what it was holding (`cw_gen.c:895`); the stop request of the break time may be erased by the handler that serves the request before it
  (drop `stopped` from `Interfered`). A macro in which no character has a code keys the transmitter and keeps it
  on, and in CW the end-of-text character is such a character (`ui_driver.c:5560`).
- PSK and RTTY: a request to transmit that is made between the modulator's turning itself off and the handler cancels its request to stop;
  the radio stays in TX with a silent modulator (drop `Superseded`). A stop within a character
  starts the postamble without the two spacing zeros (`psk.c:724`). A macro played in the last half bit stays in
  the buffer after the return to RX, as text does after a refused request, and is sent with the next transmission. RTTY
  takes the first character behind an end of text before the radio returns (`rtty.c:818`). A full buffer drops the end of text.
- Text buffer: the band buttons (`ui_driver.c:3038`), the CAT mode command (`cat_driver.c:1159`) and the digital mode box (`ui_driver.c:5402`)
  change the mode without telling the buffer its consumer; a macro then keys the transmitter, is not sent,
  and nothing ends the transmission (drop `told`; `uhsdr_digi_buffer.h:37` asks for it). A mode change while recording throws
  the recorded text away, although `uhsdr_digi_buffer.c:32` means to protect it. At the end of a recording `ts.cw_text_entry`
  is cleared before the text is taken out (`ui_driver.c:5576`): a paddle pressed in CW just then resets the ring within
  a removal, after which it seems to hold 127 characters (`uhsdr_digi_buffer.c:81`; not in the model, where the ring is a sequence).
- CAT: a PTT keyed by a CAT command stays keyed when the cable is pulled. The time-out "needs to be longer than the longest
  running operation" (`cat_driver.c:147`), and nothing sees to it: when an operation takes longer the first bytes of a command are discarded and the rest of it
  is put together with the next (`MaxLoop = 4` in `CatDriver.cfg`, `OnlyWholeCommands`).
- FreeDV: the handler finds a frame of speech in the audio ring and room for one of the modem, "samples from dv_tx_processor are
  ready" (`freedv_uhsdr.c:184`), and then, on the first call of a transmission, clears the ring. `RingBuffer_GetSamples` gives nothing, its result is not
  looked at, and what lies on the stack is encoded and sent as the first frame (`EncodesWhatIsReady`).
  Two interrupts while one ring is cleared would let samples through that are not due (drop the guard on `struck` in
  `Interrupt`); only their distance prevents it. The rings are not cleared for TX before the first frame of speech is there (`:180`): until then
  the interrupt sends what the iq ring holds, which reception has written over, though the comment at `:225` says clearing is for going into TX (drop `WasHere` in `Interrupt`). A transmission shorter than
  a frame leaves the operator's voice in the audio ring, and as nothing is cleared after it (`rx_was_here` is still set), it is played in RX. The branch for another mode (`:273`), which clears two
  rings, is not reached: the caller tests the mode first (`drivers/ui/ui_driver.c:6070`). `RingBuffer_PutSamples` refuses when the room equals the
  length (`rb.c:36`), and the handler asks for a room that is at least the length (`:182`, `:248`): then the last sample of a frame is dropped, or all of it in RX.

## 7. What is not modelled

- The UART HAL shim: planned, see 8.
- Inside the modelled parts: transverter offsets, band power limits and PA bias in TX/RX control; the effect of CAT
  commands and their answers; side tone and element shaping, recording in CW and speed changes in the keyer; receiving in PSK and RTTY, code tables and waveforms;
  the exchange of the VFOs while transmitting (it has no guard) in `DigiText`; the test writes of the EEPROM detection, the conversion of each kind of
  setting and the defaults chosen at start in the configuration storage; the effect of each remote
  command in `RemoteInject` beyond its order; in `FreeDv` the build with `USE_SIMPLE_FREEDV_FILTERS`, selecting and leaving the mode,
  the noise reduction, which shares the memory of two rings in other modes, and text and display.
- Audio DSP (floating point), oscillator register arithmetic, display and menus, board support, boot loader, USB
  stack, vendor code: numeric or hardware access, with no control that the modelled parts
  depend on beyond their results.

## 8. Plan

In this order, because what decides about the transmitter and about lost settings comes first.
Done: the modules of section 2. Next:

1. Proofs: nothing is left that the provers can state; see the end of section 4.
2. The EEPROM detection's test writes in `ConfigStorage`.
3. The transmit lock of the UART shim under `RemoteReceive` and `RemoteLink`.

Each of 2 and 3 comes with its type and its safety properties as theorems.

## 9. Running it

    tlc -config RemoteLink.cfg RemoteLink
    tlapm RemoteQueue_proofs.tla

The module of each run is in `PROJECT.json`. The longest run (`txrx_voice`) takes three minutes, `cw_key`, `cw_text`, `digi_modes` and `cat` one to two on two
workers, the others less than a minute.
