----------------------------- MODULE RemoteLink -----------------------------
(***************************************************************************)
(* The session between the main unit and the remote unit                   *)
(* (drivers/remote/remote.c): HELLO / MAIN_ACK / HEARTBEAT, the time-outs   *)
(* of Remote_Process on either side, packets lost on the wire (a CRC error  *)
(* or an unplugged cable) and units that are switched off and on.           *)
(*                                                                         *)
(* Only differences of ts.sysclock are ever used, so each time stamp is     *)
(* represented by its age in ticks.                                         *)
(***************************************************************************)
EXTENDS Integers, Sequences

CONSTANTS HELLO_PERIOD,   \* 10 ticks in the code
          BEAT_PERIOD,    \* 100 ticks
          LINK_TIMEOUT,   \* 500 ticks
          MaxLoss,        \* bound: packets lost in a behaviour
          MaxRestart,     \* bound: unit restarts in a behaviour
          SplitRead       \* TRUE: interrupts may fire between the two loads of
                          \* ts.sysclock - g_last_heartbeat_time

ASSUME PeriodAssumption ==
  /\ HELLO_PERIOD \in Nat \ {0} /\ BEAT_PERIOD \in Nat \ {0}
  /\ LINK_TIMEOUT \in Nat \ {0}
  /\ MaxLoss \in Nat /\ MaxRestart \in Nat
  /\ SplitRead \in BOOLEAN

VARIABLES rState,     \* g_remote_state of the remote unit
          helloAge,   \* ticks since its g_last_hello_time
          beatAge,    \* ticks since its g_last_heartbeat_time
          mState,     \* g_main_state of the main unit
          mAge,       \* ticks since the main unit's g_last_heartbeat_time
          sampled,    \* -1, or ticks since the main loop loaded ts.sysclock
          toMain,     \* packets on their way to the main unit
          toRemote,   \* packets on their way to the remote unit
          rRan, mRan, \* the main loop of the unit has run since the last tick
          lostLeft, restartLeft,  \* what is left of the two bounds
          lostBeats   \* history: heartbeats lost since the last sign of life that
                      \* restarted the main unit's time-out

remoteVars == <<rState, helloAge, beatAge>>
mainVars   == <<mState, mAge, sampled>>
wire       == <<toMain, toRemote>>
faults     == <<lostLeft, restartLeft>>
linkVars == <<remoteVars, mainVars, wire, rRan, mRan, faults, lostBeats>>

Idle == -1

AgedTo(age, limit) == IF age < limit THEN age + 1 ELSE age

LinkInit ==
  /\ rState = "INIT" /\ helloAge = 0 /\ beatAge = 0
  /\ mState = "STANDALONE" /\ mAge = 0 /\ sampled = Idle
  /\ toMain = <<>> /\ toRemote = <<>>
  /\ rRan = FALSE /\ mRan = FALSE
  /\ lostLeft = MaxLoss /\ restartLeft = MaxRestart /\ lostBeats = 0

Send(packets) == toMain' = toMain \o packets
-----------------------------------------------------------------------------
\* Remote_Process on the remote unit before MAIN_ACK: HELLO once per period.
RemoteHello ==
  /\ rState = "INIT" /\ ~rRan /\ rRan' = TRUE
  /\ IF helloAge >= HELLO_PERIOD
     THEN helloAge' = 0 /\ Send(<<"HELLO">>)
     ELSE UNCHANGED <<helloAge, toMain>>
  /\ UNCHANGED <<rState, beatAge, mainVars, toRemote, mRan, faults, lostBeats>>

\* Mutant: once active the remote unit sends commands but no heartbeat.
RemoteActiveSilent ==
  /\ rState = "ACTIVE" /\ ~rRan /\ rRan' = TRUE
  /\ \E input \in {<<>>, <<"COMMAND">>} : Send(input)
  /\ UNCHANGED <<rState, helloAge, beatAge, mainVars, toRemote, mRan, faults, lostBeats>>

\* Remote_Process on the remote unit once active: HEARTBEAT once per period,
\* then UiDriver_Remote_Poll, which sends a command if the user did something.
RemoteActive ==
  /\ rState = "ACTIVE" /\ ~rRan /\ rRan' = TRUE
  /\ LET due == beatAge >= BEAT_PERIOD
     IN  \E input \in {<<>>, <<"COMMAND">>} :
           /\ beatAge' = IF due THEN 0 ELSE beatAge
           /\ Send(IF due THEN <<"HEARTBEAT">> \o input ELSE input)
  /\ UNCHANGED <<rState, helloAge, mainVars, toRemote, mRan, faults, lostBeats>>

\* USART2 interrupt of the remote unit: MAIN_ACK counts only in INIT.
RemoteGetsAck ==
  /\ toRemote # <<>>
  /\ toRemote' = Tail(toRemote)
  /\ IF rState = "INIT"
     THEN rState' = "ACTIVE" /\ beatAge' = 0
     ELSE UNCHANGED <<rState, beatAge>>
  /\ UNCHANGED <<helloAge, mainVars, toMain, rRan, mRan, faults, lostBeats>>
-----------------------------------------------------------------------------
Arrives(packet) == toMain # <<>> /\ Head(toMain) = packet /\ toMain' = Tail(toMain)

\* Mutant: a repeated HELLO keeps the session alive without being answered.
MainGetsHelloKeepsAlive ==
  /\ Arrives("HELLO")
  /\ mAge' = 0 /\ lostBeats' = 0
  /\ IF mState = "STANDALONE"
     THEN toRemote' = Append(toRemote, "MAIN_ACK") /\ mState' = "REMOTE_ACTIVE"
     ELSE UNCHANGED <<toRemote, mState>>
  /\ UNCHANGED <<sampled, remoteVars, rRan, mRan, faults>>

\* USART2 interrupt of the main unit, HELLO: answered only when standalone.
MainGetsHello ==
  /\ Arrives("HELLO")
  /\ IF mState = "STANDALONE"
     THEN /\ toRemote' = Append(toRemote, "MAIN_ACK")
          /\ mState' = "REMOTE_ACTIVE" /\ mAge' = 0 /\ lostBeats' = 0
     ELSE UNCHANGED <<toRemote, mState, mAge, lostBeats>>
  /\ UNCHANGED <<sampled, remoteVars, rRan, mRan, faults>>

\* HEARTBEAT: ignored unless a session is active.
MainGetsBeat ==
  /\ Arrives("HEARTBEAT")
  /\ IF mState = "REMOTE_ACTIVE"
     THEN mAge' = 0 /\ lostBeats' = 0
     ELSE UNCHANGED <<mAge, lostBeats>>
  /\ UNCHANGED <<mState, sampled, remoteVars, toRemote, rRan, mRan, faults>>

\* A command packet is queued (RemoteQueue) whatever the state of the session,
\* and does not count as a sign of life.
MainGetsCommand ==
  /\ Arrives("COMMAND")
  /\ UNCHANGED <<mainVars, remoteVars, toRemote, rRan, mRan, faults, lostBeats>>

\* Remote_Process on the main unit, standalone: nothing but the injection.
MainIdle ==
  /\ mState = "STANDALONE" /\ ~mRan /\ mRan' = TRUE
  /\ UNCHANGED <<remoteVars, mainVars, wire, rRan, faults, lostBeats>>

\* Remote_Process on the main unit, active: ts.sysclock is loaded ...
MainSample ==
  /\ mState = "REMOTE_ACTIVE" /\ ~mRan /\ sampled = Idle
  /\ mRan' = TRUE /\ sampled' = 0
  /\ UNCHANGED <<mState, mAge, remoteVars, wire, rRan, faults, lostBeats>>

\* Mutant: the time-out is counted in units of two ticks.
ExpiredLate(age, lag) == age - lag < 0 \/ age - lag > 2 * LINK_TIMEOUT

\* The uint32_t difference exceeds the time-out: a time stamp newer than the
\* sampled clock wraps around to a huge difference.
Expired(age, lag) == age - lag < 0 \/ age - lag > LINK_TIMEOUT

\* ... and the time stamp is loaded and compared.
MainCheck ==
  /\ sampled # Idle /\ sampled' = Idle
  /\ IF Expired(mAge, sampled)
     THEN mState' = "STANDALONE" /\ mAge' = 0
     ELSE UNCHANGED <<mState, mAge>>
  /\ UNCHANGED <<remoteVars, wire, rRan, mRan, faults, lostBeats>>
-----------------------------------------------------------------------------
\* The system clock of both units advances.  Timing assumption: a unit's main
\* loop runs once per tick and a packet (at most 0.9 ms) arrives within the
\* 10 ms tick, except that a tick may hit the main unit between its two loads.
Tick ==
  /\ rRan /\ mRan
  /\ wire = <<<<>>, <<>>>>
  /\ sampled \in IF SplitRead THEN {Idle, 0} ELSE {Idle}
  /\ rRan' = FALSE /\ mRan' = FALSE
  /\ helloAge' = AgedTo(helloAge, HELLO_PERIOD)
  /\ beatAge' = AgedTo(beatAge, BEAT_PERIOD)
  /\ mAge' = IF mState = "REMOTE_ACTIVE" THEN mAge + 1 ELSE mAge
  /\ sampled' = IF sampled = Idle THEN Idle ELSE 1
  /\ UNCHANGED <<rState, mState, wire, faults, lostBeats>>

LosePacket ==
  /\ lostLeft > 0 /\ lostLeft' = lostLeft - 1
  /\ \/ /\ toMain # <<>> /\ toMain' = Tail(toMain) /\ UNCHANGED toRemote
        /\ lostBeats' = IF Head(toMain) = "HEARTBEAT" THEN lostBeats + 1 ELSE lostBeats
     \/ /\ toRemote # <<>> /\ toRemote' = Tail(toRemote)
        /\ UNCHANGED <<toMain, lostBeats>>
  /\ UNCHANGED <<remoteVars, mainVars, rRan, mRan, restartLeft>>

\* The main unit is switched off and on: Remote_Init.  Booting takes more than a
\* tick, so the main loop does not run again before the next one.
MainRestart ==
  /\ restartLeft > 0 /\ restartLeft' = restartLeft - 1
  /\ mState' = "STANDALONE" /\ mAge' = 0 /\ sampled' = Idle
  /\ toMain' = <<>> /\ mRan' = TRUE
  /\ UNCHANGED <<remoteVars, toRemote, rRan, lostLeft, lostBeats>>

\* The remote unit is switched off and on; its clock starts at zero.
RemoteRestart ==
  /\ restartLeft > 0 /\ restartLeft' = restartLeft - 1
  /\ rState' = "INIT" /\ helloAge' = 0 /\ beatAge' = 0
  /\ toRemote' = <<>> /\ rRan' = TRUE
  /\ UNCHANGED <<mainVars, toMain, mRan, lostLeft, lostBeats>>

Protocol ==
  \/ RemoteHello \/ RemoteActive \/ RemoteGetsAck
  \/ MainGetsHello \/ MainGetsBeat \/ MainGetsCommand
  \/ MainIdle \/ MainSample \/ MainCheck
  \/ Tick

LinkNext == Protocol \/ LosePacket \/ MainRestart \/ RemoteRestart

LinkSpec == LinkInit /\ [][LinkNext]_linkVars

\* Clocks tick, main loops run and packets that are not lost arrive (between two
\* ticks only finitely many of these steps exist, so each gets its turn); no
\* fault ever has to happen.
FairLinkSpec == LinkSpec /\ WF_linkVars(Protocol)
-----------------------------------------------------------------------------
LinkTypeOK ==
  /\ rState \in {"INIT", "ACTIVE"} /\ mState \in {"STANDALONE", "REMOTE_ACTIVE"}
  /\ helloAge \in 0 .. HELLO_PERIOD /\ beatAge \in 0 .. BEAT_PERIOD
  /\ mAge \in Nat /\ sampled \in {Idle, 0, 1}
  /\ toMain \in Seq({"HELLO", "HEARTBEAT", "COMMAND"})
  /\ toRemote \in Seq({"MAIN_ACK"})
  /\ rRan \in BOOLEAN /\ mRan \in BOOLEAN
  /\ lostLeft \in 0 .. MaxLoss /\ restartLeft \in 0 .. MaxRestart
  /\ lostBeats \in Nat

\* A peer that has fallen silent is noticed: a session never outlives its last
\* heartbeat by more than the time-out and two ticks (Remote_Process, remote.c:432).
SilenceNoticed == mState = "REMOTE_ACTIVE" => mAge <= LINK_TIMEOUT + 2

\* A session between two units that stay on is not torn down as long as the
\* heartbeats lost in a row and the one that is due span no more than the time-out
\* (Remote_Process, remote.c:412 and 432).  Left out is the check that compares a
\* sampled clock with a newer time stamp: the difference wraps.
SessionSurvivesLoss ==
  [][mState = "REMOTE_ACTIVE" /\ rState = "ACTIVE" /\ UNCHANGED restartLeft
     /\ (lostBeats + 1) * BEAT_PERIOD <= LINK_TIMEOUT /\ mAge >= sampled
       => mState' = "REMOTE_ACTIVE"]_linkVars

\* A remote unit that is still saying HELLO gets through in the end, although a
\* lost MAIN_ACK leaves the main unit in a session that ignores every HELLO.
HandshakeCompletes == (rState = "INIT") ~> (rState = "ACTIVE")

\* ARCH.md 13.2: after a disconnect the link comes back by itself.
LinkRestored ==
  (rState = "ACTIVE" /\ mState = "STANDALONE")
     ~> (mState = "REMOTE_ACTIVE" \/ rState = "INIT")
=============================================================================
