------------------------- MODULE RemoteLink_proofs -------------------------
(***************************************************************************)
(* Proofs about the remote link.                                           *)
(*                                                                         *)
(* The session (RemoteLink), for every length of the periods and of the     *)
(* time-out and for any number of lost packets and restarts: the types,     *)
(* that silence is noticed in time, and that heartbeats lost in a row do    *)
(* not end a session while they span no more than the time-out.             *)
(*                                                                         *)
(* The receiving side (RemoteReceive), for every set of payloads and for    *)
(* whatever a byte may be garbled into: the parser stays within its         *)
(* buffer, packets that arrive are decoded as they were built, and the CRC  *)
(* detects every single garbled byte behind the length.                     *)
(***************************************************************************)
EXTENDS RemoteLink, RemoteReceive, SequenceTheorems, WellFoundedInduction, TLAPS

Packet == {"HELLO", "HEARTBEAT", "COMMAND"}
Ack == {"MAIN_ACK"}

\* How far the main loop has come in this tick and how old the last sign of life
\* can be there: a check of a clock loaded before the tick sees an age that is one
\* too low, and so the next tick finds the session two ticks over the time-out.
TimerInv ==
  /\ sampled # Idle => mState = "REMOTE_ACTIVE"
  /\ sampled = 0 => mRan
  /\ sampled = 1 => ~mRan
  /\ mState = "REMOTE_ACTIVE" =>
       /\ sampled = Idle /\ mRan => mAge <= LINK_TIMEOUT
       /\ sampled = Idle /\ ~mRan => mAge <= LINK_TIMEOUT + 1
       /\ sampled = 0 => mAge <= LINK_TIMEOUT + 1
       /\ sampled = 1 => mAge <= LINK_TIMEOUT + 2

BeatIn(packets) == \E i \in DOMAIN packets : packets[i] = "HEARTBEAT"

\* A heartbeat is on its way to the main unit.
BeatOnWire == BeatIn(toMain)

\* The age of the last sign of life is accounted for: by the heartbeats that were
\* lost, the one that is on its way, and the time since the last one was sent.
\* Packets arrive within the tick they were sent in, hence before the remote unit's
\* main loop runs again.
BeatInv ==
  /\ ~rRan => toMain = <<>>
  /\ toRemote # <<>> => mAge = 0
  /\ BeatOnWire => beatAge = 0
  /\ rState = "ACTIVE" /\ rRan => beatAge < BEAT_PERIOD
  /\ mState = "REMOTE_ACTIVE" /\ rState = "ACTIVE" =>
       /\ ~BeatOnWire => mAge <= beatAge + lostBeats * BEAT_PERIOD
       /\ BeatOnWire => mAge <= (lostBeats + 1) * BEAT_PERIOD
-----------------------------------------------------------------------------
(***************************************************************************)
(* Types.                                                                  *)
(***************************************************************************)

LEMMA Periods ==
  /\ HELLO_PERIOD \in Nat /\ BEAT_PERIOD \in Nat /\ LINK_TIMEOUT \in Nat
  /\ HELLO_PERIOD > 0 /\ BEAT_PERIOD > 0 /\ LINK_TIMEOUT > 0
  /\ MaxLoss \in Nat /\ MaxRestart \in Nat
  BY PeriodAssumption

LEMMA PacketSeqs ==
  /\ <<>> \in Seq(Packet) /\ <<>> \in Seq(Ack)
  /\ \A s \in Seq(Packet) : s # <<>> => Tail(s) \in Seq(Packet)
  /\ \A s \in Seq(Ack) : s # <<>> => Tail(s) \in Seq(Ack)
  /\ \A s, t \in Seq(Packet) : s \o t \in Seq(Packet)
  /\ \A s \in Seq(Ack), x \in Ack : Append(s, x) \in Seq(Ack)
  OBVIOUS

LEMMA LinkTypeInit == LinkInit => LinkTypeOK
  <1> SUFFICES ASSUME LinkInit PROVE LinkTypeOK
    OBVIOUS
  <1>1. toMain \in Seq(Packet) /\ toRemote \in Seq(Ack)
    BY PacketSeqs DEF LinkInit
  <1>2. rRan \in BOOLEAN /\ mRan \in BOOLEAN
    BY DEF LinkInit
  <1>3. helloAge \in 0 .. HELLO_PERIOD /\ beatAge \in 0 .. BEAT_PERIOD /\ mAge \in Nat
    BY Periods DEF LinkInit
  <1>4. lostLeft \in 0 .. MaxLoss /\ restartLeft \in 0 .. MaxRestart /\ lostBeats \in Nat
    BY Periods DEF LinkInit
  <1> QED
    BY <1>1, <1>2, <1>3, <1>4 DEF LinkInit, LinkTypeOK, Idle, Packet, Ack

LEMMA WireStep ==
  LinkTypeOK /\ [LinkNext]_linkVars => toMain' \in Seq(Packet) /\ toRemote' \in Seq(Ack)
  <1> SUFFICES ASSUME LinkTypeOK, [LinkNext]_linkVars
               PROVE  toMain' \in Seq(Packet) /\ toRemote' \in Seq(Ack)
    OBVIOUS
  <1>0. toMain \in Seq(Packet) /\ toRemote \in Seq(Ack)
    BY DEF LinkTypeOK, Packet, Ack
  <1>1. <<"HELLO">> \in Seq(Packet) /\ <<"COMMAND">> \in Seq(Packet)
        /\ <<"HEARTBEAT">> \in Seq(Packet) /\ "MAIN_ACK" \in Ack
    BY DEF Packet, Ack
  <1>2. CASE RemoteHello
    BY <1>0, <1>1, <1>2, PacketSeqs DEF RemoteHello, Send
  <1>3. CASE RemoteActive
    <2>1. PICK input \in {<<>>, <<"COMMAND">>} :
            toMain' = toMain \o
                 (IF beatAge >= BEAT_PERIOD THEN <<"HEARTBEAT">> \o input ELSE input)
      BY <1>3 DEF RemoteActive, Send
    <2>2. input \in Seq(Packet)
      BY <1>1, <2>1, PacketSeqs
    <2>3. <<"HEARTBEAT">> \o input \in Seq(Packet)
      BY <1>1, <2>2, PacketSeqs
    <2>4. toMain' \in Seq(Packet)
      BY <1>0, <2>1, <2>2, <2>3, PacketSeqs
    <2> QED
      BY <1>0, <1>3, <2>4 DEF RemoteActive
  <1>4. CASE RemoteGetsAck
    BY <1>0, <1>4, PacketSeqs DEF RemoteGetsAck
  <1>5. CASE MainGetsHello
    BY <1>0, <1>1, <1>5, PacketSeqs DEF MainGetsHello, Arrives
  <1>6. CASE MainGetsBeat \/ MainGetsCommand
    BY <1>0, <1>6, PacketSeqs DEF MainGetsBeat, MainGetsCommand, Arrives
  <1>7. CASE LosePacket
    BY <1>0, <1>7, PacketSeqs DEF LosePacket
  <1>8. CASE MainRestart \/ RemoteRestart
    BY <1>0, <1>8, PacketSeqs DEF MainRestart, RemoteRestart
  <1>9. CASE UNCHANGED wire
    BY <1>0, <1>9 DEF wire
  <1>10. MainIdle \/ MainSample \/ MainCheck \/ Tick \/ UNCHANGED linkVars => UNCHANGED wire
    BY DEF MainIdle, MainSample, MainCheck, Tick, linkVars, wire
  <1> QED
    BY <1>2, <1>3, <1>4, <1>5, <1>6, <1>7, <1>8, <1>9, <1>10 DEF LinkNext, Protocol

LEMMA LinkTypeStep == LinkTypeOK /\ [LinkNext]_linkVars => LinkTypeOK'
  <1> SUFFICES ASSUME LinkTypeOK, [LinkNext]_linkVars PROVE LinkTypeOK'
    OBVIOUS
  <1> USE Periods DEF Idle
  <1>0. /\ toMain' \in Seq({"HELLO", "HEARTBEAT", "COMMAND"})
        /\ toRemote' \in Seq({"MAIN_ACK"})
    BY WireStep DEF Packet, Ack
  <1>1. CASE RemoteHello
    BY <1>0, <1>1 DEF RemoteHello, mainVars, faults, LinkTypeOK
  <1>2. CASE RemoteActive
    BY <1>0, <1>2 DEF RemoteActive, mainVars, faults, LinkTypeOK
  <1>3. CASE RemoteGetsAck
    BY <1>0, <1>3 DEF RemoteGetsAck, mainVars, faults, LinkTypeOK
  <1>4. CASE MainGetsHello
    BY <1>0, <1>4 DEF MainGetsHello, Arrives, remoteVars, faults, LinkTypeOK
  <1>5. CASE MainGetsBeat
    BY <1>0, <1>5 DEF MainGetsBeat, Arrives, remoteVars, faults, LinkTypeOK
  <1>6. CASE MainGetsCommand
    BY <1>0, <1>6 DEF MainGetsCommand, Arrives, mainVars, remoteVars, faults, LinkTypeOK
  <1>7. CASE MainIdle
    BY <1>0, <1>7 DEF MainIdle, mainVars, remoteVars, wire, faults, LinkTypeOK
  <1>8. CASE MainSample
    BY <1>0, <1>8 DEF MainSample, remoteVars, wire, faults, LinkTypeOK
  <1>9. CASE MainCheck
    BY <1>0, <1>9 DEF MainCheck, remoteVars, wire, faults, LinkTypeOK
  <1>10. CASE Tick
    <2>1. rRan' \in BOOLEAN /\ mRan' \in BOOLEAN
      BY <1>10 DEF Tick
    <2>2. helloAge' \in 0 .. HELLO_PERIOD /\ beatAge' \in 0 .. BEAT_PERIOD /\ mAge' \in Nat
      BY <1>10 DEF Tick, AgedTo, LinkTypeOK
    <2> QED
      BY <1>0, <1>10, <2>1, <2>2 DEF Tick, faults, LinkTypeOK
  <1>11. CASE LosePacket
    BY <1>0, <1>11 DEF LosePacket, mainVars, remoteVars, LinkTypeOK
  <1>12. CASE MainRestart
    BY <1>0, <1>12 DEF MainRestart, remoteVars, LinkTypeOK
  <1>13. CASE RemoteRestart
    BY <1>0, <1>13 DEF RemoteRestart, mainVars, LinkTypeOK
  <1>14. CASE UNCHANGED linkVars
    BY <1>0, <1>14 DEF linkVars, mainVars, remoteVars, wire, faults, LinkTypeOK
  <1> QED
    BY <1>1, <1>2, <1>3, <1>4, <1>5, <1>6, <1>7, <1>8, <1>9, <1>10, <1>11, <1>12,
       <1>13, <1>14 DEF LinkNext, Protocol

\* The units and the wire keep their types, whatever is lost and whoever restarts.
THEOREM LinkTypeCorrect == LinkSpec => []LinkTypeOK
  BY LinkTypeInit, LinkTypeStep, PTL DEF LinkSpec
-----------------------------------------------------------------------------
(***************************************************************************)
(* A silent peer is noticed.                                               *)
(***************************************************************************)

LEMMA TimerStep == LinkTypeOK /\ TimerInv /\ [LinkNext]_linkVars => TimerInv'
  <1> SUFFICES ASSUME LinkTypeOK, TimerInv, [LinkNext]_linkVars PROVE TimerInv'
    OBVIOUS
  <1> USE Periods DEF Idle
  <1>0. mAge \in Nat /\ sampled \in {-1, 0, 1} /\ mRan \in BOOLEAN
        /\ mState \in {"STANDALONE", "REMOTE_ACTIVE"}
    BY DEF LinkTypeOK
  <1>1. CASE UNCHANGED <<mainVars, mRan>>
    BY <1>1 DEF mainVars, TimerInv
  <1>2. CASE MainGetsHello
    BY <1>0, <1>2 DEF MainGetsHello, TimerInv
  <1>3. CASE MainGetsBeat
    BY <1>0, <1>3 DEF MainGetsBeat, TimerInv
  <1>4. CASE MainIdle
    BY <1>0, <1>4 DEF MainIdle, mainVars, TimerInv
  <1>5. CASE MainSample
    BY <1>0, <1>5 DEF MainSample, TimerInv
  <1>6. CASE MainCheck
    <2>1. CASE Expired(mAge, sampled)
      BY <1>0, <1>6, <2>1 DEF MainCheck, TimerInv
    <2>2. CASE ~Expired(mAge, sampled)
      <3>1. mAge - sampled <= LINK_TIMEOUT
        BY <1>0, <2>2 DEF Expired
      <3> QED
        BY <1>0, <1>6, <2>2, <3>1 DEF MainCheck, TimerInv
    <2> QED
      BY <2>1, <2>2
  <1>7. CASE Tick
    <2>1. mRan /\ ~mRan' /\ sampled \in {-1, 0} /\ mState' = mState
          /\ sampled' = (IF sampled = -1 THEN -1 ELSE 1)
          /\ mAge' = (IF mState = "REMOTE_ACTIVE" THEN mAge + 1 ELSE mAge)
      BY <1>7 DEF Tick
    <2> QED
      BY <1>0, <2>1 DEF TimerInv
  <1>8. CASE MainRestart
    BY <1>8 DEF MainRestart, TimerInv
  <1>9. RemoteHello \/ RemoteActive \/ RemoteGetsAck \/ MainGetsCommand \/ LosePacket
        \/ RemoteRestart \/ UNCHANGED linkVars => UNCHANGED <<mainVars, mRan>>
    BY DEF RemoteHello, RemoteActive, RemoteGetsAck, MainGetsCommand, LosePacket,
           RemoteRestart, linkVars, mainVars
  <1> QED
    BY <1>1, <1>2, <1>3, <1>4, <1>5, <1>6, <1>7, <1>8, <1>9 DEF LinkNext, Protocol

\* A session never outlives its last sign of life by more than the time-out and two
\* ticks, also when a tick hits the main loop between its two loads.
THEOREM SilenceIsNoticed == LinkSpec => []SilenceNoticed
  <1>1. LinkInit => LinkTypeOK /\ TimerInv
    BY LinkTypeInit DEF LinkInit, TimerInv, Idle
  <1>2. LinkTypeOK /\ TimerInv /\ [LinkNext]_linkVars => (LinkTypeOK /\ TimerInv)'
    BY LinkTypeStep, TimerStep
  <1>3. LinkTypeOK /\ TimerInv => SilenceNoticed
    BY Periods DEF LinkTypeOK, TimerInv, SilenceNoticed, Idle
  <1> QED
    BY <1>1, <1>2, <1>3, PTL DEF LinkSpec
-----------------------------------------------------------------------------
(***************************************************************************)
(* Lost heartbeats do not end a session.                                   *)
(***************************************************************************)

LEMMA NoBeat == ~BeatIn(<<>>) /\ ~BeatIn(<<"HELLO">>) /\ ~BeatIn(<<"COMMAND">>)
  BY DEF BeatIn

LEMMA BeatInTail ==
  ASSUME NEW s \in Seq(Packet), s # <<>>
  PROVE  /\ BeatIn(Tail(s)) => BeatIn(s)
         /\ Head(s) = "HEARTBEAT" => BeatIn(s)
         /\ Head(s) # "HEARTBEAT" => (BeatIn(s) <=> BeatIn(Tail(s)))
  <1>1. /\ Len(s) \in Nat /\ Len(s) > 0 /\ DOMAIN s = 1 .. Len(s) /\ Head(s) = s[1]
        /\ DOMAIN Tail(s) = 1 .. Len(s) - 1
        /\ \A i \in 1 .. Len(s) - 1 : Tail(s)[i] = s[i + 1]
    OBVIOUS
  <1>2. ASSUME NEW i \in DOMAIN Tail(s), Tail(s)[i] = "HEARTBEAT" PROVE BeatIn(s)
    <2>1. i + 1 \in DOMAIN s /\ s[i + 1] = "HEARTBEAT"
      BY <1>1, <1>2
    <2> QED
      BY <2>1 DEF BeatIn
  <1>3. ASSUME NEW i \in DOMAIN s, s[i] = "HEARTBEAT", Head(s) # "HEARTBEAT"
        PROVE  BeatIn(Tail(s))
    <2>1. i - 1 \in DOMAIN Tail(s) /\ Tail(s)[i - 1] = "HEARTBEAT"
      BY <1>1, <1>3
    <2> QED
      BY <2>1 DEF BeatIn
  <1>4. 1 \in DOMAIN s
    BY <1>1
  <1> QED
    BY <1>1, <1>2, <1>3, <1>4 DEF BeatIn

LEMMA Span ==
  ASSUME NEW n \in Nat
  PROVE  n * BEAT_PERIOD \in Nat /\ (n + 1) * BEAT_PERIOD = n * BEAT_PERIOD + BEAT_PERIOD
  BY Periods

LEMMA BeatStep == LinkTypeOK /\ BeatInv /\ [LinkNext]_linkVars => BeatInv'
  <1> SUFFICES ASSUME LinkTypeOK, BeatInv, [LinkNext]_linkVars PROVE BeatInv'
    OBVIOUS
  <1>0. /\ mAge \in Nat /\ beatAge \in 0 .. BEAT_PERIOD /\ lostBeats \in Nat
        /\ BEAT_PERIOD \in Nat /\ BEAT_PERIOD > 0 /\ toMain \in Seq(Packet)
        /\ rRan \in BOOLEAN /\ rState \in {"INIT", "ACTIVE"}
        /\ mState \in {"STANDALONE", "REMOTE_ACTIVE"}
    BY Periods DEF LinkTypeOK, Packet
  <1>s. /\ lostBeats * BEAT_PERIOD \in Nat /\ (lostBeats + 1) * BEAT_PERIOD \in Nat
        /\ (lostBeats + 1) * BEAT_PERIOD = lostBeats * BEAT_PERIOD + BEAT_PERIOD
        /\ (lostBeats + 2) * BEAT_PERIOD = lostBeats * BEAT_PERIOD + BEAT_PERIOD + BEAT_PERIOD
        /\ 0 * BEAT_PERIOD = 0 /\ (0 + 1) * BEAT_PERIOD = BEAT_PERIOD
    <2>1. lostBeats + 1 \in Nat /\ (lostBeats + 1) + 1 = lostBeats + 2
      BY <1>0
    <2> QED
      BY <1>0, <2>1, Span
  <1>1. CASE RemoteHello
    <2>1. ~rRan /\ toMain = <<>> /\ rState = "INIT" /\ rState' = "INIT"
          /\ UNCHANGED <<beatAge, mAge, toRemote>> /\ rRan'
      BY <1>1 DEF RemoteHello, BeatInv, mainVars
    <2>2. toMain' = toMain \/ toMain' = <<>> \o <<"HELLO">>
      BY <1>1, <2>1 DEF RemoteHello, Send
    <2>3. <<>> \o <<"HELLO">> = <<"HELLO">>
      OBVIOUS
    <2>4. ~BeatIn(toMain')
      BY <2>1, <2>2, <2>3, NoBeat
    <2> QED
      BY <2>1, <2>4 DEF BeatInv, BeatOnWire
  <1>2. CASE RemoteActive
    <2>1. ~rRan /\ toMain = <<>> /\ rState = "ACTIVE" /\ rState' = rState /\ rRan'
          /\ UNCHANGED <<mState, mAge, toRemote, lostBeats>> /\ ~BeatOnWire
      BY <1>2, NoBeat DEF RemoteActive, BeatInv, mainVars, BeatOnWire
    <2>2. CASE beatAge >= BEAT_PERIOD
      <3>1. beatAge' = 0 /\ beatAge = BEAT_PERIOD
        BY <1>0, <1>2, <2>2 DEF RemoteActive
      <3>2. mState = "REMOTE_ACTIVE" => mAge <= lostBeats * BEAT_PERIOD + BEAT_PERIOD
        BY <1>0, <1>s, <2>1, <3>1 DEF BeatInv
      <3>3. "HEARTBEAT" = toMain'[1] /\ 1 \in DOMAIN toMain'
        <4>1. PICK input \in {<<>>, <<"COMMAND">>} : toMain' = <<>> \o (<<"HEARTBEAT">> \o input)
          BY <1>2, <2>1, <2>2 DEF RemoteActive, Send
        <4> QED
          BY <4>1
      <3>4. BeatIn(toMain')
        BY <3>3, Zenon DEF BeatIn
      <3> QED
        BY <1>0, <1>s, <2>1, <3>1, <3>2, <3>4 DEF BeatInv, BeatOnWire
    <2>3. CASE ~(beatAge >= BEAT_PERIOD)
      <3>1. PICK input \in {<<>>, <<"COMMAND">>} : toMain' = <<>> \o input
        BY <1>2, <2>1, <2>3 DEF RemoteActive, Send
      <3>2. <<>> \o input = input
        BY <3>1
      <3>3. ~BeatIn(toMain')
        BY <3>1, <3>2, NoBeat
      <3>4. beatAge' = beatAge /\ beatAge < BEAT_PERIOD
        BY <1>0, <1>2, <2>3 DEF RemoteActive
      <3> QED
        BY <2>1, <3>3, <3>4 DEF BeatInv, BeatOnWire
    <2> QED
      BY <2>2, <2>3
  <1>3. CASE RemoteGetsAck
    <2>1. mAge = 0 /\ UNCHANGED <<toMain, rRan, mAge, mState, lostBeats>>
      BY <1>3 DEF RemoteGetsAck, BeatInv, mainVars
    <2>2. (rState' = rState /\ beatAge' = beatAge) \/ beatAge' = 0
      BY <1>3 DEF RemoteGetsAck
    <2> QED
      BY <1>0, <1>s, <2>1, <2>2 DEF BeatInv, BeatOnWire
  <1>4. CASE MainGetsHello \/ MainGetsBeat \/ MainGetsCommand
    <2>1. /\ toMain # <<>> /\ toMain' = Tail(toMain)
          /\ UNCHANGED <<rState, beatAge, rRan>> /\ rRan
      BY <1>4 DEF MainGetsHello, MainGetsBeat, MainGetsCommand, Arrives, remoteVars, BeatInv
    <2>2. BeatIn(toMain') => BeatIn(toMain)
      BY <1>0, <2>1, BeatInTail
    <2>3. \/ mAge' = 0 /\ lostBeats' \in Nat
          \/ /\ UNCHANGED <<mAge, mState, lostBeats, toRemote>>
             /\ mState = "REMOTE_ACTIVE" => Head(toMain) # "HEARTBEAT"
      BY <1>0, <1>4 DEF MainGetsHello, MainGetsBeat, MainGetsCommand, Arrives, mainVars
    <2>4. CASE mAge' = 0 /\ lostBeats' \in Nat
      <3>1. PICK n \in Nat : lostBeats' = n
        BY <2>4
      <3>2. n * BEAT_PERIOD \in Nat /\ (n + 1) * BEAT_PERIOD \in Nat
        BY <1>0, Span
      <3>3. 0 <= beatAge + n * BEAT_PERIOD /\ 0 <= (n + 1) * BEAT_PERIOD
        BY <1>0, <3>2
      <3> QED
        BY <2>1, <2>2, <2>4, <3>1, <3>3 DEF BeatInv, BeatOnWire
    <2>5. CASE /\ UNCHANGED <<mAge, mState, lostBeats, toRemote>>
               /\ mState = "REMOTE_ACTIVE" => Head(toMain) # "HEARTBEAT"
      <3>1. mState = "REMOTE_ACTIVE" => (BeatIn(toMain') <=> BeatIn(toMain))
        BY <1>0, <2>1, <2>5, BeatInTail
      <3> QED
        BY <2>1, <2>2, <2>5, <3>1 DEF BeatInv, BeatOnWire
    <2> QED
      BY <2>3, <2>4, <2>5
  <1>5. CASE MainCheck
    <2>1. UNCHANGED <<rState, beatAge, toMain, toRemote, rRan, lostBeats>>
      BY <1>5 DEF MainCheck, remoteVars, wire
    <2>2. (mState' = "STANDALONE" /\ mAge' = 0) \/ UNCHANGED <<mState, mAge>>
      BY <1>5 DEF MainCheck
    <2> QED
      BY <2>1, <2>2 DEF BeatInv, BeatOnWire
  <1>6. CASE Tick
    <2>1. /\ toMain = <<>> /\ toMain' = <<>> /\ toRemote' = <<>> /\ rRan
          /\ UNCHANGED <<rState, mState, lostBeats>>
          /\ mAge' = IF mState = "REMOTE_ACTIVE" THEN mAge + 1 ELSE mAge
          /\ beatAge' = IF beatAge < BEAT_PERIOD THEN beatAge + 1 ELSE beatAge
          /\ ~rRan'
      BY <1>6 DEF Tick, wire, AgedTo
    <2>2. ~BeatIn(toMain) /\ ~BeatIn(toMain')
      BY <2>1, NoBeat
    <2>3. ASSUME mState = "REMOTE_ACTIVE", rState = "ACTIVE"
          PROVE  mAge' <= beatAge' + lostBeats * BEAT_PERIOD
      <3>1. beatAge' = beatAge + 1 /\ mAge' = mAge + 1
            /\ mAge <= beatAge + lostBeats * BEAT_PERIOD
        BY <2>1, <2>2, <2>3 DEF BeatInv, BeatOnWire
      <3>2. mAge + 1 <= (beatAge + 1) + lostBeats * BEAT_PERIOD
        BY <1>0, <1>s, <3>1
      <3> QED
        BY <3>1, <3>2, Zenon
    <2> QED
      BY <2>1, <2>2, <2>3 DEF BeatInv, BeatOnWire
  <1>7. CASE LosePacket
    <2>1. UNCHANGED <<rState, beatAge, mState, mAge, rRan>>
      BY <1>7 DEF LosePacket, remoteVars, mainVars
    <2>2. CASE toMain # <<>> /\ toMain' = Tail(toMain) /\ toRemote' = toRemote
               /\ lostBeats' = IF Head(toMain) = "HEARTBEAT" THEN lostBeats + 1 ELSE lostBeats
      <3>1. BeatIn(toMain') => BeatIn(toMain)
        BY <1>0, <2>2, BeatInTail
      <3>2. CASE Head(toMain) = "HEARTBEAT"
        <4>1. BeatIn(toMain) /\ lostBeats' = lostBeats + 1
          BY <1>0, <2>2, <3>2, BeatInTail
        <4>2. ASSUME mState = "REMOTE_ACTIVE", rState = "ACTIVE"
              PROVE  /\ mAge <= beatAge + (lostBeats + 1) * BEAT_PERIOD
                     /\ mAge <= ((lostBeats + 1) + 1) * BEAT_PERIOD
          <5>1. mAge <= (lostBeats + 1) * BEAT_PERIOD
            BY <4>1, <4>2 DEF BeatInv, BeatOnWire
          <5>2. (lostBeats + 1) + 1 = lostBeats + 2
            BY <1>0
          <5> QED
            BY <1>0, <1>s, <5>1, <5>2
        <4> QED
          BY <2>1, <2>2, <3>1, <4>1, <4>2 DEF BeatInv, BeatOnWire
      <3>3. CASE Head(toMain) # "HEARTBEAT"
        <4>1. BeatIn(toMain') <=> BeatIn(toMain)
          BY <1>0, <2>2, <3>3, BeatInTail
        <4> QED
          BY <2>1, <2>2, <3>3, <4>1 DEF BeatInv, BeatOnWire
      <3> QED
        BY <3>2, <3>3
    <2>3. CASE toRemote # <<>> /\ UNCHANGED <<toMain, lostBeats>>
      BY <2>1, <2>3 DEF BeatInv, BeatOnWire
    <2> QED
      BY <1>7, <2>2, <2>3 DEF LosePacket
  <1>8. CASE MainRestart
    <2>1. toMain' = <<>> /\ mAge' = 0 /\ mState' = "STANDALONE"
          /\ UNCHANGED <<rState, beatAge, rRan, toRemote, lostBeats>>
      BY <1>8 DEF MainRestart, remoteVars
    <2>2. ~BeatIn(toMain')
      BY <2>1, NoBeat
    <2> QED
      BY <2>1, <2>2 DEF BeatInv, BeatOnWire
  <1>9. CASE RemoteRestart
    BY <1>9 DEF RemoteRestart, mainVars, BeatInv, BeatOnWire
  <1>10. CASE UNCHANGED <<rState, beatAge, rRan, mState, mAge, wire, lostBeats>>
    BY <1>10 DEF BeatInv, BeatOnWire, wire
  <1>11. MainIdle \/ MainSample \/ UNCHANGED linkVars
         => UNCHANGED <<rState, beatAge, rRan, mState, mAge, wire, lostBeats>>
    BY DEF MainIdle, MainSample, linkVars, mainVars, remoteVars, wire
  <1> QED
    BY <1>1, <1>2, <1>3, <1>4, <1>5, <1>6, <1>7, <1>8, <1>9, <1>10, <1>11
       DEF LinkNext, Protocol

\* Any number of heartbeats may be lost and either unit may restart: a step that is
\* not a restart ends a session of two active units only when the heartbeats lost in
\* a row span the time-out, or when the difference of the two loads wraps.
THEOREM HeartbeatsMayGetLost == LinkSpec => SessionSurvivesLoss
  <1> DEFINE Survives == mState = "REMOTE_ACTIVE" /\ rState = "ACTIVE" /\ UNCHANGED restartLeft
                         /\ (lostBeats + 1) * BEAT_PERIOD <= LINK_TIMEOUT /\ mAge >= sampled
                           => mState' = "REMOTE_ACTIVE"
  <1>1. LinkInit => LinkTypeOK /\ BeatInv
    BY LinkTypeInit, Periods, NoBeat DEF LinkInit, BeatInv, BeatOnWire
  <1>2. LinkTypeOK /\ BeatInv /\ [LinkNext]_linkVars => (LinkTypeOK /\ BeatInv)'
    BY LinkTypeStep, BeatStep
  <1>3. LinkTypeOK /\ BeatInv /\ [LinkNext]_linkVars => Survives
    <2> SUFFICES ASSUME LinkTypeOK, BeatInv, [LinkNext]_linkVars, mState = "REMOTE_ACTIVE",
                        rState = "ACTIVE", UNCHANGED restartLeft, mAge >= sampled,
                        (lostBeats + 1) * BEAT_PERIOD <= LINK_TIMEOUT
                 PROVE  mState' = "REMOTE_ACTIVE"
      OBVIOUS
    <2>0. /\ mAge \in Nat /\ beatAge \in 0 .. BEAT_PERIOD /\ lostBeats \in Nat
          /\ BEAT_PERIOD \in Nat /\ LINK_TIMEOUT \in Nat /\ restartLeft \in Nat
          /\ sampled \in {-1, 0, 1}
      BY Periods DEF LinkTypeOK, Idle
    <2>1. mAge <= LINK_TIMEOUT
      <3>1. /\ lostBeats * BEAT_PERIOD \in Nat
            /\ (lostBeats + 1) * BEAT_PERIOD = lostBeats * BEAT_PERIOD + BEAT_PERIOD
        BY <2>0, Span
      <3>2. \/ mAge <= beatAge + lostBeats * BEAT_PERIOD
            \/ mAge <= (lostBeats + 1) * BEAT_PERIOD
        BY DEF BeatInv
      <3> QED
        BY <2>0, <3>1, <3>2
    <2>2. CASE MainCheck
      <3>1. sampled \in {0, 1}
        BY <2>0, <2>2 DEF MainCheck, Idle
      <3>2. ~Expired(mAge, sampled)
        BY <2>0, <2>1, <3>1 DEF Expired
      <3> QED
        BY <2>2, <3>2 DEF MainCheck
    <2>3. ~MainRestart
      BY <2>0 DEF MainRestart
    <2>4. MainGetsHello \/ MainGetsBeat => mState' = mState
      BY DEF MainGetsHello, MainGetsBeat
    <2>5. RemoteHello \/ RemoteActive \/ RemoteGetsAck \/ MainGetsCommand \/ MainIdle
          \/ MainSample \/ Tick \/ LosePacket \/ RemoteRestart \/ UNCHANGED linkVars
          => mState' = mState
      BY DEF RemoteHello, RemoteActive, RemoteGetsAck, MainGetsCommand, MainIdle, MainSample,
             Tick, LosePacket, RemoteRestart, linkVars, mainVars
    <2> QED
      BY <2>2, <2>3, <2>4, <2>5 DEF LinkNext, Protocol
  <1> QED
    BY <1>1, <1>2, <1>3, PTL DEF LinkSpec, SessionSurvivesLoss
-----------------------------------------------------------------------------
(***************************************************************************)
(* The CRC.                                                                *)
(***************************************************************************)

\* The bits of a ^ b.
BitOfXor(a, b, w) == (a \div w + b \div w) % 2

LEMMA XorBits ==
  ASSUME NEW a \in Byte, NEW b \in Byte
  PROVE  /\ Xor(a, b) = BitOfXor(a, b, 1) + 2 * BitOfXor(a, b, 2) + 4 * BitOfXor(a, b, 4)
                        + 8 * BitOfXor(a, b, 8) + 16 * BitOfXor(a, b, 16) + 32 * BitOfXor(a, b, 32)
                        + 64 * BitOfXor(a, b, 64) + 128 * BitOfXor(a, b, 128)
         /\ \A w \in {1, 2, 4, 8, 16, 32, 64, 128} : BitOfXor(a, b, w) \in {0, 1}
  <1>1. ASSUME NEW w \in {1, 2, 4, 8, 16, 32, 64, 128} PROVE BitOfXor(a, b, w) \in {0, 1}
    <2>1. a \div w \in Int /\ b \div w \in Int
      BY DEF Byte
    <2>2. \A x \in Int : x % 2 \in {0, 1}
      OBVIOUS
    <2> QED
      BY <2>1, <2>2 DEF BitOfXor
  <1> QED
    BY <1>1 DEF Xor, BitOfXor

LEMMA XorByte ==
  ASSUME NEW a \in Byte, NEW b \in Byte
  PROVE  Xor(a, b) \in Byte /\ Xor(a, b) = Xor(b, a)
  <1>1. Xor(a, b) \in Byte
    <2> DEFINE bit(w) == BitOfXor(a, b, w)
    <2>1. \A w \in {1, 2, 4, 8, 16, 32, 64, 128} : bit(w) \in {0, 1}
      BY XorBits
    <2>2. Xor(a, b) = bit(1) + 2 * bit(2) + 4 * bit(4) + 8 * bit(8)
                      + 16 * bit(16) + 32 * bit(32) + 64 * bit(64) + 128 * bit(128)
      BY XorBits
    <2> HIDE DEF bit
    <2> QED
      BY <2>1, <2>2 DEF Byte
  <1>2. Xor(a, b) = Xor(b, a)
    <2>1. \A w \in {1, 2, 4, 8, 16, 32, 64, 128} : BitOfXor(a, b, w) = BitOfXor(b, a, w)
      BY DEF BitOfXor, Byte
    <2> QED
      BY <2>1, XorBits
  <1> QED
    BY <1>1, <1>2

LEMMA XorInjective ==
  ASSUME NEW a \in Byte, NEW b \in Byte, NEW c \in Byte, Xor(a, c) = Xor(b, c)
  PROVE  a = b
  <1> DEFINE bit(w) == BitOfXor(a, c, w)
             tib(w) == BitOfXor(b, c, w)
             Weight == {1, 2, 4, 8, 16, 32, 64, 128}
  <1>1. /\ \A w \in Weight : bit(w) \in {0, 1} /\ tib(w) \in {0, 1}
        /\ bit(1) + 2 * bit(2) + 4 * bit(4) + 8 * bit(8)
             + 16 * bit(16) + 32 * bit(32) + 64 * bit(64) + 128 * bit(128)
           = tib(1) + 2 * tib(2) + 4 * tib(4) + 8 * tib(8)
             + 16 * tib(16) + 32 * tib(32) + 64 * tib(64) + 128 * tib(128)
    BY XorBits
  <1>2. \A w \in Weight : bit(w) = tib(w)
    <2> HIDE DEF bit, tib
    <2> QED
      BY <1>1
  <1>3. \A w \in Weight : (a \div w) % 2 = (b \div w) % 2
    <2> SUFFICES ASSUME NEW w \in Weight PROVE (a \div w) % 2 = (b \div w) % 2
      OBVIOUS
    <2>1. (a \div w + c \div w) % 2 = (b \div w + c \div w) % 2
      BY <1>2 DEF BitOfXor
    <2>2. a \div w \in Int /\ b \div w \in Int /\ c \div w \in Int
      BY DEF Byte
    <2>3. \A x, y, z \in Int : (x + z) % 2 = (y + z) % 2 => x % 2 = y % 2
      OBVIOUS
    <2> QED
      BY <2>1, <2>2, <2>3
  <1>4. \A x \in Byte : x = ((x \div 1) % 2) + 2 * ((x \div 2) % 2) + 4 * ((x \div 4) % 2)
                            + 8 * ((x \div 8) % 2) + 16 * ((x \div 16) % 2)
                            + 32 * ((x \div 32) % 2) + 64 * ((x \div 64) % 2)
                            + 128 * ((x \div 128) % 2)
    BY DEF Byte
  <1> QED
    BY <1>3, <1>4

\* Eight shifts of the register.
OneShift == [c \in Byte |-> IF c >= 128 THEN Xor((2 * c) % 256, 7) ELSE 2 * c]

Injective(f) == \A x, y \in DOMAIN f : f[x] = f[y] => x = y

LEMMA ShiftInjective == OneShift \in [Byte -> Byte] /\ Injective(OneShift)
  <1>1. ASSUME NEW c \in Byte PROVE OneShift[c] \in Byte
    <2>1. (2 * c) % 256 \in Byte /\ 7 \in Byte
      BY DEF Byte
    <2>2. c < 128 => 2 * c \in Byte
      BY DEF Byte
    <2>3. c >= 128 \/ c < 128
      BY DEF Byte
    <2> QED
      BY <2>1, <2>2, <2>3, XorByte DEF OneShift
  <1>2. ASSUME NEW c \in Byte, c >= 128
        PROVE  /\ (2 * c) % 256 = 2 * c - 256 /\ OneShift[c] = Xor(2 * c - 256, 7)
               /\ OneShift[c] % 2 = 1
    <2>1. (2 * c) % 256 = 2 * c - 256 /\ 2 * c - 256 \in Byte /\ 7 \in Byte
      BY <1>2 DEF Byte
    <2>2. OneShift[c] = Xor(2 * c - 256, 7)
      BY <1>2, <2>1 DEF OneShift
    <2> DEFINE x == 2 * c - 256
               bit(w) == BitOfXor(x, 7, w)
    <2>3. BitOfXor(x, 7, 1) = 1
      BY DEF BitOfXor, Byte
    <2>4. /\ Xor(x, 7) = bit(1) + 2 * bit(2) + 4 * bit(4) + 8 * bit(8)
                        + 16 * bit(16) + 32 * bit(32) + 64 * bit(64) + 128 * bit(128)
          /\ \A w \in {1, 2, 4, 8, 16, 32, 64, 128} : bit(w) \in {0, 1}
      BY <2>1, XorBits
    <2>5. Xor(x, 7) % 2 = 1
      <3>1. bit(1) = 1
        BY <2>3
      <3> HIDE DEF x, bit
      <3> QED
        BY <2>4, <3>1
    <2> QED
      BY <2>1, <2>2, <2>5
  <1>3. ASSUME NEW c \in Byte, ~(c >= 128) PROVE OneShift[c] = 2 * c /\ OneShift[c] % 2 = 0
    BY <1>3 DEF OneShift, Byte
  <1>4. ASSUME NEW c \in Byte, NEW d \in Byte, OneShift[c] = OneShift[d] PROVE c = d
    <2>1. CASE c >= 128 /\ d >= 128
      <3>1. Xor(2 * c - 256, 7) = Xor(2 * d - 256, 7)
        BY <1>2, <1>4, <2>1
      <3>2. 2 * c - 256 \in Byte /\ 2 * d - 256 \in Byte /\ 7 \in Byte
        BY <2>1 DEF Byte
      <3>3. 2 * c - 256 = 2 * d - 256
        BY <3>1, <3>2, XorInjective
      <3> QED
        BY <3>3 DEF Byte
    <2>2. CASE ~(c >= 128) /\ ~(d >= 128)
      <3>1. 2 * c = 2 * d
        BY <1>3, <1>4, <2>2
      <3> QED
        BY <3>1 DEF Byte
    <2>3. CASE (c >= 128) # (d >= 128)
      <3>1. OneShift[c] % 2 # OneShift[d] % 2
        BY <1>2, <1>3, <2>3
      <3> QED
        BY <1>4, <3>1
    <2> QED
      BY <2>1, <2>2, <2>3
  <1>5. OneShift \in [Byte -> Byte]
    BY <1>1 DEF OneShift
  <1> QED
    BY <1>4, <1>5 DEF Injective

LEMMA Twice ==
  ASSUME NEW f \in [Byte -> Byte], Injective(f)
  PROVE  [c \in Byte |-> f[f[c]]] \in [Byte -> Byte] /\ Injective([c \in Byte |-> f[f[c]]])
  BY DEF Injective

LEMMA TableInjective == CrcTable \in [Byte -> Byte] /\ Injective(CrcTable)
  <1> DEFINE two  == [c \in Byte |-> OneShift[OneShift[c]]]
             four == [c \in Byte |-> two[two[c]]]
             all  == [c \in Byte |-> four[four[c]]]
  <1>1. two \in [Byte -> Byte] /\ Injective(two)
    BY ShiftInjective, Twice
  <1>2. four \in [Byte -> Byte] /\ Injective(four)
    <2> HIDE DEF two
    <2> QED
      BY <1>1, Twice
  <1>3. all \in [Byte -> Byte] /\ Injective(all)
    <2> HIDE DEF four
    <2> QED
      BY <1>2, Twice
  <1>4. CrcTable = all
    BY DEF CrcTable, OneShift
  <1> QED
    BY <1>3, <1>4

\* The CRC tells two registers apart after any byte, and two bytes in any register.
LEMMA CrcOfInjective ==
  ASSUME NEW c \in Byte, NEW d \in Byte, NEW b \in Byte
  PROVE  /\ CrcOf(c, b) \in Byte
         /\ CrcOf(c, b) = CrcOf(d, b) => c = d
         /\ CrcOf(b, c) = CrcOf(b, d) => c = d
  <1>1. Xor(c, b) \in Byte /\ Xor(d, b) \in Byte /\ Xor(b, c) = Xor(c, b) /\ Xor(b, d) = Xor(d, b)
    BY XorByte
  <1>2. CrcTable[Xor(c, b)] = CrcTable[Xor(d, b)] => c = d
    <2>1. CrcTable[Xor(c, b)] = CrcTable[Xor(d, b)] => Xor(c, b) = Xor(d, b)
      BY <1>1, TableInjective DEF Injective
    <2> QED
      BY <2>1, XorInjective
  <1> QED
    BY <1>1, <1>2, TableInjective DEF CrcOf

LEMMA LeastElement ==
  ASSUME NEW T, T \subseteq Nat, T # {}
  PROVE  \E x \in T : \A y \in T : x <= y
  <1>1. PICK x \in T : \A y \in T : ~ (<<y, x>> \in OpToRel(<, Nat))
    BY NatLessThanWellFounded, WFMin
  <1>2. \A y \in T : ~ (y < x)
    BY <1>1, Zenon DEF OpToRel
  <1> QED
    BY <1>2

\* f gives the register after each of the first n bytes of data.
Registers(f, data, n) ==
  f = [i \in 0 .. n |-> IF i = 0 THEN 0 ELSE CrcOf(f[i - 1], data[i])]

LEMMA RegistersExist ==
  ASSUME NEW data \in Seq(Byte), NEW n \in 0 .. Len(data)
  PROVE  \E f \in [0 .. n -> Byte] : Registers(f, data, n)
  <1> DEFINE Without == {k \in 0 .. Len(data) : ~ \E f \in [0 .. k -> Byte] : Registers(f, data, k)}
  <1> SUFFICES ASSUME Without # {} PROVE FALSE
    OBVIOUS
  <1>1. PICK k \in Without : \A j \in Without : k <= j
    <2>1. Without \subseteq Nat
      OBVIOUS
    <2> HIDE DEF Without
    <2> QED
      BY <2>1, LeastElement
  <1>2. k \in Nat /\ k <= Len(data) /\ ~ \E f \in [0 .. k -> Byte] : Registers(f, data, k)
    OBVIOUS
  <1>3. k # 0
    <2>1. [i \in 0 .. 0 |-> 0] \in [0 .. 0 -> Byte] /\ Registers([i \in 0 .. 0 |-> 0], data, 0)
      BY DEF Byte, Registers
    <2> QED
      BY <1>2, <2>1
  <1>4. k - 1 \in 0 .. Len(data) /\ k - 1 \notin Without
    BY <1>1, <1>2, <1>3
  <1>5. PICK f \in [0 .. k - 1 -> Byte] : Registers(f, data, k - 1)
    BY <1>4
  <1> DEFINE g == [i \in 0 .. k |-> IF i = k THEN CrcOf(f[k - 1], data[k]) ELSE f[i]]
  <1>6. k \in 1 .. Len(data) /\ k - 1 \in 0 .. k - 1 /\ data[k] \in Byte /\ f[k - 1] \in Byte
    BY <1>2, <1>3
  <1>7. CrcOf(f[k - 1], data[k]) \in Byte
    BY <1>6, CrcOfInjective
  <1>8. g \in [0 .. k -> Byte]
    <2>1. \A i \in 0 .. k : i # k => i \in 0 .. k - 1
      BY <1>2
    <2> QED
      BY <1>7, <2>1
  <1>9. ASSUME NEW i \in 0 .. k
        PROVE  g[i] = IF i = 0 THEN 0 ELSE CrcOf(g[i - 1], data[i])
    <2>1. CASE i = k
      <3>1. k - 1 \in 0 .. k /\ k - 1 # k
        BY <1>2, <1>3
      <3>2. g[k - 1] = f[k - 1]
        BY <3>1
      <3> QED
        BY <1>3, <2>1, <3>2
    <2>2. CASE i # k
      <3>1. i \in 0 .. k - 1 /\ (i # 0 => i - 1 \in 0 .. k /\ i - 1 # k)
        BY <1>2, <2>2
      <3>2. f[i] = IF i = 0 THEN 0 ELSE CrcOf(f[i - 1], data[i])
        BY <1>5, <3>1 DEF Registers
      <3> QED
        BY <2>2, <3>1, <3>2
    <2> QED
      BY <2>1, <2>2
  <1>10. Registers(g, data, k)
    <2>1. g = [i \in 0 .. k |-> g[i]]
      BY <1>8
    <2> HIDE DEF g
    <2> QED
      BY <1>9, <2>1 DEF Registers
  <1> QED
    BY <1>2, <1>8, <1>10

\* Equal bytes give equal registers.
LEMMA RegistersEqual ==
  ASSUME NEW data, NEW other, NEW m \in Nat, NEW n \in Nat, NEW k \in Nat, k <= m, k <= n,
         NEW f, Registers(f, data, m), NEW g, Registers(g, other, n),
         \A i \in 1 .. k : data[i] = other[i]
  PROVE  f[k] = g[k]
  <1> DEFINE Differ == {i \in 0 .. k : f[i] # g[i]}
  <1> SUFFICES ASSUME Differ # {} PROVE FALSE
    OBVIOUS
  <1>1. PICK i \in Differ : \A j \in Differ : i <= j
    <2>1. Differ \subseteq Nat
      OBVIOUS
    <2> HIDE DEF Differ
    <2> QED
      BY <2>1, LeastElement
  <1>2. i \in 0 .. k /\ f[i] # g[i] /\ i \in 0 .. m /\ i \in 0 .. n
    OBVIOUS
  <1>3. /\ f[i] = IF i = 0 THEN 0 ELSE CrcOf(f[i - 1], data[i])
        /\ g[i] = IF i = 0 THEN 0 ELSE CrcOf(g[i - 1], other[i])
    BY <1>2 DEF Registers
  <1>4. i # 0 /\ i - 1 \in 0 .. k /\ i - 1 \notin Differ /\ i \in 1 .. k
    BY <1>1, <1>2, <1>3
  <1>5. f[i - 1] = g[i - 1] /\ data[i] = other[i]
    BY <1>4
  <1> QED
    BY <1>2, <1>3, <1>4, <1>5

\* CRC8 is the last register.
LEMMA CrcIsRegister ==
  ASSUME NEW data \in Seq(Byte)
  PROVE  \E f \in [0 .. Len(data) -> Byte] :
           Registers(f, data, Len(data)) /\ CRC8(data) = f[Len(data)]
  <1> DEFINE f == CHOOSE f : Registers(f, data, Len(data))
  <1>1. CRC8(data) = f[Len(data)]
    BY DEF CRC8, Registers
  <1>2. PICK g \in [0 .. Len(data) -> Byte] : Registers(g, data, Len(data))
    BY RegistersExist
  <1>3. Registers(f, data, Len(data))
    <2> HIDE DEF Registers
    <2> QED BY <1>2
  <1> HIDE DEF f
  <1>4. \A k \in 0 .. Len(data) : f[k] = g[k]
    <2> TAKE k \in 0 .. Len(data)
    <2> QED
      BY <1>2, <1>3, RegistersEqual
  <1>5. f = g
    <2>1. f = [i \in 0 .. Len(data) |-> f[i]]
      BY <1>3 DEF Registers
    <2> QED
      BY <1>2, <1>4, <2>1
  <1> QED
    BY <1>1, <1>2, <1>5

\* The register the parser keeps is the CRC of the bytes it has stored.
LEMMA CrcByByte ==
  /\ CRC8(<<>>) = 0
  /\ \A data \in Seq(Byte) : CRC8(data) \in Byte
  /\ \A data \in Seq(Byte), byte \in Byte : CRC8(Append(data, byte)) = CrcOf(CRC8(data), byte)
  <1>1. CRC8(<<>>) = 0
    <2>1. <<>> \in Seq(Byte) /\ Len(<<>>) = 0
      OBVIOUS
    <2>2. PICK f \in [0 .. 0 -> Byte] : Registers(f, <<>>, 0) /\ CRC8(<<>>) = f[0]
      BY <2>1, CrcIsRegister
    <2> QED
      BY <2>2 DEF Registers
  <1>2. ASSUME NEW data \in Seq(Byte) PROVE CRC8(data) \in Byte
    <2>1. PICK f \in [0 .. Len(data) -> Byte] : CRC8(data) = f[Len(data)]
      BY CrcIsRegister
    <2> QED
      BY <2>1
  <1>3. ASSUME NEW data \in Seq(Byte), NEW byte \in Byte
        PROVE  CRC8(Append(data, byte)) = CrcOf(CRC8(data), byte)
    <2> DEFINE more == Append(data, byte)
               n == Len(data)
    <2>1. /\ more \in Seq(Byte) /\ Len(more) = n + 1 /\ n \in Nat /\ more[n + 1] = byte
          /\ \A i \in 1 .. n : more[i] = data[i]
      OBVIOUS
    <2> HIDE DEF more
    <2>2. PICK f \in [0 .. n -> Byte] : Registers(f, data, n) /\ CRC8(data) = f[n]
      BY CrcIsRegister
    <2>3. PICK g \in [0 .. n + 1 -> Byte] : Registers(g, more, n + 1) /\ CRC8(more) = g[n + 1]
      BY <2>1, CrcIsRegister
    <2> HIDE DEF n
    <2>4. f[n] = g[n]
      <3>1. /\ n \in Nat /\ n + 1 \in Nat /\ n <= n /\ n <= n + 1
            /\ \A i \in 1 .. n : data[i] = more[i]
        BY <2>1
      <3> QED
        BY <2>2, <2>3, <3>1, RegistersEqual
    <2>5. g[n + 1] = CrcOf(g[n], more[n + 1])
      <3>1. n + 1 \in 0 .. n + 1 /\ n + 1 # 0 /\ (n + 1) - 1 = n
        BY <2>1
      <3> QED
        BY <2>3, <3>1 DEF Registers
    <2>6. CRC8(more) = CrcOf(CRC8(data), byte)
      BY <2>1, <2>2, <2>3, <2>4, <2>5
    <2> QED
      BY <2>6 DEF more
  <1> QED
    BY <1>1, <1>2, <1>3

\* A single garbled byte is detected: whatever the bytes, two blocks of data that differ
\* in one of them have different CRCs.
THEOREM OneByteDetected ==
  \A data, other \in Seq(Byte), i \in Nat :
    /\ Len(other) = Len(data) /\ i \in 1 .. Len(data)
    /\ data[i] # other[i] /\ \A j \in 1 .. Len(data) : j # i => data[j] = other[j]
    => CRC8(data) # CRC8(other)
  <1> SUFFICES ASSUME NEW data \in Seq(Byte), NEW other \in Seq(Byte), NEW i \in Nat,
                      Len(other) = Len(data), i \in 1 .. Len(data), data[i] # other[i],
                      \A j \in 1 .. Len(data) : j # i => data[j] = other[j]
               PROVE  CRC8(data) # CRC8(other)
    OBVIOUS
  <1> DEFINE n == Len(data)
  <1>1. PICK f \in [0 .. n -> Byte] : Registers(f, data, n) /\ CRC8(data) = f[n]
    BY CrcIsRegister
  <1>2. PICK g \in [0 .. n -> Byte] : Registers(g, other, n) /\ CRC8(other) = g[n]
    BY CrcIsRegister
  <1>3. \A j \in 1 .. n : data[j] \in Byte /\ other[j] \in Byte
    OBVIOUS
  <1>4. n \in Nat
    OBVIOUS
  <1> HIDE DEF n
  <1>5. ASSUME NEW j \in 1 .. n
        PROVE  /\ f[j] = CrcOf(f[j - 1], data[j]) /\ g[j] = CrcOf(g[j - 1], other[j])
               /\ f[j - 1] \in Byte /\ g[j - 1] \in Byte
    <2>1. j \in 0 .. n /\ j - 1 \in 0 .. n /\ j # 0
      BY <1>4
    <2> QED
      BY <1>1, <1>2, <2>1 DEF Registers
  <1> DEFINE Same == {j \in i .. n : f[j] = g[j]}
  <1> SUFFICES ASSUME Same # {} PROVE FALSE
    BY <1>1, <1>2, <1>4 DEF n
  <1>6. PICK j \in Same : \A k \in Same : j <= k
    <2>1. Same \subseteq Nat
      BY <1>4
    <2> HIDE DEF Same
    <2> QED
      BY <2>1, LeastElement
  <1>7. j \in i .. n /\ j \in 1 .. n /\ f[j] = g[j] /\ i \in 1 .. n
    BY DEF n
  <1>8. CASE j = i
    <2>1. f[i - 1] = g[i - 1]
      <3>1. i - 1 \in Nat /\ i - 1 <= n /\ \A k \in 1 .. i - 1 : data[k] = other[k]
        BY <1>4, <1>7 DEF n
      <3> QED
        BY <1>1, <1>2, <1>4, <3>1, RegistersEqual
    <2>2. CrcOf(f[i - 1], data[i]) = CrcOf(f[i - 1], other[i])
      BY <1>5, <1>7, <1>8, <2>1
    <2>3. f[i - 1] \in Byte /\ data[i] \in Byte /\ other[i] \in Byte
      BY <1>3, <1>5, <1>7
    <2> QED
      BY <2>2, <2>3, CrcOfInjective
  <1>9. CASE j # i
    <2>1. j - 1 \in i .. n /\ ~(j <= j - 1)
      BY <1>4, <1>7, <1>9
    <2>2. f[j - 1] # g[j - 1]
      BY <1>6, <2>1
    <2>3. data[j] = other[j]
      BY <1>7, <1>9 DEF n
    <2>4. CrcOf(f[j - 1], data[j]) = CrcOf(g[j - 1], data[j])
      BY <1>5, <1>7, <2>3
    <2>5. f[j - 1] \in Byte /\ g[j - 1] \in Byte /\ data[j] \in Byte
      BY <1>3, <1>5, <1>7
    <2> QED
      BY <2>2, <2>4, <2>5, CrcOfInjective
  <1> QED
    BY <1>8, <1>9

(***************************************************************************)
(* The parser.                                                             *)
(***************************************************************************)

\* Types, and the register is the CRC of what has been stored, in step or not.
ParserOK(r) ==
  /\ r \in [state : 0..4, len : Byte, crc : Byte, payload : Seq(Byte)]
  /\ Len(r.payload) <= MaxLen
  /\ r.state = 3 => Len(r.payload) < r.len /\ r.len <= MaxLen
  /\ r.state = 4 => Len(r.payload) = r.len
  /\ r.state \in {3, 4} => r.crc = CRC8(r.payload)

LEMMA ParserStep ==
  ASSUME NEW r, ParserOK(r), NEW byte \in Byte
  PROVE  ParserOK(RxByte(r, byte))
  <1> DEFINE q == RxByte(r, byte)
  <1>1. /\ r \in [state : 0..4, len : Byte, crc : Byte, payload : Seq(Byte)]
        /\ Len(r.payload) <= MaxLen /\ MaxLen \in 1 .. 252
    BY ByteAssumption DEF ParserOK
  <1>2. CASE r.state \in {0, 1, 4}
    <2>1. \E s \in {0, 1, 2} : q = [r EXCEPT !.state = s]
      BY <1>2 DEF RxByte, START1, START2
    <2>2. PICK s \in {0, 1, 2} : q = [r EXCEPT !.state = s]
      BY <2>1
    <2>3. q.state = s /\ q.payload = r.payload
          /\ q \in [state : 0..4, len : Byte, crc : Byte, payload : Seq(Byte)]
      BY <1>1, <2>2
    <2> HIDE DEF q
    <2> QED
      BY <1>1, <2>3 DEF ParserOK, q
  <1>3. CASE r.state = 2
    <2>1. q = Length(r, byte)
      BY <1>3 DEF RxByte
    <2>2. /\ q.payload = <<>> /\ q.len = byte /\ q.crc = 0
          /\ q.state = IF byte = 0 THEN 4 ELSE IF byte > MaxLen THEN 0 ELSE 3
          /\ q \in [state : 0..4, len : Byte, crc : Byte, payload : Seq(Byte)]
      <3> DEFINE s == IF byte = 0 THEN 4 ELSE IF byte > MaxLen THEN 0 ELSE 3
      <3>1. 0 \in Byte /\ <<>> \in Seq(Byte) /\ ~(byte = 0 /\ byte > MaxLen) /\ s \in 0..4
        BY <1>1 DEF Byte
      <3>2. (CASE byte = 0 -> 4 [] byte > MaxLen -> 0 [] OTHER -> 3) = s
        BY <3>1
      <3>3. q = [r EXCEPT !.len = byte, !.payload = <<>>, !.crc = 0, !.state = s]
        BY <2>1, <3>2 DEF Length
      <3> HIDE DEF s, q
      <3>4. q = [state |-> s, len |-> byte, crc |-> 0, payload |-> <<>>]
        BY <1>1, <3>3
      <3> QED
        BY <3>1, <3>4 DEF s
    <2> HIDE DEF q
    <2>3. Len(q.payload) = 0 /\ CRC8(q.payload) = 0
      BY <2>2, CrcByByte
    <2> QED
      BY <1>1, <2>2, <2>3 DEF ParserOK, q, Byte
  <1>4. CASE r.state = 3
    <2>1. q = PayloadByte(r, byte)
      BY <1>4 DEF RxByte
    <2>2. Len(r.payload) < r.len /\ r.len <= MaxLen /\ r.crc = CRC8(r.payload) /\ r.len \in Nat
      <3>1. r.len \in Nat
        <4>1. r.len \in Byte
          BY <1>1
        <4> QED
          BY <4>1 DEF Byte
      <3> QED
        BY <1>4, <3>1 DEF ParserOK
    <2>3. /\ q.payload = Append(r.payload, byte) /\ q.len = r.len /\ q.crc = CrcOf(r.crc, byte)
          /\ q.state = IF Len(r.payload) + 1 = r.len THEN 4 ELSE 3
          /\ q \in [state : 0..4, len : Byte, crc : Byte, payload : Seq(Byte)]
      <3>1. Append(r.payload, byte) \in Seq(Byte) /\ CrcOf(r.crc, byte) \in Byte
        BY <1>1, CrcOfInjective
      <3>2. q = [state |-> IF Len(r.payload) + 1 = r.len THEN 4 ELSE 3, len |-> r.len,
                 crc |-> CrcOf(r.crc, byte), payload |-> Append(r.payload, byte)]
        <4> HIDE DEF q
        <4> QED
          BY <1>1, <2>1 DEF PayloadByte
      <3> HIDE DEF q
      <3> QED
        BY <1>1, <3>1, <3>2
    <2> HIDE DEF q
    <2>4. Len(q.payload) = Len(r.payload) + 1 /\ q.crc = CRC8(q.payload) /\ Len(r.payload) \in Nat
      BY <1>1, <2>2, <2>3, CrcByByte
    <2> SUFFICES ParserOK(q)
      BY DEF q
    <2>5. /\ Len(q.payload) <= MaxLen
          /\ q.state = 3 => Len(q.payload) < q.len /\ q.len <= MaxLen
          /\ q.state = 4 => Len(q.payload) = q.len
      BY <1>1, <2>2, <2>3, <2>4
    <2> QED
      BY <2>3, <2>4, <2>5 DEF ParserOK
  <1> QED
    BY <1>1, <1>2, <1>3, <1>4

\* What Remote_SendPacket puts on the line.
LEMMA PacketBytes ==
  ASSUME NEW p \in Cmd \union Other
  PROVE  /\ p \in Seq(Byte) /\ Len(p) \in 1 .. MaxLen /\ MaxLen \in 1 .. 252
         /\ BuildPacket(p) \in Seq(Byte) /\ Len(BuildPacket(p)) = Len(p) + 4
         /\ BuildPacket(p)[1] = START1 /\ BuildPacket(p)[2] = START2 /\ BuildPacket(p)[3] = Len(p)
         /\ \A i \in 1 .. Len(p) : BuildPacket(p)[i + 3] = p[i]
         /\ BuildPacket(p)[Len(p) + 4] = CRC8(p)
  <1>1. p \in Seq(Byte) /\ Len(p) \in 1 .. MaxLen /\ MaxLen \in 1 .. 252
    BY ByteAssumption
  <1>2. CRC8(p) \in Byte /\ START1 \in Byte /\ START2 \in Byte /\ Len(p) \in Byte
    <2>1. CRC8(p) \in Byte
      BY <1>1, CrcByByte
    <2>2. START1 \in Byte /\ START2 \in Byte /\ Len(p) \in Byte
      <3>1. Len(p) \in 0 .. 255
        <4>1. \A n \in 1 .. MaxLen : n \in 0 .. 255
          BY <1>1
        <4> QED
          BY <1>1, <4>1
      <3> QED
        BY <3>1 DEF START1, START2, Byte
    <2> QED
      BY <2>1, <2>2
  <1> DEFINE start == <<START1, START2, Len(p)>>
  <1>3. /\ start \in Seq(Byte) /\ Len(start) = 3
        /\ start[1] = START1 /\ start[2] = START2 /\ start[3] = Len(p)
    BY <1>2
  <1>4. BuildPacket(p) = (start \o p) \o <<CRC8(p)>>
    BY DEF BuildPacket
  <1> HIDE DEF start
  <1>5. /\ start \o p \in Seq(Byte) /\ Len(start \o p) = Len(p) + 3
        /\ \A i \in 1 .. 3 : (start \o p)[i] = start[i]
        /\ \A i \in 1 .. Len(p) : (start \o p)[i + 3] = p[i]
    <2>1. /\ start \o p \in Seq(Byte) /\ Len(start \o p) = Len(start) + Len(p)
          /\ \A i \in 1 .. Len(start) + Len(p) :
               (start \o p)[i] = IF i <= Len(start) THEN start[i] ELSE p[i - Len(start)]
      BY <1>1, <1>3, ConcatProperties
    <2>2. ASSUME NEW i \in 1 .. 3 PROVE (start \o p)[i] = start[i]
      BY <1>1, <1>3, <2>1
    <2>3. ASSUME NEW i \in 1 .. Len(p) PROVE (start \o p)[i + 3] = p[i]
      <3>1. i + 3 \in 1 .. 3 + Len(p) /\ ~(i + 3 <= 3) /\ (i + 3) - 3 = i
        BY <1>1
      <3> QED
        BY <1>3, <2>1, <3>1
    <2> QED
      BY <1>1, <1>3, <2>1, <2>2, <2>3
  <1> DEFINE front == start \o p
             sum == CRC8(p)
  <1>6. /\ front \in Seq(Byte) /\ sum \in Byte /\ Len(front) = Len(p) + 3
        /\ BuildPacket(p) = front \o <<sum>>
    BY <1>2, <1>4, <1>5
  <1> HIDE DEF front, sum
  <1>7. /\ BuildPacket(p) \in Seq(Byte) /\ Len(BuildPacket(p)) = Len(p) + 4
        /\ \A i \in 1 .. Len(p) + 3 : BuildPacket(p)[i] = front[i]
        /\ BuildPacket(p)[Len(p) + 4] = sum
    BY <1>1, <1>6
  <1>8. BuildPacket(p)[1] = START1 /\ BuildPacket(p)[2] = START2 /\ BuildPacket(p)[3] = Len(p)
    <2>1. \A i \in 1 .. 3 : i \in 1 .. Len(p) + 3
      BY <1>1
    <2> QED
      BY <1>3, <1>5, <1>7, <2>1 DEF front
  <1>9. ASSUME NEW i \in 1 .. Len(p) PROVE BuildPacket(p)[i + 3] = p[i]
    <2>1. i + 3 \in 1 .. Len(p) + 3
      BY <1>1
    <2> QED
      BY <1>5, <1>7, <2>1 DEF front
  <1> QED
    BY <1>1, <1>7, <1>8, <1>9 DEF sum

\* What the receiver keeps, whatever comes over the line.
ParserInv == ParserOK(rx) /\ ReceiveTypeOK

LEMMA ParserInit == ReceiveInit => ParserInv
  <1> SUFFICES ASSUME ReceiveInit PROVE ParserInv
    OBVIOUS
  <1>1. 0 \in Byte /\ <<>> \in Seq(Byte) /\ MaxLen \in 1 .. 252 /\ <<>> \in Seq(Cmd \union Other)
    BY ByteAssumption DEF Byte
  <1>2. /\ rx.state = 0 /\ rx.payload = <<>> /\ Len(rx.payload) = 0
        /\ rx \in [state : 0..4, len : Byte, crc : Byte, payload : Seq(Byte)]
    BY <1>1 DEF ReceiveInit
  <1>3. /\ line = <<>> /\ sent = <<>> /\ Len(sent) = 0
        /\ fault = FALSE /\ forged = FALSE /\ heard = "whole"
    BY DEF ReceiveInit
  <1>4. ParserOK(rx)
    BY <1>1, <1>2 DEF ParserOK
  <1>5. ReceiveTypeOK
    <2>1. {fault, forged} \subseteq BOOLEAN
      BY <1>3
    <2>3. Len(rx.payload) <= MaxLen
      BY <1>1, <1>2
    <2>2. line \in Seq(Byte) /\ sent \in Seq(Cmd \union Other) /\ Len(sent) <= 2
      BY <1>1, <1>3
    <2> QED
      BY <1>2, <1>3, <2>1, <2>2, <2>3 DEF ReceiveTypeOK
  <1> QED
    BY <1>4, <1>5 DEF ParserInv

LEMMA NotedTypes ==
  ASSUME ReceiveTypeOK, NEW byte, NEW faulty \in BOOLEAN, Noted(byte, faulty)
  PROVE  /\ fault' \in BOOLEAN /\ forged' \in BOOLEAN
         /\ sent' \in Seq(Cmd \union Other) /\ Len(sent') <= 2
  <1>1. CASE Accepts(rx, byte)
    <2> DEFINE owed == {i \in DOMAIN sent : sent[i] = rx.payload}
               earliest == CHOOSE i \in owed : \A j \in owed : i <= j
    <2>1. /\ fault' = FALSE /\ forged' = (owed = {} /\ ActsOn(rx.payload))
          /\ sent' = IF owed = {} THEN sent ELSE SubSeq(sent, earliest + 1, Len(sent))
      BY <1>1 DEF Noted
    <2>2. sent \in Seq(Cmd \union Other) /\ Len(sent) <= 2
      BY DEF ReceiveTypeOK
    <2>3. owed # {} => earliest \in 1 .. Len(sent)
      <3>1. owed \subseteq Nat /\ owed \subseteq 1 .. Len(sent)
        BY <2>2
      <3> HIDE DEF owed
      <3>2. owed # {} => \E x \in owed : \A y \in owed : x <= y
        BY <3>1, LeastElement
      <3> QED
        BY <3>1, <3>2
    <2> HIDE DEF owed, earliest
    <2>4. owed # {} => /\ SubSeq(sent, earliest + 1, Len(sent)) \in Seq(Cmd \union Other)
                       /\ Len(SubSeq(sent, earliest + 1, Len(sent))) <= 2
      <3> SUFFICES ASSUME owed # {}
                   PROVE  /\ SubSeq(sent, earliest + 1, Len(sent)) \in Seq(Cmd \union Other)
                          /\ Len(SubSeq(sent, earliest + 1, Len(sent))) <= 2
        OBVIOUS
      <3>1. earliest + 1 \in 1 .. Len(sent) + 1 /\ Len(sent) \in Nat
        BY <2>2, <2>3
      <3> QED
        BY <2>2, <3>1
    <2> QED
      BY <2>1, <2>2, <2>4
  <1>2. CASE ~Accepts(rx, byte)
    BY <1>2 DEF Noted, ReceiveTypeOK
  <1> QED
    BY <1>1, <1>2

LEMMA ParserInvStep == ParserInv /\ [ReceiveNext]_receiveVars => ParserInv'
  <1> SUFFICES ASSUME ParserInv, [ReceiveNext]_receiveVars PROVE ParserInv'
    OBVIOUS
  <1>0. ParserOK(rx) /\ ReceiveTypeOK
    BY DEF ParserInv
  <1>1. ASSUME ParserOK(rx)', line' \in Seq(Byte), sent' \in Seq(Cmd \union Other), Len(sent') <= 2,
               fault' \in BOOLEAN, forged' \in BOOLEAN, heard' \in {"whole", "garbled", "broken"}
        PROVE  ParserInv'
    BY <1>1 DEF ParserInv, ParserOK, ReceiveTypeOK
  <1>2. line # <<>> => Tail(line) \in Seq(Byte) /\ Head(line) \in Byte
    BY <1>0 DEF ReceiveTypeOK
  <1>3. ASSUME NEW p \in Cmd \union Other, StartPacket(p) PROVE ParserInv'
    <2>1. line' \in Seq(Byte)
      BY <1>3, PacketBytes DEF StartPacket
    <2>2. sent' \in Seq(Cmd \union Other) /\ Len(sent') <= 2
      <3>1. sent \in Seq(Cmd \union Other) /\ Len(sent) <= 2
        BY <1>0 DEF ReceiveTypeOK
      <3>2. CASE Len(sent) = 2
        <4>1. sent # <<>> /\ sent' = Append(Tail(sent), p)
          BY <1>3, <3>2 DEF StartPacket
        <4>2. Tail(sent) \in Seq(Cmd \union Other) /\ Len(Tail(sent)) = 1
          BY <3>1, <3>2, <4>1
        <4> QED
          BY <4>1, <4>2
      <3>3. CASE Len(sent) # 2
        <4>1. sent' = Append(sent, p) /\ Len(sent) + 1 <= 2
          <5>1. Len(sent) \in Nat
            BY <3>1
          <5>2. Len(sent) <= 2
            BY <3>1
          <5>3. Len(sent) + 1 <= 2
            <6>1. \A n \in Nat : n <= 2 /\ n # 2 => n + 1 <= 2
              OBVIOUS
            <6> QED
              BY <3>3, <5>1, <5>2, <6>1
          <5> QED
            BY <1>3, <3>3, <5>3 DEF StartPacket
        <4>2. Append(sent, p) \in Seq(Cmd \union Other) /\ Len(Append(sent, p)) = Len(sent) + 1
          BY <3>1
        <4> QED
          BY <4>1, <4>2
      <3> QED
        BY <3>2, <3>3
    <2> QED
      BY <1>0, <1>1, <1>3, <2>1, <2>2 DEF StartPacket, ReceiveTypeOK, ParserOK
  <1>4. ASSUME NEW byte \in Byte, NEW faulty \in BOOLEAN, line # <<>>, line' = Tail(line),
               Receive(byte), Noted(byte, faulty), heard' \in {"whole", "garbled", "broken"}
        PROVE  ParserInv'
    <2>1. ParserOK(rx')
      BY <1>0, <1>4, ParserStep DEF Receive
    <2>2. ParserOK(rx)'
      BY <2>1 DEF ParserOK
    <2> QED
      BY <1>0, <1>1, <1>2, <1>4, <2>2, NotedTypes
  <1>5. CASE ByteArrives
    BY <1>0, <1>2, <1>4, <1>5 DEF ByteArrives, ReceiveTypeOK
  <1>6. ASSUME NEW noise \in Noise, ByteGarbled(noise) PROVE ParserInv'
    BY <1>4, <1>6, ByteAssumption DEF ByteGarbled
  <1>7. CASE ByteLost
    BY <1>0, <1>1, <1>2, <1>7 DEF ByteLost, ReceiveTypeOK, ParserOK
  <1>8. CASE Cut
    BY <1>0, <1>1, <1>8 DEF Cut, ReceiveTypeOK, ParserOK
  <1>9. CASE MainTakes \/ UNCHANGED receiveVars
    BY <1>0, <1>1, <1>9 DEF MainTakes, receiver, receiveVars, ReceiveTypeOK, ParserOK
  <1> QED
    BY <1>3, <1>5, <1>6, <1>7, <1>8, <1>9 DEF ReceiveNext

\* The parser never writes behind the longest payload, for every maximum and whatever
\* comes over the line.
THEOREM ReceiveTypeCorrect == ReceiveSpec => []ReceiveTypeOK
  <1>1. ParserInv => ReceiveTypeOK
    BY DEF ParserInv
  <1> QED
    BY <1>1, ParserInit, ParserInvStep, PTL DEF ReceiveSpec

(***************************************************************************)
(* Packets heard in step.                                                  *)
(***************************************************************************)

\* The packet that is on the line, or was the last one there.
Current == sent[Len(sent)]

\* The n bytes stored are those of the packet except for the one at g.
GarbledAt(n, g) ==
  rx.payload[g] # Current[g] /\ \A i \in 1 .. n : i # g => rx.payload[i] = Current[i]

\* n bytes of the current packet have been heard: the line holds the rest of it, the parser
\* is where it should be, and has stored what was sent, one byte excepted if one was garbled.
InStep(n) ==
  /\ n <= Len(Current) + 3 /\ Len(line) = Len(Current) + 4 - n
  /\ \A i \in 1 .. Len(line) : line[i] = BuildPacket(Current)[n + i]
  /\ n <= 2 => rx.state = n /\ heard = "whole"
  /\ n >= 3 => /\ rx.state = IF n = Len(Current) + 3 THEN 4 ELSE 3
               /\ rx.len = Len(Current) /\ Len(rx.payload) = n - 3
               /\ heard = "whole" => \A i \in 1 .. n - 3 : rx.payload[i] = Current[i]
               /\ heard = "garbled" => \E g \in 1 .. n - 3 : GarbledAt(n - 3, g)

\* A packet that is not broken is heard in step.
HeardInv ==
  heard # "broken" /\ line # <<>> => sent # <<>> /\ \E n \in Nat : InStep(n)

LEMMA CurrentSent ==
  ASSUME ReceiveTypeOK, sent # <<>>
  PROVE  /\ Current \in Cmd \union Other /\ Len(sent) \in DOMAIN sent
         /\ Current \in Seq(Byte) /\ Len(Current) \in 1 .. 252
  <1>1. sent \in Seq(Cmd \union Other)
    BY DEF ReceiveTypeOK
  <1>2. Len(sent) \in 1 .. Len(sent) /\ DOMAIN sent = 1 .. Len(sent)
    BY <1>1
  <1>3. Current \in Cmd \union Other
    BY <1>1, <1>2 DEF Current
  <1>4. \A m \in 1 .. MaxLen : m \in 1 .. 252
    BY ByteAssumption
  <1> QED
    BY <1>2, <1>3, <1>4, PacketBytes

\* The byte that comes next and what it leaves on the line.
LEMMA NextByte ==
  ASSUME ReceiveTypeOK, sent # <<>>, line # <<>>, NEW n \in Nat, InStep(n)
  PROVE  /\ Head(line) = BuildPacket(Current)[n + 1]
         /\ Tail(line) = <<>> <=> n = Len(Current) + 3
         /\ Len(Tail(line)) = Len(Current) + 4 - (n + 1)
         /\ \A i \in 1 .. Len(Tail(line)) : Tail(line)[i] = BuildPacket(Current)[n + 1 + i]
  <1> DEFINE packet == BuildPacket(Current)
  <1>1. PICK m \in 1 .. 252 : m = Len(Current)
    BY CurrentSent
  <1>2. /\ n <= m + 3 /\ Len(line) = m + 4 - n
        /\ \A i \in 1 .. Len(line) : line[i] = packet[n + i]
    BY <1>1 DEF InStep
  <1> HIDE DEF packet
  <1>3. line \in Seq(Byte)
    BY DEF ReceiveTypeOK
  <1>4. /\ Head(line) = line[1] /\ Tail(line) \in Seq(Byte) /\ Len(Tail(line)) = Len(line) - 1
        /\ \A i \in 1 .. Len(line) - 1 : Tail(line)[i] = line[i + 1]
    BY <1>3
  <1> PICK l \in Nat \ {0} : l = Len(line)
    BY <1>3
  <1>5. Head(line) = packet[n + 1]
    <2>1. 1 \in 1 .. Len(line)
      OBVIOUS
    <2> QED
      BY <1>2, <1>4, <2>1
  <1>6. Len(Tail(line)) = m + 4 - (n + 1)
    <2>1. l - 1 = m + 4 - (n + 1)
      BY <1>2
    <2> QED
      BY <1>4, <2>1
  <1>7. Tail(line) = <<>> <=> n = m + 3
    <2>1. Tail(line) = <<>> <=> Len(Tail(line)) = 0
      BY <1>4, EmptySeq
    <2>2. Len(Tail(line)) = 0 <=> m + 4 - (n + 1) = 0
      BY <1>6
    <2>3. m + 4 - (n + 1) = 0 <=> n = m + 3
      OBVIOUS
    <2> QED
      BY <2>1, <2>2, <2>3
  <1>8. ASSUME NEW i \in 1 .. Len(Tail(line)) PROVE Tail(line)[i] = packet[n + 1 + i]
    <2>1. i \in 1 .. Len(line) - 1 /\ i + 1 \in 1 .. Len(line) /\ n + (i + 1) = n + 1 + i
      BY <1>2, <1>4
    <2> QED
      BY <1>2, <1>4, <2>1
  <1> QED
    BY <1>1, <1>5, <1>6, <1>7, <1>8 DEF packet

\* Before its last byte a packet that is heard in step stays so, and nothing is accepted.
LEMMA MidPacket ==
  ASSUME ParserInv, sent # <<>>, line # <<>>, NEW n \in Nat, InStep(n), n # Len(Current) + 3,
         NEW byte \in Byte, rx' = RxByte(rx, byte), line' = Tail(line), sent' = sent,
         \/ byte = Head(line) /\ heard' = heard /\ heard # "broken"
         \/ byte # Head(line) /\ rx.state \in {3, 4} /\ heard = "whole" /\ heard' = "garbled"
  PROVE  InStep(n + 1)'
  <1>0. /\ ReceiveTypeOK /\ ParserOK(rx)
        /\ rx \in [state : 0..4, len : Byte, crc : Byte, payload : Seq(Byte)]
    BY DEF ParserInv, ReceiveTypeOK
  <1>1. PICK m \in 1 .. 252 : m = Len(Current)
    BY <1>0, CurrentSent
  <1>2. /\ Len(line') = m + 4 - (n + 1) /\ n + 1 <= m + 3
        /\ \A i \in 1 .. Len(line') : line'[i] = BuildPacket(Current)[n + 1 + i]
        /\ Head(line) = BuildPacket(Current)[n + 1]
    BY <1>0, <1>1, NextByte DEF InStep
  <1>3. Current' = Current
    BY DEF Current
  <1>4. /\ BuildPacket(Current)[1] = START1 /\ BuildPacket(Current)[2] = START2
        /\ BuildPacket(Current)[3] = m
        /\ \A i \in 1 .. m : BuildPacket(Current)[i + 3] = Current[i]
    BY <1>0, <1>1, CurrentSent, PacketBytes
  <1>5. CASE n = 0
    <2>1. rx.state = 0 /\ heard = "whole"
      BY <1>5 DEF InStep
    <2>2. byte = START1 /\ heard' = "whole"
      BY <1>2, <1>4, <1>5, <2>1
    <2>3. rx'.state = 1
      BY <1>0, <2>1, <2>2 DEF RxByte
    <2> QED
      BY <1>1, <1>2, <1>3, <1>5, <2>2, <2>3 DEF InStep
  <1>6. CASE n = 1
    <2>1. rx.state = 1 /\ heard = "whole"
      BY <1>6 DEF InStep
    <2>2. byte = START2 /\ heard' = "whole"
      BY <1>2, <1>4, <1>6, <2>1
    <2>3. rx'.state = 2
      BY <1>0, <2>1, <2>2 DEF RxByte, START1, START2
    <2> QED
      BY <1>1, <1>2, <1>3, <1>6, <2>2, <2>3 DEF InStep
  <1>7. CASE n = 2
    <2>1. rx.state = 2 /\ heard = "whole"
      BY <1>7 DEF InStep
    <2>2. byte = m /\ heard' = "whole"
      BY <1>2, <1>4, <1>7, <2>1
    <2>3. m <= MaxLen /\ MaxLen \in 1 .. 252
      BY <1>0, <1>1, CurrentSent, PacketBytes
    <2>4. rx' = Length(rx, m)
      BY <2>1, <2>2 DEF RxByte
    <2>5. (CASE m = 0 -> 4 [] m > MaxLen -> 0 [] OTHER -> 3) = 3
      <3>1. m # 0 /\ ~(m > MaxLen)
        BY <2>3
      <3> QED
        BY <3>1
    <2>6. rx' = [rx EXCEPT !.len = m, !.payload = <<>>, !.crc = 0, !.state = 3]
      BY <2>4, <2>5 DEF Length
    <2>7. rx'.state = 3 /\ rx'.len = m /\ rx'.payload = <<>> /\ Len(rx'.payload) = 0
      BY <1>0, <2>6
    <2>8. n + 1 = 3 /\ 3 # m + 3 /\ 3 - 3 = 0 /\ ~(3 <= 2) /\ 3 <= m + 3
      BY <1>7
    <2>9. \A i \in 1 .. 3 - 3 : rx'.payload[i] = Current[i]
      OBVIOUS
    <2> QED
      BY <1>1, <1>2, <1>3, <2>2, <2>7, <2>8, <2>9 DEF InStep
  <1>8. CASE n >= 3
    <2> PICK k \in Nat : k = n - 3
      BY <1>8
    <2>1. /\ rx.state = 3 /\ rx.len = m /\ Len(rx.payload) = k /\ k < m
          /\ heard = "whole" => \A i \in 1 .. k : rx.payload[i] = Current[i]
          /\ heard = "garbled" => \E g \in 1 .. k : GarbledAt(k, g)
      BY <1>1, <1>2, <1>8 DEF InStep
    <2>2. rx' = PayloadByte(rx, byte)
      BY <2>1 DEF RxByte
    <2>3. /\ rx'.payload = Append(rx.payload, byte) /\ rx'.len = m
          /\ rx'.state = IF k + 1 = m THEN 4 ELSE 3
      BY <1>0, <2>1, <2>2 DEF PayloadByte
    <2>4. /\ Len(rx'.payload) = k + 1 /\ rx'.payload[k + 1] = byte
          /\ \A i \in 1 .. k : rx'.payload[i] = rx.payload[i]
      BY <1>0, <2>1, <2>3
    <2>5. Head(line) = Current[k + 1]
      <3>1. k + 1 \in 1 .. m /\ (k + 1) + 3 = n + 1
        BY <1>8, <2>1
      <3> QED
        BY <1>2, <1>4, <3>1
    <2>6. \A i \in 1 .. k + 1 : i \in 1 .. k \/ i = k + 1
      OBVIOUS
    <2>7. heard' = "whole" => \A i \in 1 .. k + 1 : rx'.payload[i] = Current[i]
      BY <2>1, <2>4, <2>5, <2>6
    <2>8. heard' = "garbled" =>
            \E g \in 1 .. k + 1 : /\ rx'.payload[g] # Current[g]
                                  /\ \A i \in 1 .. k + 1 : i # g => rx'.payload[i] = Current[i]
      <3>1. CASE heard = "garbled" /\ byte = Head(line)
        <4>1. PICK g \in 1 .. k : GarbledAt(k, g)
          BY <2>1, <3>1
        <4>2. g \in 1 .. k + 1 /\ rx'.payload[g] # Current[g]
          BY <2>4, <4>1 DEF GarbledAt
        <4>3. \A i \in 1 .. k + 1 : i # g => rx'.payload[i] = Current[i]
          BY <2>4, <2>5, <2>6, <3>1, <4>1 DEF GarbledAt
        <4> QED
          BY <4>2, <4>3
      <3>2. CASE heard = "whole" /\ byte # Head(line)
        <4>1. k + 1 \in 1 .. k + 1 /\ rx'.payload[k + 1] # Current[k + 1]
          BY <2>4, <2>5, <3>2
        <4>2. \A i \in 1 .. k + 1 : i # k + 1 => rx'.payload[i] = Current[i]
          BY <2>1, <2>4, <2>6, <3>2
        <4> QED
          BY <4>1, <4>2
      <3> QED
        BY <3>1, <3>2
    <2>9. n + 1 >= 3 /\ (n + 1) - 3 = k + 1 /\ (n + 1 = m + 3 <=> k + 1 = m) /\ ~(n + 1 <= 2)
      BY <1>8
    <2> QED
      BY <1>1, <1>2, <1>3, <2>3, <2>4, <2>7, <2>8, <2>9 DEF InStep, GarbledAt
  <1> QED
    BY <1>5, <1>6, <1>7, <1>8

\* Before the last byte nothing can be accepted; the last byte is accepted exactly when the
\* packet was heard whole and the byte is the one that was sent.
LEMMA LastByte ==
  ASSUME ParserInv, sent # <<>>, line # <<>>, NEW n \in Nat, InStep(n), heard # "broken",
         NEW byte \in Byte
  PROVE  /\ n # Len(Current) + 3 => ~Accepts(rx, byte)
         /\ n = Len(Current) + 3 =>
              /\ RxByte(rx, byte).state = 0 /\ RxByte(rx, byte).payload = rx.payload
              /\ heard = "garbled" => ~Accepts(rx, Head(line))
              /\ heard = "whole" /\ Accepts(rx, byte) => byte = Head(line)
              /\ heard = "whole" => rx.payload = Current /\ Accepts(rx, Head(line))
  <1>0. /\ ReceiveTypeOK /\ ParserOK(rx)
        /\ rx \in [state : 0..4, len : Byte, crc : Byte, payload : Seq(Byte)]
    BY DEF ParserInv, ReceiveTypeOK
  <1>1. PICK m \in 1 .. 252 : m = Len(Current)
    BY <1>0, CurrentSent
  <1>2. CASE n # m + 3
    <2>1. rx.state # 4
      BY <1>2, <1>1 DEF InStep
    <2> QED
      BY <1>1, <1>2, <2>1 DEF Accepts
  <1>3. CASE n = m + 3
    <2>1. /\ n >= 3 /\ n - 3 = m /\ n + 1 = m + 4
      BY <1>3
    <2>2. /\ rx.state = 4 /\ rx.len = m /\ Len(rx.payload) = m
          /\ heard = "whole" => \A i \in 1 .. m : rx.payload[i] = Current[i]
          /\ heard = "garbled" => \E g \in 1 .. m : GarbledAt(m, g)
      BY <1>1, <1>3, <2>1 DEF InStep
    <2>3. rx.crc = CRC8(rx.payload)
      BY <1>0, <2>2 DEF ParserOK
    <2>4. Head(line) = CRC8(Current)
      <3>1. Head(line) = BuildPacket(Current)[m + 4]
        BY <1>0, <2>1, NextByte
      <3> QED
        BY <1>0, <1>1, <3>1, CurrentSent, PacketBytes
    <2>5. Current \in Seq(Byte) /\ rx.payload \in Seq(Byte)
      BY <1>0, CurrentSent
    <2>6. heard = "whole" => rx.payload = Current
      BY <1>1, <2>2, <2>5, SeqEqual
    <2>7. heard = "garbled" => CRC8(rx.payload) # CRC8(Current)
      <3> SUFFICES ASSUME heard = "garbled" PROVE CRC8(rx.payload) # CRC8(Current)
        OBVIOUS
      <3>1. PICK g \in 1 .. m : GarbledAt(m, g)
        BY <2>2
      <3>2. /\ g \in Nat /\ Len(Current) = Len(rx.payload) /\ g \in 1 .. Len(rx.payload)
            /\ rx.payload[g] # Current[g]
            /\ \A j \in 1 .. Len(rx.payload) : j # g => rx.payload[j] = Current[j]
        BY <1>1, <2>2, <3>1 DEF GarbledAt
      <3> QED
        BY <2>5, <3>2, OneByteDetected
    <2>8. RxByte(rx, byte).state = 0 /\ RxByte(rx, byte).payload = rx.payload
      BY <1>0, <2>2 DEF RxByte
    <2>9. heard = "garbled" => ~Accepts(rx, Head(line))
      BY <2>3, <2>4, <2>7 DEF Accepts
    <2>10. heard = "whole" /\ Accepts(rx, byte) => byte = Head(line)
      BY <2>3, <2>4, <2>6 DEF Accepts
    <2>11. heard = "whole" => Accepts(rx, Head(line))
      BY <2>2, <2>3, <2>4, <2>6 DEF Accepts
    <2> QED
      BY <1>1, <1>3, <2>6, <2>8, <2>9, <2>10, <2>11
  <1> QED
    BY <1>1, <1>2, <1>3

(***************************************************************************)
(* What is done about a packet.                                            *)
(***************************************************************************)

LEMMA HeardStep == ParserInv /\ HeardInv /\ [ReceiveNext]_receiveVars => HeardInv'
  <1> SUFFICES ASSUME ParserInv, HeardInv, [ReceiveNext]_receiveVars,
                      heard' # "broken", line' # <<>>
               PROVE  sent' # <<>> /\ \E n \in Nat : InStep(n)'
    BY DEF HeardInv
  <1>0. ReceiveTypeOK
    BY DEF ParserInv
  <1>1. ASSUME NEW p \in Cmd \union Other, StartPacket(p)
        PROVE  sent' # <<>> /\ \E n \in Nat : InStep(n)'
    <2>1. sent' # <<>> /\ Current' = p
      <3> DEFINE before == IF Len(sent) = 2 THEN Tail(sent) ELSE sent
      <3>1. before \in Seq(Cmd \union Other) /\ sent' = Append(before, p)
        <4>1. sent \in Seq(Cmd \union Other)
          BY <1>0 DEF ReceiveTypeOK
        <4>2. CASE Len(sent) = 2
          <5>1. sent # <<>>
            BY <4>2
          <5> QED
            BY <1>1, <4>1, <4>2, <5>1 DEF StartPacket
        <4>3. CASE Len(sent) # 2
          BY <1>1, <4>1, <4>3 DEF StartPacket
        <4> QED
          BY <4>2, <4>3
      <3> HIDE DEF before
      <3>2. sent'[Len(sent')] = p /\ sent' # <<>>
        BY <3>1
      <3> QED
        BY <3>2 DEF Current
    <2>2. PICK m \in Nat : m = Len(p) /\ m > 0
      BY PacketBytes
    <2>3. /\ line' = BuildPacket(p) /\ Len(line') = m + 4
          /\ rx' = rx /\ rx.state = 0 /\ heard' = "whole"
      BY <1>1, <2>2, PacketBytes DEF StartPacket
    <2>4. \A i \in 1 .. m + 4 : line'[i] = BuildPacket(p)[0 + i]
      BY <2>3
    <2>5. InStep(0)'
      BY <2>1, <2>2, <2>3, <2>4 DEF InStep
    <2> QED
      BY <2>1, <2>5
  <1>2. ASSUME NEW byte \in Byte, NEW faulty, line # <<>>, line' = Tail(line), heard # "broken",
               Receive(byte), Noted(byte, faulty),
               \/ byte = Head(line) /\ heard' = heard
               \/ byte # Head(line) /\ rx.state \in {3, 4} /\ heard = "whole" /\ heard' = "garbled"
        PROVE  sent' # <<>> /\ \E n \in Nat : InStep(n)'
    <2>1. sent # <<>>
      BY <1>2 DEF HeardInv
    <2>2. PICK n \in Nat : InStep(n)
      BY <1>2 DEF HeardInv
    <2>3. n # Len(Current) + 3
      BY <1>0, <1>2, <2>1, <2>2, NextByte
    <2>4. ~Accepts(rx, byte)
      BY <1>2, <2>1, <2>2, <2>3, LastByte
    <2>5. sent' = sent /\ rx' = RxByte(rx, byte)
      BY <1>2, <2>4 DEF Noted, Receive
    <2>6. InStep(n + 1)'
      BY <1>2, <2>1, <2>2, <2>3, <2>5, MidPacket
    <2> QED
      BY <2>1, <2>5, <2>6
  <1>3. CASE ByteArrives
    <2>1. Head(line) \in Byte
      BY <1>0, <1>3 DEF ByteArrives, ReceiveTypeOK
    <2>2. /\ line # <<>> /\ line' = Tail(line) /\ heard' = heard
          /\ Receive(Head(line)) /\ Noted(Head(line), FALSE)
      BY <1>3 DEF ByteArrives
    <2> QED
      BY <1>2, <2>1, <2>2
  <1>4. ASSUME NEW noise \in Noise, ByteGarbled(noise)
        PROVE  sent' # <<>> /\ \E n \in Nat : InStep(n)'
    <2>1. /\ line # <<>> /\ line' = Tail(line) /\ noise # Head(line)
          /\ Receive(noise) /\ Noted(noise, TRUE)
          /\ heard = "whole" /\ rx.state \in {3, 4} /\ heard' = "garbled"
      BY <1>4 DEF ByteGarbled
    <2>2. noise \in Byte
      BY ByteAssumption
    <2> QED
      BY <1>2, <2>1, <2>2
  <1>5. CASE ByteLost \/ Cut
    BY <1>5 DEF ByteLost, Cut
  <1>6. CASE MainTakes \/ UNCHANGED receiveVars
    <2>1. UNCHANGED receiver
      BY <1>6 DEF MainTakes, receiveVars
    <2>2. UNCHANGED <<rx, line, sent, heard>>
      BY <2>1 DEF receiver
    <2> QED
      BY <2>2 DEF HeardInv, InStep, Current, GarbledAt
  <1> QED
    BY <1>1, <1>3, <1>4, <1>5, <1>6 DEF ReceiveNext

\* An accepted payload that is owed is not forged.
LEMMA OwedIsNotForged ==
  ASSUME ReceiveTypeOK, sent # <<>>, rx.payload = Current, NEW byte, NEW faulty,
         Accepts(rx, byte), Noted(byte, faulty)
  PROVE  ~forged'
  BY CurrentSent DEF Noted, Current

\* What a step that takes a byte of a packet heard whole does.
LEMMA WholeStep ==
  ASSUME ParserInv, HeardInv, [ReceiveNext]_receiveVars,
         line # <<>>, line' = Tail(line), heard' = "whole"
  PROVE  LET p == sent[Len(sent)]
         IN  /\ rq' = IF line' = <<>> /\ IsCommand(p) THEN Enqueued(rq, p) ELSE rq
             /\ line' = <<>> => rx'.payload = p /\ rx'.state = 0 /\ ~forged'
             /\ line' # <<>> => UNCHANGED forged
  <1>0. ReceiveTypeOK /\ line \in Seq(Byte)
    BY DEF ParserInv, ReceiveTypeOK
  <1>1. line' # line
    <2>1. Len(Tail(line)) # Len(line)
      BY <1>0
    <2> QED
      BY <2>1
  <1>2. ByteArrives
    BY <1>0, <1>1 DEF ReceiveNext, StartPacket, ByteLost, ByteGarbled, Cut, MainTakes, receiver,
                      receiveVars
  <1>3. heard = "whole" /\ Receive(Head(line)) /\ Noted(Head(line), FALSE)
    BY <1>2 DEF ByteArrives
  <1>4. sent # <<>> /\ Head(line) \in Byte
    BY <1>0, <1>3 DEF HeardInv
  <1>5. PICK n \in Nat : InStep(n)
    BY <1>3 DEF HeardInv
  <1>6. line' = <<>> <=> n = Len(Current) + 3
    BY <1>0, <1>4, <1>5, NextByte
  <1>7. CASE line' # <<>>
    <2>1. ~Accepts(rx, Head(line))
      BY <1>3, <1>4, <1>5, <1>6, <1>7, LastByte
    <2> QED
      BY <1>3, <1>7, <2>1 DEF Receive, Noted
  <1>8. CASE line' = <<>>
    <2>1. /\ Accepts(rx, Head(line)) /\ rx.payload = Current
          /\ RxByte(rx, Head(line)).state = 0 /\ RxByte(rx, Head(line)).payload = rx.payload
      BY <1>3, <1>4, <1>5, <1>6, <1>8, LastByte
    <2>2. ~forged'
      BY <1>0, <1>3, <1>4, <2>1, OwedIsNotForged
    <2> QED
      BY <1>3, <1>8, <2>1, <2>2 DEF Receive, Current
  <1> QED
    BY <1>7, <1>8

\* What a step that takes a byte of a packet heard with one byte garbled does.
LEMMA GarbledStep ==
  ASSUME ParserInv, HeardInv, [ReceiveNext]_receiveVars,
         line # <<>>, line' = Tail(line), heard' = "garbled"
  PROVE  UNCHANGED <<rq, sent, forged>> /\ (line' = <<>> => rx'.state = 0)
  <1>0. ReceiveTypeOK /\ line \in Seq(Byte)
    BY DEF ParserInv, ReceiveTypeOK
  <1>1. line' # line
    <2>1. Len(Tail(line)) # Len(line)
      BY <1>0
    <2> QED
      BY <2>1
  <1>2. ByteArrives \/ \E noise \in Noise : ByteGarbled(noise)
    BY <1>0, <1>1 DEF ReceiveNext, StartPacket, ByteLost, Cut, MainTakes, receiver, receiveVars
  <1>3. PICK byte \in Byte :
           /\ Receive(byte) /\ \E faulty \in BOOLEAN : Noted(byte, faulty)
           /\ \/ heard = "garbled" /\ byte = Head(line)
              \/ heard = "whole" /\ byte # Head(line)
    <2>1. CASE ByteArrives
      <3>1. Head(line) \in Byte
        BY <1>0
      <3>2. heard = "garbled" /\ Receive(Head(line)) /\ Noted(Head(line), FALSE)
        BY <2>1 DEF ByteArrives
      <3> QED
        BY <3>1, <3>2
    <2>2. ASSUME NEW noise \in Noise, ByteGarbled(noise)
          PROVE  /\ noise \in Byte /\ Receive(noise) /\ Noted(noise, TRUE)
                 /\ heard = "whole" /\ noise # Head(line)
      BY <2>2, ByteAssumption DEF ByteGarbled
    <2> QED
      BY <1>2, <2>1, <2>2
  <1>4. sent # <<>> /\ heard # "broken"
    BY <1>3 DEF HeardInv
  <1>5. PICK n \in Nat : InStep(n)
    BY <1>4 DEF HeardInv
  <1>6. line' = <<>> <=> n = Len(Current) + 3
    BY <1>0, <1>4, <1>5, NextByte
  <1>7. ~Accepts(rx, byte) /\ (line' = <<>> => RxByte(rx, byte).state = 0)
    BY <1>3, <1>4, <1>5, <1>6, LastByte
  <1> QED
    BY <1>3, <1>7 DEF Receive, Noted

LEMMA HeardInit == ReceiveInit => HeardInv
  BY DEF ReceiveInit, HeardInv

\* A packet whose bytes all arrive is decoded as it was built, for every set of payloads,
\* whatever was on the line before it.
THEOREM DecodesAsBuilt == ReceiveSpec => DecodedAsBuilt
  <1>1. ParserInv /\ HeardInv /\ [ReceiveNext]_receiveVars
          => [line # <<>> /\ line' = Tail(line) /\ heard' = "whole" =>
                LET p == sent[Len(sent)]
                IN  /\ rq' = IF line' = <<>> /\ IsCommand(p) THEN Enqueued(rq, p) ELSE rq
                    /\ line' = <<>> => rx'.payload = p /\ rx'.state = 0 /\ ~forged']_receiveVars
    BY WholeStep
  <1> QED
    BY <1>1, ParserInit, ParserInvStep, HeardInit, HeardStep, PTL DEF ReceiveSpec, DecodedAsBuilt

\* One garbled byte behind the length is always detected, for every payload and every
\* value it may be garbled into.
THEOREM GarbledAreDropped == ReceiveSpec => GarbledDropped
  <1>1. ParserInv /\ HeardInv /\ [ReceiveNext]_receiveVars
          => [line # <<>> /\ line' = Tail(line) /\ heard' = "garbled" =>
                /\ UNCHANGED <<rq, sent, forged>>
                /\ line' = <<>> => rx'.state = 0]_receiveVars
    BY GarbledStep
  <1> QED
    BY <1>1, ParserInit, ParserInvStep, HeardInit, HeardStep, PTL DEF ReceiveSpec, GarbledDropped

\* Nothing was forged, and the parser waits for a packet when none is on the line.
NothingForged == ~forged /\ (line = <<>> => rx.state = 0)

\* No packet is broken: of each one all bytes arrive, at most one of them garbled, and none
\* of the first three.
NoneBroken == heard # "broken"

\* Nothing is acted on that was not sent, for every set of payloads, on a line that garbles
\* bytes behind the lengths only.
THEOREM OnlySentOnGarblingLine == ReceiveSpec /\ []NoneBroken => []OnlySentActedOn
  <1>1. ReceiveInit => NothingForged
    BY DEF ReceiveInit, NothingForged
  <1>2. ParserInv /\ HeardInv /\ NothingForged /\ NoneBroken' /\ [ReceiveNext]_receiveVars
          => NothingForged'
    <2> SUFFICES ASSUME ParserInv, HeardInv, [ReceiveNext]_receiveVars, heard' # "broken",
                        NothingForged
                 PROVE  NothingForged'
      BY DEF NoneBroken
    <2>0. ReceiveTypeOK /\ heard' \in {"whole", "garbled"}
      <3>1. ReceiveTypeOK' /\ ReceiveTypeOK
        BY ParserInvStep DEF ParserInv
      <3> QED
        BY <3>1 DEF ReceiveTypeOK
    <2>1. CASE line # <<>> /\ line' = Tail(line)
      BY <2>0, <2>1, WholeStep, GarbledStep DEF NothingForged
    <2>2. ASSUME NEW p \in Cmd \union Other, StartPacket(p) PROVE NothingForged'
      <3>1. line' # <<>>
        BY <2>2, PacketBytes DEF StartPacket
      <3> QED
        BY <2>2, <3>1 DEF StartPacket, NothingForged
    <2>3. CASE MainTakes \/ UNCHANGED receiveVars
      BY <2>3 DEF MainTakes, receiver, receiveVars, NothingForged
    <2> QED
      BY <2>1, <2>2, <2>3 DEF ReceiveNext, ByteArrives, ByteGarbled, ByteLost, Cut
  <1>3. NothingForged => OnlySentActedOn
    BY DEF NothingForged, OnlySentActedOn
  <1> QED
    BY <1>1, <1>2, <1>3, ParserInit, ParserInvStep, HeardInit, HeardStep, PTL DEF ReceiveSpec

\* The receiving side uses the queue as RemoteQueue describes it: what is enqueued is a
\* command, and only the main loop takes one out.
THEOREM FeedsQueue ==
  ASSUME \A p \in Seq(Byte) : p # <<>> /\ IsCommand(p) => p \in Cmd
  PROVE  ReceiveSpec => Spec
  <1>1. ReceiveInit => Init
    BY DEF ReceiveInit
  <1>2. ParserInv /\ [ReceiveNext]_receiveVars => [Next]_vars
    <2> SUFFICES ASSUME ParserInv, [ReceiveNext]_receiveVars PROVE [Next]_vars
      OBVIOUS
    <2>1. ASSUME NEW byte, Receive(byte) PROVE [Next]_vars
      <3>1. CASE Accepts(rx, byte) /\ IsCommand(rx.payload)
        <4>1. rx.payload \in Seq(Byte) /\ rx.payload # <<>>
          <5>1. Len(rx.payload) = rx.len /\ rx.len > 0 /\ rx.payload \in Seq(Byte)
            BY <3>1 DEF Accepts, ParserInv, ReceiveTypeOK
          <5> QED
            BY <5>1
        <4> QED
          BY <2>1, <3>1, <4>1 DEF Receive, Next, Enqueue
      <3>2. CASE ~(Accepts(rx, byte) /\ IsCommand(rx.payload))
        BY <2>1, <3>2 DEF Receive, vars
      <3> QED
        BY <3>1, <3>2
    <2>2. CASE MainTakes
      BY <2>2 DEF MainTakes, Next
    <2> QED
      BY <2>1, <2>2 DEF ReceiveNext, receiveVars, StartPacket, ByteArrives, ByteLost,
                        ByteGarbled, Cut
  <1> QED
    BY <1>1, <1>2, ParserInit, ParserInvStep, PTL DEF ReceiveSpec, Spec
=============================================================================
