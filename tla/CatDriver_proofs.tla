--------------------------- MODULE CatDriver_proofs ---------------------------
(***************************************************************************)
(* Proofs about the CAT driver, for every size of the ring, of a command,  *)
(* of a packet and of a clone block and for all its times: its types, that *)
(* only bytes from before the last pause are discarded, and that commands  *)
(* are executed as the host sent them.                                     *)
(***************************************************************************)
EXTENDS CatDriver, SequenceTheorems, WellFoundedInduction, TLAPS

\* The size that was read is not more than what is in the ring; when it is less, the
\* difference has come in since the main loop entered HandleProtocol.
SizeRead ==
    /\ pc \in {"sized", "expire"} => bufsz <= Count
    /\ pc = "sized" => bufsz = Count \/ age <= loopAge

\* What came after the last pause is behind what is going to be discarded.
FreshKept ==
    /\ age > Timeout => fresh = 0
    /\ pc = "expire" => bufsz + fresh <= Count

\* Bytes that are stored were sent.
SilenceInv == age >= Least(quiet, Timeout + 1)

\* HandleProtocol was entered, for CAT commands, when the host had been silent longer
\* than Timeout; before that, and before the call before it.
SilentCall == connected /\ state \in {"INIT", "CAT"} /\ quiet > Timeout + loopAge
SilentCallBefore == connected /\ state \in {"INIT", "CAT"} /\ quiet > Timeout + MaxLoop + loopAge

\* Such a call removes everything.
SilenceEmpties ==
    /\ SilentCall => IF pc \in {"sized", "expire"} THEN bufsz >= Count ELSE Count = 0
    /\ SilentCallBefore => Count = 0

\* Which byte of a command follows which.
Following(b) == IF b = CmdLen THEN 1 ELSE b + 1

Stream(bytes) == \A i \in 1..Len(bytes)-1 : bytes[i+1] = Following(bytes[i])

\* How many of the first bytes are going to be discarded.
Drop == IF pc = "expire" THEN bufsz ELSE 0

\* While the host keeps to whole commands the ring holds a part of its stream, up to
\* the last byte sent, which but for what is going to be discarded begins with a
\* command; with nothing left of it the host is between two commands or has paused.
FramedInv ==
    /\ framed => /\ state \in {"INIT", "CAT"}
                 /\ Stream(buffer)
                 /\ Count > 0 => next = Following(buffer[Count])
                 /\ Count > Drop => buffer[Drop + 1] = 1
                 /\ Count = Drop /\ next # 1 => quiet > Timeout
                 /\ next # 1 => quiet >= age
    /\ ~connected => next = 1
--------------------------------------------------------------------------------
(***************************************************************************)
(* Arithmetic, and the stream of commands the host sends.                  *)
(***************************************************************************)

LEMMA Constants ==
    /\ Size \in Nat /\ CmdLen \in Nat /\ MaxPacket \in Nat /\ BlockLen \in Nat
    /\ NBlocks \in Nat /\ Timeout \in Nat /\ MaxLoop \in Nat /\ AckWait \in Nat /\ RecvWait \in Nat
    /\ Size > 0 /\ CmdLen > 0 /\ MaxPacket > 0 /\ BlockLen > 0 /\ NBlocks > 0
    /\ Timeout > 0 /\ MaxLoop > 0 /\ CmdLen < Size /\ BlockLen < Size
BY CatAssumption

LEMMA Division ==
    ASSUME NEW a \in Nat, NEW m \in Nat \ {0}
    PROVE  a % m \in 0..m-1 /\ a = m * (a \div m) + (a % m) /\ (a \div m) \in Nat
OBVIOUS

LEMMA DivisionUnique ==
    ASSUME NEW m \in Nat \ {0}, NEW q \in Nat, NEW r \in 0..m-1, NEW p \in Nat, NEW s \in 0..m-1,
           m*q + r = m*p + s
    PROVE  q = p /\ r = s
<1>1. ASSUME NEW x \in Nat, NEW y \in Nat, x < y PROVE m*y >= m*x + m
    <2>1. PICK d \in Nat : y = x + 1 + d
        <3>1. y - x - 1 \in Nat /\ y = x + 1 + (y - x - 1)
            BY <1>1
        <3> QED
            BY <3>1
    <2>2. m*y = m*x + m + m*d
        BY <2>1
    <2>3. m*d \in Nat
        OBVIOUS
    <2> QED
        BY <2>2, <2>3
<1>2. m*q \in Nat /\ m*p \in Nat
    OBVIOUS
<1>3. ~(q < p) /\ ~(p < q)
    BY <1>1, <1>2
<1>4. q = p
    BY <1>3
<1> QED
    BY <1>2, <1>4

LEMMA NextRemainder ==
    ASSUME NEW a \in Nat, NEW m \in Nat \ {0}
    PROVE  (a + 1) % m = IF a % m = m - 1 THEN 0 ELSE (a % m) + 1
<1> DEFINE q == a \div m
           r == a % m
           p == (a + 1) \div m
           s == (a + 1) % m
<1>1. r \in 0..m-1 /\ a = m * q + r /\ q \in Nat
    BY Division
<1>2. a + 1 \in Nat
    OBVIOUS
<1>3. s \in 0..m-1 /\ a + 1 = m * p + s /\ p \in Nat
    BY <1>2, Division
<1> HIDE DEF q, r, p, s
<1>4. m * (q+1) = m*q + m /\ m * q \in Nat
    BY <1>1
<1>5. CASE r = m - 1
    <2>1. a + 1 = m*(q+1) + 0 /\ q + 1 \in Nat /\ 0 \in 0..m-1
        BY <1>1, <1>4, <1>5
    <2>2. m * p + s = m*(q+1) + 0
        BY <1>3, <2>1
    <2>3. s = 0
        BY <1>3, <2>1, <2>2, DivisionUnique, Zenon
    <2> QED
        BY <1>5, <2>3 DEF r, s
<1>6. CASE r # m - 1
    <2> DEFINE u == r + 1
    <2>1. a + 1 = m*q + u /\ u \in 0..m-1
        BY <1>1, <1>4, <1>6
    <2> HIDE DEF u
    <2>2. m * p + s = m*q + u
        BY <1>3, <2>1
    <2>3. s = u
        <3>1. \A x \in 0..m-1 : m * p + s = m*q + x => s = x
            BY <1>1, <1>3, DivisionUnique, Zenon
        <3> QED
            BY <2>1, <2>2, <3>1, Zenon
    <2> QED
        BY <1>6, <2>3 DEF r, s, u
<1> QED
    BY <1>5, <1>6

\* What Send puts on the line: the next bytes of the stream of commands.
LEMMA SentBytes ==
    ASSUME next \in 1..CmdLen, NEW n \in 1..MaxPacket
    PROVE  LET bytes == [i \in 1..n |-> ((next + i - 2) % CmdLen) + 1]
               last  == ((next + n - 1) % CmdLen) + 1
           IN  /\ bytes \in Seq(Byte) /\ Len(bytes) = n
               /\ bytes[1] = next /\ last = Following(bytes[n]) /\ last \in 1..CmdLen
               /\ \A i \in 1..n-1 : bytes[i+1] = Following(bytes[i])
<1> DEFINE at(a) == (a % CmdLen) + 1
           bytes == [i \in 1..n |-> ((next + i - 2) % CmdLen) + 1]
<1>0. CmdLen \in Nat \ {0} /\ n \in Nat /\ next \in Nat
    BY Constants
<1>1. ASSUME NEW a \in Nat PROVE at(a) \in 1..CmdLen /\ at(a + 1) = Following(at(a))
    <2> DEFINE r == a % CmdLen
    <2>1. r \in 0..CmdLen-1
        BY <1>0, Division
    <2>2. (a + 1) % CmdLen = IF r = CmdLen - 1 THEN 0 ELSE r + 1
        BY <1>0, NextRemainder
    <2>3. at(a) = r + 1 /\ at(a + 1) = ((a + 1) % CmdLen) + 1
        OBVIOUS
    <2> HIDE DEF r, at
    <2>4. at(a + 1) = IF r = CmdLen - 1 THEN 1 ELSE r + 2
        BY <1>0, <2>1, <2>2, <2>3
    <2> QED
        BY <1>0, <2>1, <2>3, <2>4 DEF Following
<1>2. ASSUME NEW i \in 1..n
      PROVE  bytes[i] = at(next + i - 2) /\ next + i - 2 \in Nat /\ bytes[i] \in 1..CmdLen
    <2>1. next + i - 2 \in Nat
        BY <1>0
    <2>2. at(next + i - 2) \in 1..CmdLen
        BY <1>1, <2>1
    <2>3. bytes[i] = at(next + i - 2)
        BY Zenon
    <2> HIDE DEF bytes, at
    <2> QED
        BY <2>1, <2>2, <2>3
<1>3. at(next - 1) = next
    <2>1. next - 1 \in Nat /\ next - 1 < CmdLen
        BY <1>0
    <2>2. (next - 1) % CmdLen = next - 1
        BY <1>0, <2>1
    <2> QED
        BY <1>0, <2>2
<1>4. bytes \in Seq(Byte) /\ Len(bytes) = n
    <2>1. \A i \in 1..n : bytes[i] \in Byte
        BY <1>0, <1>2 DEF Byte
    <2> QED
        BY <1>0, <2>1
<1>5. bytes[1] = next
    <2>1. 1 \in 1..n /\ next + 1 - 2 = next - 1
        BY <1>0
    <2> QED
        BY <1>2, <1>3, <2>1
<1>6. at(next + n - 1) = Following(bytes[n]) /\ at(next + n - 1) \in 1..CmdLen
    <2>1. n \in 1..n /\ (next + n - 2) + 1 = next + n - 1 /\ next + n - 1 \in Nat
        BY <1>0
    <2>2. bytes[n] = at(next + n - 2) /\ next + n - 2 \in Nat
        BY <1>2, <2>1
    <2> HIDE DEF bytes, at
    <2> QED
        BY <1>1, <2>1, <2>2
<1>7. ASSUME NEW i \in 1..n-1 PROVE bytes[i+1] = Following(bytes[i])
    <2>1. i \in 1..n /\ i + 1 \in 1..n /\ (next + i - 2) + 1 = next + (i + 1) - 2
        BY <1>0
    <2>2. bytes[i] = at(next + i - 2) /\ next + i - 2 \in Nat
        BY <1>2, <2>1
    <2>3. bytes[i+1] = at(next + (i + 1) - 2)
        BY <1>2, <2>1
    <2> HIDE DEF bytes, at
    <2> QED
        BY <1>1, <2>1, <2>2, <2>3
<1> QED
    BY <1>4, <1>5, <1>6, <1>7
--------------------------------------------------------------------------------
(***************************************************************************)
(* The ring and the types.                                                 *)
(***************************************************************************)

LEMMA RemoveParts ==
    ASSUME buffer \in Seq(Byte), NEW n \in 0..Count, Remove(n)
    PROVE  /\ buffer' \in Seq(Byte) /\ Count' = Count - n
           /\ \A i \in 1..Count-n : buffer'[i] = buffer[i+n]
           /\ fresh' = Least(fresh, Count - n)
BY DEF Remove, Count

\* n bytes come in and k of them find room.
LEMMA ReceiveParts ==
    ASSUME buffer \in Seq(Byte), Count < Size, NEW bytes \in Seq(Byte), NEW whole,
           Receive(bytes, whole)
    PROVE  LET n == Len(bytes)
               k == Stored(n)
           IN  /\ n \in Nat /\ k \in 0..n /\ Count \in Nat
               /\ buffer' \in Seq(Byte) /\ Count' = Count + k /\ Count + k < Size
               /\ \A i \in 1..Count : buffer'[i] = buffer[i]
               /\ \A i \in 1..k : buffer'[Count + i] = bytes[i]
<1> DEFINE n == Len(bytes)
           k == Stored(n)
           s == SubSeq(bytes, 1, k)
<1>1. n \in Nat /\ Count \in Nat /\ Size \in Nat
    BY Constants DEF Count
<1>2. k \in 0..n /\ Count + k < Size
    BY <1>1 DEF Stored, Least
<1> HIDE DEF n, k
<1>3. s \in Seq(Byte) /\ Len(s) = k /\ \A i \in 1..k : s[i] = bytes[i]
    BY <1>2 DEF n
<1>4. buffer' = buffer \o s
    BY DEF Receive, n, k
<1> HIDE DEF s
<1>5. /\ buffer \o s \in Seq(Byte) /\ Len(buffer \o s) = Count + k
      /\ \A i \in 1..Count : (buffer \o s)[i] = buffer[i]
      /\ \A i \in 1..k : (buffer \o s)[Count + i] = s[i]
    BY <1>3 DEF Count
<1> QED
    BY <1>1, <1>2, <1>3, <1>4, <1>5 DEF Count, n, k

\* The ring and its history, the clock and the rest of the state.
RingType ==
    /\ buffer \in Seq(Byte) /\ Count < Size
    /\ age \in 0..Timeout+1 /\ fresh \in 0..Count

RestType ==
    /\ connected \in BOOLEAN
    /\ state \in {"INIT", "CAT", "CLONEOUT", "CLONEIN"}
    /\ clone \in {"INIT", "SEND", "ACK_WAIT", "NACK", "START", "RECV", "FINAL", "DONE"}
    /\ block \in 0..NBlocks /\ wait \in 0..AckWait+RecvWait+1
    /\ pc \in {"idle", "sized", "expire", "commands", "ptt"}
    /\ bufsz \in 0..Size-1 /\ loopAge \in 0..MaxLoop
    /\ rts \in BOOLEAN /\ rtsLast \in BOOLEAN /\ catPtt \in BOOLEAN /\ framed \in BOOLEAN
    /\ next \in 1..CmdLen /\ quiet \in 0..LongQuiet+1

LEMMA TypeParts == TypeOK <=> RingType /\ RestType
BY DEF TypeOK, RingType, RestType

LEMMA RemoveType ==
    ASSUME RingType, NEW n \in 0..Count, Remove(n), UNCHANGED age
    PROVE  RingType'
<1>1. Count \in Nat /\ Size \in Nat
    BY Constants DEF RingType, Count
<1>2. /\ buffer' \in Seq(Byte) /\ Count' = Count - n
      /\ fresh' = Least(fresh, Count - n)
    BY RemoveParts DEF RingType
<1>3. fresh \in 0..Count
    BY DEF RingType
<1> HIDE DEF Count
<1>4. Count' < Size /\ fresh' \in 0..Count'
    <2>1. Count - n \in Nat /\ Count - n < Size
        BY <1>1, <1>3 DEF RingType
    <2> DEFINE c == Count - n
    <2>2. Count' = c /\ fresh' = Least(fresh, c)
        BY <1>2
    <2> HIDE DEF c
    <2> QED
        BY <1>3, <2>1, <2>2, <1>1 DEF Least, c
<1> QED
    BY <1>2, <1>4 DEF RingType

LEMMA RingKept ==
    ASSUME RingType, UNCHANGED <<buffer, age, fresh>>
    PROVE  RingType'
BY DEF RingType, Count

LEMMA ReceiveType ==
    ASSUME RingType, RestType, NEW bytes \in Seq(Byte), NEW whole \in BOOLEAN, Receive(bytes, whole)
    PROVE  RingType' /\ framed' \in BOOLEAN /\ quiet' = 0
<1> DEFINE n == Len(bytes)
           k == Stored(n)
<1>1. /\ n \in Nat /\ k \in 0..n /\ Count \in Nat
      /\ buffer' \in Seq(Byte) /\ Count' = Count + k /\ Count + k < Size
    BY ReceiveParts DEF RingType
<1>2. /\ age' = IF k > 0 THEN 0 ELSE age
      /\ fresh' = IF k = 0 THEN fresh ELSE IF age > Timeout THEN k ELSE fresh + k
      /\ quiet' = 0
    BY DEF Receive
<1>3. framed' \in BOOLEAN
    BY DEF Receive
<1> HIDE DEF n, k, Count
<1>4. age' \in 0..Timeout+1
    BY <1>2, Constants DEF RingType
<1>5. fresh' \in 0..Count'
    <2>1. fresh \in 0..Count
        BY DEF RingType
    <2> QED
        BY <1>1, <1>2, <2>1
<1> QED
    BY <1>1, <1>2, <1>3, <1>4, <1>5 DEF RingType

LEMMA TypeInit == Init => TypeOK
<1> SUFFICES ASSUME Init PROVE TypeOK
    OBVIOUS
<1>1. RingType
    <2>1. buffer \in Seq(Byte) /\ Count = 0
        BY DEF Init, Count
    <2> QED
        BY <2>1, Constants DEF Init, RingType
<1>2. RestType
    <2>1. {connected, rts, rtsLast, catPtt, framed} \subseteq BOOLEAN
        BY DEF Init
    <2>2. quiet \in 0..LongQuiet+1
        BY Constants DEF Init, LongQuiet
    <2>3. bufsz \in 0..Size-1 /\ next \in 1..CmdLen /\ block \in 0..NBlocks
        BY Constants DEF Init
    <2>4. loopAge \in 0..MaxLoop /\ wait \in 0..AckWait+RecvWait+1
        BY Constants DEF Init
    <2>5. state = "INIT" /\ clone = "INIT" /\ pc = "idle"
        BY DEF Init
    <2> QED
        BY <2>1, <2>2, <2>3, <2>4, <2>5 DEF RestType
<1> QED
    BY <1>1, <1>2, TypeParts

\* The states of a clone, per direction, and that it is over after the last block.
CloneInv ==
    /\ state = "CLONEOUT" => clone \in {"INIT", "SEND", "ACK_WAIT", "NACK", "DONE"}
    /\ state = "CLONEIN" => clone \in {"INIT", "START", "RECV", "FINAL", "DONE"}
    /\ clone \in {"SEND", "ACK_WAIT", "START", "RECV"} => block < NBlocks

\* One call of HandleProtocol while cloning.
LEMMA CloneSteps ==
    ASSUME RestType, CloneInv, CloneOut \/ CloneIn
    PROVE  /\ \/ Count > 0 /\ Remove(1)
              \/ Count >= BlockLen /\ Remove(BlockLen)
              \/ UNCHANGED <<buffer, fresh>>
           /\ clone' \in {"INIT", "SEND", "ACK_WAIT", "NACK", "START", "RECV", "FINAL", "DONE"}
           /\ block' \in 0..NBlocks /\ wait' \in {wait, 0}
           /\ (state' = state /\ quiet' = quiet) \/ (state' = "INIT" /\ quiet' = 0 /\ clone' = "INIT")
           /\ state = "CLONEOUT" => clone' \in {"INIT", "SEND", "ACK_WAIT", "NACK", "DONE"}
           /\ state = "CLONEIN" => clone' \in {"INIT", "START", "RECV", "FINAL", "DONE"}
           /\ clone' \in {"SEND", "ACK_WAIT", "START", "RECV"} => block' < NBlocks
           /\ pc = "idle" /\ pc' = "ptt" /\ loopAge' = 0 /\ state \in {"CLONEOUT", "CLONEIN"}
           /\ UNCHANGED <<age, bufsz, ptt, next, connected, framed>>
<1>0. block \in 0..NBlocks /\ NBlocks \in Nat /\ NBlocks > 0
    BY Constants DEF RestType
<1>1. CASE CloneOut
    <2>1. /\ pc = "idle" /\ pc' = "ptt" /\ loopAge' = 0 /\ state = "CLONEOUT"
          /\ UNCHANGED <<age, bufsz, ptt, next, connected, framed>>
          /\ clone \in {"INIT", "SEND", "ACK_WAIT", "NACK", "DONE"}
        BY <1>1 DEF CloneOut, Enter, CloneInv
    <2>2. CASE clone = "INIT"
        BY <1>0, <1>1, <2>1, <2>2 DEF CloneOut
    <2>3. CASE clone = "SEND"
        BY <1>0, <1>1, <2>1, <2>3 DEF CloneOut, CloneInv
    <2>4. CASE clone = "ACK_WAIT"
        <3>1. block < NBlocks
            BY <2>4 DEF CloneInv
        <3>2. /\ IF Count > 0 THEN Remove(1) ELSE UNCHANGED <<buffer, fresh>>
              /\ \/ NextBlock("SEND", "DONE")
                 \/ block' = block /\ clone' \in {"NACK", clone}
              /\ UNCHANGED <<wait, state, quiet>>
            BY <1>1, <2>4 DEF CloneOut
        <3>3. block' \in 0..NBlocks /\ clone' \in {"SEND", "DONE", "NACK", "ACK_WAIT"}
              /\ (clone' \in {"SEND", "ACK_WAIT"} => block' < NBlocks)
            BY <1>0, <2>4, <3>1, <3>2 DEF NextBlock
        <3> QED
            BY <2>1, <3>2, <3>3
    <2>5. CASE clone = "NACK"
        BY <1>0, <1>1, <2>1, <2>5 DEF CloneOut
    <2>6. CASE clone = "DONE"
        BY <1>0, <1>1, <2>1, <2>6 DEF CloneOut, CloneDone
    <2> QED
        BY <2>1, <2>2, <2>3, <2>4, <2>5, <2>6
<1>2. CASE CloneIn
    <2>1. /\ pc = "idle" /\ pc' = "ptt" /\ loopAge' = 0 /\ state = "CLONEIN"
          /\ UNCHANGED <<age, bufsz, ptt, next, connected, framed>>
          /\ clone \in {"INIT", "START", "RECV", "FINAL", "DONE"}
        BY <1>2 DEF CloneIn, Enter, CloneInv
    <2>2. CASE clone = "INIT"
        BY <1>0, <1>2, <2>1, <2>2 DEF CloneIn
    <2>3. CASE clone = "START"
        BY <1>0, <1>2, <2>1, <2>3 DEF CloneIn, CloneInv
    <2>4. CASE clone = "RECV"
        <3>1. block < NBlocks
            BY <2>4 DEF CloneInv
        <3>2. /\ (Count >= BlockLen /\ Remove(BlockLen)) \/ UNCHANGED <<buffer, fresh>>
              /\ \/ NextBlock("START", "FINAL")
                 \/ block' = block /\ clone' \in {"DONE", clone}
              /\ UNCHANGED <<wait, state, quiet>>
            BY <1>2, <2>4 DEF CloneIn
        <3>3. block' \in 0..NBlocks /\ clone' \in {"START", "FINAL", "DONE", "RECV"}
              /\ (clone' \in {"START", "RECV"} => block' < NBlocks)
            BY <1>0, <2>4, <3>1, <3>2 DEF NextBlock
        <3> QED
            BY <2>1, <3>2, <3>3
    <2>5. CASE clone = "FINAL"
        BY <1>0, <1>2, <2>1, <2>5 DEF CloneIn
    <2>6. CASE clone = "DONE"
        BY <1>0, <1>2, <2>1, <2>6 DEF CloneIn, CloneDone
    <2> QED
        BY <2>1, <2>2, <2>3, <2>4, <2>5, <2>6
<1> QED
    BY <1>1, <1>2

LEMMA CloneType ==
    ASSUME RingType, RestType, CloneInv, CloneOut \/ CloneIn
    PROVE  RingType' /\ RestType'
<1>0. Count \in Nat /\ BlockLen \in Nat
    BY Constants DEF RingType, Count
<1>1. RingType'
    <2>1. Count > 0 => 1 \in 0..Count
        BY <1>0
    <2>2. Count >= BlockLen => BlockLen \in 0..Count
        BY <1>0
    <2> QED
        BY <2>1, <2>2, CloneSteps, RemoveType, RingKept
<1>2. state' \in {state, "INIT"} /\ quiet' \in {quiet, 0} /\ wait' \in {wait, 0}
      /\ UNCHANGED <<bufsz, rts, rtsLast, catPtt, next, connected, framed>>
    BY CloneSteps DEF ptt
<1>3. wait' \in 0..AckWait+RecvWait+1 /\ quiet' \in 0..LongQuiet+1 /\ loopAge' \in 0..MaxLoop
    BY <1>2, CloneSteps, Constants DEF RestType, LongQuiet
<1> QED
    BY <1>1, <1>2, <1>3, CloneSteps DEF RestType

LEMMA TypeStep == TypeOK /\ CloneInv /\ [Next]_vars => TypeOK'
<1> SUFFICES ASSUME RingType, RestType, CloneInv, [Next]_vars PROVE RingType' /\ RestType'
    BY TypeParts, PTL
<1>0. /\ buffer \in Seq(Byte) /\ Count \in Nat /\ Count < Size /\ bufsz \in 0..Size-1
      /\ next \in 1..CmdLen /\ quiet \in 0..LongQuiet+1 /\ LongQuiet \in Nat
    BY Constants DEF RingType, RestType, Count, LongQuiet
<1>1. ASSUME NEW n \in 1..MaxPacket, Send(n) PROVE RingType' /\ RestType'
    <2> DEFINE bytes == [i \in 1..n |-> ((next + i - 2) % CmdLen) + 1]
               whole == state \notin {"CLONEOUT", "CLONEIN"}
    <2>1. bytes \in Seq(Byte) /\ next' \in 1..CmdLen
        BY <1>0, <1>1, SentBytes DEF Send
    <2>2. Receive(bytes, whole) /\ whole \in BOOLEAN
        BY <1>1 DEF Send
    <2> HIDE DEF bytes, whole
    <2>3. RingType' /\ framed' \in BOOLEAN /\ quiet' = 0
        BY <2>1, <2>2, ReceiveType
    <2>4. UNCHANGED <<connected, proto, main, ptt>>
        BY <2>2 DEF Receive
    <2> QED
        BY <1>0, <2>1, <2>3, <2>4 DEF RestType, proto, main, ptt
<1>2. CASE SendAck
    <2>1. <<Ack>> \in Seq(Byte) /\ FALSE \in BOOLEAN
        BY Constants DEF Ack, Byte
    <2>2. Receive(<<Ack>>, FALSE) /\ next' = next
        BY <1>2 DEF SendAck
    <2>3. RingType' /\ framed' \in BOOLEAN /\ quiet' = 0
        BY <2>1, <2>2, ReceiveType
    <2>4. UNCHANGED <<connected, proto, main, ptt>>
        BY <2>2 DEF Receive
    <2> QED
        BY <1>0, <2>2, <2>3, <2>4 DEF RestType, proto, main, ptt
<1>3. CASE BreakOff
    <2>1. RingType'
        BY <1>3, RingKept DEF BreakOff
    <2>2. next' = 1 /\ framed' = FALSE /\ UNCHANGED <<proto, main, ptt, quiet, connected>>
        BY <1>3 DEF BreakOff
    <2>3. framed' \in BOOLEAN
        BY <2>2
    <2> QED
        BY <2>1, <2>2, <2>3, Constants DEF RestType, proto, main, ptt
<1>4. CASE Plug
    <2>1. RingType'
        BY <1>4, RingKept DEF Plug
    <2>2. connected' = TRUE /\ quiet' = 0 /\ UNCHANGED <<proto, main, ptt, next, framed>>
        BY <1>4 DEF Plug
    <2>3. connected' \in BOOLEAN
        BY <2>2
    <2> QED
        BY <1>0, <2>1, <2>2, <2>3 DEF RestType, proto, main, ptt
<1>5. CASE Unplug
    <2>1. RingType'
        BY <1>5, RingKept DEF Unplug
    <2>2. /\ connected' = FALSE /\ next' = 1 /\ framed' = (framed /\ next = 1)
          /\ UNCHANGED <<proto, main, ptt, quiet>>
        BY <1>5 DEF Unplug
    <2>3. connected' \in BOOLEAN /\ framed' \in BOOLEAN
        BY <2>2
    <2> QED
        BY <2>1, <2>2, <2>3, Constants DEF RestType, proto, main, ptt
<1>6. CASE SetLine
    <2>1. RingType'
        BY <1>6, RingKept DEF SetLine
    <2>2. rts' \in BOOLEAN /\ UNCHANGED <<proto, main, rtsLast, catPtt, host, framed>>
        BY <1>6 DEF SetLine
    <2> QED
        BY <2>1, <2>2 DEF RestType, proto, main, host
<1>7. CASE CloneStart
    <2>1. RingType'
        BY <1>7, RingKept DEF CloneStart
    <2>2. /\ state' \in {"CLONEOUT", "CLONEIN"} /\ clone' = "INIT" /\ framed' = FALSE
          /\ UNCHANGED <<block, wait, main, ptt, host>>
        BY <1>7 DEF CloneStart
    <2>3. framed' \in BOOLEAN
        BY <2>2
    <2> QED
        BY <2>1, <2>2, <2>3 DEF RestType, main, ptt, host
<1>8. CASE Disconnected
    <2>1. RingType'
        <3>1. CASE state # "INIT"
            BY <1>0, <1>8, <3>1, RemoveType DEF Disconnected
        <3>2. CASE state = "INIT"
            BY <1>8, <3>2, RingKept DEF Disconnected
        <3> QED
            BY <3>1, <3>2
    <2>2. framed' \in BOOLEAN
        BY <1>8 DEF Disconnected, RestType
    <2>3. state' \in {"INIT", "CAT", "CLONEOUT", "CLONEIN"}
        BY <1>8 DEF Disconnected, RestType
    <2>4. /\ pc' = "ptt" /\ loopAge' = 0 /\ clone' = "INIT" /\ block' = 0 /\ wait' = 0
          /\ UNCHANGED <<bufsz, ptt, host>>
        BY <1>8 DEF Disconnected, Enter
    <2> QED
        BY <2>1, <2>2, <2>3, <2>4, Constants DEF RestType, ptt, host
<1>9. CASE SyncSize
    <2>1. RingType'
        BY <1>9, RingKept DEF SyncSize
    <2> QED
        BY <1>0, <1>9, <2>1, Constants DEF SyncSize, Enter, RestType, ptt, host
<1>10. CASE SyncAge
    <2>1. RingType'
        BY <1>10, RingKept DEF SyncAge
    <2>2. /\ pc' \in {"expire", "commands"} /\ bufsz' \in {bufsz, 0}
          /\ UNCHANGED <<proto, loopAge, ptt, host, framed>>
        BY <1>10 DEF SyncAge
    <2> QED
        BY <2>1, <2>2, Constants DEF RestType, proto, ptt, host
<1>11. CASE Expire
    <2>1. RingType'
        <3>1. Least(1, Count) \in 0..Count
            BY <1>0 DEF Least
        <3>2. Remove(Least(1, Count)) \/ UNCHANGED <<buffer, fresh>>
            BY <1>11 DEF Expire
        <3>3. UNCHANGED age
            BY <1>11 DEF Expire
        <3> QED
            BY <3>1, <3>2, <3>3, RemoveType, RingKept
    <2>2. /\ pc' \in {pc, "commands"} /\ bufsz' \in {bufsz, bufsz - 1} /\ (bufsz' = bufsz - 1 => bufsz > 0)
          /\ UNCHANGED <<proto, loopAge, ptt, host, framed>>
        BY <1>0, <1>11, Constants DEF Expire
    <2>3. bufsz' \in 0..Size-1
        BY <1>0, <2>2, Constants
    <2> QED
        BY <2>1, <2>2, <2>3 DEF RestType, proto, ptt, host
<1>12. CASE HandleCommands
    <2>1. RingType'
        <3>1. Count >= CmdLen => CmdLen \in 0..Count
            BY <1>0, Constants
        <3>2. (Count >= CmdLen /\ Remove(CmdLen)) \/ UNCHANGED <<buffer, fresh>>
            BY <1>12 DEF HandleCommands
        <3>3. UNCHANGED age
            BY <1>12 DEF HandleCommands
        <3> QED
            BY <3>1, <3>2, <3>3, RemoveType, RingKept
    <2>2. catPtt' \in BOOLEAN
        BY <1>12 DEF HandleCommands, CatEnableTX, RestType
    <2>3. pc' \in {pc, "ptt"} /\ UNCHANGED <<proto, bufsz, loopAge, rts, rtsLast, host, framed>>
        BY <1>12 DEF HandleCommands
    <2> QED
        BY <2>1, <2>2, <2>3 DEF RestType, proto, host
<1>13. CASE CloneOut \/ CloneIn
    BY <1>13, CloneType
<1>14. CASE PttLine
    <2>1. RingType'
        BY <1>14, RingKept DEF PttLine
    <2>2. catPtt' \in BOOLEAN /\ rtsLast' = rts
        BY <1>14 DEF PttLine, CatEnableTX, RestType
    <2>3. pc' = "idle" /\ UNCHANGED <<proto, bufsz, loopAge, rts, host, framed>>
        BY <1>14 DEF PttLine
    <2> QED
        BY <2>1, <2>2, <2>3 DEF RestType, proto, host
<1>15. CASE Tick
    <2>1. age' \in 0..Timeout+1 /\ quiet' \in 0..LongQuiet+1 /\ loopAge' \in 0..MaxLoop
        BY <1>0, <1>15, Constants DEF Tick, Older, RingType, RestType
    <2>2. wait' \in 0..AckWait+RecvWait+1
        BY <1>15, Constants DEF Tick, Older, RestType
    <2>3. fresh' \in 0..Count /\ UNCHANGED buffer
        BY <1>0, <1>15 DEF Tick, RingType
    <2>4. UNCHANGED <<state, clone, block, pc, bufsz, ptt, next, connected, framed>>
        BY <1>15 DEF Tick
    <2> QED
        BY <2>1, <2>2, <2>3, <2>4 DEF RingType, RestType, ptt, Count
<1>16. CASE UNCHANGED vars
    BY <1>16 DEF vars, RingType, RestType, Count, proto, main, ptt, host
<1> QED
    BY <1>1, <1>2, <1>3, <1>4, <1>5, <1>6, <1>7, <1>8, <1>9, <1>10, <1>11, <1>12, <1>13,
       <1>14, <1>15, <1>16 DEF Next, MainLoop, Environment

LEMMA CloneInvStep == TypeOK /\ CloneInv /\ [Next]_vars => CloneInv'
<1> SUFFICES ASSUME RestType, CloneInv, [Next]_vars PROVE CloneInv'
    BY TypeParts
<1>1. CASE CloneOut \/ CloneIn
    BY <1>1, CloneSteps DEF CloneInv
<1>2. CASE Disconnected \/ CloneStart
    BY <1>2 DEF Disconnected, CloneStart, CloneInv
<1>3. CASE SyncSize
    BY <1>3 DEF SyncSize, CloneInv
<1>4. CASE UNCHANGED <<state, clone, block>>
    BY <1>4 DEF CloneInv
<1>5. SyncAge \/ Expire \/ HandleCommands \/ PttLine \/ Tick => UNCHANGED <<state, clone, block>>
    BY DEF SyncAge, Expire, HandleCommands, PttLine, Tick, proto
<1>6. (\E n \in 1..MaxPacket : Send(n)) \/ SendAck \/ BreakOff \/ Plug \/ Unplug \/ SetLine
          => UNCHANGED <<state, clone, block>>
    BY DEF Send, SendAck, Receive, BreakOff, Plug, Unplug, SetLine, proto
<1>7. UNCHANGED vars => UNCHANGED <<state, clone, block>>
    BY DEF vars, proto
<1> QED
    BY <1>1, <1>2, <1>3, <1>4, <1>5, <1>6, <1>7 DEF Next, MainLoop, Environment

\* For every size of the ring and of a packet, and for all times.
THEOREM TypeCorrect == Spec => []TypeOK
<1>1. Init => TypeOK /\ CloneInv
    BY TypeInit DEF Init, CloneInv
<1>2. TypeOK /\ CloneInv /\ [Next]_vars => TypeOK' /\ CloneInv'
    BY TypeStep, CloneInvStep
<1> QED
    BY <1>1, <1>2, PTL DEF Spec

--------------------------------------------------------------------------------
(***************************************************************************)
(* What is discarded, and when.                                            *)
(***************************************************************************)

TimesInv == SizeRead /\ FreshKept /\ SilenceInv /\ SilenceEmpties

\* What these invariants are about, as numbers.
LEMMA Numbers ==
    ASSUME TypeOK
    PROVE  /\ Count \in Nat /\ age \in Nat /\ fresh \in Nat /\ bufsz \in Nat /\ loopAge \in Nat
           /\ quiet \in Nat /\ fresh <= Count /\ age <= Timeout + 1 /\ loopAge <= MaxLoop
           /\ quiet <= LongQuiet + 1 /\ LongQuiet = Timeout + 2 * MaxLoop
           /\ Timeout \in Nat /\ MaxLoop \in Nat /\ Timeout > 0 /\ MaxLoop > 0
           /\ CmdLen \in Nat /\ CmdLen > 0
    BY Constants DEF TypeOK, Count, LongQuiet

LEMMA TimesKept ==
    ASSUME TimesInv, UNCHANGED <<buffer, age, fresh, pc, bufsz, loopAge, quiet, connected, state>>
    PROVE  TimesInv'
BY DEF TimesInv, SizeRead, FreshKept, SilenceInv, SilenceEmpties, SilentCall, SilentCallBefore, Count

\* Whatever comes in ends the silence.
LEMMA TimesReceive ==
    ASSUME TypeOK, TimesInv, NEW bytes \in Seq(Byte), NEW whole, Receive(bytes, whole)
    PROVE  TimesInv'
<1> DEFINE n == Len(bytes)
           k == Stored(n)
<1>1. n \in Nat /\ k \in 0..n /\ Count' = Count + k
    BY ReceiveParts DEF TypeOK
<1>2. /\ age' = IF k > 0 THEN 0 ELSE age
      /\ fresh' = IF k = 0 THEN fresh ELSE IF age > Timeout THEN k ELSE fresh + k
      /\ quiet' = 0 /\ UNCHANGED <<pc, bufsz, loopAge>>
    BY DEF Receive, main
<1> HIDE DEF n, k, Count
<1>3. SizeRead'
    BY <1>1, <1>2, Numbers DEF TimesInv, SizeRead
<1>4. FreshKept'
    BY <1>1, <1>2, Numbers DEF TimesInv, FreshKept
<1>5. SilenceInv' /\ ~SilentCall' /\ ~SilentCallBefore'
    BY <1>1, <1>2, Numbers DEF TimesInv, SilenceInv, Least, SilentCall, SilentCallBefore
<1> QED
    BY <1>3, <1>4, <1>5 DEF TimesInv, SilenceEmpties

LEMMA TimesStep == TypeOK /\ CloneInv /\ TimesInv /\ [Next]_vars => TimesInv'
<1> SUFFICES ASSUME TypeOK, CloneInv, TimesInv, [Next]_vars PROVE TimesInv'
    OBVIOUS
<1> USE DEF TimesInv
<1>0. RestType /\ RingType /\ buffer \in Seq(Byte) /\ next \in 1..CmdLen
    BY TypeParts DEF RingType, RestType
<1>1. ASSUME NEW n \in 1..MaxPacket, Send(n) PROVE TimesInv'
    <2> DEFINE bytes == [i \in 1..n |-> ((next + i - 2) % CmdLen) + 1]
    <2>1. bytes \in Seq(Byte)
        BY <1>0, SentBytes
    <2>2. Receive(bytes, state \notin {"CLONEOUT", "CLONEIN"})
        BY <1>1 DEF Send
    <2> HIDE DEF bytes
    <2> QED
        BY <2>1, <2>2, TimesReceive
<1>2. CASE SendAck
    <2>1. <<Ack>> \in Seq(Byte)
        BY Constants DEF Ack, Byte
    <2>2. Receive(<<Ack>>, FALSE)
        BY <1>2 DEF SendAck
    <2> QED
        BY <2>1, <2>2, TimesReceive
<1>3. CASE BreakOff \/ SetLine \/ UNCHANGED vars
    BY <1>3, TimesKept DEF BreakOff, SetLine, vars, proto, main, host
<1>4. CASE Plug \/ Unplug
    <2>1. UNCHANGED <<buffer, age, fresh, pc, bufsz, loopAge, state>>
          /\ (quiet' = 0 \/ (quiet' = quiet /\ connected' = FALSE))
        BY <1>4 DEF Plug, Unplug, proto, main
    <2>2. UNCHANGED Count
        BY <2>1 DEF Count
    <2>3. SilenceInv' /\ ~SilentCall' /\ ~SilentCallBefore'
        BY <2>1, Numbers DEF SilenceInv, Least, SilentCall, SilentCallBefore
    <2> QED
        BY <2>1, <2>2, <2>3 DEF SizeRead, FreshKept, SilenceEmpties
<1>5. CASE CloneStart
    <2>1. UNCHANGED <<buffer, age, fresh, pc, bufsz, loopAge, quiet, connected>>
          /\ state' \in {"CLONEOUT", "CLONEIN"}
        BY <1>5 DEF CloneStart, main, host
    <2>2. UNCHANGED Count
        BY <2>1 DEF Count
    <2> QED
        BY <2>1, <2>2 DEF SizeRead, FreshKept, SilenceInv, SilenceEmpties, SilentCall, SilentCallBefore
<1>6. CASE Disconnected
    <2>1. /\ pc' = "ptt" /\ connected' = FALSE /\ UNCHANGED <<age, quiet>>
          /\ Remove(Count) \/ UNCHANGED <<buffer, fresh>>
        BY <1>0, <1>6 DEF Disconnected, host, RestType
    <2>2. fresh' = fresh \/ fresh' = 0
        <3>1. Remove(Count) => fresh' = Least(fresh, 0)
            BY <1>0, Numbers, RemoveParts
        <3> QED
            BY <2>1, <3>1, Numbers DEF Least
    <2> QED
        BY <2>1, <2>2 DEF SizeRead, FreshKept, SilenceInv, SilenceEmpties, SilentCall, SilentCallBefore
<1>7. CASE SyncSize
    <2>1. /\ pc = "idle" /\ pc' = "sized" /\ bufsz' = Count /\ loopAge' = 0 /\ state' = "CAT"
          /\ connected' = connected /\ connected /\ state \in {"INIT", "CAT"}
          /\ UNCHANGED <<buffer, age, fresh, quiet>>
        BY <1>7 DEF SyncSize, Enter, host
    <2>2. UNCHANGED Count
        BY <2>1 DEF Count
    <2>3. SilentCallBefore' => SilentCall
        BY <2>1, Numbers DEF SilentCall, SilentCallBefore
    <2> QED
        BY <2>1, <2>2, <2>3, Numbers DEF SizeRead, FreshKept, SilenceInv, SilenceEmpties
<1>8. CASE SyncAge
    <2>1. /\ pc = "sized" /\ UNCHANGED <<buffer, age, fresh, quiet, loopAge, connected, state>>
          /\ \/ pc' = "expire" /\ bufsz' = bufsz /\ bufsz > 0 /\ age > Timeout
             \/ pc' = "commands" /\ (bufsz = 0 \/ age <= Timeout)
        BY <1>8, Numbers DEF SyncAge, proto, host
    <2>2. UNCHANGED <<Count, SilentCall, SilentCallBefore>>
        BY <2>1 DEF Count, SilentCall, SilentCallBefore
    <2>3. SilentCall => age > Timeout
        BY Numbers DEF SilentCall, SilenceInv, Least
    <2> HIDE DEF Count
    <2> QED
        BY <2>1, <2>2, <2>3, Numbers DEF SizeRead, FreshKept, SilenceInv, SilenceEmpties
<1>9. CASE Expire
    <2>1. pc = "expire" /\ UNCHANGED <<age, quiet, loopAge, connected, state>>
        BY <1>9 DEF Expire, proto, host
    <2>2. UNCHANGED <<SilentCall, SilentCallBefore>>
        BY <2>1 DEF SilentCall, SilentCallBefore
    <2>3. CASE bufsz > 0
        <3>1. pc' = pc /\ bufsz' = bufsz - 1 /\ Remove(Least(1, Count))
            BY <1>9, <2>3 DEF Expire
        <3>2. Least(1, Count) = 1 /\ 1 \in 0..Count
            BY <2>1, <2>3, Numbers DEF SizeRead, Least
        <3>3. Count' = Count - 1 /\ fresh' = Least(fresh, Count - 1)
            BY <1>0, <3>1, <3>2, RemoveParts
        <3> HIDE DEF Count
        <3>4. fresh' = fresh
            BY <2>1, <2>3, <3>3, Numbers DEF FreshKept, Least
        <3> QED
            BY <2>1, <2>2, <2>3, <3>1, <3>3, <3>4, Numbers
            DEF SizeRead, FreshKept, SilenceInv, SilenceEmpties
    <2>4. CASE ~(bufsz > 0)
        <3>1. pc' = "commands" /\ UNCHANGED <<buffer, fresh, bufsz>>
            BY <1>9, <2>4 DEF Expire
        <3>2. UNCHANGED Count
            BY <3>1 DEF Count
        <3> HIDE DEF Count
        <3> QED
            BY <2>1, <2>2, <2>4, <3>1, <3>2, Numbers
            DEF SizeRead, FreshKept, SilenceInv, SilenceEmpties
    <2> QED
        BY <2>3, <2>4
<1>10. CASE HandleCommands
    <2>1. pc = "commands" /\ pc' \in {"commands", "ptt"}
          /\ UNCHANGED <<age, quiet, loopAge, connected, state>>
        BY <1>10 DEF HandleCommands, proto, host
    <2>2. UNCHANGED <<SilentCall, SilentCallBefore>>
        BY <2>1 DEF SilentCall, SilentCallBefore
    <2>3. (Count >= CmdLen /\ Remove(CmdLen)) \/ UNCHANGED <<buffer, fresh>>
        BY <1>10 DEF HandleCommands
    <2>4. \/ Count > 0 /\ Count' = Count - CmdLen /\ fresh' = Least(fresh, Count - CmdLen)
             /\ Count - CmdLen >= 0
          \/ Count' = Count /\ fresh' = fresh
        <3>1. Count >= CmdLen => CmdLen \in 0..Count
            BY Numbers
        <3> QED
            BY <1>0, <2>3, <3>1, Numbers, RemoveParts DEF Count
    <2> HIDE DEF Count
    <2>5. (fresh = 0 => fresh' = 0) /\ (Count = 0 => Count' = 0)
        BY <2>4, Numbers DEF Least
    <2> QED
        BY <2>1, <2>2, <2>5, Numbers DEF SizeRead, FreshKept, SilenceInv, SilenceEmpties
<1>11. CASE CloneOut \/ CloneIn
    <2>1. /\ pc' = "ptt" /\ UNCHANGED <<age, connected>> /\ state \in {"CLONEOUT", "CLONEIN"}
          /\ (state' = state /\ quiet' = quiet) \/ quiet' = 0
        BY <1>0, <1>11, CloneSteps
    <2>2. fresh = 0 => fresh' = 0
        <3>1. \/ \E n \in 0..Count : Remove(n)
              \/ UNCHANGED fresh
            BY <1>0, <1>11, CloneSteps, Numbers, Constants
        <3>2. ASSUME NEW n \in 0..Count, Remove(n) PROVE fresh = 0 => fresh' = 0
            BY <1>0, <3>2, RemoveParts, Numbers DEF Least
        <3> QED
            BY <3>1, <3>2
    <2>3. ~SilentCall' /\ ~SilentCallBefore' /\ SilenceInv'
        <3>1. loopAge' = 0 /\ age \in Nat /\ quiet \in Nat
            BY <1>0, <1>11, CloneSteps, Numbers
        <3> QED
            BY <2>1, <3>1, Numbers DEF SilentCall, SilentCallBefore, SilenceInv, Least
    <2> QED
        BY <2>1, <2>2, <2>3 DEF SizeRead, FreshKept, SilenceEmpties
<1>12. CASE PttLine
    <2>1. /\ pc = "ptt" /\ pc' = "idle"
          /\ UNCHANGED <<buffer, age, fresh, quiet, loopAge, connected, state>>
        BY <1>12 DEF PttLine, proto, host
    <2>2. UNCHANGED <<Count, SilentCall, SilentCallBefore>>
        BY <2>1 DEF SilentCall, SilentCallBefore, Count
    <2> QED
        BY <2>1, <2>2 DEF SizeRead, FreshKept, SilenceInv, SilenceEmpties
<1>13. CASE Tick
    <2>1. /\ loopAge' = loopAge + 1 /\ age' = Older(age, Timeout) /\ quiet' = Older(quiet, LongQuiet)
          /\ fresh' = (IF age' > Timeout THEN 0 ELSE fresh)
          /\ UNCHANGED <<buffer, pc, bufsz, connected, state>>
        BY <1>13 DEF Tick
    <2>2. UNCHANGED Count
        BY <2>1 DEF Count
    <2> HIDE DEF Count
    <2>3. (SilentCall' => SilentCall) /\ (SilentCallBefore' => SilentCallBefore)
        BY <2>1, Numbers DEF SilentCall, SilentCallBefore, Older
    <2>4. SilenceInv'
        BY <2>1, Numbers DEF SilenceInv, Least, Older
    <2>5. SizeRead'
        BY <2>1, <2>2, Numbers DEF SizeRead, Older
    <2>6. FreshKept'
        BY <2>1, <2>2, Numbers DEF FreshKept
    <2> QED
        BY <2>1, <2>2, <2>3, <2>4, <2>5, <2>6 DEF SilenceEmpties
<1> QED
    BY <1>1, <1>2, <1>3, <1>4, <1>5, <1>6, <1>7, <1>8, <1>9, <1>10, <1>11, <1>12, <1>13
    DEF Next, MainLoop, Environment

LEMMA TimesInit == Init => TimesInv
<1> SUFFICES ASSUME Init PROVE TimesInv
    OBVIOUS
<1>1. Count = 0
    BY DEF Init, Count
<1>2. /\ age = Timeout + 1 /\ quiet = LongQuiet + 1 /\ ~connected /\ pc = "idle" /\ fresh = 0
    BY DEF Init
<1>3. Timeout \in Nat /\ MaxLoop \in Nat /\ LongQuiet = Timeout + 2 * MaxLoop
    BY Constants DEF LongQuiet
<1> QED
    BY <1>1, <1>2, <1>3
    DEF TimesInv, SizeRead, FreshKept, SilenceInv, SilenceEmpties, SilentCall, SilentCallBefore, Least

\* What the steps within cat_driver_sync_data discard is never a byte that came after
\* the last pause, whatever came in between them.
LEMMA StaleStep ==
    ASSUME TypeOK, CloneInv, FreshKept, SizeRead, [Next]_vars, pc = "expire", loopAge' = loopAge
    PROVE  fresh' >= fresh
<1>0. RestType /\ buffer \in Seq(Byte) /\ next \in 1..CmdLen
    BY TypeParts DEF RingType, RestType, TypeOK
<1>1. ASSUME NEW bytes \in Seq(Byte), NEW whole, Receive(bytes, whole) PROVE fresh' >= fresh
    <2> DEFINE k == Stored(Len(bytes))
    <2>1. k \in Nat
        <3>1. k \in 0..Len(bytes)
            BY <1>0, <1>1, ReceiveParts DEF TypeOK
        <3> QED
            BY <3>1
    <2>2. fresh' = IF k = 0 THEN fresh ELSE IF age > Timeout THEN k ELSE fresh + k
        BY <1>1 DEF Receive
    <2> HIDE DEF k
    <2> QED
        BY <2>1, <2>2, Numbers DEF FreshKept
<1>2. ASSUME NEW n \in 1..MaxPacket, Send(n) PROVE fresh' >= fresh
    <2> DEFINE bytes == [i \in 1..n |-> ((next + i - 2) % CmdLen) + 1]
    <2>1. bytes \in Seq(Byte)
        BY <1>0, SentBytes
    <2>2. Receive(bytes, state \notin {"CLONEOUT", "CLONEIN"})
        BY <1>2 DEF Send
    <2> HIDE DEF bytes
    <2> QED
        BY <2>1, <2>2, <1>1
<1>3. CASE SendAck
    <2>1. <<Ack>> \in Seq(Byte)
        BY Constants DEF Ack, Byte
    <2>2. Receive(<<Ack>>, FALSE)
        BY <1>3 DEF SendAck
    <2> QED
        BY <2>1, <2>2, <1>1
<1>4. CASE BreakOff \/ Plug \/ Unplug \/ SetLine \/ UNCHANGED vars
    BY <1>4, Numbers DEF BreakOff, Plug, Unplug, SetLine, vars
<1>5. CASE Expire
    <2>1. CASE bufsz > 0
        <3>1. Remove(Least(1, Count))
            BY <1>5, <2>1 DEF Expire
        <3>2. Least(1, Count) = 1 /\ 1 \in 0..Count
            BY <2>1, Numbers DEF SizeRead, Least
        <3>3. fresh' = Least(fresh, Count - 1)
            BY <1>0, <3>1, <3>2, RemoveParts
        <3> HIDE DEF Count
        <3> QED
            BY <2>1, <3>3, Numbers DEF FreshKept, Least
    <2>2. CASE ~(bufsz > 0)
        BY <1>5, <2>2, Numbers DEF Expire
    <2> QED
        BY <2>1, <2>2
<1>6. ~Tick
    BY Numbers DEF Tick
<1>7. ~CloneOut /\ ~CloneIn /\ ~Disconnected /\ ~SyncSize /\ ~CloneStart
    BY DEF CloneOut, CloneIn, Disconnected, SyncSize, CloneStart, Enter
<1>8. ~SyncAge /\ ~HandleCommands /\ ~PttLine
    BY DEF SyncAge, HandleCommands, PttLine
<1> QED
    BY <1>2, <1>3, <1>4, <1>5, <1>6, <1>7, <1>8 DEF Next, MainLoop, Environment

\* "the first bufsz bytes are older than 200ms, if in the meantime new bytes arrive, no
\* problem, we keep them" (cat_driver.c:169-172): for every size and every time.
THEOREM StaleOnly == Spec => ExpiresOnlyStale
<1>1. Init => TypeOK /\ CloneInv /\ TimesInv
    BY TypeInit, TimesInit DEF Init, CloneInv
<1>2. TypeOK /\ CloneInv /\ TimesInv /\ [Next]_vars => (TypeOK /\ CloneInv /\ TimesInv)'
    BY TypeStep, CloneInvStep, TimesStep
<1>3. TypeOK /\ CloneInv /\ TimesInv /\ [Next]_vars
          => [pc = "expire" /\ loopAge' = loopAge => fresh' >= fresh]_vars
    BY StaleStep DEF TimesInv
<1> QED
    BY <1>1, <1>2, <1>3, PTL DEF Spec, ExpiresOnlyStale

--------------------------------------------------------------------------------
(***************************************************************************)
(* Commands are executed as they were sent.                                *)
(***************************************************************************)

LEMMA LeastElement ==
    ASSUME NEW T, T \subseteq Nat, T # {}
    PROVE  \E x \in T : \A y \in T : x <= y
<1>1. PICK x \in T : \A y \in T : ~ (<<y, x>> \in OpToRel(<, Nat))
    BY NatLessThanWellFounded, WFMin
<1>2. \A y \in T : ~ (y < x)
    BY <1>1, Zenon DEF OpToRel
<1> QED
    BY <1>2

\* A stream that begins with a command begins with a whole one.
LEMMA WholeCommand ==
    ASSUME buffer \in Seq(Byte), Stream(buffer), Count >= CmdLen, buffer[1] = 1
    PROVE  \A i \in 1..CmdLen : buffer[i] = i
<1> DEFINE Wrong == {i \in 1..CmdLen : buffer[i] # i}
<1>0. Count \in Nat /\ CmdLen \in Nat /\ Count = Len(buffer)
    BY Constants DEF Count
<1> SUFFICES ASSUME Wrong # {} PROVE FALSE
    OBVIOUS
<1>1. PICK x \in Wrong : \A y \in Wrong : x <= y
    <2>1. Wrong \subseteq Nat
        BY <1>0
    <2> HIDE DEF Wrong
    <2> QED
        BY <2>1, LeastElement
<1>2. x \in 1..CmdLen /\ buffer[x] # x /\ x # 1
    OBVIOUS
<1>3. x - 1 \in 1..CmdLen /\ x - 1 \in 1..Len(buffer)-1 /\ (x - 1) + 1 = x /\ ~(x <= x - 1)
    BY <1>0, <1>2
<1>4. x - 1 \notin Wrong
    BY <1>1, <1>3
<1>5. buffer[x - 1] = x - 1
    BY <1>3, <1>4
<1>6. buffer[(x - 1) + 1] = Following(buffer[x - 1])
    BY <1>3 DEF Stream
<1>7. Following(x - 1) = x
    BY <1>0, <1>2, <1>3 DEF Following
<1> QED
    BY <1>2, <1>3, <1>5, <1>6, <1>7

\* What is left of a stream is one.
LEMMA StreamRemoved ==
    ASSUME buffer \in Seq(Byte), Stream(buffer), NEW n \in 0..Count, Remove(n)
    PROVE  Stream(buffer')
<1>0. Count \in Nat /\ Count = Len(buffer)
    BY DEF Count
<1>1. Count' = Count - n /\ Len(buffer') = Count - n
      /\ \A i \in 1..Count-n : buffer'[i] = buffer[i+n]
    BY RemoveParts DEF Count
<1> SUFFICES ASSUME NEW i \in 1..Len(buffer')-1 PROVE buffer'[i+1] = Following(buffer'[i])
    BY DEF Stream
<1> HIDE DEF Count
<1>2. /\ i \in 1..Count-n /\ i + 1 \in 1..Count-n
      /\ i + n \in 1..Len(buffer)-1 /\ (i + 1) + n = (i + n) + 1
    BY <1>0, <1>1
<1>3. buffer[(i + n) + 1] = Following(buffer[i + n])
    BY <1>2 DEF Stream
<1> QED
    BY <1>1, <1>2, <1>3

\* A stream goes on with what the host sends next.
LEMMA StreamSent ==
    ASSUME buffer \in Seq(Byte), Count < Size, NEW bytes \in Seq(Byte), NEW whole,
           Receive(bytes, whole), Stored(Len(bytes)) = Len(bytes),
           Stream(buffer), Stream(bytes), Count > 0 => bytes[1] = Following(buffer[Count])
    PROVE  Stream(buffer')
<1> DEFINE n == Len(bytes)
<1>0. Count \in Nat /\ Count = Len(buffer) /\ n \in Nat
    BY DEF Count
<1>1. /\ Len(buffer') = Count + n
      /\ \A i \in 1..Count : buffer'[i] = buffer[i]
      /\ \A i \in 1..n : buffer'[Count + i] = bytes[i]
    BY ReceiveParts DEF Count
<1> SUFFICES ASSUME NEW i \in 1..Len(buffer')-1 PROVE buffer'[i+1] = Following(buffer'[i])
    BY DEF Stream
<1>2. \A j \in 1..Count-1 : buffer[j+1] = Following(buffer[j])
    BY <1>0 DEF Stream
<1>3. \A j \in 1..n-1 : bytes[j+1] = Following(bytes[j])
    BY DEF Stream
<1> HIDE DEF Count, n
<1>4. CASE i < Count
    <2>1. i \in 1..Count-1 /\ i \in 1..Count /\ i + 1 \in 1..Count
        BY <1>0, <1>1, <1>4
    <2> QED
        BY <1>1, <1>2, <2>1
<1>5. CASE i = Count
    <2>1. Count > 0 /\ i \in 1..Count /\ 1 \in 1..n
        BY <1>0, <1>1, <1>5
    <2>2. buffer'[i + 1] = bytes[1]
        BY <1>1, <1>5, <2>1
    <2> QED
        BY <1>1, <1>5, <2>1, <2>2
<1>6. CASE i > Count
    <2> DEFINE j == i - Count
    <2>1. j \in 1..n-1 /\ j \in 1..n /\ j + 1 \in 1..n /\ i = Count + j /\ i + 1 = Count + (j + 1)
        BY <1>0, <1>1, <1>6
    <2> HIDE DEF j
    <2>2. buffer'[Count + (j + 1)] = bytes[j + 1] /\ buffer'[Count + j] = bytes[j]
        BY <1>1, <2>1
    <2> QED
        BY <1>3, <2>1, <2>2
<1> QED
    BY <1>0, <1>4, <1>5, <1>6

\* What FramedInv is about, as numbers.
LEMMA FramedKept ==
    ASSUME FramedInv, UNCHANGED <<buffer, next>>, Drop' = Drop,
           framed' => framed, state' = state \/ state' = "CAT" \/ ~framed',
           age' = age, quiet' = quiet \/ next = 1,
           ~connected' => ~connected \/ next = 1
    PROVE  FramedInv'
<1>1. UNCHANGED Count
    BY DEF Count
<1> HIDE DEF Count, Drop
<1>2. Stream(buffer') <=> Stream(buffer)
    BY DEF Stream
<1> QED
    BY <1>1, <1>2 DEF FramedInv

LEMMA FramedInit == Init => FramedInv
<1> SUFFICES ASSUME Init PROVE FramedInv
    OBVIOUS
<1>1. Count = 0 /\ Len(buffer) = 0 /\ Drop = 0 /\ next = 1 /\ state = "INIT"
    BY DEF Init, Count, Drop
<1>2. Stream(buffer)
    BY <1>1 DEF Stream
<1> HIDE DEF Count, Drop
<1> QED
    BY <1>1, <1>2 DEF FramedInv

\* The host goes on with its commands: a packet either continues what is in the ring
\* or, after a pause, finds the ring empty.
LEMMA FramedSend ==
    ASSUME TypeOK, TimesInv, FramedInv, NEW n \in 1..MaxPacket, Send(n)
    PROVE  FramedInv'
<1> DEFINE bytes == [i \in 1..n |-> ((next + i - 2) % CmdLen) + 1]
           whole == state \notin {"CLONEOUT", "CLONEIN"}
<1>0. RestType /\ buffer \in Seq(Byte) /\ Count < Size /\ next \in 1..CmdLen /\ n \in Nat /\ n > 0
    BY TypeParts, Constants DEF RingType, RestType
<1>1. /\ bytes \in Seq(Byte) /\ Len(bytes) = n
      /\ bytes[1] = next /\ next' = Following(bytes[n])
      /\ Stream(bytes)
    <2>1. /\ bytes \in Seq(Byte) /\ Len(bytes) = n /\ bytes[1] = next
          /\ ((next + n - 1) % CmdLen) + 1 = Following(bytes[n])
          /\ \A i \in 1..n-1 : bytes[i+1] = Following(bytes[i])
        BY <1>0, SentBytes
    <2>2. next' = ((next + n - 1) % CmdLen) + 1
        BY DEF Send
    <2> HIDE DEF bytes
    <2> QED
        BY <2>1, <2>2 DEF Stream
<1>2. Receive(bytes, whole)
    BY DEF Send
<1>3. connected' /\ connected
    BY DEF Send, Receive
<1> SUFFICES ASSUME framed'
             PROVE  /\ state' \in {"INIT", "CAT"}
                    /\ Stream(buffer')
                    /\ Count' > 0 => next' = Following(buffer'[Count'])
                    /\ Count' > Drop' => buffer'[Drop' + 1] = 1
                    /\ Count' = Drop' /\ next' # 1 => quiet' > Timeout
                    /\ next' # 1 => quiet' >= age'
    BY <1>3 DEF FramedInv
<1> HIDE DEF bytes
<1>4. /\ Stored(n) = n /\ whole /\ (next = 1 \/ quiet <= Timeout)
      /\ framed \/ (next = 1 /\ quiet > LongQuiet)
      /\ quiet' = 0 /\ UNCHANGED <<state, pc, bufsz, loopAge>>
      /\ age' = IF Stored(n) > 0 THEN 0 ELSE age
    BY <1>1, <1>2 DEF Receive, proto, main
<1>5. state \in {"INIT", "CAT"}
    BY <1>0, <1>4 DEF RestType
<1>6. /\ Count \in Nat /\ Count' = Count + n
      /\ \A i \in 1..Count : buffer'[i] = buffer[i]
      /\ \A i \in 1..n : buffer'[Count + i] = bytes[i]
    BY <1>0, <1>1, <1>2, <1>4, ReceiveParts
<1>7. Drop' = Drop /\ Drop \in Nat /\ Drop <= Count
    BY <1>4, Numbers DEF Drop, TimesInv, SizeRead
<1>8. \/ framed /\ (Count = Drop => next = 1)
      \/ Count = 0 /\ Drop = 0 /\ next = 1
    <2>1. CASE quiet > LongQuiet
        <3>1. SilentCallBefore
            BY <1>3, <1>5, <2>1, Numbers DEF SilentCallBefore
        <3>2. Count = 0
            BY <3>1 DEF TimesInv, SilenceEmpties
        <3>3. next = 1
            BY <1>4, <2>1, Numbers
        <3> QED
            BY <1>7, <3>2, <3>3
    <2>2. CASE ~(quiet > LongQuiet)
        <3>1. framed
            BY <1>4, <2>2
        <3>2. Count = Drop /\ next # 1 => quiet > Timeout
            BY <3>1 DEF FramedInv
        <3> QED
            BY <1>4, <3>1, <3>2, Numbers
    <2> QED
        BY <2>1, <2>2
<1>9. Stream(buffer) /\ (Count > 0 => next = Following(buffer[Count]))
      /\ (Count > Drop => buffer[Drop + 1] = 1)
    <2>1. CASE framed
        BY <2>1 DEF FramedInv
    <2>2. CASE Count = 0 /\ Drop = 0
        BY <2>2 DEF Stream, Count
    <2> QED
        BY <1>8, <2>1, <2>2
<1> HIDE DEF Drop
<1>10. Stream(buffer')
    BY <1>0, <1>1, <1>2, <1>4, <1>9, StreamSent
<1> HIDE DEF Count, whole
<1>11. next' = Following(buffer'[Count'])
    <2>1. n \in 1..n
        BY <1>0
    <2> QED
        BY <1>1, <1>6, <2>1
<1>12. buffer'[Drop + 1] = 1
    <2>1. CASE Count > Drop
        <3>1. Drop + 1 \in 1..Count
            BY <1>6, <1>7, <2>1
        <3> QED
            BY <1>6, <1>9, <2>1, <3>1
    <2>2. CASE ~(Count > Drop)
        <3>1. Count = Drop /\ next = 1 /\ 1 \in 1..n
            BY <1>0, <1>6, <1>7, <1>8, <2>2
        <3> QED
            BY <1>1, <1>6, <3>1
    <2> QED
        BY <2>1, <2>2
<1>13. Count' # Drop' /\ age' = 0 /\ quiet' = 0
    BY <1>0, <1>4, <1>6, <1>7
<1> QED
    BY <1>4, <1>5, <1>7, <1>10, <1>11, <1>12, <1>13

\* The main loop, which is never longer than Timeout, discards either all of what it
\* found or nothing, and takes whole commands.
LEMMA FramedSyncAge ==
    ASSUME TypeOK, TimesInv, FramedInv, MaxLoop <= Timeout, SyncAge
    PROVE  FramedInv'
<1>1. /\ pc = "sized" /\ UNCHANGED <<buffer, age, state, connected, next, quiet, framed>>
      /\ \/ pc' = "expire" /\ bufsz' = bufsz /\ bufsz > 0 /\ age > Timeout
         \/ pc' = "commands"
    BY Numbers DEF SyncAge, proto, host
<1>2. Drop = 0 /\ UNCHANGED Count
    BY <1>1 DEF Drop, Count
<1>3. CASE pc' = "commands"
    <2>1. Drop' = Drop
        BY <1>2, <1>3 DEF Drop
    <2> QED
        BY <1>1, <2>1, FramedKept
<1>4. CASE pc' = "expire"
    <2>1. bufsz = Count /\ Drop' = Count'
        BY <1>1, <1>2, <1>4, Numbers DEF TimesInv, SizeRead, Drop
    <2>2. Stream(buffer') <=> Stream(buffer)
        BY <1>1 DEF Stream
    <2> HIDE DEF Count, Drop
    <2>3. framed => state \in {"INIT", "CAT"} /\ Stream(buffer)
                    /\ (Count > 0 => next = Following(buffer[Count]))
                    /\ (next # 1 => quiet >= age)
        BY DEF FramedInv
    <2>4. (next # 1 => quiet >= age) => (next # 1 => quiet > Timeout)
        BY <1>1, <1>4, Numbers
    <2>5. ~(Count' > Drop')
        BY <2>1, <1>2, Numbers
    <2>6. ~connected' => next' = 1
        BY <1>1 DEF FramedInv
    <2> QED
        BY <1>1, <1>2, <2>2, <2>3, <2>4, <2>5, <2>6 DEF FramedInv
<1> QED
    BY <1>1, <1>3, <1>4

LEMMA FramedExpire ==
    ASSUME TypeOK, TimesInv, FramedInv, Expire
    PROVE  FramedInv'
<1>0. buffer \in Seq(Byte)
    BY DEF TypeOK
<1>1. pc = "expire" /\ Drop = bufsz /\ bufsz <= Count
      /\ UNCHANGED <<age, state, connected, next, quiet, framed>>
    BY DEF Expire, proto, host, Drop, TimesInv, SizeRead
<1>2. CASE bufsz > 0
    <2>1. pc' = pc /\ bufsz' = bufsz - 1 /\ Remove(Least(1, Count))
        BY <1>2 DEF Expire
    <2>2. Least(1, Count) = 1 /\ 1 \in 0..Count
        BY <1>1, <1>2, Numbers DEF Least
    <2>3. Count' = Count - 1 /\ \A i \in 1..Count-1 : buffer'[i] = buffer[i+1]
        BY <1>0, <2>1, <2>2, RemoveParts
    <2>4. Drop' = Drop - 1
        BY <1>1, <2>1 DEF Drop
    <2>5. Stream(buffer) => Stream(buffer')
        BY <1>0, <2>1, <2>2, StreamRemoved
    <2> HIDE DEF Count, Drop
    <2>6. Count' > 0 => buffer'[Count'] = buffer[Count] /\ Count > 0
        <3>1. Count' > 0 => Count - 1 \in 1..Count-1 /\ (Count - 1) + 1 = Count /\ Count > 0
            BY <2>3, Numbers
        <3> QED
            BY <2>3, <3>1
    <2>7. Count' > Drop' => buffer'[Drop' + 1] = buffer[Drop + 1] /\ Count > Drop
        <3>1. Count' > Drop' => Drop \in 1..Count-1 /\ Drop' + 1 = Drop /\ Count > Drop
            BY <1>1, <1>2, <2>3, <2>4, Numbers
        <3> QED
            BY <2>3, <3>1
    <2>8. Count' = Drop' => Count = Drop
        BY <1>1, <2>3, <2>4, Numbers
    <2> QED
        BY <1>1, <2>5, <2>6, <2>7, <2>8 DEF FramedInv
<1>3. CASE ~(bufsz > 0)
    <2>1. pc' = "commands" /\ UNCHANGED buffer
        BY <1>3 DEF Expire
    <2>2. Drop' = Drop
        BY <1>1, <1>3, <2>1, Numbers DEF Drop
    <2> QED
        BY <1>1, <2>1, <2>2, FramedKept
<1> QED
    BY <1>2, <1>3

LEMMA FramedCommands ==
    ASSUME TypeOK, FramedInv, HandleCommands
    PROVE  FramedInv'
<1>0. buffer \in Seq(Byte)
    BY DEF TypeOK
<1>1. pc = "commands" /\ pc' \in {"commands", "ptt"} /\ Drop = 0 /\ Drop' = 0
      /\ UNCHANGED <<age, state, connected, next, quiet, framed>>
    BY DEF HandleCommands, proto, host, Drop
<1>2. CASE Count >= CmdLen
    <2>1. Remove(CmdLen) /\ CmdLen \in 0..Count
        BY <1>2, Numbers DEF HandleCommands
    <2>2. Count' = Count - CmdLen /\ \A i \in 1..Count-CmdLen : buffer'[i] = buffer[i+CmdLen]
        BY <1>0, <2>1, RemoveParts
    <2> SUFFICES ASSUME framed
                 PROVE  /\ state' \in {"INIT", "CAT"}
                        /\ Stream(buffer')
                        /\ Count' > 0 => next' = Following(buffer'[Count'])
                        /\ Count' > Drop' => buffer'[Drop' + 1] = 1
                        /\ Count' = Drop' /\ next' # 1 => quiet' > Timeout
                        /\ next' # 1 => quiet' >= age'
        BY <1>1 DEF FramedInv
    <2>3. Count > 0 /\ CmdLen \in 1..Count
        BY <1>2, Numbers
    <2>4. /\ Stream(buffer) /\ state \in {"INIT", "CAT"} /\ (next # 1 => quiet >= age)
          /\ next = Following(buffer[Count]) /\ buffer[1] = 1
        BY <1>1, <2>3 DEF FramedInv
    <2>5. buffer[CmdLen] = CmdLen
        <3>1. CmdLen \in 1..CmdLen
            BY Numbers
        <3> QED
            BY <1>0, <1>2, <2>4, <3>1, WholeCommand
    <2>6. Stream(buffer')
        BY <1>0, <2>1, <2>4, StreamRemoved
    <2>7. \A i \in 1..Count-1 : buffer[i+1] = Following(buffer[i])
        BY <2>4 DEF Stream, Count
    <2> HIDE DEF Count, Drop
    <2>8. Count' > 0 => buffer'[Count'] = buffer[Count]
        <3>1. Count' > 0 => Count' \in 1..Count-CmdLen /\ Count' + CmdLen = Count
            BY <2>2, Numbers
        <3> QED
            BY <2>2, <3>1
    <2>9. Count' > 0 => buffer'[1] = 1
        <3>1. Count' > 0 => 1 \in 1..Count-CmdLen /\ CmdLen \in 1..Count-1 /\ 1 + CmdLen = CmdLen + 1
            BY <2>2, Numbers
        <3>2. Count' > 0 => buffer'[1] = buffer[CmdLen + 1]
                            /\ buffer[CmdLen + 1] = Following(buffer[CmdLen])
            BY <2>2, <2>7, <3>1
        <3> QED
            BY <2>5, <3>2 DEF Following
    <2>10. Count' = 0 => next = 1
        <3>1. Count' = 0 => Count = CmdLen
            BY <2>2, Numbers
        <3> QED
            BY <2>4, <2>5, <3>1 DEF Following
    <2> QED
        BY <1>1, <2>4, <2>6, <2>8, <2>9, <2>10
<1>3. CASE ~(Count >= CmdLen)
    <2>1. UNCHANGED buffer
        BY <1>3 DEF HandleCommands
    <2> QED
        BY <1>1, <2>1, FramedKept
<1> QED
    BY <1>2, <1>3

LEMMA FramedDisconnected ==
    ASSUME TypeOK, FramedInv, Disconnected
    PROVE  FramedInv'
<1>0. buffer \in Seq(Byte) /\ Count \in Nat
    BY Numbers DEF TypeOK
<1>1. /\ pc = "idle" /\ pc' = "ptt" /\ ~connected /\ Drop = 0 /\ Drop' = 0
      /\ UNCHANGED <<age, next, quiet, connected>>
    BY DEF Disconnected, Enter, host, Drop
<1>2. next = 1
    BY <1>1 DEF FramedInv
<1>3. CASE state # "INIT"
    <2>1. Remove(Count) /\ state' = "INIT" /\ Count \in 0..Count
        BY <1>0, <1>3 DEF Disconnected
    <2>2. Count' = Count - Count
        BY <1>0, <2>1, RemoveParts
    <2>3. Count' = 0
        BY <1>0, <2>2
    <2>4. Stream(buffer')
        BY <2>3 DEF Stream, Count
    <2> HIDE DEF Count, Drop
    <2> QED
        BY <1>1, <1>2, <2>1, <2>3, <2>4 DEF FramedInv
<1>4. CASE state = "INIT"
    <2>1. UNCHANGED <<buffer, state, framed>>
        BY <1>4 DEF Disconnected
    <2> QED
        BY <1>1, <2>1, FramedKept
<1> QED
    BY <1>3, <1>4

LEMMA FramedStep ==
    MaxLoop <= Timeout /\ TypeOK /\ CloneInv /\ TimesInv /\ FramedInv /\ [Next]_vars => FramedInv'
<1> SUFFICES ASSUME MaxLoop <= Timeout, TypeOK, CloneInv, TimesInv, FramedInv, [Next]_vars
             PROVE  FramedInv'
    OBVIOUS
<1>0. RestType /\ (~connected => next = 1)
    BY TypeParts DEF FramedInv
<1>1. CASE \E n \in 1..MaxPacket : Send(n)
    BY <1>1, FramedSend
<1>2. CASE SendAck \/ BreakOff \/ CloneStart
    <2>1. framed' = FALSE /\ (next' = 1 \/ (next' = next /\ connected' = connected) \/ connected')
        BY <1>2 DEF SendAck, Receive, BreakOff, CloneStart, host
    <2> QED
        BY <1>0, <2>1 DEF FramedInv
<1>3. CASE Plug \/ SetLine \/ UNCHANGED vars
    <2>1. /\ UNCHANGED <<buffer, next, pc, bufsz, framed, state, age>>
          /\ quiet' = quiet \/ ~connected
          /\ connected' = connected \/ ~connected
        BY <1>3 DEF Plug, SetLine, vars, proto, main, host
    <2>2. Drop' = Drop
        BY <2>1 DEF Drop
    <2> QED
        BY <1>0, <2>1, <2>2, FramedKept
<1>4. CASE Unplug
    <2>1. next' = 1 /\ framed' = (framed /\ next = 1)
          /\ UNCHANGED <<buffer, age, pc, bufsz, state, quiet>>
        BY <1>4 DEF Unplug, proto, main
    <2>2. UNCHANGED <<Drop, Count>>
        BY <2>1 DEF Drop, Count
    <2>3. Stream(buffer') <=> Stream(buffer)
        BY <2>1 DEF Stream
    <2> HIDE DEF Drop, Count
    <2> QED
        BY <2>1, <2>2, <2>3 DEF FramedInv
<1>5. CASE Disconnected
    BY <1>5, FramedDisconnected
<1>6. CASE SyncSize \/ PttLine
    <2>1. /\ UNCHANGED <<buffer, next, framed, age, quiet, connected>>
          /\ state' = state \/ state' = "CAT"
          /\ pc # "expire" /\ pc' # "expire"
        BY <1>6 DEF SyncSize, PttLine, Enter, proto, host
    <2>2. Drop' = Drop
        BY <2>1 DEF Drop
    <2> QED
        BY <2>1, <2>2, FramedKept
<1>7. CASE SyncAge
    BY <1>7, FramedSyncAge
<1>8. CASE Expire
    BY <1>8, FramedExpire
<1>9. CASE HandleCommands
    BY <1>9, FramedCommands
<1>10. CASE CloneOut \/ CloneIn
    <2>1. state \in {"CLONEOUT", "CLONEIN"} /\ UNCHANGED <<next, connected, framed>>
        BY <1>0, <1>10, CloneSteps
    <2> QED
        BY <2>1 DEF FramedInv
<1>11. CASE Tick
    <2>1. /\ age' = Older(age, Timeout) /\ quiet' = Older(quiet, LongQuiet)
          /\ UNCHANGED <<buffer, pc, bufsz, state, next, connected, framed>>
        BY <1>11 DEF Tick
    <2>2. UNCHANGED <<Drop, Count>>
        BY <2>1 DEF Drop, Count
    <2>3. Stream(buffer') <=> Stream(buffer)
        BY <2>1 DEF Stream
    <2>4. (quiet > Timeout => quiet' > Timeout) /\ (quiet >= age => quiet' >= age')
        BY <2>1, Numbers DEF Older
    <2> HIDE DEF Drop, Count
    <2> QED
        BY <2>1, <2>2, <2>3, <2>4 DEF FramedInv
<1> QED
    BY <1>1, <1>2, <1>3, <1>4, <1>5, <1>6, <1>7, <1>8, <1>9, <1>10, <1>11
    DEF Next, MainLoop, Environment

\* A command is never put together from parts of two, for every length of a command,
\* of a packet and of the ring: if the main loop is never longer than Timeout, which
\* "needs to be longer than the longest running operation" (cat_driver.c:147-149).
THEOREM CommandsStayWhole ==
    ASSUME MaxLoop <= Timeout
    PROVE  Spec => []OnlyWholeCommands
<1> DEFINE IInv == TypeOK /\ CloneInv /\ TimesInv /\ FramedInv
<1>1. Init => IInv
    BY TypeInit, TimesInit, FramedInit DEF Init, CloneInv
<1>2. IInv /\ [Next]_vars => IInv'
    BY TypeStep, CloneInvStep, TimesStep, FramedStep
<1>3. IInv => OnlyWholeCommands
    <2> SUFFICES ASSUME IInv, pc = "commands", framed, Count >= CmdLen
                 PROVE  SubSeq(buffer, 1, CmdLen) = [i \in 1..CmdLen |-> i]
        BY DEF OnlyWholeCommands
    <2>1. buffer \in Seq(Byte) /\ CmdLen \in 1..Len(buffer)
        BY Numbers DEF TypeOK, Count
    <2>2. Stream(buffer) /\ buffer[1] = 1
        BY Numbers DEF FramedInv, Drop
    <2>3. \A i \in 1..CmdLen : buffer[i] = i
        BY <2>1, <2>2, WholeCommand
    <2>4. /\ SubSeq(buffer, 1, CmdLen) = [i \in 1..CmdLen |-> buffer[i]]
        BY <2>1
    <2> QED
        BY <2>3, <2>4
<1> HIDE DEF IInv
<1>4. Spec => []IInv
    BY <1>1, <1>2, PTL DEF Spec
<1> QED
    BY <1>3, <1>4, PTL
================================================================================
