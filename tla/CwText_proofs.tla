----------------------------- MODULE CwText_proofs -----------------------------
(***************************************************************************)
(* The electronic keyer, for every alphabet of Morse codes, every set of   *)
(* texts, all keying and break times and any number of presses of the      *)
(* paddles: an iambic keyer alternates while squeezed, and a text is sent  *)
(* as it was written.                                                      *)
(***************************************************************************)
EXTENDS CwText, SequenceTheorems, TLAPS

\* A keyer at rest has nothing left of the character before; one that is not has an
\* element to send or has sent one.
Coherent(k) ==
    /\ k.state = "idle" => k.pressed = {} /\ ~k.end /\ k.code = <<>>
                           /\ k.sending \in {<<>>, <<"blank">>}
    /\ k.state = "wait" => k.pressed # {}
    /\ k.state \in {"keyUp", "pause"} => k.code # <<>>

\* CW_DIT_PROC is set from the beginning of a dit to its end; a squeezed keyer that waits
\* for the transmitter has a dit to send after a dah.
AltInv ==
    key.mode # "ultimate" =>
      /\ key.state \in {"idle", "wait"} => ~key.ditProc
      /\ key.state \in {"keyUp", "pause"} => (key.ditProc <=> history.last = "dit")
      /\ history.squeezed => lines = Element /\ key.state # "idle"
      /\ history.squeezed /\ key.state = "wait" => history.last = "dah" /\ "dit" \in key.pressed

\* What was sent of a letter, the element that waits for the transmitter and what is left
\* make up the letter that was taken.
Sending(k, c) ==
    /\ c \in DOMAIN Morse /\ k.sending \in Seq(Element)
    /\ \/ k.state \in {"keyUp", "pause"} /\ k.pressed = {} /\ k.code \o k.sending = Morse[c]
       \/ \E e \in Element : /\ k.state = "wait" /\ k.pressed = {e}
                             /\ Append(k.code, e) \o k.sending = Morse[c]

\* Between letters nothing is left of one but a blank, which is the last character taken.
Between(k, c) == k.state = "idle" /\ c \in {"blank", NoChar} /\ (c = "blank" => k.sending = <<"blank">>)

TextInv ==
    ~history.byHand => lines = {} /\ (Between(key, history.taken) \/ Sending(key, history.taken))

--------------------------------------------------------------------------------
(***************************************************************************)
(* The keyer's operations, one by one.                                     *)
(***************************************************************************)

LEMMA Sequences ==
    ASSUME NEW S, NEW s \in Seq(S)
    PROVE  /\ s # <<>> => Tail(s) \in Seq(S) /\ Len(Tail(s)) = Len(s) - 1 /\ Head(s) \in S
           /\ Len(s) \in Nat /\ (s = <<>> <=> Len(s) = 0)
           /\ \A e \in S : Append(s, e) \in Seq(S) /\ Len(Append(s, e)) = Len(s) + 1
                           /\ Append(s, e)[Len(Append(s, e))] = e
OBVIOUS

\* What does not change in a run.
Same(n, k) == n.mode = k.mode /\ n.breakTime = k.breakTime

LEMMA Times ==
    /\ \A e \in Element : ElementTime[e] \in Nat \ {0}
    /\ Pause \in Nat /\ Space \in Nat /\ Space >= 2 /\ MaxCode \in Nat
BY TimesAssumption, MorseAssumption DEF Element

LEMMA BeginResult ==
    ASSUME NEW k \in Keyer, NEW e \in Element
    PROVE  LET n == Begin(k, e)
           IN  /\ n \in Keyer /\ Coherent(n) /\ Same(n, k)
               /\ n.state = "keyUp" /\ n.pressed = {} /\ n.timer = ElementTime[e] - 1
               /\ n.ditProc = (k.ditProc \/ e = "dit") /\ n.sending = k.sending
               /\ n.code[Len(n.code)] = e /\ n.code # <<>>
               /\ Len(k.code) <= MaxCode => n.code = Append(k.code, e)
<1> DEFINE kept == IF Len(k.code) > MaxCode THEN Tail(k.code) ELSE k.code
           code == Append(kept, e)
           t    == ElementTime[e] - 1
           dit  == k.ditProc \/ e = "dit"
           n    == [k EXCEPT !.state = "keyUp", !.timer = t, !.pressed = {}, !.ditProc = dit,
                             !.code = code]
<1>1. k.code \in Seq(Element) /\ Len(k.code) <= MaxCode + 1 /\ MaxCode \in Nat
    BY Times DEF Keyer
<1>2. Len(k.code) \in Nat /\ (Len(k.code) > MaxCode => k.code # <<>>)
      /\ (k.code # <<>> => Tail(k.code) \in Seq(Element) /\ Len(Tail(k.code)) = Len(k.code) - 1)
    BY <1>1, Sequences, Times
<1>3. kept \in Seq(Element) /\ Len(kept) <= MaxCode
    BY <1>1, <1>2
<1> HIDE DEF kept
<1>4. code \in Seq(Element) /\ Len(code) = Len(kept) + 1 /\ code[Len(code)] = e /\ Len(kept) \in Nat
    BY <1>3, Sequences, Zenon
<1>5. code # <<>> /\ Len(code) <= MaxCode + 1
    <2>1. code = <<>> <=> Len(code) = 0
        BY <1>4, Sequences, Zenon
    <2> QED
        BY <1>1, <1>3, <1>4, <2>1
<1>6. Len(k.code) <= MaxCode => code = Append(k.code, e)
    BY <1>1, <1>2 DEF kept
<1>7. t \in Nat /\ dit \in BOOLEAN
    BY Times
<1>8. Begin(k, e) = n
    BY DEF Begin, kept
<1> HIDE DEF code, t, dit
<1>9. /\ n \in Keyer /\ Same(n, k) /\ n.state = "keyUp" /\ n.pressed = {} /\ n.timer = t
      /\ n.ditProc = dit /\ n.sending = k.sending /\ n.code = code
    BY <1>4, <1>5, <1>7 DEF Keyer, Same
<1> HIDE DEF n
<1>10. Coherent(n)
    BY <1>5, <1>9 DEF Coherent
<1> QED
    BY <1>4, <1>5, <1>6, <1>8, <1>9, <1>10 DEF t, dit


\* The keyer goes on with the rest of a letter, or waits, with nothing else changed.
LEMMA NextElementResult ==
    ASSUME NEW k \in Keyer
    PROVE  LET n == NextElement(k)
           IN  /\ n \in Keyer /\ Same(n, k) /\ n.state = k.state /\ n.end = k.end
               /\ n.code = k.code /\ n.ditProc = k.ditProc /\ n.space = k.space
               /\ k.pressed \subseteq n.pressed
               /\ k.sending \in {<<>>, <<"blank">>} => n.sending = k.sending /\ n.pressed = k.pressed
               /\ k.sending \notin {<<>>, <<"blank">>} =>
                    /\ k.sending \in Seq(Element) /\ k.sending # <<>> /\ Head(k.sending) \in Element
                    /\ n.pressed = k.pressed \union {Head(k.sending)} /\ n.sending = Tail(k.sending)
                    /\ n.sending \in Seq(Element)
<1> DEFINE n == NextElement(k)
<1>1. CASE k.sending \in {<<>>, <<"blank">>}
    <2>1. n = k
        BY <1>1 DEF NextElement
    <2> QED
        BY <1>1, <2>1 DEF Same
<1>2. CASE k.sending \notin {<<>>, <<"blank">>}
    <2> DEFINE h == Head(k.sending)
               t == Tail(k.sending)
               p == k.pressed \union {h}
    <2>1. k.sending \in Seq(Element) /\ k.sending # <<>>
        BY <1>2 DEF Keyer
    <2>2. h \in Element /\ t \in Seq(Element)
        BY <2>1, Sequences, Zenon
    <2>3. n = [k EXCEPT !.pressed = p, !.sending = t]
        BY <1>2 DEF NextElement
    <2>4. p \subseteq Element /\ k.pressed \subseteq p
        BY <2>2 DEF Keyer
    <2> HIDE DEF t, p
    <2>5. /\ n \in Keyer /\ Same(n, k) /\ n.state = k.state /\ n.end = k.end
          /\ n.code = k.code /\ n.ditProc = k.ditProc /\ n.space = k.space
          /\ n.pressed = p /\ n.sending = t
        BY <2>2, <2>3, <2>4 DEF Keyer, Same
    <2> QED
        BY <1>2, <2>1, <2>2, <2>4, <2>5 DEF t, p
<1> QED
    BY <1>1, <1>2

\* CW_WAIT: an element begins, a dit first, or the keyer waits with nothing else changed.
LEMMA WaitResult ==
    ASSUME NEW k \in Keyer, k.pressed # {}
    PROVE  LET n == Wait(k)
           IN  /\ n \in Keyer /\ Coherent(n) /\ Same(n, k)
               /\ \/ /\ n.state = "wait" /\ n.pressed = k.pressed /\ n.ditProc = k.ditProc
                     /\ n.code = k.code /\ n.sending = k.sending
                  \/ \E e \in k.pressed : /\ n = Begin(k, e) /\ e \in Element
                                          /\ "dit" \in k.pressed => e = "dit"
<1> DEFINE n == Wait(k)
<1>1. CASE trx # "TX"
    <2>1. n = [k EXCEPT !.state = "wait"]
        BY <1>1 DEF Wait
    <2> QED
        BY <2>1 DEF Keyer, Coherent, Same
<1>2. CASE trx = "TX"
    <2>1. PICK e \in k.pressed : n = Begin(k, e) /\ e \in Element /\ ("dit" \in k.pressed => e = "dit")
        BY <1>2 DEF Wait, Keyer, Element
    <2>2. n \in Keyer /\ Coherent(n) /\ Same(n, k)
        BY <2>1, BeginResult
    <2> QED
        BY <2>1, <2>2
<1> QED
    BY <1>1, <1>2

\* With nothing to send the keyer comes to rest, if its character is over.
Rests(n, k) ==
    /\ n.state = "idle" /\ n.pressed = {} /\ n.code = <<>> /\ ~n.end /\ n.ditProc = k.ditProc
    /\ k.end => n.sending = k.sending
    /\ ~k.end => n.sending = IF k.space = 1 /\ k.sending = <<"blank">> THEN <<>> ELSE k.sending
    /\ n.space = 0 => ~k.end /\ k.space \in {0, 1}
    /\ ~k.end /\ k.space = 1 => n.space = 0

LEMMA RestResult ==
    ASSUME NEW k \in Keyer, k.pressed = {}, k.end \/ k.code = <<>>
    PROVE  LET n == CountDown(EndOfWord(EndOfChar([k EXCEPT !.state = "idle"])))
           IN  n \in Keyer /\ Same(n, k) /\ Rests(n, k)
<1> DEFINE a == [k EXCEPT !.state = "idle"]
           b == EndOfChar(a)
           c == EndOfWord(b)
           n == CountDown(c)
           none == <<>>
<1>0. Space \in 0..Space /\ 0 \in 0..Space /\ Space >= 2 /\ none \in Seq(Element)
      /\ Len(none) <= MaxCode + 1 /\ k.end \in BOOLEAN /\ k.space \in 0..Space
    BY Times DEF Keyer
<1>1. /\ a \in Keyer /\ Same(a, k) /\ a.state = "idle" /\ a.pressed = {} /\ a.end = k.end
      /\ a.code = k.code /\ a.sending = k.sending /\ a.space = k.space /\ a.ditProc = k.ditProc
    BY DEF Keyer, Same
<1> HIDE DEF a, none
<1>2. /\ b \in Keyer /\ Same(b, a) /\ b.state = "idle" /\ b.pressed = {} /\ ~b.end /\ b.code = <<>>
      /\ b.sending = k.sending /\ b.space = (IF k.end THEN Space ELSE k.space)
      /\ b.ditProc = k.ditProc
    <2>1. CASE k.end
        <3>1. b = [a EXCEPT !.end = FALSE, !.code = none, !.space = Space]
            BY <1>1, <2>1 DEF EndOfChar, none
        <3> HIDE DEF b
        <3>2. /\ b \in Keyer /\ Same(b, a) /\ b.state = a.state /\ b.pressed = a.pressed /\ ~b.end
              /\ b.code = none /\ b.sending = a.sending /\ b.space = Space /\ b.ditProc = a.ditProc
            BY <1>0, <1>1, <3>1 DEF Keyer, Same
        <3> QED
            BY <1>1, <2>1, <3>2 DEF none
    <2>2. CASE ~k.end
        <3>1. b = a
            BY <1>1, <2>2 DEF EndOfChar
        <3> QED
            BY <1>1, <2>2, <3>1 DEF Same
    <2> QED
        BY <2>1, <2>2
<1> HIDE DEF b
<1>3. c \in Keyer /\ Same(c, b) /\ Rests(c, k) 
    <2>1. CASE b.space = 1
        <3> DEFINE w == IF b.sending = <<"blank">> THEN <<>> ELSE b.sending
        <3>1. c = [b EXCEPT !.space = 0, !.code = none, !.sending = w]
            BY <2>1 DEF EndOfWord, none
        <3>2. w \in Seq(Element) \union {<<"blank">>}
            BY <1>2 DEF Keyer
        <3> HIDE DEF c, w
        <3>3. /\ c \in Keyer /\ Same(c, b) /\ c.state = b.state /\ c.pressed = b.pressed
              /\ c.end = b.end
              /\ c.code = none /\ c.sending = w /\ c.space = 0 /\ c.ditProc = b.ditProc
            BY <1>0, <1>2, <3>1, <3>2 DEF Keyer, Same
        <3>4. ~k.end /\ k.space = 1
            BY <1>0, <1>2, <2>1
        <3> QED
            BY <1>2, <3>3, <3>4 DEF Rests, w, none
    <2>2. CASE b.space > 1
        <3>1. c = [b EXCEPT !.space = b.space - 1]
            BY <2>2 DEF EndOfWord
        <3>2. b.space - 1 \in 0..Space /\ b.space - 1 # 0
            BY <1>0, <1>2, <2>2
        <3>3. /\ c \in Keyer /\ Same(c, b) /\ c.state = b.state /\ c.pressed = b.pressed
              /\ c.end = b.end /\ c.space = b.space - 1
              /\ c.code = b.code /\ c.sending = b.sending /\ c.ditProc = b.ditProc
            BY <1>2, <3>1, <3>2 DEF Keyer, Same
        <3> HIDE DEF c
        <3>4. k.end \/ k.space # 1
            BY <1>0, <1>2, <2>2
        <3>5. c.space # 0
            BY <3>2, <3>3
        <3> QED
            BY <1>2, <3>3, <3>4, <3>5 DEF Rests
    <2>3. CASE b.space = 0
        <3>1. c = b
            BY <2>3 DEF EndOfWord
        <3>2. ~k.end /\ k.space = 0
            BY <1>0, <1>2, <2>3
        <3> QED
            BY <1>2, <3>1, <3>2 DEF Rests, Same
    <2> QED
        BY <1>0, <1>2, <2>1, <2>2, <2>3
<1> HIDE DEF c
<1>4. n \in Keyer /\ Same(n, c) /\ Rests(n, k)
    <2>1. CASE c.break > 0
        <3>1. n = [c EXCEPT !.break = c.break - 1] /\ c.break - 1 \in Nat
            BY <1>3, <2>1 DEF CountDown, Keyer
        <3>2. /\ n \in Keyer /\ Same(n, c) /\ n.state = c.state /\ n.pressed = c.pressed
              /\ n.end = c.end /\ n.code = c.code /\ n.sending = c.sending
              /\ n.space = c.space /\ n.ditProc = c.ditProc
            BY <1>3, <3>1 DEF Keyer, Same
        <3> HIDE DEF n
        <3> QED
            BY <1>3, <3>2 DEF Rests
    <2>2. CASE ~(c.break > 0)
        <3>1. n = c
            BY <2>2 DEF CountDown
        <3> QED
            BY <1>3, <3>1 DEF Same
    <2> QED
        BY <2>1, <2>2
<1>5. n = CountDown(EndOfWord(EndOfChar([k EXCEPT !.state = "idle"])))
    BY DEF a, b, c
<1> HIDE DEF n
<1>6. Same(n, k)
    BY <1>1, <1>2, <1>3, <1>4 DEF Same
<1> QED
    BY <1>4, <1>5, <1>6

LEMMA PaddleResult ==
    ASSUME NEW k \in Keyer, lines \subseteq Element
    PROVE  /\ LET n == CheckPaddle(k)
              IN  /\ n \in Keyer /\ Same(n, k) /\ n.state = k.state /\ n.pressed = k.pressed \union lines
                  /\ n.end = k.end /\ n.code = k.code /\ n.sending = k.sending
                  /\ n.ditProc = k.ditProc /\ n.space = k.space
           /\ \A pressed : LET n == TestFirstPaddle(k, pressed)
              IN  /\ n \in Keyer /\ Same(n, k) /\ n.state = k.state /\ n.pressed = k.pressed
                  /\ n.end = k.end /\ n.code = k.code /\ n.sending = k.sending
                  /\ n.ditProc = k.ditProc /\ n.space = k.space
           /\ LET n == ToIdle(k)
              IN  /\ n \in Keyer /\ Same(n, k) /\ n.state = "idle" /\ n.pressed = k.pressed \union lines
                  /\ n.end /\ n.code = k.code /\ n.sending = k.sending
                  /\ n.ditProc = k.ditProc /\ n.space = k.space
<1> DEFINE check(j) == [j EXCEPT !.pressed = j.pressed \union lines]
           first(t) == [k EXCEPT !.ultim = t]
           idle     == [k EXCEPT !.state = "idle", !.end = TRUE, !.break = k.breakTime]
<1>1. \A j \in Keyer : LET n == check(j) IN
            /\ n \in Keyer /\ Same(n, j) /\ n.state = j.state /\ n.pressed = j.pressed \union lines
            /\ n.end = j.end /\ n.code = j.code /\ n.sending = j.sending
            /\ n.ditProc = j.ditProc /\ n.space = j.space
    BY DEF Keyer, Same
<1>2. \A t \in BOOLEAN : LET n == first(t) IN
            /\ n \in Keyer /\ Same(n, k) /\ n.state = k.state /\ n.pressed = k.pressed
            /\ n.end = k.end /\ n.code = k.code /\ n.sending = k.sending
            /\ n.ditProc = k.ditProc /\ n.space = k.space
    BY DEF Keyer, Same
<1>3. /\ idle \in Keyer /\ Same(idle, k) /\ idle.state = "idle" /\ idle.pressed = k.pressed
      /\ idle.end /\ idle.code = k.code /\ idle.sending = k.sending
      /\ idle.ditProc = k.ditProc /\ idle.space = k.space
    BY DEF Keyer, Same
<1>4. CheckPaddle(k) = check(k) /\ ToIdle(k) = check(idle)
    BY DEF CheckPaddle, ToIdle
<1>5. \A pressed : TestFirstPaddle(k, pressed) \in {k, first(TRUE), first(FALSE)}
    BY DEF TestFirstPaddle
<1> HIDE DEF check, first, idle
<1>6. Same(k, k)
    BY DEF Same
<1>7. LET n == ToIdle(k)
      IN  /\ n \in Keyer /\ Same(n, k) /\ n.state = "idle" /\ n.pressed = k.pressed \union lines
          /\ n.end /\ n.code = k.code /\ n.sending = k.sending
          /\ n.ditProc = k.ditProc /\ n.space = k.space
    BY <1>1, <1>3, <1>4 DEF Same
<1>8. \A pressed : LET n == TestFirstPaddle(k, pressed)
      IN  /\ n \in Keyer /\ Same(n, k) /\ n.state = k.state /\ n.pressed = k.pressed
          /\ n.end = k.end /\ n.code = k.code /\ n.sending = k.sending
          /\ n.ditProc = k.ditProc /\ n.space = k.space
    <2> SUFFICES ASSUME NEW pressed
                 PROVE  LET n == TestFirstPaddle(k, pressed)
      IN  /\ n \in Keyer /\ Same(n, k) /\ n.state = k.state /\ n.pressed = k.pressed
          /\ n.end = k.end /\ n.code = k.code /\ n.sending = k.sending
          /\ n.ditProc = k.ditProc /\ n.space = k.space
        OBVIOUS
    <2>1. TestFirstPaddle(k, pressed) = k \/ \E t \in BOOLEAN : TestFirstPaddle(k, pressed) = first(t)
        BY <1>5
    <2> QED
        BY <1>2, <1>6, <2>1
<1> QED
    BY <1>1, <1>4, <1>7, <1>8

\* What a run of the keyer in CW_IDLE comes to.
Ready(k) == k.end \/ k.code = <<>>

LEMMA IdleSplits ==
    ASSUME NEW k \in Keyer, Ready(k)
    PROVE  LET n == Idle(k)
               p == NextElement(k)
           IN  /\ n \in Keyer /\ Coherent(n) /\ Same(n, k)
               /\ p.pressed # {} => n = Wait(p)
               /\ p.pressed = {} => k.pressed = {} /\ k.sending \in {<<>>, <<"blank">>} /\ Rests(n, k)
<1> DEFINE n == Idle(k)
           p == NextElement(k)
<1>1. /\ p \in Keyer /\ Same(p, k) /\ p.end = k.end /\ p.code = k.code /\ k.pressed \subseteq p.pressed
      /\ p.ditProc = k.ditProc /\ p.space = k.space
      /\ p.pressed = {} => p.sending = k.sending /\ k.sending \in {<<>>, <<"blank">>}
    BY NextElementResult
<1>2. CASE p.pressed # {}
    <2>1. n = Wait(p)
        BY <1>2 DEF Idle
    <2>2. n \in Keyer /\ Coherent(n) /\ Same(n, p)
        BY <1>1, <1>2, <2>1, WaitResult
    <2> QED
        BY <1>1, <1>2, <2>1, <2>2 DEF Same
<1>3. CASE p.pressed = {}
    <2>1. n = CountDown(EndOfWord(EndOfChar([p EXCEPT !.state = "idle"])))
        BY <1>3 DEF Idle
    <2>2. n \in Keyer /\ Same(n, p) /\ Rests(n, p)
        BY <1>1, <1>3, <2>1, RestResult DEF Ready
    <2> HIDE DEF n, p
    <2>3. Rests(n, k) /\ Same(n, k)
        BY <1>1, <1>3, <2>2 DEF Rests, Same
    <2>4. n.sending \in {<<>>, <<"blank">>}
        BY <1>1, <1>3, <2>3 DEF Rests
    <2>5. Coherent(n)
        BY <2>3, <2>4 DEF Rests, Coherent
    <2> QED
        BY <1>1, <1>3, <2>2, <2>3, <2>5 DEF n, p
<1> QED
    BY <1>2, <1>3


\* An element begins; a dit comes before a dah.
StartsWith(n, k, e) ==
    /\ n.timer = ElementTime[e] - 1 /\ n.code[Len(n.code)] = e
    /\ n.ditProc = (k.ditProc \/ e = "dit") /\ ("dit" \in k.pressed => e = "dit")

Starts(n, k) ==
    /\ n.state \in {"idle", "wait", "keyUp"}
    /\ n.state \in {"idle", "wait"} => n.ditProc = k.ditProc
    /\ n.state = "idle" => k.pressed = {}
    /\ n.state = "wait" => k.pressed \subseteq n.pressed
    /\ n.state = "keyUp" => \E e \in Element : StartsWith(n, k, e)

LEMMA WaitStarts ==
    ASSUME NEW k \in Keyer, k.pressed # {}
    PROVE  Starts(Wait(k), k)
<1> DEFINE n == Wait(k)
<1>1. CASE /\ n.state = "wait" /\ n.pressed = k.pressed /\ n.ditProc = k.ditProc
    BY <1>1 DEF Starts
<1>2. CASE \E e \in k.pressed : /\ n = Begin(k, e) /\ e \in Element
                                /\ "dit" \in k.pressed => e = "dit"
    <2>1. PICK e \in k.pressed : /\ n = Begin(k, e) /\ e \in Element
                                 /\ "dit" \in k.pressed => e = "dit"
        BY <1>2
    <2>2. n.state = "keyUp" /\ StartsWith(n, k, e)
        BY <2>1, BeginResult DEF StartsWith
    <2> HIDE DEF n
    <2>3. Starts(n, k)
        BY <2>1, <2>2 DEF Starts
    <2> QED
        BY <2>3 DEF n
<1> QED
    BY <1>1, <1>2, WaitResult

LEMMA IdleStarts ==
    ASSUME NEW k \in Keyer, Ready(k)
    PROVE  Starts(Idle(k), k)
<1> DEFINE n == Idle(k)
           p == NextElement(k)
<1>1. p \in Keyer /\ k.pressed \subseteq p.pressed /\ p.ditProc = k.ditProc
    BY NextElementResult
<1>2. CASE p.pressed # {}
    <2>1. n = Wait(p)
        BY <1>2, IdleSplits
    <2>2. Starts(n, p)
        BY <1>1, <1>2, <2>1, WaitStarts
    <2> HIDE DEF n, p
    <2>3. \A e : StartsWith(n, p, e) => StartsWith(n, k, e)
        BY <1>1 DEF StartsWith
    <2>4. Starts(n, k)
        BY <1>1, <1>2, <2>2, <2>3 DEF Starts
    <2> QED
        BY <2>4 DEF n
<1>3. CASE p.pressed = {}
    <2>1. k.pressed = {} /\ Rests(n, k)
        BY <1>3, IdleSplits
    <2> HIDE DEF n
    <2>2. Starts(n, k)
        BY <2>1 DEF Starts, Rests
    <2> QED
        BY <2>2 DEF n
<1> QED
    BY <1>2, <1>3

\* Without paddles the next element of a letter is the first one that is left.
LEMMA LetterGoesOn ==
    ASSUME NEW c \in DOMAIN Morse, NEW e \in Element, NEW s \in Seq(Element), NEW t \in Seq(Element),
           Append(s, e) \o t = Morse[c]
    PROVE  Len(s) <= MaxCode
<1>1. Append(s, e) \in Seq(Element) /\ Len(Append(s, e)) = Len(s) + 1
    BY Sequences, Zenon
<1>2. Len(Append(s, e) \o t) = Len(s) + 1 + Len(t) /\ Len(s) \in Nat /\ Len(t) \in Nat
    <2> DEFINE a == Append(s, e)
    <2> HIDE DEF a
    <2>1. a \in Seq(Element) /\ Len(a) = Len(s) + 1
        BY <1>1 DEF a
    <2>2. Len(a \o t) = Len(a) + Len(t)
        BY <2>1, ConcatProperties, Zenon
    <2>3. Len(s) \in Nat /\ Len(t) \in Nat
        OBVIOUS
    <2> QED
        BY <2>1, <2>2, <2>3 DEF a
<1>3. Len(Morse[c]) \in 1..MaxCode /\ MaxCode \in Nat
    BY MorseAssumption
<1>4. Len(s) + 1 + Len(t) <= MaxCode
    BY <1>2, <1>3
<1> QED
    BY <1>2, <1>3, <1>4

LEMMA WaitSends ==
    ASSUME NEW k \in Keyer, NEW c \in DOMAIN Morse, NEW e \in Element, k.pressed = {e},
           k.sending \in Seq(Element), Append(k.code, e) \o k.sending = Morse[c]
    PROVE  LET n == Wait(k) IN Sending(n, c) /\ (k.code # <<>> => n.code # <<>>)
<1> DEFINE n == Wait(k)
<1>1. k.code \in Seq(Element) /\ Len(k.code) <= MaxCode
    BY LetterGoesOn DEF Keyer
<1>2. CASE /\ n.state = "wait" /\ n.pressed = k.pressed /\ n.code = k.code /\ n.sending = k.sending
    <2> HIDE DEF n
    <2>1. Sending(n, c)
        BY <1>2 DEF Sending
    <2> QED
        BY <1>2, <2>1 DEF n
<1>3. CASE \E d \in k.pressed : n = Begin(k, d)
    <2>1. n = Begin(k, e)
        BY <1>3
    <2>2. /\ n.state = "keyUp" /\ n.pressed = {} /\ n.sending = k.sending
          /\ n.code = Append(k.code, e) /\ n.code # <<>>
        BY <1>1, <2>1, BeginResult
    <2> HIDE DEF n
    <2>3. Sending(n, c)
        BY <2>2 DEF Sending
    <2> QED
        BY <2>2, <2>3 DEF n
<1> QED
    BY <1>2, <1>3, WaitResult

LEMMA IdleSends ==
    ASSUME NEW k \in Keyer, Ready(k), NEW c \in DOMAIN Morse, k.pressed = {},
           k.sending \in Seq(Element), k.sending # <<>>, k.code \o k.sending = Morse[c]
    PROVE  LET n == Idle(k) IN Sending(n, c) /\ (k.code # <<>> => n.code # <<>>)
<1> DEFINE p == NextElement(k)
           h == Head(k.sending)
           t == Tail(k.sending)
<1>1. k.sending # <<"blank">>
    <2>1. \A s \in Seq(Element) : s # <<>> => s[1] \in Element
        OBVIOUS
    <2>2. <<"blank">> # <<>> /\ <<"blank">>[1] = "blank" /\ "blank" \notin Element
        BY DEF Element
    <2> QED
        BY <2>1, <2>2
<1>2. /\ p \in Keyer /\ p.code = k.code /\ p.pressed = {h} /\ p.sending = t
      /\ h \in Element /\ t \in Seq(Element)
    BY <1>1, NextElementResult
<1>3. Idle(k) = Wait(p)
    BY <1>2, IdleSplits
<1>4. Append(k.code, h) \o t = k.code \o k.sending
    <2>1. \A s, r \in Seq(Element) : r # <<>> => Append(s, Head(r)) \o Tail(r) = s \o r
        OBVIOUS
    <2>2. k.code \in Seq(Element)
        BY DEF Keyer
    <2> QED
        BY <2>1, <2>2
<1> HIDE DEF p, h, t
<1> QED
    BY <1>2, <1>3, <1>4, WaitSends


\* An element and the pause after it are timed; the latches may take the paddles.
Timed(n, k) ==
    /\ n \in Keyer /\ Same(n, k) /\ n.state \in {"keyUp", "pause"}
    /\ n.state = "keyUp" => k.state = "keyUp"
    /\ n.code = k.code /\ n.sending = k.sending /\ n.ditProc = k.ditProc
    /\ n.pressed \subseteq k.pressed \union lines

LEMMA KeyUpResult ==
    ASSUME NEW k \in Keyer, k.state = "keyUp", lines \subseteq Element
    PROVE  Timed(KeyUp(k), k)
<1>1. CASE k.timer = 0
    <2> DEFINE n == [k EXCEPT !.state = "pause", !.timer = Pause]
    <2>1. Timed(n, k)
        BY Times DEF Timed, Keyer, Same
    <2> QED
        BY <1>1, <2>1 DEF KeyUp
<1>2. CASE k.timer # 0
    <2> DEFINE down == [k EXCEPT !.timer = k.timer - 1]
    <2>1. k.timer - 1 \in Nat
        BY <1>2 DEF Keyer
    <2>2. /\ down \in Keyer /\ Same(down, k) /\ down.state = k.state /\ down.code = k.code
          /\ down.sending = k.sending /\ down.ditProc = k.ditProc /\ down.pressed = k.pressed
        BY <2>1 DEF Keyer, Same
    <2>3. KeyUp(k) = IF k.mode = "B" THEN CheckPaddle(down) ELSE down
        BY <1>2 DEF KeyUp
    <2> HIDE DEF down
    <2>4. Timed(down, k)
        BY <2>2 DEF Timed
    <2>5. Timed(CheckPaddle(down), k)
        BY <2>2, PaddleResult DEF Timed, Same
    <2> QED
        BY <2>3, <2>4, <2>5
<1> QED
    BY <1>1, <1>2

\* What the end of a pause goes on with: a dah that was latched, which in an iambic
\* keyer follows a dit only, or CW_IDLE, where an iambic keyer that has sent a dit
\* never comes with both paddles pressed.
ToDah(n, j, k) == n = Begin(j, "dah") /\ "dah" \in k.pressed \union lines
                  /\ (k.mode # "ultimate" => k.ditProc)

ToRest(n, j, k) == n = Idle(j) /\ j.end /\ lines \subseteq j.pressed
                   /\ (k.mode # "ultimate" /\ k.ditProc => lines # Element)

Follows(j, k) ==
    /\ j \in Keyer /\ Same(j, k) /\ j.code = k.code /\ j.sending = k.sending
    /\ j.pressed \subseteq k.pressed \union lines
    /\ k.mode # "ultimate" => ~j.ditProc

LEMMA PauseSplits ==
    ASSUME NEW k \in Keyer, lines \subseteq Element
    PROVE  \E j \in Keyer :
             Follows(j, k) /\ (ToDah(PauseOver(k), j, k) \/ ToRest(PauseOver(k), j, k))
<1> DEFINE p     == TestFirstPaddle(CheckPaddle(k), lines)
           toDah == [p EXCEPT !.pressed = p.pressed \ {"dit"}, !.ditProc = FALSE]
           noDah == [p EXCEPT !.pressed = p.pressed \ {"dah"}]
           rest  == ToIdle(noDah)
           rest2 == ToIdle(toDah)
<1>1. /\ p \in Keyer /\ Same(p, k) /\ p.pressed = k.pressed \union lines
      /\ p.code = k.code /\ p.sending = k.sending /\ p.ditProc = k.ditProc
    <2> DEFINE q == CheckPaddle(k)
    <2>1. /\ q \in Keyer /\ Same(q, k) /\ q.pressed = k.pressed \union lines
          /\ q.code = k.code /\ q.sending = k.sending /\ q.ditProc = k.ditProc
        BY PaddleResult
    <2> HIDE DEF q
    <2>2. LET n == TestFirstPaddle(q, lines)
          IN  /\ n \in Keyer /\ Same(n, q) /\ n.pressed = q.pressed
              /\ n.code = q.code /\ n.sending = q.sending /\ n.ditProc = q.ditProc
        BY <2>1, PaddleResult
    <2> QED
        BY <2>1, <2>2 DEF q, Same
<1>2. PauseOver(k) = IF p.mode = "ultimate"
                     THEN IF "dah" \in p.pressed /\ ~p.ultim THEN Begin(toDah, "dah") ELSE Idle(rest)
                     ELSE IF ~p.ditProc THEN Idle(rest)
                          ELSE IF "dah" \in p.pressed THEN Begin(toDah, "dah") ELSE Idle(rest2)
    BY DEF PauseOver
<1> HIDE DEF p
<1>3. /\ toDah \in Keyer /\ Same(toDah, p) /\ toDah.pressed = p.pressed \ {"dit"}
      /\ toDah.code = p.code /\ toDah.sending = p.sending /\ ~toDah.ditProc
    BY <1>1 DEF Keyer, Same
<1>4. /\ noDah \in Keyer /\ Same(noDah, p) /\ noDah.pressed = p.pressed \ {"dah"}
      /\ noDah.code = p.code /\ noDah.sending = p.sending /\ noDah.ditProc = p.ditProc
    BY <1>1 DEF Keyer, Same
<1> HIDE DEF toDah, noDah
<1>5. /\ rest \in Keyer /\ Same(rest, noDah) /\ rest.pressed = noDah.pressed \union lines /\ rest.end
      /\ rest.code = noDah.code /\ rest.sending = noDah.sending /\ rest.ditProc = noDah.ditProc
    BY <1>4, PaddleResult
<1>6. /\ rest2 \in Keyer /\ Same(rest2, toDah) /\ rest2.pressed = toDah.pressed \union lines /\ rest2.end
      /\ rest2.code = toDah.code /\ rest2.sending = toDah.sending /\ rest2.ditProc = toDah.ditProc
    BY <1>3, PaddleResult
<1> HIDE DEF rest, rest2
<1>7. CASE PauseOver(k) = Begin(toDah, "dah") /\ "dah" \in p.pressed /\ (p.mode # "ultimate" => p.ditProc)
    <2>1. Follows(toDah, k)
        BY <1>1, <1>3 DEF Follows, Same
    <2>2. ToDah(PauseOver(k), toDah, k)
        BY <1>1, <1>7 DEF ToDah, Same
    <2> QED
        BY <1>3, <2>1, <2>2
<1>8. CASE PauseOver(k) = Idle(rest) /\ (p.mode # "ultimate" => ~p.ditProc)
    <2>1. Follows(rest, k)
        BY <1>1, <1>4, <1>5, <1>8 DEF Follows, Same
    <2>2. ToRest(PauseOver(k), rest, k)
        BY <1>1, <1>5, <1>8 DEF ToRest, Same
    <2> QED
        BY <1>5, <2>1, <2>2
<1>9. CASE PauseOver(k) = Idle(rest2) /\ "dah" \notin p.pressed
    <2>1. Follows(rest2, k)
        BY <1>1, <1>3, <1>6 DEF Follows, Same
    <2>2. ToRest(PauseOver(k), rest2, k)
        BY <1>1, <1>6, <1>9 DEF ToRest, Same, Element
    <2> QED
        BY <1>6, <2>1, <2>2
<1> QED
    BY <1>2, <1>7, <1>8, <1>9


\* What a run of the keyer may come to, and that it keeps the type.
Running(n, k) ==
    \/ k.state = "idle" /\ n = Idle(CheckPaddle(k))
    \/ k.state = "wait" /\ n = Wait(k)
    \/ k.state \in {"keyUp", "pause"} /\ Timed(n, k)
    \/ k.state = "pause" /\ \E j \in Keyer : Follows(j, k) /\ (ToDah(n, j, k) \/ ToRest(n, j, k))

LEMMA RunSplits ==
    ASSUME NEW k \in Keyer, lines \subseteq Element
    PROVE  Running(ProcessIambic(k), k)
<1> DEFINE n == ProcessIambic(k)
<1>1. CASE k.state = "idle"
    BY <1>1 DEF ProcessIambic, Running
<1>2. CASE k.state = "wait"
    BY <1>2 DEF ProcessIambic, Running
<1>3. CASE k.state = "keyUp"
    <2>1. n = KeyUp(k)
        BY <1>3 DEF ProcessIambic
    <2> QED
        BY <1>3, <2>1, KeyUpResult DEF Running
<1>4. CASE k.state = "pause"
    <2>1. n = PauseRun(k)
        BY <1>4 DEF ProcessIambic
    <2>2. CASE k.timer > 1
        <3> DEFINE m == [k EXCEPT !.timer = k.timer - 1]
        <3>1. n = m
            BY <2>1, <2>2 DEF PauseRun
        <3>2. k.timer - 1 \in Nat
            BY <2>2 DEF Keyer
        <3>3. Timed(m, k)
            BY <1>4, <3>2 DEF Timed, Keyer, Same
        <3> HIDE DEF m
        <3> QED
            BY <1>4, <3>1, <3>3 DEF Running
    <2>3. CASE ~(k.timer > 1)
        <3> DEFINE m == [k EXCEPT !.timer = 0]
        <3>1. n = PauseOver(m)
            BY <2>1, <2>3 DEF PauseRun
        <3>2. /\ m \in Keyer /\ Same(m, k) /\ m.code = k.code /\ m.sending = k.sending
              /\ m.pressed = k.pressed /\ m.ditProc = k.ditProc
            BY DEF Keyer, Same
        <3> HIDE DEF m, n
        <3>3. PICK j \in Keyer : Follows(j, m) /\ (ToDah(n, j, m) \/ ToRest(n, j, m))
            BY <3>1, <3>2, PauseSplits
        <3>4. Follows(j, k)
            BY <3>2, <3>3 DEF Follows, Same
        <3>5. ToDah(n, j, k) \/ ToRest(n, j, k)
            BY <3>2, <3>3 DEF ToDah, ToRest, Same
        <3>6. Running(n, k)
            BY <1>4, <3>4, <3>5 DEF Running
        <3> QED
            BY <3>6 DEF n
    <2> QED
        BY <2>2, <2>3
<1> QED
    BY <1>1, <1>2, <1>3, <1>4 DEF Keyer

\* The keyer before its run: at rest, unless for what it has fetched.
Orderly(k) ==
    /\ k.state = "idle" => Ready(k)
    /\ k.state = "wait" => k.pressed # {}
    /\ k.state \in {"keyUp", "pause"} => k.code # <<>>

LEMMA RunType ==
    ASSUME NEW k \in Keyer, lines \subseteq Element, Orderly(k)
    PROVE  LET n == ProcessIambic(k) IN n \in Keyer /\ Coherent(n) /\ Same(n, k)
<1> DEFINE n == ProcessIambic(k)
<1>0. Running(n, k)
    BY RunSplits
<1> HIDE DEF n
<1>1. CASE k.state = "idle" /\ n = Idle(CheckPaddle(k))
    <2> DEFINE c == CheckPaddle(k)
    <2>1. c \in Keyer /\ Same(c, k) /\ Ready(c)
        BY <1>1, PaddleResult DEF Ready, Orderly
    <2>2. n \in Keyer /\ Coherent(n) /\ Same(n, c)
        BY <1>1, <2>1, IdleSplits
    <2> QED
        BY <2>1, <2>2 DEF Same, n
<1>2. CASE k.state = "wait" /\ n = Wait(k)
    BY <1>2, WaitResult DEF Orderly, n
<1>3. CASE k.state \in {"keyUp", "pause"} /\ Timed(n, k)
    <2>1. Coherent(n)
        BY <1>3 DEF Timed, Orderly, Coherent
    <2> QED
        BY <1>3, <2>1 DEF Timed, n
<1>4. CASE k.state = "pause" /\ \E j \in Keyer : Follows(j, k) /\ (ToDah(n, j, k) \/ ToRest(n, j, k))
    <2>1. PICK j \in Keyer : Follows(j, k) /\ (ToDah(n, j, k) \/ ToRest(n, j, k))
        BY <1>4
    <2>2. CASE ToDah(n, j, k)
        <3>1. n \in Keyer /\ Coherent(n) /\ Same(n, j)
            BY <2>2, BeginResult DEF ToDah, Element
        <3> QED
            BY <2>1, <3>1 DEF Follows, Same, n
    <2>3. CASE ToRest(n, j, k)
        <3>1. n \in Keyer /\ Coherent(n) /\ Same(n, j)
            BY <2>3, IdleSplits DEF ToRest, Ready
        <3> QED
            BY <2>1, <3>1 DEF Follows, Same, n
    <2> QED
        BY <2>1, <2>2, <2>3
<1> QED
    BY <1>0, <1>1, <1>2, <1>3, <1>4 DEF Running

\* What the keyer has fetched.
LEMMA FetchResult ==
    ASSUME NEW k \in Keyer, NEW c
    PROVE  LET n == Fetched(k, c)
           IN  /\ n \in Keyer /\ Same(n, k) /\ n.state = k.state /\ n.pressed = k.pressed
               /\ n.end = k.end /\ n.code = k.code /\ n.ditProc = k.ditProc
               /\ IsLetter(c) => n.sending = Morse[c] /\ n.sending \in Seq(Element) /\ n.sending # <<>>
               /\ c = "blank" => n.sending = <<"blank">> /\ n.space = Space
               /\ ~IsLetter(c) /\ c # "blank" => n = k
<1>1. CASE IsLetter(c)
    <2> DEFINE s == Morse[c]
    <2>1. s \in Seq(Element) /\ Len(s) \in 1..MaxCode /\ MaxCode \in Nat /\ c # "blank"
        BY <1>1, MorseAssumption DEF IsLetter
    <2>2. s # <<>>
        BY <2>1
    <2>3. Fetched(k, c) = [k EXCEPT !.sending = s]
        <3>1. c # "blank"
            BY <2>1
        <3> QED
            BY <1>1, <3>1 DEF Fetched
    <2> HIDE DEF s
    <2>4. LET n == Fetched(k, c)
          IN  /\ n \in Keyer /\ Same(n, k) /\ n.state = k.state /\ n.pressed = k.pressed
              /\ n.end = k.end /\ n.code = k.code /\ n.ditProc = k.ditProc /\ n.sending = s
        BY <2>1, <2>3 DEF Keyer, Same
    <2>5. s = Morse[c]
        BY DEF s
    <2>6. s \in Seq(Element) /\ c # "blank"
        BY <2>1
    <2> QED
        BY <1>1, <2>2, <2>4, <2>5, <2>6, Zenon
<1>2. CASE ~IsLetter(c) /\ c = "blank"
    <2> DEFINE b == <<"blank">>
    <2>1. Fetched(k, c) = [k EXCEPT !.sending = b, !.space = Space] /\ Space \in 0..Space
        BY <1>2, Times DEF Fetched
    <2>2. b \in Seq(Element) \union {<<"blank">>}
        OBVIOUS
    <2>3. LET n == [k EXCEPT !.sending = b, !.space = Space]
          IN  /\ n \in Keyer /\ Same(n, k) /\ n.state = k.state /\ n.pressed = k.pressed
              /\ n.end = k.end /\ n.code = k.code /\ n.ditProc = k.ditProc
              /\ n.sending = b /\ n.space = Space
        <3> HIDE DEF b
        <3> QED
            BY <2>1, <2>2 DEF Keyer, Same
    <2> QED
        BY <1>2, <2>1, <2>3
<1>3. CASE ~IsLetter(c) /\ c # "blank"
    BY <1>3 DEF Fetched, Same
<1> QED
    BY <1>1, <1>2, <1>3


--------------------------------------------------------------------------------
(***************************************************************************)
(* The types.                                                              *)
(***************************************************************************)

\* What a run fetches, and the keyer that has fetched it.
Fetches == key.state = "idle" /\ MayFetch(key)
First   == Head(buffer.waiting)
Held    == IF Fetches THEN Fetched(key, First) ELSE key

LEMMA RunFacts ==
    ASSUME TypeOK, Coherent(key), KeyerRun
    PROVE  /\ Held \in Keyer /\ Orderly(Held) /\ Held.state = key.state /\ Held.pressed = key.pressed
           /\ Held.code = key.code /\ Held.ditProc = key.ditProc /\ Held.end = key.end
           /\ ~Fetches => Held = key
           /\ key' = ProcessIambic(Held) /\ key' \in Keyer /\ Coherent(key') /\ Same(key', key)
           /\ Note(Held, Fetches, First) /\ UNCHANGED <<lines, trx, permitted>>
<1>1. key \in Keyer /\ lines \subseteq Element
    BY DEF TypeOK
<1>2. /\ Held \in Keyer /\ Held.state = key.state /\ Held.pressed = key.pressed /\ Same(Held, key)
      /\ Held.code = key.code /\ Held.ditProc = key.ditProc /\ Held.end = key.end
      /\ ~Fetches => Held = key
    BY <1>1, FetchResult DEF Held, Same
<1>3. key' = ProcessIambic(Held) /\ Note(Held, Fetches, First) /\ UNCHANGED <<lines, trx, permitted>>
    BY DEF KeyerRun, Held, Fetches, First
<1>4. Orderly(Held)
    BY <1>2 DEF Orderly, Coherent, Ready
<1>5. key' \in Keyer /\ Coherent(key') /\ Same(key', Held)
    BY <1>1, <1>2, <1>3, <1>4, RunType
<1> QED
    BY <1>2, <1>3, <1>4, <1>5 DEF Same

\* What a run writes down.
LEMMA NoteResult ==
    ASSUME history \in History, key' \in Keyer, Coherent(key'), NEW k, NEW f \in BOOLEAN, NEW c, Note(k, f, c)
    PROVE  LET charEnd == CharEnds(k, key')
               wordEnd == WordEnds(k, key')
               good    == IF charEnd THEN history.taken \in Decoded(k.code)
                          ELSE wordEnd => history.taken \in {"blank", NoChar}
           IN  /\ history' \in History
               /\ history'.taken = IF f /\ (IsLetter(c) \/ c = "blank") THEN c
                                   ELSE IF charEnd \/ wordEnd THEN NoChar ELSE history.taken
               /\ history'.wrong <=> history.wrong
                                     \/ (~history.byHand /\ ((f /\ history.taken # NoChar) \/ ~good))
               /\ history'.byHand <=> lines # {} \/ (history.byHand /\ ~charEnd)
               /\ Begins(k, key') => history'.last = key'.code[Len(key'.code)]
                                     /\ (history'.squeezed <=> lines = Element)
               /\ ~Begins(k, key') => history'.last = history.last /\ history'.squeezed = history.squeezed
<1> DEFINE h       == history
           charEnd == CharEnds(k, key')
           wordEnd == WordEnds(k, key')
           good    == IF charEnd THEN h.taken \in Decoded(k.code)
                      ELSE wordEnd => h.taken \in {"blank", NoChar}
           begun   == Begins(k, key')
           newest  == key'.code[Len(key'.code)]
           taken   == IF f /\ (IsLetter(c) \/ c = "blank") THEN c
                      ELSE IF charEnd \/ wordEnd THEN NoChar ELSE h.taken
           wrong   == h.wrong \/ (~h.byHand /\ ((f /\ h.taken # NoChar) \/ ~good))
           byHand  == lines # {} \/ (h.byHand /\ ~charEnd)
           last    == IF begun THEN newest ELSE h.last
           squeezed == IF begun THEN lines = Element ELSE h.squeezed
           stopped == h.stopped /\ ~(f /\ IsLetter(c))
<1>1. history' = [h EXCEPT !.taken = taken, !.wrong = wrong, !.byHand = byHand, !.last = last,
                           !.squeezed = squeezed, !.stopped = stopped]
    BY DEF Note
<1>2. begun => newest \in Element
    <2> SUFFICES ASSUME begun PROVE newest \in Element
        OBVIOUS
    <2>1. key'.code \in Seq(Element) /\ key'.code # <<>>
        BY DEF Begins, Coherent, Keyer
    <2>2. \A s \in Seq(Element) : s # <<>> => s[Len(s)] \in Element
        OBVIOUS
    <2> QED
        BY <2>1, <2>2
<1>3. /\ h.wrong \in BOOLEAN /\ h.byHand \in BOOLEAN /\ h.squeezed \in BOOLEAN /\ h.stopped \in BOOLEAN
      /\ h.last \in Element /\ h.taken \in DOMAIN Morse \union {"blank", NoChar}
    BY DEF History
<1>4. taken \in DOMAIN Morse \union {"blank", NoChar}
    <2> HIDE DEF charEnd, wordEnd
    <2> QED
        BY <1>3 DEF IsLetter
<1>5. last \in Element
    <2> HIDE DEF begun, newest
    <2> QED
        BY <1>2, <1>3
<1>6. wrong \in BOOLEAN /\ byHand \in BOOLEAN /\ stopped \in BOOLEAN
    OBVIOUS
<1>7. squeezed \in BOOLEAN
    <2> HIDE DEF begun
    <2> QED
        BY <1>3
<1> HIDE DEF taken, wrong, byHand, last, squeezed, stopped, h
<1>8. /\ history' \in History
      /\ history'.taken = taken /\ history'.wrong = wrong /\ history'.byHand = byHand
      /\ history'.last = last /\ history'.squeezed = squeezed
    BY <1>1, <1>4, <1>5, <1>6, <1>7 DEF History, h
<1>9. history'.taken = IF f /\ (IsLetter(c) \/ c = "blank") THEN c
                                   ELSE IF charEnd \/ wordEnd THEN NoChar ELSE history.taken
    BY <1>8 DEF taken, h
<1>10. history'.wrong <=> history.wrong
                                     \/ (~history.byHand /\ ((f /\ history.taken # NoChar) \/ ~good))
    BY <1>8, Zenon DEF wrong, h
<1>11. history'.byHand <=> lines # {} \/ (history.byHand /\ ~charEnd)
    BY <1>8, Zenon DEF byHand, h
<1>12. /\ begun => history'.last = newest /\ (history'.squeezed <=> lines = Element)
       /\ ~begun => history'.last = history.last /\ history'.squeezed = history.squeezed
    BY <1>8, Zenon DEF last, squeezed, h
<1> QED
    BY <1>8, <1>9, <1>10, <1>11, <1>12 DEF h


\* The texts of the keyer buttons.
LEMMA MacroType ==
    ASSUME NEW text \in Macros
    PROVE  text \in Seq(Character)
<1>1. text \in Seq(STRING) /\ \A i \in DOMAIN text : text[i] \in Character
    BY MorseAssumption DEF Character
<1> QED
    BY <1>1

LEMMA BufferReplaced ==
    ASSUME NEW b \in BufferOf(Character), NEW w \in Seq(Character), Len(w) <= Room
    PROVE  [b EXCEPT !.waiting = w] \in BufferOf(Character)
BY DEF BufferOf

LEMMA ResetType ==
    ASSUME NEW b \in BufferOf(Character)
    PROVE  ResetBuffer(b) \in BufferOf(Character)
<1>1. <<>> \in Seq(Character) /\ Len(<<>>) <= Room
    BY RoomAssumption
<1> QED
    BY <1>1, BufferReplaced DEF ResetBuffer

LEMMA RemovedType ==
    ASSUME NEW b \in BufferOf(Character), HasData(b)
    PROVE  Removed(b) \in BufferOf(Character)
<1>1. b.waiting \in Seq(Character) /\ Len(b.waiting) <= Room /\ b.waiting # <<>>
    BY DEF BufferOf, HasData
<1>2. /\ Tail(b.waiting) \in Seq(Character) /\ Len(Tail(b.waiting)) = Len(b.waiting) - 1
      /\ Len(b.waiting) \in Nat
    BY <1>1, Sequences, Zenon
<1>3. Len(Tail(b.waiting)) <= Room
    BY <1>1, <1>2, RoomAssumption
<1> QED
    BY <1>2, <1>3, BufferReplaced DEF Removed

LEMMA PutType ==
    ASSUME NEW b \in BufferOf(Character), NEW text \in Seq(Character), NEW source
    PROVE  PutText(b, text, source) \in BufferOf(Character)
<1> DEFINE all == b.waiting \o text
           w   == IF Len(all) > Room THEN SubSeq(all, 1, Room) ELSE all
<1>1. b.waiting \in Seq(Character)
    BY DEF BufferOf
<1>2. all \in Seq(Character)
    BY <1>1, ConcatProperties, Zenon
<1> HIDE DEF all
<1>3. w \in Seq(Character) /\ Len(w) <= Room
    <2>1. \A s \in Seq(Character) : \A n \in 0..Len(s) :
            SubSeq(s, 1, n) \in Seq(Character) /\ Len(SubSeq(s, 1, n)) = n
        OBVIOUS
    <2>2. Room \in Nat /\ Len(all) \in Nat /\ (Len(all) > Room => Room \in 0..Len(all))
        BY <1>2, RoomAssumption, Sequences
    <2>3. Len(all) > Room => SubSeq(all, 1, Room) \in Seq(Character) /\ Len(SubSeq(all, 1, Room)) = Room
        BY <1>2, <2>1, <2>2
    <2> QED
        BY <1>2, <2>2, <2>3
<1>4. PutText(b, text, source) = b \/ PutText(b, text, source) = [b EXCEPT !.waiting = w]
    BY DEF PutText, all
<1> HIDE DEF w
<1> QED
    BY <1>3, <1>4, BufferReplaced

LEMMA RadioType ==
    ASSUME TypeOK, [Next]_vars
    PROVE  /\ lines' \subseteq Element /\ trx' \in {"RX", "TX"}
           /\ {ptt_req', tx_stop_req', permitted'} \subseteq BOOLEAN
           /\ pc' \in [at : {"idle", "served", "stopped", "erased"}, hit : BOOLEAN]
<1> USE DEF TypeOK, radio
<1> DEFINE At == {"idle", "served", "stopped", "erased"}
<1>0. \A a \in At, h \in BOOLEAN : [at |-> a, hit |-> h] \in [at : At, hit : BOOLEAN]
    OBVIOUS
<1>1. CASE KeyerRun
    <2>1. {ptt_req', tx_stop_req'} \subseteq BOOLEAN
        BY <1>1 DEF KeyerRun, RequestTxOn, RequestTxOff
    <2>2. pc' = pc \/ \E a \in {pc.at, "erased"} : pc' = [at |-> a, hit |-> TRUE]
        BY <1>1, Zenon DEF KeyerRun
    <2>3. UNCHANGED <<lines, trx, permitted>>
        BY <1>1 DEF KeyerRun
    <2>4. pc.at \in At /\ "erased" \in At
        OBVIOUS
    <2>5. pc' \in [at : At, hit : BOOLEAN]
        BY <1>0, <2>2, <2>4, Zenon
    <2> QED
        BY <2>1, <2>3, <2>5
<1>2. CASE \E p \in Element : PressPaddle(p) \/ ReleasePaddle(p)
    BY <1>2 DEF PressPaddle, ReleasePaddle, RequestTxOn
<1>3. CASE \E text \in Macros : PlayKeyerBtn(text)
    BY <1>3 DEF PlayKeyerBtn, RequestTxOn
<1>4. CASE ToggleTxRx
    BY <1>4 DEF ToggleTxRx, RequestTxOn, RequestTxOff
<1>5. CASE Dial
    BY <1>5 DEF Dial
<1>6. CASE HandlePttOnOff
    <2>1. \E a \in {"served", "stopped"} : pc' = [at |-> a, hit |-> FALSE]
        BY <1>6 DEF HandlePttOnOff
    <2>2. pc' \in [at : At, hit : BOOLEAN]
        BY <1>0, <2>1
    <2>3. trx' \in {"RX", "TX"} /\ UNCHANGED <<lines, ptt_req, tx_stop_req, permitted>>
        BY <1>6 DEF HandlePttOnOff
    <2> QED
        BY <2>2, <2>3
<1>7. CASE ClearRequest
    BY <1>7 DEF ClearRequest
<1>8. CASE UNCHANGED vars
    BY <1>8 DEF vars
<1> QED
    BY <1>1, <1>2, <1>3, <1>4, <1>5, <1>6, <1>7, <1>8 DEF Next, Operator

LEMMA BufferType ==
    ASSUME TypeOK, [Next]_vars
    PROVE  buffer' \in BufferOf(Character)
<1>0. buffer \in BufferOf(Character)
    BY DEF TypeOK
<1>1. CASE KeyerRun
    <2>1. buffer' = buffer \/ (HasData(buffer) /\ buffer' = Removed(buffer))
        BY <1>1 DEF KeyerRun, MayFetch, CanRemove
    <2> QED
        BY <1>0, <2>1, RemovedType
<1>2. CASE \E p \in Element : PressPaddle(p) \/ ReleasePaddle(p)
    <2>1. buffer' = buffer \/ buffer' = ResetBuffer(buffer)
        BY <1>2 DEF PressPaddle, ReleasePaddle
    <2> QED
        BY <1>0, <2>1, ResetType
<1>3. CASE \E text \in Macros : PlayKeyerBtn(text)
    <2>1. PICK text \in Macros : buffer' = PutText(buffer, text, "UI")
        BY <1>3 DEF PlayKeyerBtn
    <2>2. text \in Seq(Character)
        BY MacroType
    <2> QED
        BY <1>0, <2>1, <2>2, PutType
<1>4. CASE ToggleTxRx \/ Dial \/ HandlePttOnOff \/ ClearRequest \/ UNCHANGED vars
    BY <1>0, <1>4 DEF ToggleTxRx, Dial, HandlePttOnOff, ClearRequest, vars
<1> QED
    BY <1>1, <1>2, <1>3, <1>4 DEF Next, Operator

\* A press of a paddle throws the rest of the text away and may mark the first paddle.
LEMMA PressResult ==
    ASSUME TypeOK, NEW p \in Element, PressPaddle(p)
    PROVE  /\ key' \in Keyer /\ Same(key', key) /\ key'.state = key.state /\ key'.pressed = key.pressed
           /\ key'.end = key.end /\ key'.code = key.code /\ key'.ditProc = key.ditProc
           /\ key'.space = key.space /\ key'.sending = <<>>
           /\ history' \in History /\ history'.byHand /\ history'.taken = NoChar
           /\ history'.last = history.last /\ history'.squeezed = history.squeezed
           /\ history'.wrong = history.wrong
<1> DEFINE none == <<>>
           k    == [key EXCEPT !.sending = none]
<1>1. key \in Keyer /\ lines \subseteq Element /\ history \in History /\ none \in Seq(Element)
    BY DEF TypeOK
<1>2. key' = TestFirstPaddle(k, lines')
    BY DEF PressPaddle
<1> HIDE DEF none
<1>3. /\ k \in Keyer /\ Same(k, key) /\ k.state = key.state /\ k.pressed = key.pressed
      /\ k.end = key.end /\ k.code = key.code /\ k.ditProc = key.ditProc
      /\ k.space = key.space /\ k.sending = none
    BY <1>1 DEF Keyer, Same
<1> HIDE DEF k
<1>4. LET n == TestFirstPaddle(k, lines')
      IN  /\ n \in Keyer /\ Same(n, k) /\ n.state = k.state /\ n.pressed = k.pressed
          /\ n.end = k.end /\ n.code = k.code /\ n.sending = k.sending
          /\ n.ditProc = k.ditProc /\ n.space = k.space
    BY <1>1, <1>3, PaddleResult
<1>5. history' = [history EXCEPT !.byHand = TRUE, !.taken = NoChar, !.stopped = FALSE]
    BY DEF PressPaddle
<1>6. /\ history' \in History /\ history'.byHand /\ history'.taken = NoChar
      /\ history'.last = history.last /\ history'.squeezed = history.squeezed
      /\ history'.wrong = history.wrong
    BY <1>1, <1>5 DEF History
<1> QED
    BY <1>2, <1>3, <1>4, <1>6 DEF Same, none


\* Everything but a run and a press leaves the keyer alone.
Elsewhere == /\ UNCHANGED key
             /\ history' \in History /\ UNCHANGED <<history.wrong, history.taken, history.last, history.byHand>>
             /\ \/ UNCHANGED <<lines, history.squeezed>>
                \/ lines' \subseteq lines /\ ~history'.squeezed

LEMMA StepSplits ==
    ASSUME TypeOK, [Next]_vars
    PROVE  KeyerRun \/ (\E p \in Element : PressPaddle(p)) \/ Elsewhere
<1>0. history \in History
    BY DEF TypeOK
<1>1. \A b \in BOOLEAN : LET h == [history EXCEPT !.stopped = b]
                             g == [history EXCEPT !.squeezed = b]
                         IN  /\ h \in History /\ h.wrong = history.wrong /\ h.taken = history.taken
                             /\ h.last = history.last /\ h.byHand = history.byHand
                             /\ h.squeezed = history.squeezed
                             /\ g \in History /\ g.wrong = history.wrong /\ g.taken = history.taken
                             /\ g.last = history.last /\ g.byHand = history.byHand /\ g.squeezed = b
    BY <1>0 DEF History
<1>2. CASE \E p \in Element : ReleasePaddle(p)
    <2>1. history' = [history EXCEPT !.squeezed = FALSE] /\ lines' \subseteq lines /\ UNCHANGED key
        BY <1>2 DEF ReleasePaddle
    <2> QED
        BY <1>1, <2>1 DEF Elsewhere
<1>3. CASE (\E text \in Macros : PlayKeyerBtn(text)) \/ ToggleTxRx
    <2>1. /\ \E b \in BOOLEAN : history' = [history EXCEPT !.stopped = b]
          /\ UNCHANGED <<key, lines>>
        BY <1>3 DEF PlayKeyerBtn, ToggleTxRx
    <2> QED
        BY <1>1, <2>1 DEF Elsewhere
<1>4. CASE ClearRequest
    <2>1. history' = [history EXCEPT !.stopped = history.stopped \/ pc.at = "erased"
                                                 \/ (pc.at = "served" /\ trx = "RX")]
        BY <1>4 DEF ClearRequest
    <2>2. \E b \in BOOLEAN : history' = [history EXCEPT !.stopped = b]
        BY <2>1
    <2> QED
        BY <1>1, <1>4, <2>2 DEF ClearRequest, Elsewhere
<1>5. CASE Dial \/ HandlePttOnOff \/ UNCHANGED vars
    BY <1>0, <1>5 DEF Dial, HandlePttOnOff, vars, Elsewhere
<1> QED
    BY <1>2, <1>3, <1>4, <1>5 DEF Next, Operator

TypeInv == TypeOK /\ Coherent(key)

LEMMA TypeInit == Init => TypeInv
<1> SUFFICES ASSUME Init PROVE TypeInv
    OBVIOUS
<1>1. <<>> \in Seq(Element) /\ Len(<<>>) <= MaxCode + 1 /\ 0 \in 0..Space
    BY Times
<1>2. /\ key \in Keyer /\ key.state = "idle" /\ key.pressed = {} /\ ~key.end
      /\ key.code = <<>> /\ key.sending = <<>>
    <2> DEFINE none == <<>>
    <2>1. PICK s \in Settings :
         key = [state |-> "idle", pressed |-> {}, ditProc |-> FALSE, end |-> FALSE,
                timer |-> 0, break |-> 0, space |-> 0, code |-> none, sending |-> none,
                ultim |-> FALSE, mode |-> s.mode, breakTime |-> s.breakTime]
        BY DEF Init
    <2>2. s.mode \in {"A", "B", "ultimate"} /\ s.breakTime \in Nat \ {0}
        BY TimesAssumption
    <2>3. none \in Seq(Element) /\ Len(none) <= MaxCode + 1 /\ 0 \in 0..Space
        BY <1>1
    <2> HIDE DEF none
    <2>4. key \in Keyer /\ key.state = "idle" /\ key.pressed = {} /\ ~key.end
          /\ key.code = none /\ key.sending = none
        BY <2>1, <2>2, <2>3 DEF Keyer
    <2> QED
        BY <2>4 DEF none
<1>3. buffer \in BufferOf(Character)
    <2>1. <<>> \in Seq(Character) /\ Len(<<>>) <= Room
        BY RoomAssumption
    <2> QED
        BY <2>1 DEF Init, EmptyBuffer, BufferOf, Consumer
<1>4. history \in History
    BY DEF Init, History, Element
<1> QED
    BY <1>2, <1>3, <1>4 DEF Init, TypeInv, TypeOK, Coherent

LEMMA TypeStep == TypeInv /\ [Next]_vars => TypeInv'
<1> SUFFICES ASSUME TypeInv, [Next]_vars PROVE TypeInv'
    OBVIOUS
<1>0. TypeOK /\ Coherent(key) /\ key \in Keyer /\ history \in History
    BY DEF TypeInv, TypeOK
<1>1. key' \in Keyer /\ Coherent(key') /\ history' \in History
    <2>1. CASE KeyerRun
        <3>1. key' \in Keyer /\ Coherent(key') /\ Note(Held, Fetches, First)
            BY <1>0, <2>1, RunFacts
        <3>2. Fetches \in BOOLEAN
            BY DEF Fetches
        <3> QED
            BY <1>0, <3>1, <3>2, NoteResult
    <2>2. CASE \E p \in Element : PressPaddle(p)
        <3>1. /\ key' \in Keyer /\ key'.state = key.state /\ key'.pressed = key.pressed
              /\ key'.end = key.end /\ key'.code = key.code /\ key'.sending = <<>>
              /\ history' \in History
            BY <1>0, <2>2, PressResult
        <3> QED
            BY <1>0, <3>1 DEF Coherent
    <2>3. CASE Elsewhere
        BY <1>0, <2>3 DEF Elsewhere
    <2> QED
        BY <1>0, <2>1, <2>2, <2>3, StepSplits
<1>2. lines' \subseteq Element /\ trx' \in {"RX", "TX"}
      /\ {ptt_req', tx_stop_req', permitted'} \subseteq BOOLEAN
      /\ pc' \in [at : {"idle", "served", "stopped", "erased"}, hit : BOOLEAN]
    BY <1>0, RadioType
<1>3. buffer' \in BufferOf(Character)
    BY <1>0, BufferType
<1>4. TypeOK'
    BY <1>1, <1>2, <1>3 DEF TypeOK
<1>5. Coherent(key)'
    BY <1>1
<1> QED
    BY <1>4, <1>5 DEF TypeInv

\* The state keeps its type, whatever is pressed, played and switched: no timer of the
\* keyer passes zero and it never rests with something left to send.
THEOREM TypeCorrect == Spec => []TypeOK
<1>1. TypeInv => TypeOK
    BY DEF TypeInv
<1> QED
    BY <1>1, TypeInit, TypeStep, PTL DEF Spec


--------------------------------------------------------------------------------
(***************************************************************************)
(* A squeezed iambic keyer alternates.                                     *)
(***************************************************************************)

\* What a run does in an iambic keyer: the element that begins is the other one if the
\* paddles are squeezed, and CW_DIT_PROC tells which it was.
Alternates(n) ==
    /\ n.state \in {"idle", "wait"} => ~n.ditProc
    /\ Begins(Held, n) =>
         /\ n.state = "keyUp" /\ n.code[Len(n.code)] \in Element
         /\ n.ditProc <=> n.code[Len(n.code)] = "dit"
         /\ history.squeezed => n.code[Len(n.code)] # history.last
    /\ ~Begins(Held, n) =>
         /\ n.state \in {"keyUp", "pause"} => (n.ditProc <=> history.last = "dit")
         /\ history.squeezed => n.state # "idle"
         /\ history.squeezed /\ n.state = "wait" => history.last = "dah" /\ "dit" \in n.pressed

\* Coming from a state in which no dit is marked, the keyer begins with either element;
\* squeezed it does so after a dah.
LEMMA StartsAlternate ==
    ASSUME NEW n \in Keyer, NEW k \in Keyer, Starts(n, k), ~k.ditProc, Held.state # "keyUp",
           history.squeezed => history.last = "dah" /\ "dit" \in k.pressed
    PROVE  Alternates(n)
<1>1. CASE n.state \in {"idle", "wait"}
    <2>1. ~n.ditProc /\ ~Begins(Held, n)
        BY <1>1 DEF Starts, Begins
    <2>2. history.squeezed => n.state = "wait" /\ "dit" \in n.pressed
        BY <1>1 DEF Starts
    <2> QED
        BY <1>1, <2>1, <2>2 DEF Alternates
<1>2. CASE n.state = "keyUp"
    <2>1. PICK e \in Element : StartsWith(n, k, e)
        BY <1>2 DEF Starts
    <2>2. n.timer = ElementTime[e] - 1 /\ n.code[Len(n.code)] = e
          /\ (n.ditProc <=> e = "dit") /\ ("dit" \in k.pressed => e = "dit")
        BY <2>1 DEF StartsWith, Keyer
    <2>3. Begins(Held, n)
        BY <1>2, <2>2 DEF Begins
    <2>4. history.squeezed => e # history.last
        BY <2>2
    <2> QED
        BY <1>2, <2>2, <2>3, <2>4 DEF Alternates
<1> QED
    BY <1>1, <1>2 DEF Starts

LEMMA AltRun ==
    ASSUME TypeInv, AltInv, KeyerRun, key.mode # "ultimate"
    PROVE  Alternates(key')
<1> DEFINE n == key'
<1>1. /\ Held \in Keyer /\ Orderly(Held) /\ Held.state = key.state /\ Held.pressed = key.pressed
      /\ Held.code = key.code /\ Held.ditProc = key.ditProc /\ Held.end = key.end
      /\ n = ProcessIambic(Held) /\ n \in Keyer /\ Coherent(n) /\ Same(n, key)
    BY RunFacts DEF TypeInv
<1>2. lines \subseteq Element /\ key \in Keyer /\ history.last \in Element
    BY DEF TypeInv, TypeOK, History
<1>3. Held.mode # "ultimate"
    <2>1. Same(n, Held)
        BY <1>1, <1>2, RunType
    <2> QED
        BY <1>1, <2>1 DEF Same
<1>4. Running(n, Held)
    BY <1>1, <1>2, RunSplits
<1> HIDE DEF n
<1>5. CASE Held.state = "idle" /\ n = Idle(CheckPaddle(Held))
    <2> DEFINE c == CheckPaddle(Held)
    <2>1. c \in Keyer /\ Ready(c) /\ c.ditProc = Held.ditProc
        BY <1>1, <1>2, <1>5, PaddleResult DEF Ready, Orderly
    <2>2. Starts(n, c)
        BY <1>5, <2>1, IdleStarts
    <2>3. ~c.ditProc /\ ~history.squeezed
        BY <1>1, <1>5, <2>1 DEF AltInv
    <2> HIDE DEF c
    <2> QED
        BY <1>1, <1>5, <2>1, <2>2, <2>3, StartsAlternate DEF n
<1>6. CASE Held.state = "wait" /\ n = Wait(Held)
    <2>1. Starts(n, Held)
        BY <1>1, <1>6, WaitStarts DEF Orderly
    <2>2. ~Held.ditProc /\ (history.squeezed => history.last = "dah" /\ "dit" \in Held.pressed)
        BY <1>1, <1>6 DEF AltInv
    <2> QED
        BY <1>1, <1>6, <2>1, <2>2, StartsAlternate DEF n
<1>7. CASE Held.state \in {"keyUp", "pause"} /\ Timed(n, Held)
    <2>1. ~Begins(Held, n)
        BY <1>7 DEF Timed, Begins
    <2>2. n.state \in {"keyUp", "pause"} /\ n.ditProc = key.ditProc /\ key.state \in {"keyUp", "pause"}
        BY <1>1, <1>7 DEF Timed
    <2> QED
        BY <2>1, <2>2 DEF Alternates, AltInv, n
<1>8. CASE /\ Held.state = "pause"
           /\ \E j \in Keyer : Follows(j, Held) /\ (ToDah(n, j, Held) \/ ToRest(n, j, Held))
    <2>1. PICK j \in Keyer : Follows(j, Held) /\ (ToDah(n, j, Held) \/ ToRest(n, j, Held))
        BY <1>8
    <2>2. ~j.ditProc
        BY <1>3, <2>1 DEF Follows
    <2>3. (key.ditProc <=> history.last = "dit") /\ (history.squeezed => lines = Element)
        BY <1>1, <1>8 DEF AltInv
    <2>4. CASE ToDah(n, j, Held)
        <3>1. n = Begin(j, "dah") /\ key.ditProc
            BY <1>1, <1>3, <2>4 DEF ToDah
        <3>2. /\ n.state = "keyUp" /\ n.timer = ElementTime["dah"] - 1
              /\ n.code[Len(n.code)] = "dah" /\ ~n.ditProc
            BY <2>2, <3>1, BeginResult DEF Element
        <3>3. Begins(Held, n)
            BY <1>8, <3>2 DEF Begins
        <3> QED
            BY <2>3, <3>1, <3>2, <3>3 DEF Alternates, Element, n
    <2>5. CASE ToRest(n, j, Held)
        <3>1. Starts(n, j) /\ lines \subseteq j.pressed
            BY <2>5, IdleStarts DEF ToRest, Ready
        <3>2. key.ditProc => lines # Element
            BY <1>1, <1>3, <2>5 DEF ToRest
        <3>3. history.squeezed => history.last = "dah" /\ "dit" \in j.pressed
            BY <1>2, <2>3, <3>1, <3>2 DEF Element
        <3> QED
            BY <1>1, <1>8, <2>2, <3>1, <3>3, StartsAlternate DEF n
    <2> QED
        BY <2>1, <2>4, <2>5
<1> QED
    BY <1>4, <1>5, <1>6, <1>7, <1>8 DEF Running

LEMMA AltStep ==
    TypeInv /\ AltInv /\ [Next]_vars
      => AltInv' /\ (history.squeezed /\ key.mode # "ultimate" /\ Begins(key, key')
                       => history'.last # history.last)
<1> SUFFICES ASSUME TypeInv, AltInv, [Next]_vars
             PROVE  AltInv' /\ (history.squeezed /\ key.mode # "ultimate" /\ Begins(key, key')
                                  => history'.last # history.last)
    OBVIOUS
<1>1. CASE KeyerRun
    <2>1. /\ UNCHANGED lines /\ Note(Held, Fetches, First) /\ key' \in Keyer /\ Coherent(key')
          /\ Same(key', key) /\ Held.state = key.state
        BY <1>1, RunFacts DEF TypeInv
    <2>2. history \in History /\ Fetches \in BOOLEAN
        BY DEF TypeInv, TypeOK, Fetches
    <2>3. /\ Begins(Held, key') => history'.last = key'.code[Len(key'.code)]
                                     /\ (history'.squeezed <=> lines = Element)
          /\ ~Begins(Held, key') => history'.last = history.last /\ history'.squeezed = history.squeezed
        BY <2>1, <2>2, NoteResult
    <2>4. CASE key.mode # "ultimate"
        <3>1. Alternates(key')
            BY <1>1, <2>4, AltRun
        <3>2. Begins(key, key') <=> Begins(Held, key')
            BY <2>1 DEF Begins
        <3>3. CASE Begins(Held, key')
            BY <2>1, <2>3, <3>1, <3>2, <3>3 DEF Alternates, AltInv
        <3>4. CASE ~Begins(Held, key')
            <4>1. history.squeezed => lines = Element
                BY <2>4 DEF AltInv
            <4> QED
                BY <2>1, <2>3, <3>1, <3>2, <3>4, <4>1 DEF Alternates, AltInv
        <3> QED
            BY <3>3, <3>4
    <2>5. CASE key.mode = "ultimate"
        BY <2>1, <2>5 DEF Same, AltInv
    <2> QED
        BY <2>4, <2>5
<1>2. CASE \E p \in Element : PressPaddle(p)
    <2>1. /\ key'.state = key.state /\ key'.pressed = key.pressed /\ key'.ditProc = key.ditProc
          /\ Same(key', key) /\ history'.last = history.last /\ history'.squeezed = history.squeezed
        BY <1>2, PressResult DEF TypeInv
    <2>2. lines # Element /\ ~Begins(key, key')
        BY <1>2, <2>1 DEF PressPaddle, Begins
    <2> QED
        BY <2>1, <2>2 DEF AltInv, Same
<1>3. CASE Elsewhere
    <2>1. ~Begins(key, key')
        BY <1>3 DEF Elsewhere, Begins
    <2> QED
        BY <1>3, <2>1 DEF Elsewhere, AltInv
<1> QED
    BY <1>1, <1>2, <1>3, StepSplits DEF TypeInv

LEMMA AltInit == Init => AltInv
BY DEF Init, AltInv

\* While both paddles are squeezed an iambic keyer alternates dits and dahs, whenever the
\* paddles were pressed, the transmitter made it wait and a text was played before.
THEOREM Iambic == Spec => SqueezeAlternates
<1>1. TypeInv /\ AltInv /\ [Next]_vars
        => [history.squeezed /\ key.mode # "ultimate" /\ Begins(key, key')
              => history'.last # history.last]_vars
    BY AltStep
<1>2. TypeInv /\ AltInv /\ [Next]_vars => TypeInv' /\ AltInv'
    BY AltStep, TypeStep
<1> QED
    BY <1>1, <1>2, TypeInit, AltInit, PTL DEF Spec, SqueezeAlternates


--------------------------------------------------------------------------------
(***************************************************************************)
(* A text is sent as it was written.                                       *)
(***************************************************************************)

\* What a run makes of a letter: it goes on with it, or the letter is over and was sent
\* with its own elements.
Goes(n, k, c) ==
    \/ Sending(n, c) /\ ~CharEnds(k, n) /\ ~WordEnds(k, n)
    \/ /\ k.code = Morse[c] /\ k.code # <<>> /\ n.state = "idle" /\ n.code = <<>>

\* A letter is not at rest.
LEMMA SendingMoves ==
    ASSUME NEW n, NEW c, Sending(n, c)
    PROVE  n.state # "idle"
BY DEF Sending

LEMMA LetterRun ==
    ASSUME NEW k \in Keyer, NEW c, lines = {}, Sending(k, c), Orderly(k)
    PROVE  Goes(ProcessIambic(k), k, c)
<1> DEFINE n == ProcessIambic(k)
<1>0. c \in DOMAIN Morse /\ k.sending \in Seq(Element) /\ k.code \in Seq(Element)
    BY DEF Sending, Keyer
<1>1. Running(n, k)
    BY RunSplits
<1> HIDE DEF n
<1>2. CASE k.state = "idle"
    BY <1>2, SendingMoves
<1>3. CASE k.state = "wait" /\ n = Wait(k)
    <2>1. PICK e \in Element : k.pressed = {e} /\ Append(k.code, e) \o k.sending = Morse[c]
        BY <1>3 DEF Sending
    <2>2. Sending(n, c) /\ (k.code # <<>> => n.code # <<>>)
        BY <1>0, <1>3, <2>1, WaitSends
    <2>3. n.state # "idle"
        BY <2>2, SendingMoves
    <2>4. Goes(n, k, c)
        BY <2>2, <2>3 DEF Goes, CharEnds, WordEnds
    <2> QED
        BY <2>4 DEF n
<1>4. CASE k.state \in {"keyUp", "pause"} /\ Timed(n, k)
    <2>1. /\ n.state \in {"keyUp", "pause"} /\ n.pressed = {} /\ n.code = k.code /\ n.sending = k.sending
          /\ k.code \o k.sending = Morse[c] /\ k.code # <<>>
        BY <1>4 DEF Sending, Timed, Orderly
    <2>2. Sending(n, c)
        BY <1>0, <2>1 DEF Sending
    <2>3. Goes(n, k, c)
        BY <2>1, <2>2 DEF Goes, CharEnds, WordEnds
    <2> QED
        BY <2>3 DEF n
<1>5. CASE k.state = "pause" /\ \E j \in Keyer : Follows(j, k) /\ (ToDah(n, j, k) \/ ToRest(n, j, k))
    <2>1. PICK j \in Keyer : Follows(j, k) /\ (ToDah(n, j, k) \/ ToRest(n, j, k))
        BY <1>5
    <2>2. k.pressed = {} /\ k.code \o k.sending = Morse[c] /\ k.code # <<>>
        BY <1>5 DEF Sending, Orderly
    <2>3. /\ n = Idle(j) /\ j.end /\ j.pressed = {} /\ j.code = k.code /\ j.sending = k.sending
        BY <2>1, <2>2 DEF Follows, ToDah, ToRest
    <2>4. CASE k.sending = <<>>
        <3>1. k.code = Morse[c]
            BY <1>0, <2>2, <2>4, ConcatEmptySeq, Zenon
        <3>2. NextElement(j).pressed = {}
            BY <2>3, <2>4, NextElementResult
        <3>3. n.state = "idle" /\ n.code = <<>>
            BY <2>3, <3>2, IdleSplits DEF Ready, Rests
        <3>4. Goes(n, k, c)
            BY <2>2, <3>1, <3>3 DEF Goes
        <3> QED
            BY <3>4 DEF n
    <2>5. CASE k.sending # <<>>
        <3>1. Sending(n, c) /\ n.code # <<>>
            BY <1>0, <2>2, <2>3, <2>5, IdleSends DEF Ready
        <3>2. n.state # "idle"
            BY <3>1, SendingMoves
        <3>3. Goes(n, k, c)
            BY <3>1, <3>2 DEF Goes, CharEnds, WordEnds
        <3> QED
            BY <3>3 DEF n
    <2> QED
        BY <2>4, <2>5
<1> QED
    BY <1>1, <1>2, <1>3, <1>4, <1>5 DEF Running

\* A run between letters begins the one that was fetched, or rests.
LEMMA BetweenRun ==
    ASSUME TypeInv, KeyerRun, lines = {}, Between(key, history.taken)
    PROVE  /\ ~CharEnds(Held, key')
           /\ Fetches => history.taken = NoChar
           /\ Fetches /\ IsLetter(First) => Sending(key', First) /\ ~WordEnds(Held, key')
           /\ Fetches /\ First = "blank" => key'.state = "idle" /\ key'.sending = <<"blank">>
           /\ (Fetches => ~IsLetter(First) /\ First # "blank")
                => key'.state = "idle" /\ (history.taken = "blank" /\ ~WordEnds(Held, key')
                                             => key'.sending = <<"blank">>)
<1> DEFINE n == key'
           c == CheckPaddle(Held)
           blank == <<"blank">>
<1>1. /\ Held \in Keyer /\ Held.state = "idle" /\ Held.pressed = {} /\ Held.code = <<>> /\ ~Held.end
      /\ n = ProcessIambic(Held) /\ key.sending \in {<<>>, blank} /\ (~Fetches => Held = key)
      /\ key.state = "idle" /\ key \in Keyer
    BY RunFacts DEF TypeInv, TypeOK, Coherent, Between
<1>2. n = Idle(c)
    BY <1>1 DEF ProcessIambic
<1>3. /\ c \in Keyer /\ c.pressed = {} /\ c.end = Held.end /\ c.code = <<>> /\ c.sending = Held.sending
      /\ c.space = Held.space
    BY <1>1, PaddleResult
<1>4. Ready(c)
    BY <1>3 DEF Ready
<1>5. ~CharEnds(Held, n)
    BY <1>1 DEF CharEnds
<1>6. Fetches => history.taken = NoChar /\ key.sending = <<>>
    <2>1. blank # <<>>
        OBVIOUS
    <2> HIDE DEF blank
    <2> QED
        BY <2>1 DEF Fetches, MayFetch, Between, blank
<1>7. Fetches => /\ IsLetter(First) => Held.sending = Morse[First] /\ Held.sending \in Seq(Element)
                                       /\ Held.sending # <<>>
                 /\ First = "blank" => Held.sending = blank /\ Held.space = Space
                 /\ ~IsLetter(First) /\ First # "blank" => Held = key
    BY <1>1, FetchResult DEF Held
<1>8. Held.sending \in {<<>>, blank} =>
        /\ n.state = "idle"
        /\ n.sending = IF Held.space = 1 /\ Held.sending = blank THEN <<>> ELSE Held.sending
        /\ Held.space = 1 => n.space = 0
    <2> SUFFICES ASSUME Held.sending \in {<<>>, blank}
                 PROVE  /\ n.state = "idle"
                        /\ n.sending = IF Held.space = 1 /\ Held.sending = blank THEN <<>> ELSE Held.sending
                        /\ Held.space = 1 => n.space = 0
        OBVIOUS
    <2>1. NextElement(c).pressed = {}
        BY <1>3, NextElementResult
    <2>2. Rests(n, c)
        BY <1>2, <1>3, <1>4, <2>1, IdleSplits
    <2> HIDE DEF n, c, blank
    <2> QED
        BY <1>1, <1>3, <2>2 DEF Rests, blank
<1> HIDE DEF n, c, blank
<1>9. Fetches /\ IsLetter(First) => Sending(n, First) /\ ~WordEnds(Held, n)
    <2> SUFFICES ASSUME Fetches, IsLetter(First) PROVE Sending(n, First) /\ ~WordEnds(Held, n)
        OBVIOUS
    <2>1. c.sending \in Seq(Element) /\ c.sending # <<>> /\ c.sending = Morse[First]
          /\ First \in DOMAIN Morse
        BY <1>3, <1>7 DEF IsLetter
    <2>2. c.code \o c.sending = Morse[First]
        BY <1>3, <2>1, ConcatEmptySeq, Zenon
    <2>3. Sending(n, First)
        BY <1>2, <1>3, <1>4, <2>1, <2>2, IdleSends
    <2> QED
        BY <2>3, SendingMoves DEF WordEnds
<1>10. Fetches /\ First = "blank" => n.state = "idle" /\ n.sending = blank
    BY <1>7, <1>8, Times
<1>11. (Fetches => ~IsLetter(First) /\ First # "blank")
         => n.state = "idle" /\ (history.taken = "blank" /\ ~WordEnds(Held, n) => n.sending = blank)
    <2> SUFFICES ASSUME Fetches => ~IsLetter(First) /\ First # "blank"
                 PROVE n.state = "idle" /\ (history.taken = "blank" /\ ~WordEnds(Held, n) => n.sending = blank)
        OBVIOUS
    <2>1. Held = key
        BY <1>1, <1>7
    <2>2. history.taken = "blank" => Held.sending = blank
        BY <2>1 DEF Between, blank
    <2>3. n.state = "idle" /\ (Held.space = 1 => n.space = 0)
          /\ (Held.space # 1 => n.sending = Held.sending)
        BY <1>1, <1>8, <2>1
    <2> QED
        BY <2>2, <2>3 DEF WordEnds
<1> QED
    BY <1>5, <1>6, <1>9, <1>10, <1>11 DEF n, blank


\* A character that is over leaves the keyer at rest.
LEMMA CharOver ==
    ASSUME NEW k \in Keyer, lines \subseteq Element, Orderly(k), CharEnds(k, ProcessIambic(k)),
           k.state # "idle"
    PROVE  ProcessIambic(k).state = "idle"
<1> DEFINE n == ProcessIambic(k)
<1>0. Running(n, k) /\ Coherent(n) /\ n \in Keyer /\ k.code # <<>> /\ n.code = <<>>
    BY RunSplits, RunType DEF CharEnds
<1>1. \A j \in Keyer : j.pressed # {} /\ Wait(j).state = "wait" => Wait(j).code = j.code
    <2> SUFFICES ASSUME NEW j \in Keyer, j.pressed # {}, Wait(j).state = "wait"
                 PROVE  Wait(j).code = j.code
        OBVIOUS
    <2>1. \A e \in Element : Begin(j, e).state = "keyUp"
        BY BeginResult
    <2> QED
        BY <2>1, WaitResult
<1> HIDE DEF n
<1>2. n.state # "wait"
    <2> SUFFICES ASSUME n.state = "wait" PROVE FALSE
        OBVIOUS
    <2>1. CASE k.state = "wait" /\ n = Wait(k)
        BY <1>0, <1>1, <2>1 DEF Orderly
    <2>2. CASE Timed(n, k)
        BY <1>0, <2>2 DEF Timed
    <2>3. CASE \E j \in Keyer : Follows(j, k) /\ (ToDah(n, j, k) \/ ToRest(n, j, k))
        <3>1. PICK j \in Keyer : Follows(j, k) /\ (ToDah(n, j, k) \/ ToRest(n, j, k))
            BY <2>3
        <3>2. CASE ToDah(n, j, k)
            BY <3>2, BeginResult DEF ToDah, Element
        <3>3. CASE ToRest(n, j, k)
            <4> DEFINE p == NextElement(j)
            <4>1. n = Idle(j) /\ Ready(j) /\ j.code = k.code
                BY <3>1, <3>3 DEF ToRest, Ready, Follows
            <4>2. p \in Keyer /\ p.code = j.code
                BY NextElementResult
            <4>3. CASE p.pressed # {}
                <5>1. n = Wait(p)
                    BY <4>1, <4>3, IdleSplits
                <5> HIDE DEF p
                <5> QED
                    BY <1>0, <1>1, <4>1, <4>2, <4>3, <5>1
            <4>4. CASE p.pressed = {}
                <5>1. Rests(n, j)
                    BY <4>1, <4>4, IdleSplits
                <5> QED
                    BY <5>1 DEF Rests
            <4> QED
                BY <4>3, <4>4
        <3> QED
            BY <3>1, <3>2, <3>3
    <2> QED
        BY <1>0, <2>1, <2>2, <2>3 DEF Running
<1>3. n.state = "idle"
    BY <1>0, <1>2 DEF Coherent, Keyer
<1> QED
    BY <1>3 DEF n

LEMMA TextRun ==
    ASSUME TypeInv, TextInv, SentAsWritten, KeyerRun
    PROVE  TextInv' /\ SentAsWritten'
<1>1. /\ Held \in Keyer /\ Orderly(Held) /\ Held.state = key.state /\ Held.pressed = key.pressed
      /\ Held.code = key.code /\ (~Fetches => Held = key)
      /\ key' = ProcessIambic(Held) /\ key' \in Keyer /\ Coherent(key')
      /\ Note(Held, Fetches, First) /\ lines' = lines
    BY RunFacts DEF TypeInv
<1>2. history \in History /\ Fetches \in BOOLEAN /\ lines \subseteq Element /\ key \in Keyer
      /\ Coherent(key) /\ (Fetches => key.state = "idle") /\ ~history.wrong
    BY DEF TypeInv, TypeOK, Fetches, SentAsWritten
<1> DEFINE charEnd == CharEnds(Held, key')
           wordEnd == WordEnds(Held, key')
           good    == IF charEnd THEN history.taken \in Decoded(Held.code)
                      ELSE wordEnd => history.taken \in {"blank", NoChar}
           took    == Fetches /\ (IsLetter(First) \/ First = "blank")
<1>3. /\ history'.taken = IF took THEN First ELSE IF charEnd \/ wordEnd THEN NoChar ELSE history.taken
      /\ history'.wrong <=> history.wrong
                            \/ (~history.byHand /\ ((Fetches /\ history.taken # NoChar) \/ ~good))
      /\ history'.byHand <=> lines # {} \/ (history.byHand /\ ~charEnd)
    BY <1>1, <1>2, NoteResult
<1>4. charEnd => key.state # "idle" /\ key'.state = "idle" /\ ~Fetches
    <2> SUFFICES ASSUME charEnd PROVE key.state # "idle" /\ key'.state = "idle" /\ ~Fetches
        OBVIOUS
    <2>1. key.state # "idle"
        BY <1>1, <1>2 DEF CharEnds, Coherent
    <2> QED
        BY <1>1, <1>2, <2>1, CharOver
<1> DEFINE Inv == Between(key', history'.taken) \/ Sending(key', history'.taken)
<1>5. CASE history.byHand
    <2>1. ~history'.wrong
        BY <1>2, <1>3, <1>5
    <2>2. ~history'.byHand => lines = {} /\ charEnd
        BY <1>3, <1>5
    <2>3. charEnd => Inv
        BY <1>3, <1>4 DEF Between, NoChar
    <2> QED
        BY <1>1, <2>1, <2>2, <2>3 DEF TextInv, SentAsWritten
<1>6. CASE ~history.byHand /\ Between(key, history.taken)
    <2>0. lines = {} /\ key.state = "idle" /\ history.taken \in {"blank", NoChar}
        BY <1>6 DEF TextInv, Between
    <2>1. /\ ~charEnd /\ (Fetches => history.taken = NoChar)
          /\ Fetches /\ IsLetter(First) => Sending(key', First) /\ ~wordEnd
          /\ Fetches /\ First = "blank" => key'.state = "idle" /\ key'.sending = <<"blank">>
          /\ ~took => key'.state = "idle"
                      /\ (history.taken = "blank" /\ ~wordEnd => key'.sending = <<"blank">>)
        BY <1>6, <2>0, BetweenRun
    <2>2. good
        BY <2>0, <2>1
    <2>3. ~history'.wrong
        BY <1>2, <1>3, <2>1, <2>2
    <2>4. Inv
        <3>1. CASE Fetches /\ IsLetter(First)
            BY <1>3, <2>1, <3>1
        <3>2. CASE Fetches /\ First = "blank"
            BY <1>3, <2>1, <3>2 DEF Between
        <3>3. CASE ~took
            <4>1. NoChar # "blank"
                BY DEF NoChar
            <4>2. history'.taken = IF wordEnd THEN NoChar ELSE history.taken
                BY <1>3, <2>1, <3>3
            <4> HIDE DEF wordEnd, took
            <4> QED
                BY <2>0, <2>1, <3>3, <4>1, <4>2 DEF Between
        <3> QED
            BY <3>1, <3>2, <3>3
    <2> QED
        BY <1>1, <2>0, <2>3, <2>4 DEF TextInv, SentAsWritten
<1>7. CASE ~history.byHand /\ Sending(key, history.taken)
    <2>0. lines = {} /\ key.state # "idle" /\ ~Fetches /\ Held = key
        BY <1>1, <1>2, <1>7, SendingMoves DEF TextInv
    <2>1. Goes(key', key, history.taken)
        BY <1>1, <1>2, <1>7, <2>0, LetterRun
    <2>2. CASE Sending(key', history.taken) /\ ~charEnd /\ ~wordEnd
        <3>1. ~history'.wrong /\ history'.taken = history.taken
            BY <1>2, <1>3, <2>0, <2>2
        <3> QED
            BY <1>1, <2>0, <2>2, <3>1 DEF TextInv, SentAsWritten
    <2>3. CASE key.code = Morse[history.taken] /\ key.code # <<>> /\ key'.state = "idle" /\ key'.code = <<>>
        <3>1. charEnd
            BY <2>0, <2>3 DEF CharEnds
        <3>2. history.taken \in Decoded(Held.code)
            BY <1>7, <2>0, <2>3 DEF Decoded, Sending
        <3>3. ~history'.wrong /\ history'.taken = NoChar
            BY <1>2, <1>3, <2>0, <3>1, <3>2
        <3>4. Inv
            BY <2>3, <3>3 DEF Between, NoChar
        <3> QED
            BY <1>1, <2>0, <3>3, <3>4 DEF TextInv, SentAsWritten
    <2> QED
        BY <2>0, <2>1, <2>2, <2>3 DEF Goes
<1> QED
    BY <1>5, <1>6, <1>7 DEF TextInv

LEMMA TextStep == TypeInv /\ TextInv /\ SentAsWritten /\ [Next]_vars => TextInv' /\ SentAsWritten'
<1> SUFFICES ASSUME TypeInv, TextInv, SentAsWritten, [Next]_vars PROVE TextInv' /\ SentAsWritten'
    OBVIOUS
<1>1. CASE KeyerRun
    BY <1>1, TextRun
<1>2. CASE \E p \in Element : PressPaddle(p)
    <2>1. history'.byHand /\ history'.wrong = history.wrong
        BY <1>2, PressResult DEF TypeInv
    <2> QED
        BY <2>1 DEF TextInv, SentAsWritten
<1>3. CASE Elsewhere
    BY <1>3 DEF Elsewhere, TextInv, SentAsWritten
<1> QED
    BY <1>1, <1>2, <1>3, StepSplits DEF TypeInv

LEMMA TextInit == Init => TextInv /\ SentAsWritten
BY DEF Init, TextInv, SentAsWritten, Between, NoChar

\* Every character is sent with its own elements, complete and apart from the next,
\* whatever the break time ends between the letters and whatever buttons are pressed.
THEOREM TextArrives == Spec => []SentAsWritten
BY TypeInit, TypeStep, TextInit, TextStep, PTL DEF Spec
================================================================================
