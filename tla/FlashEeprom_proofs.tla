------------------------- MODULE FlashEeprom_proofs -------------------------
(***************************************************************************)
(* Proofs about the settings memory in flash (FlashEeprom), for every      *)
(* number of variables, every page size and with power losses and failing  *)
(* operations anywhere: the types, that a write which reports success can  *)
(* be read back, that the second boot repairs what a power loss left       *)
(* behind, and that the memory implements SettingsStore as long as no full *)
(* page had to be transferred.                                             *)
(***************************************************************************)
EXTENDS FlashEeprom, SequenceTheorems, WellFoundedInduction, TLAPS

\* The write under way is the last operation of the plan of its call, and the only
\* one that can end the call successfully.
LastIsPut ==
  call = "write" =>
    /\ plan[Len(plan)].op = "put"
    /\ writing = <<plan[Len(plan)].id, plan[Len(plan)].value>>
    /\ \A i \in 1 .. Len(plan) - 1 : plan[i].op # "put"
    /\ result = "none"

\* A transfer that has copies to make and then issues these two operations.
CopiesThen(t, mark, erase) ==
  /\ Len(t) >= 2
  /\ t[Len(t) - 1] = mark /\ t[Len(t)] = erase
  /\ \A i \in 1 .. Len(t) - 2 : t[i].op = "copy"

E0 == Erase(PAGE0_ID)
E1 == Erase(PAGE1_ID)
M0 == Mark(0, "VALID_PAGE")
M1 == Mark(1, "VALID_PAGE")

s0 == page[0].status
s1 == page[1].status

\* What can be left to do of a repair of Flash_InitA, and how far the pages are then.
RepairLeft(ops) ==
  \/ ops = <<E0, M0, E1>>
  \/ ops = <<M0, E1>> /\ page[0] = BlankPage
  \/ ops = <<E1>> /\ s0 = "VALID_PAGE"
  \/ ops = <<E0>> /\ s1 = "VALID_PAGE"
  \/ ops = <<E0, M1>>
  \/ ops = <<M1>> /\ page[0] = BlankPage
  \/ ops = <<E0, M0>> /\ s1 = "ERASED"
  \/ ops = <<M0>> /\ page[0] = BlankPage /\ s1 = "ERASED"
  \/ CopiesThen(ops, M1, E1) /\ s0 = "RECEIVE_DATA"
  \/ ops = <<E1>> /\ s0 = "RECEIVE_DATA"
  \/ CopiesThen(ops, M1, E0)

RepairUnderWay == call = "init" => RepairLeft(plan)

\* Put is the only operation of a write while no page is full.
PlainWrites == call = "write" => Len(plan) = 1

\* A boot ends without a valid page only when it "transferred" the page that was
\* valid to itself and erased it; the headers it leaves are ones the next boot,
\* unless it is cut short, makes valid again.
FailedBootLeaves ==
  /\ failedBoots \in {0, 1}
  /\ failedBoots = 1 =>
       \/ /\ call # "init" /\ s0 = "RECEIVE_DATA" /\ s1 = "ERASED"
          /\ PlainWrites
       \/ call = "init" /\ plan = <<E0, M0>>
       \/ call = "init" /\ plan = <<M0>>

NoWords == page[0].words = <<>> /\ page[1].words = <<>>

\* One page is in use, the other one blank.
OneInUse ==
  \E p \in 0 .. 1 : page[p].status = "VALID_PAGE" /\ page[1 - p] = BlankPage

\* Until the first transfer no erasure ever runs while there is anything stored, and
\* a page gets data only while the other one is blank.
StoreInv ==
  ~transferred =>
    /\ PlainWrites
    /\ NoWords \/ (OneInUse /\ call # "init")
    /\ usable => OneInUse \/ FindPage("READ_FROM_VALID_PAGE") = NoPage
    /\ call = "init" => ~usable
    /\ call = "write" => usable
-----------------------------------------------------------------------------
(***************************************************************************)
(* Finding the newest word of a variable.                                  *)
(***************************************************************************)

LEMMA LeastElement ==
  ASSUME NEW T, T \subseteq Nat, T # {}
  PROVE  \E x \in T : \A y \in T : x <= y
  <1>1. PICK x \in T : \A y \in T : ~ (<<y, x>> \in OpToRel(<, Nat))
    BY NatLessThanWellFounded, WFMin
  <1>2. \A y \in T : ~ (y < x)
    BY <1>1, Zenon DEF OpToRel
  <1> QED
    BY <1>2

LEMMA LastElement ==
  ASSUME NEW n \in Nat, NEW T, T \subseteq 1 .. n, T # {}
  PROVE  \E x \in T : \A y \in T : y <= x
  <1> DEFINE U == {k \in Nat : n - k \in T}
  <1>1. PICK t \in T : t \in 1 .. n
    OBVIOUS
  <1>2. n - t \in Nat /\ n - (n - t) = t
    BY <1>1
  <1>3. U # {} /\ U \subseteq Nat
    BY <1>1, <1>2
  <1>4. PICK u \in U : \A v \in U : u <= v
    BY <1>3, LeastElement
  <1>5. ASSUME NEW y \in T PROVE y <= n - u
    <2>1. y \in 1 .. n /\ n - y \in Nat /\ n - (n - y) = y
      OBVIOUS
    <2>2. n - y \in U
      BY <2>1
    <2>3. u <= n - y
      BY <1>4, <2>2
    <2> QED
      BY <2>1, <2>3
  <1> QED
    BY <1>4, <1>5

LEMMA WordFields ==
  ASSUME NEW x \in Word
  PROVE  x.address \in Address /\ x.value \in Value
  BY DEF Word

\* The word the search from the end stops at.
LEMMA NewestIs ==
  ASSUME NEW w \in Seq(Word), NEW a, Hits(w, a) # {}
  PROVE  \E i \in Hits(w, a) : (\A j \in Hits(w, a) : j <= i) /\ NewestWord(w, a) = w[i].value
  <1>1. Hits(w, a) \subseteq 1 .. Len(w) /\ Len(w) \in Nat
    BY DEF Hits
  <1>2. \E i \in Hits(w, a) : \A j \in Hits(w, a) : j <= i
    BY <1>1, LastElement
  <1> DEFINE i == CHOOSE i \in Hits(w, a) : \A j \in Hits(w, a) : j <= i
  <1>3. i \in Hits(w, a) /\ \A j \in Hits(w, a) : j <= i
    BY <1>2, Zenon
  <1>4. NewestWord(w, a) = w[i].value
    BY Zenon DEF NewestWord
  <1> HIDE DEF i
  <1> QED
    BY <1>3, <1>4

LEMMA NewestType ==
  ASSUME NEW w \in Seq(Word), NEW a
  PROVE  NewestWord(w, a) \in Value \cup {NotFound}
  <1>1. CASE Hits(w, a) = {}
    BY <1>1 DEF NewestWord
  <1>2. CASE Hits(w, a) # {}
    <2>1. PICK i \in Hits(w, a) : NewestWord(w, a) = w[i].value
      BY <1>2, NewestIs
    <2>2. w[i] \in Word
      BY DEF Hits
    <2>3. w[i].value \in Value
      BY <2>2, WordFields
    <2> QED
      BY <2>1, <2>3
  <1> QED
    BY <1>1, <1>2

\* A word programmed behind the others is what its variable reads back as, and
\* changes nothing for the other ones.
LEMMA NewestAppend ==
  ASSUME NEW w \in Seq(Word), NEW new \in Word, NEW a
  PROVE  NewestWord(Append(w, new), a) =
           IF new.address = a THEN new.value ELSE NewestWord(w, a)
  <1> DEFINE e == Append(w, new)
             n == Len(w)
  <1>1. /\ n \in Nat /\ e \in Seq(Word) /\ DOMAIN w = 1 .. n /\ DOMAIN e = 1 .. n + 1
        /\ \A i \in 1 .. n : e[i] = w[i]
        /\ e[n + 1] = new
    OBVIOUS
  <1> HIDE DEF e, n
  <1>2. CASE new.address = a
    <2>1. n + 1 \in Hits(e, a)
      BY <1>1, <1>2 DEF Hits
    <2>2. PICK i \in Hits(e, a) : (\A j \in Hits(e, a) : j <= i) /\ NewestWord(e, a) = e[i].value
      BY <1>1, <2>1, NewestIs
    <2>3. i \in 1 .. n + 1 /\ n + 1 <= i
      BY <1>1, <2>1, <2>2 DEF Hits
    <2>4. i = n + 1
      BY <1>1, <2>3
    <2> QED
      BY <1>1, <1>2, <2>2, <2>4 DEF e
  <1>3. CASE new.address # a
    <2>1. Hits(e, a) = Hits(w, a)
      BY <1>1, <1>3 DEF Hits
    <2>2. CASE Hits(w, a) = {}
      BY <1>3, <2>1, <2>2 DEF NewestWord, e
    <2>3. CASE Hits(w, a) # {}
      <3>1. PICK i \in Hits(w, a) : (\A j \in Hits(w, a) : j <= i) /\ NewestWord(w, a) = w[i].value
        BY <2>3, NewestIs
      <3>2. PICK k \in Hits(e, a) : (\A j \in Hits(e, a) : j <= k) /\ NewestWord(e, a) = e[k].value
        BY <1>1, <2>1, <2>3, NewestIs
      <3>3. i \in 1 .. n /\ k \in 1 .. n /\ i <= k /\ k <= i
        BY <1>1, <2>1, <3>1, <3>2 DEF Hits
      <3>4. i = k
        BY <1>1, <3>3
      <3> QED
        BY <1>1, <1>3, <3>1, <3>2, <3>3, <3>4 DEF e
    <2> QED
      BY <2>2, <2>3
  <1> QED
    BY <1>2, <1>3

LEMMA AddressesDiffer ==
  ASSUME NEW i \in Ids, NEW j \in Ids, VirtAddrForId(i) = VirtAddrForId(j)
  PROVE  i = j
  BY FlashAssumption DEF Ids, VirtAddrForId, VAR_ADDR_START

LEMMA AddressType == ASSUME NEW i \in Int PROVE VirtAddrForId(i) \in Address
  BY DEF VirtAddrForId, VAR_ADDR_START, Address
-----------------------------------------------------------------------------
(***************************************************************************)
(* Types.                                                                  *)
(***************************************************************************)

LEMMA OperationFields ==
  ASSUME NEW o \in Operation
  PROVE  /\ o.op \in {"erase", "mark", "put", "copy"}
         /\ o.op = "erase" => o.sector \in 0 .. PAGE1_ID
         /\ o.op = "mark" => o.page \in 0 .. 1 /\ o.status \in Status
         /\ o.op = "put" => o.id \in Ids /\ o.value \in Value /\ o.retry \in BOOLEAN
         /\ o.op = "copy" => o.id \in Ids /\ o.to \in 0 .. 1 /\ o.skip \in Address
  <1>1. ASSUME o \in EraseOp PROVE o.op = "erase" /\ o.sector \in 0 .. PAGE1_ID
    BY <1>1 DEF EraseOp
  <1>2. ASSUME o \in MarkOp PROVE o.op = "mark" /\ o.page \in 0 .. 1 /\ o.status \in Status
    BY <1>2 DEF MarkOp
  <1>3. ASSUME o \in PutOp
        PROVE  o.op = "put" /\ o.id \in Ids /\ o.value \in Value /\ o.retry \in BOOLEAN
    BY <1>3 DEF PutOp
  <1>4. ASSUME o \in CopyOp
        PROVE  o.op = "copy" /\ o.id \in Ids /\ o.to \in 0 .. 1 /\ o.skip \in Address
    BY <1>4 DEF CopyOp
  <1> QED
    BY <1>1, <1>2, <1>3, <1>4 DEF Operation

LEMMA Operations ==
  /\ \A n \in 0 .. PAGE1_ID : Erase(n) \in Operation
  /\ \A p \in 0 .. 1, st \in Status : Mark(p, st) \in Operation
  /\ \A id \in Ids, v \in Value, r \in BOOLEAN : Put(id, v, r) \in Operation
  /\ \A id \in Ids, p \in 0 .. 1, skip \in Address : Copy(id, p, skip) \in Operation
  <1>1. \A n \in 0 .. PAGE1_ID : Erase(n) \in EraseOp
    BY DEF Erase, EraseOp
  <1>2. \A p \in 0 .. 1, st \in Status : Mark(p, st) \in MarkOp
    BY DEF Mark, MarkOp
  <1>3. \A id \in Ids, v \in Value, r \in BOOLEAN : Put(id, v, r) \in PutOp
    BY DEF Put, PutOp
  <1>4. \A id \in Ids, p \in 0 .. 1, skip \in Address : Copy(id, p, skip) \in CopyOp
    BY DEF Copy, CopyOp
  <1> QED
    BY <1>1, <1>2, <1>3, <1>4 DEF Operation

LEMMA NamedOperations ==
  /\ E0 \in Operation /\ E1 \in Operation /\ M0 \in Operation /\ M1 \in Operation
  /\ E0.op = "erase" /\ E0.sector = 2 /\ E1.op = "erase" /\ E1.sector = 3
  /\ M0.op = "mark" /\ M0.page = 0 /\ M0.status = "VALID_PAGE"
  /\ M1.op = "mark" /\ M1.page = 1 /\ M1.status = "VALID_PAGE"
  BY Operations DEF E0, E1, M0, M1, Erase, Mark, PAGE0_ID, PAGE1_ID, Status

LEMMA ConcatParts ==
  ASSUME NEW S, NEW s \in Seq(S), NEW t \in Seq(S)
  PROVE  /\ s \o t \in Seq(S) /\ Len(s \o t) = Len(s) + Len(t)
         /\ \A i \in 1 .. Len(s) : (s \o t)[i] = s[i]
         /\ \A i \in 1 .. Len(t) : (s \o t)[Len(s) + i] = t[i]
  <1>1. s \o t \in Seq(S) /\ Len(s \o t) = Len(s) + Len(t)
    BY ConcatProperties
  <1>2. ASSUME NEW i \in 1 .. Len(s) PROVE (s \o t)[i] = s[i]
    OBVIOUS
  <1>3. ASSUME NEW i \in 1 .. Len(t) PROVE (s \o t)[Len(s) + i] = t[i]
    OBVIOUS
  <1> QED
    BY <1>1, <1>2, <1>3

LEMMA AppendOne ==
  ASSUME NEW S, NEW x \in S
  PROVE  /\ <<x>> \in Seq(S) /\ <<x>> # <<>>
         /\ \A s \in Seq(S) : s \o <<x>> \in Seq(S) /\ s \o <<x>> # <<>>
  <1>1. <<x>> \in Seq(S) /\ <<x>> # <<>>
    OBVIOUS
  <1>2. ASSUME NEW s \in Seq(S) PROVE s \o <<x>> \in Seq(S) /\ s \o <<x>> # <<>>
    <2>1. s \o <<x>> \in Seq(S) /\ Len(s \o <<x>>) = Len(s) + 1
      OBVIOUS
    <2>2. Len(s) \in Nat
      OBVIOUS
    <2>3. Len(s) + 1 # 0
      BY <2>2
    <2> QED
      BY <2>1, <2>3, EmptySeq
  <1> QED
    BY <1>1, <1>2

\* The operations of a transfer: copies, the mark, the erasure.
LEMMA TransferShape ==
  ASSUME NEW from \in 0 .. PAGE1_ID, NEW to \in 0 .. PAGE1_ID, NEW skip \in Address
  PROVE  LET t == TransferFullPage(from, to, skip)
             p == IF to = 0 THEN 0 ELSE 1
         IN  /\ t \in Seq(Operation) /\ Len(t) = NB_OF_VAR + 2
             /\ \A i \in 1 .. NB_OF_VAR : t[i].op = "copy"
             /\ t[NB_OF_VAR + 1] = Mark(p, "VALID_PAGE")
             /\ t[NB_OF_VAR + 2] = Erase(from)
  <1> DEFINE p == IF to = 0 THEN 0 ELSE 1
             copies == [i \in 1 .. NB_OF_VAR |-> Copy(i - 1, p, skip)]
             rest == <<Mark(p, "VALID_PAGE"), Erase(from)>>
  <1>0. NB_OF_VAR \in Nat /\ p \in 0 .. 1 /\ \A i \in 1 .. NB_OF_VAR : i - 1 \in Ids
    BY FlashAssumption DEF Ids
  <1>1. \A i \in 1 .. NB_OF_VAR : Copy(i - 1, p, skip) \in Operation
    BY <1>0, Operations
  <1>m. Mark(p, "VALID_PAGE") \in Operation /\ Erase(from) \in Operation
    BY <1>0, Operations DEF Status
  <1> HIDE DEF p
  <1>2. copies \in Seq(Operation) /\ Len(copies) = NB_OF_VAR
    BY <1>1, FlashAssumption
  <1>3. \A i \in 1 .. NB_OF_VAR : copies[i].op = "copy"
    BY DEF Copy
  <1>4. rest \in Seq(Operation) /\ Len(rest) = 2
        /\ rest[1] = Mark(p, "VALID_PAGE") /\ rest[2] = Erase(from)
    BY <1>m
  <1>5. TransferFullPage(from, to, skip) = copies \o rest
    BY DEF TransferFullPage, p
  <1> HIDE DEF copies, rest
  <1>6. /\ copies \o rest \in Seq(Operation) /\ Len(copies \o rest) = NB_OF_VAR + 2
        /\ \A i \in 1 .. NB_OF_VAR : (copies \o rest)[i] = copies[i]
        /\ (copies \o rest)[NB_OF_VAR + 1] = rest[1] /\ (copies \o rest)[NB_OF_VAR + 2] = rest[2]
    <2>1. /\ \A i \in 1 .. NB_OF_VAR : (copies \o rest)[i] = copies[i]
          /\ \A i \in 1 .. 2 : (copies \o rest)[NB_OF_VAR + i] = rest[i]
          /\ copies \o rest \in Seq(Operation) /\ Len(copies \o rest) = NB_OF_VAR + 2
      <3>0. copies \in Seq(Operation) /\ rest \in Seq(Operation)
        BY <1>2, <1>4
      <3>1. /\ copies \o rest \in Seq(Operation)
            /\ Len(copies \o rest) = Len(copies) + Len(rest)
            /\ \A i \in 1 .. Len(copies) : (copies \o rest)[i] = copies[i]
            /\ \A i \in 1 .. Len(rest) : (copies \o rest)[Len(copies) + i] = rest[i]
        BY <3>0, ConcatParts
      <3>2. Len(copies) = NB_OF_VAR /\ Len(rest) = 2
        BY <1>2, <1>4
      <3> QED
        BY <3>1, <3>2, Zenon
    <2>2. 1 \in 1 .. 2 /\ 2 \in 1 .. 2
      OBVIOUS
    <2> QED
      BY <2>1, <2>2, Zenon
  <1> QED
    BY <1>0, <1>3, <1>4, <1>5, <1>6 DEF p

LEMMA InitPlanType == TypeOK => InitPlan \in Seq(Operation)
  <1> SUFFICES ASSUME TypeOK PROVE InitPlan \in Seq(Operation)
    OBVIOUS
  <1>1. \A p \in 0 .. 1 : EraseIfNeeded(p) \in Seq(Operation)
    BY NamedOperations DEF EraseIfNeeded, E0, E1
  <1>2. <<Mark(0, "VALID_PAGE")>> \in Seq(Operation) /\ <<Mark(1, "VALID_PAGE")>> \in Seq(Operation)
    BY NamedOperations DEF M0, M1
  <1>3. /\ TransferFullPage(PAGE1_ID, PAGE0_ID, 0) \in Seq(Operation)
        /\ TransferFullPage(PAGE0_ID, PAGE1_ID, 0) \in Seq(Operation)
    <2>1. PAGE0_ID \in 0 .. PAGE1_ID /\ PAGE1_ID \in 0 .. PAGE1_ID /\ 0 \in Address
      BY DEF PAGE0_ID, PAGE1_ID, Address
    <2> QED
      BY <2>1, TransferShape
  <1>4. Format \in Seq(Operation)
    BY NamedOperations DEF Format, E0, E1, M0
  <1>5. /\ EraseIfNeeded(0) \o <<Mark(0, "VALID_PAGE")>> \in Seq(Operation)
        /\ EraseIfNeeded(0) \o <<Mark(1, "VALID_PAGE")>> \in Seq(Operation)
    BY <1>1, <1>2
  <1> QED
    BY <1>1, <1>3, <1>4, <1>5 DEF InitPlan

LEMMA FindPageType ==
  ASSUME NEW o
  PROVE  /\ FindPage(o) \in {0, 1, NoPage}
         /\ o # "RECEIVE_WRITE_PAGE" /\ FindPage(o) # NoPage =>
               page[FindPage(o)].status = "VALID_PAGE"
  BY DEF FindPage, NoPage

LEMMA PageTransferType ==
  ASSUME NEW id \in Ids, FindPage("READ_FROM_VALID_PAGE") # NoPage
  PROVE  PageTransfer(id) \in Seq(Operation) /\ Len(PageTransfer(id)) = NB_OF_VAR + 3
         /\ \A i \in 1 .. NB_OF_VAR + 3 : PageTransfer(id)[i].op # "put"
  <1> DEFINE old == FindPage("READ_FROM_VALID_PAGE")
             skip == VirtAddrForId(id)
             first == <<Mark(1 - old, "RECEIVE_DATA")>>
             t == TransferFullPage(old, 1 - old, skip)
             q == IF 1 - old = 0 THEN 0 ELSE 1
  <1>1. old \in 0 .. 1 /\ 1 - old \in 0 .. 1 /\ skip \in Address
    BY FindPageType, AddressType DEF NoPage, Ids
  <1>2. first \in Seq(Operation) /\ Len(first) = 1 /\ first[1].op = "mark"
    <2>1. Mark(1 - old, "RECEIVE_DATA") \in Operation
      BY <1>1, Operations DEF Status
    <2> QED
      BY <2>1 DEF Mark
  <1> HIDE DEF old, skip
  <1>3. /\ t \in Seq(Operation) /\ Len(t) = NB_OF_VAR + 2
        /\ \A i \in 1 .. NB_OF_VAR : t[i].op = "copy"
        /\ t[NB_OF_VAR + 1] = Mark(q, "VALID_PAGE") /\ t[NB_OF_VAR + 2] = Erase(old)
    <2>1. old \in 0 .. PAGE1_ID /\ 1 - old \in 0 .. PAGE1_ID
      BY <1>1 DEF PAGE1_ID
    <2> QED
      BY <1>1, <2>1, TransferShape
  <1>4. \A i \in 1 .. NB_OF_VAR + 2 : t[i].op # "put"
    <2> SUFFICES ASSUME NEW i \in 1 .. NB_OF_VAR + 2 PROVE t[i].op # "put"
      OBVIOUS
    <2>1. i \in 1 .. NB_OF_VAR \/ i = NB_OF_VAR + 1 \/ i = NB_OF_VAR + 2
      BY FlashAssumption
    <2> QED
      BY <1>3, <2>1 DEF Mark, Erase
  <1>5. PageTransfer(id) = first \o t
    BY DEF PageTransfer, old, skip
  <1> HIDE DEF first, t
  <1>6. /\ first \o t \in Seq(Operation) /\ Len(first \o t) = NB_OF_VAR + 3
        /\ (first \o t)[1] = first[1]
        /\ \A i \in 1 .. NB_OF_VAR + 2 : (first \o t)[1 + i] = t[i]
    <2>1. NB_OF_VAR + 2 \in Nat /\ 1 + (NB_OF_VAR + 2) = NB_OF_VAR + 3 /\ 1 \in Nat /\ 1 \in 1 .. 1
      BY FlashAssumption
    <2>2. /\ first \o t \in Seq(Operation) /\ Len(first \o t) = 1 + (NB_OF_VAR + 2)
          /\ \A i \in 1 .. 1 : (first \o t)[i] = first[i]
          /\ \A i \in 1 .. NB_OF_VAR + 2 : (first \o t)[1 + i] = t[i]
      <3>1. /\ first \o t \in Seq(Operation)
            /\ Len(first \o t) = Len(first) + Len(t)
            /\ \A i \in 1 .. Len(first) : (first \o t)[i] = first[i]
            /\ \A i \in 1 .. Len(t) : (first \o t)[Len(first) + i] = t[i]
        BY <1>2, <1>3, ConcatParts
      <3>2. Len(first) = 1 /\ Len(t) = NB_OF_VAR + 2
        BY <1>2, <1>3
      <3> QED
        BY <3>1, <3>2, Zenon
    <2> QED
      BY <2>1, <2>2
  <1>7. ASSUME NEW i \in 1 .. NB_OF_VAR + 3 PROVE (first \o t)[i].op # "put"
    <2>1. i = 1 \/ (i - 1 \in 1 .. NB_OF_VAR + 2 /\ 1 + (i - 1) = i)
      BY FlashAssumption
    <2> QED
      BY <1>2, <1>4, <1>6, <2>1
  <1> QED
    BY <1>5, <1>6, <1>7

\* The part of TypeOK that a returning call changes.
CallType ==
  /\ call \in {"off", "init", "write", "idle"} /\ usable \in BOOLEAN
  /\ plan \in Seq(Operation) /\ (plan # <<>> <=> call \in {"init", "write"})
  /\ writing \in {<<>>} \cup Ids \X Value /\ (writing # <<>> <=> call = "write")
  /\ result \in {"none", "ok", "error"} /\ failedBoots \in Nat

FlashType ==
  /\ page \in [0 .. 1 -> [status : Status, words : Seq(Word)]]
  /\ \A p \in 0 .. 1 : Len(page[p].words) <= CAPACITY
  /\ bootErased \subseteq 0 .. 1
  /\ newest \in [Ids -> Value \cup {NotFound}] /\ transferred \in BOOLEAN

LEMMA TypeParts == TypeOK <=> FlashType /\ CallType
  BY DEF TypeOK, FlashType, CallType

LEMMA ReturnType ==
  ASSUME CallType, plan # <<>>, NEW ok \in BOOLEAN, Return(ok)
  PROVE  CallType'
  <1>1. plan' = <<>> /\ call' = "idle" /\ call \in {"init", "write"}
    BY DEF Return, CallType
  <1>2. usable' \in BOOLEAN
    BY DEF Return, CallType
  <1>3. writing' = <<>> /\ result' \in {"none", "ok", "error"}
    BY <1>1 DEF Return, CallType
  <1>4. failedBoots' \in Nat
    BY DEF Return, CountBoot, CallType
  <1>5. <<>> \in Seq(Operation)
    OBVIOUS
  <1> QED
    BY <1>1, <1>2, <1>3, <1>4, <1>5 DEF CallType

LEMMA HeadTail ==
  ASSUME plan \in Seq(Operation), plan # <<>>
  PROVE  /\ Head(plan) = plan[1] /\ Head(plan) \in Operation /\ Tail(plan) \in Seq(Operation)
         /\ Len(plan) \in Nat /\ Len(plan) > 0 /\ Len(Tail(plan)) = Len(plan) - 1
         /\ Tail(plan) # <<>> <=> Len(plan) # 1
         /\ \A i \in 1 .. Len(plan) - 1 : Tail(plan)[i] = plan[i + 1]
  <1>1. Len(plan) \in Nat /\ Len(plan) > 0 /\ Head(plan) = plan[1] /\ Head(plan) \in Operation
    OBVIOUS
  <1>2. Tail(plan) \in Seq(Operation) /\ Len(Tail(plan)) = Len(plan) - 1
    OBVIOUS
  <1>3. \A i \in 1 .. Len(plan) - 1 : Tail(plan)[i] = plan[i + 1]
    OBVIOUS
  <1>4. Tail(plan) # <<>> <=> Len(plan) # 1
    BY <1>1, <1>2, EmptySeq
  <1> QED
    BY <1>1, <1>2, <1>3, <1>4

LEMMA AdvanceType ==
  ASSUME CallType, plan # <<>>, Advance
  PROVE  CallType'
  <1>1. CASE Len(plan) = 1
    BY <1>1, ReturnType DEF Advance
  <1>2. CASE Len(plan) # 1
    <2>1. plan' = Tail(plan) /\ UNCHANGED <<call, usable, writing, result, failedBoots>>
      BY <1>2 DEF Advance
    <2>2. plan' \in Seq(Operation) /\ plan' # <<>>
      BY <1>2, <2>1, HeadTail DEF CallType
    <2> QED
      BY <2>1, <2>2 DEF CallType
  <1> QED
    BY <1>1, <1>2

LEMMA TypeInit == Init => TypeOK
  <1> SUFFICES ASSUME Init PROVE TypeOK
    OBVIOUS
  <1>1. BlankPage \in [status : Status, words : Seq(Word)] /\ Len(BlankPage.words) = 0
        /\ <<>> \in Seq(Operation)
    BY DEF BlankPage, Status
  <1>2. page \in [0 .. 1 -> [status : Status, words : Seq(Word)]]
        /\ \A p \in 0 .. 1 : Len(page[p].words) <= CAPACITY
    BY <1>1, FlashAssumption DEF Init
  <1>3. usable \in BOOLEAN /\ transferred \in BOOLEAN
    BY DEF Init
  <1>4. newest \in [Ids -> Value \cup {NotFound}]
    BY DEF Init
  <1> QED
    BY <1>1, <1>2, <1>3, <1>4 DEF Init, TypeOK

LEMMA PageFields ==
  ASSUME TypeOK, NEW p \in 0 .. 1
  PROVE  /\ page[p].status \in Status /\ page[p].words \in Seq(Word)
         /\ Len(page[p].words) <= CAPACITY /\ Len(page[p].words) \in Nat
         /\ page[p] = [status |-> page[p].status, words |-> page[p].words]
         /\ DOMAIN page = 0 .. 1
  <1>1. page[p] \in [status : Status, words : Seq(Word)]
    BY DEF TypeOK
  <1> QED
    BY <1>1 DEF TypeOK

\* Programming a word behind the ones of a page that has room.
LEMMA ProgramWord ==
  ASSUME TypeOK, NEW p \in 0 .. 1, ~Full(p), NEW a \in Address, NEW v \in Value,
         page' = Programmed(p, a, v)
  PROVE  /\ page' \in [0 .. 1 -> [status : Status, words : Seq(Word)]]
         /\ \A q \in 0 .. 1 : Len(page'[q].words) <= CAPACITY
         /\ page'[p].status = page[p].status /\ page'[1 - p] = page[1 - p]
         /\ page'[p].words = Append(page[p].words, [address |-> a, value |-> v])
  <1> DEFINE w == [address |-> a, value |-> v]
             new == [status |-> page[p].status, words |-> Append(page[p].words, w)]
  <1>1. w \in Word
    BY DEF Word
  <1>2. /\ page[p].words \in Seq(Word) /\ page[p].status \in Status
        /\ Len(page[p].words) \in Nat /\ CAPACITY \in Nat
    BY PageFields, FlashAssumption
  <1>3. Len(page[p].words) < CAPACITY
    BY <1>2 DEF Full
  <1> HIDE DEF w
  <1>4. new \in [status : Status, words : Seq(Word)] /\ Len(new.words) <= CAPACITY
    <2> DEFINE e == Append(page[p].words, w)
    <2>1. e \in Seq(Word) /\ Len(e) = Len(page[p].words) + 1
      BY <1>1, <1>2
    <2> HIDE DEF e
    <2>2. [status |-> page[p].status, words |-> e] \in [status : Status, words : Seq(Word)]
      BY <1>2, <2>1
    <2>3. Len(e) <= CAPACITY
      BY <1>2, <1>3, <2>1
    <2> QED
      BY <2>2, <2>3 DEF e
  <1>5. page' = [page EXCEPT ![p] = new]
    <2>1. [page[p] EXCEPT !.words = Append(@, w)] = new
      <3>1. ASSUME NEW st, NEW ws
            PROVE  [[status |-> st, words |-> ws] EXCEPT !.words = Append(@, w)]
                     = [status |-> st, words |-> Append(ws, w)]
        OBVIOUS
      <3>2. page[p] = [status |-> page[p].status, words |-> page[p].words]
        BY PageFields
      <3> QED
        BY <3>1, <3>2
    <2>2. page' = [page EXCEPT ![p] = [page[p] EXCEPT !.words = Append(@, w)]]
      BY DEF Programmed, w
    <2> QED
      BY <2>1, <2>2, Zenon
  <1> HIDE DEF new
  <1>6. page'[p] = new /\ \A q \in 0 .. 1 : q # p => page'[q] = page[q]
    BY <1>5, PageFields
  <1>7. 1 - p \in 0 .. 1 /\ 1 - p # p
    OBVIOUS
  <1>8. page' \in [0 .. 1 -> [status : Status, words : Seq(Word)]]
    BY <1>4, <1>5 DEF TypeOK
  <1>9. \A q \in 0 .. 1 : Len(page'[q].words) <= CAPACITY
    BY <1>4, <1>6, PageFields
  <1> QED
    BY <1>6, <1>7, <1>8, <1>9 DEF new, w

\* Programming the header of a page.
LEMMA HeaderProgrammed ==
  ASSUME TypeOK, NEW p \in 0 .. 1, NEW h
  PROVE  [page EXCEPT ![p].status = HeaderAfter(@, h)] =
           [page EXCEPT ![p] = [status |-> HeaderAfter(page[p].status, h), words |-> page[p].words]]
  <1>1. ASSUME NEW st, NEW ws
        PROVE  [[status |-> st, words |-> ws] EXCEPT !.status = HeaderAfter(@, h)]
                 = [status |-> HeaderAfter(st, h), words |-> ws]
    OBVIOUS
  <1>2. page[p] = [status |-> page[p].status, words |-> page[p].words]
    BY PageFields
  <1>3. [page[p] EXCEPT !.status = HeaderAfter(@, h)] =
           [status |-> HeaderAfter(page[p].status, h), words |-> page[p].words]
    BY <1>1, <1>2
  <1>4. [page EXCEPT ![p].status = HeaderAfter(@, h)] =
           [page EXCEPT ![p] = [page[p] EXCEPT !.status = HeaderAfter(@, h)]]
    OBVIOUS
  <1> QED
    BY <1>3, <1>4, Zenon

\* Replacing one page.
LEMMA ReplacePage ==
  ASSUME TypeOK, NEW p \in 0 .. 1, NEW new \in [status : Status, words : Seq(Word)],
         Len(new.words) <= CAPACITY, page' = [page EXCEPT ![p] = new]
  PROVE  /\ page' \in [0 .. 1 -> [status : Status, words : Seq(Word)]]
         /\ \A q \in 0 .. 1 : Len(page'[q].words) <= CAPACITY
         /\ page'[p] = new /\ page'[1 - p] = page[1 - p]
  <1>1. page'[p] = new /\ \A q \in 0 .. 1 : q # p => page'[q] = page[q]
    BY PageFields
  <1>2. 1 - p \in 0 .. 1 /\ 1 - p # p
    OBVIOUS
  <1>3. page' \in [0 .. 1 -> [status : Status, words : Seq(Word)]]
    BY DEF TypeOK
  <1>4. \A q \in 0 .. 1 : Len(page'[q].words) <= CAPACITY
    BY <1>1, PageFields
  <1> QED
    BY <1>1, <1>2, <1>3, <1>4

LEMMA ReadType ==
  ASSUME TypeOK, NEW id
  PROVE  ReadVariable(id) \in Value \cup {NotFound}
  <1>1. CASE FindPage("READ_FROM_VALID_PAGE") = NoPage
    BY <1>1 DEF ReadVariable
  <1>2. CASE FindPage("READ_FROM_VALID_PAGE") # NoPage
    <2>1. FindPage("READ_FROM_VALID_PAGE") \in 0 .. 1
      BY <1>2, FindPageType
    <2>2. page[FindPage("READ_FROM_VALID_PAGE")].words \in Seq(Word)
      BY <2>1, PageFields
    <2> QED
      BY <1>2, <2>2, NewestType DEF ReadVariable
  <1> QED
    BY <1>1, <1>2

LEMMA TypeStep == TypeOK /\ [Next]_vars => TypeOK'
  <1> SUFFICES ASSUME TypeOK, [Next]_vars PROVE TypeOK'
    OBVIOUS
  <1>0. FlashType /\ CallType
    BY TypeParts
  <1> SUFFICES FlashType' /\ CallType'
    BY TypeParts DEF TypeOK, FlashType, CallType
  <1>1. CASE Boot
    <2>1. FlashType'
      BY <1>0, <1>1 DEF Boot, FlashType
    <2>2. CASE InitPlan = <<>>
      <3>1. call' = "idle" /\ usable' = TRUE /\ plan' = <<>> /\ CountBoot(TRUE)
            /\ UNCHANGED <<writing, result>> /\ writing = <<>>
        BY <1>0, <1>1, <2>2 DEF Boot, CallType
      <3>2. failedBoots' \in Nat
        BY <1>0, <3>1 DEF CountBoot, CallType
      <3>3. <<>> \in Seq(Operation) /\ usable' \in BOOLEAN
        BY <3>1
      <3> QED
        BY <1>0, <2>1, <3>1, <3>2, <3>3 DEF CallType
    <2>3. CASE InitPlan # <<>>
      <3>1. call' = "init" /\ usable' = FALSE /\ plan' = InitPlan
            /\ UNCHANGED <<writing, result, failedBoots>> /\ writing = <<>>
        BY <1>0, <1>1, <2>3 DEF Boot, CallType
      <3>2. plan' \in Seq(Operation) /\ usable' \in BOOLEAN
        BY <3>1, InitPlanType
      <3> QED
        BY <1>0, <2>1, <2>3, <3>1, <3>2 DEF CallType
    <2> QED
      BY <2>2, <2>3
  <1>2. ASSUME NEW id \in Ids, NEW v \in Value, UpdateVariable(id, v) PROVE FlashType' /\ CallType'
    <2>1. FlashType'
      BY <1>0, <1>2 DEF UpdateVariable, FlashType, history
    <2>2. CASE ReadVariable(id) = v
      BY <1>0, <1>2, <2>1, <2>2 DEF UpdateVariable, CallType, history
    <2>3. CASE ReadVariable(id) # v
      <3>1. call' = "write" /\ plan' = <<Put(id, v, FALSE)>> /\ writing' = <<id, v>>
            /\ result' = "none" /\ UNCHANGED <<usable, failedBoots>>
        BY <1>2, <2>3 DEF UpdateVariable, history
      <3>2. Put(id, v, FALSE) \in Operation
        BY Operations
      <3>3. plan' \in Seq(Operation) /\ plan' # <<>>
        BY <3>1, <3>2, AppendOne, Zenon
      <3>4. writing' \in Ids \X Value /\ writing' # <<>>
        BY <3>1
      <3> QED
        BY <1>0, <2>1, <3>1, <3>3, <3>4 DEF CallType
    <2> QED
      BY <2>2, <2>3
  <1>3. CASE OperationFails
    BY <1>0, <1>3, ReturnType DEF OperationFails, FlashType
  <1>4. CASE EraseSector
    <2> DEFINE sector == Head(plan).sector
    <2>1. plan # <<>> /\ sector \in 0 .. PAGE1_ID /\ UNCHANGED <<newest, transferred>>
      BY <1>0, <1>4, HeadTail, OperationFields DEF EraseSector, CallType
    <2>2. CASE /\ sector \in {PAGE0_ID, PAGE1_ID} /\ UNCHANGED bootErased /\ Advance
               /\ page' = [page EXCEPT ![sector - PAGE0_ID] = BlankPage]
      <3>1. sector - PAGE0_ID \in 0 .. 1
        BY <2>2 DEF PAGE0_ID, PAGE1_ID
      <3>2. BlankPage \in [status : Status, words : Seq(Word)] /\ Len(BlankPage.words) <= CAPACITY
        BY FlashAssumption DEF BlankPage, Status
      <3>3. FlashType'
        BY <1>0, <2>1, <2>2, <3>1, <3>2, ReplacePage DEF FlashType
      <3> QED
        BY <1>0, <2>1, <2>2, <3>3, AdvanceType
    <2>3. CASE /\ sector \notin {PAGE0_ID, PAGE1_ID} /\ UNCHANGED page
               /\ bootErased' \in {bootErased, bootErased \cup {sector}}
               /\ (Advance \/ Return(FALSE))
      <3>1. sector \in 0 .. 1
        BY <2>1, <2>3 DEF PAGE0_ID, PAGE1_ID
      <3>2. FlashType'
        BY <1>0, <2>1, <2>3, <3>1 DEF FlashType
      <3> QED
        BY <1>0, <2>1, <2>3, <3>2, AdvanceType, ReturnType
    <2> QED
      BY <1>4, <2>2, <2>3 DEF EraseSector
  <1>5. CASE ProgramHeader
    <2> DEFINE o == Head(plan)
               new == [status |-> HeaderAfter(page[o.page].status, o.status),
                       words |-> page[o.page].words]
    <2>1. plan # <<>> /\ o.page \in 0 .. 1 /\ o.status \in Status
          /\ UNCHANGED <<bootErased, newest, transferred>> /\ Advance
      BY <1>0, <1>5, HeadTail, OperationFields DEF ProgramHeader, CallType
    <2>2. HeaderAfter(page[o.page].status, o.status) \in Status
      BY <2>1, PageFields DEF HeaderAfter, Status
    <2>3. new \in [status : Status, words : Seq(Word)] /\ Len(new.words) <= CAPACITY
      BY <2>1, <2>2, PageFields
    <2>4. page' = [page EXCEPT ![o.page] = new]
      BY <1>5, <2>1, HeaderProgrammed DEF ProgramHeader
    <2> HIDE DEF new, o
    <2>5. FlashType'
      BY <1>0, <2>1, <2>3, <2>4, ReplacePage DEF FlashType
    <2> QED
      BY <1>0, <2>1, <2>5, AdvanceType
  <1>6. CASE CopyVariable
    <2>1. plan # <<>> /\ UNCHANGED <<bootErased, newest, transferred>> /\ Advance
      BY <1>6 DEF CopyVariable
    <2> DEFINE a == VirtAddrForId(Head(plan).id)
               found == ReadVariable(a)
               p == FindPage("RECEIVE_WRITE_PAGE")
    <2>2. \/ page' = page
          \/ page' = Programmed(p, a, found) /\ found # NotFound /\ p # NoPage /\ ~Full(p)
      BY <1>6 DEF CopyVariable
    <2>3. ASSUME page' = Programmed(p, a, found), found # NotFound, p # NoPage, ~Full(p)
          PROVE  FlashType'
      <3>1. Head(plan).id \in Ids
        BY <1>0, <1>6, <2>1, HeadTail, OperationFields DEF CopyVariable, CallType
      <3>2. a \in Address
        BY <3>1, AddressType DEF Ids
      <3>3. found \in Value
        BY <2>3, ReadType
      <3>4. p \in 0 .. 1
        BY <2>3, FindPageType
      <3> HIDE DEF a, found, p
      <3> QED
        BY <1>0, <2>1, <2>3, <3>2, <3>3, <3>4, ProgramWord DEF FlashType
    <2>4. ASSUME page' = page PROVE FlashType'
      BY <1>0, <2>1, <2>4 DEF FlashType
    <2> QED
      BY <1>0, <2>1, <2>2, <2>3, <2>4, AdvanceType
  <1>7. CASE PutVariable
    <2> DEFINE o == Head(plan)
               p == FindPage("WRITE_TO_VALID_PAGE")
    <2>1. plan # <<>> /\ o.id \in Ids /\ o.value \in Value /\ UNCHANGED bootErased
      BY <1>0, <1>7, HeadTail, OperationFields DEF PutVariable, CallType
    <2>2. CASE UNCHANGED <<page, newest, transferred>> /\ Return(FALSE)
      BY <1>0, <2>1, <2>2, ReturnType DEF FlashType
    <2>3. CASE /\ p # NoPage /\ transferred' = TRUE
               /\ plan' = PageTransfer(o.id) \o <<Put(o.id, o.value, TRUE)>>
               /\ UNCHANGED <<page, newest, call, usable, writing, result, failedBoots>>
      <3>1. FindPage("READ_FROM_VALID_PAGE") # NoPage
        BY <2>3 DEF FindPage
      <3>2. PageTransfer(o.id) \in Seq(Operation) /\ Put(o.id, o.value, TRUE) \in Operation
        BY <2>1, <3>1, PageTransferType, Operations
      <3>3. plan' \in Seq(Operation) /\ plan' # <<>>
        BY <2>3, <3>2, AppendOne, Zenon
      <3>4. transferred' \in BOOLEAN
        BY <2>3
      <3> QED
        BY <1>0, <2>1, <2>3, <3>3, <3>4 DEF FlashType, CallType
    <2>4. CASE /\ p # NoPage /\ ~Full(p) /\ Advance /\ UNCHANGED transferred
               /\ page' = Programmed(p, VirtAddrForId(o.id), o.value)
               /\ newest' = [newest EXCEPT ![o.id] = o.value]
      <3>1. p \in 0 .. 1 /\ VirtAddrForId(o.id) \in Address
        BY <2>1, <2>4, FindPageType, AddressType DEF Ids
      <3>2. newest' \in [Ids -> Value \cup {NotFound}]
        BY <1>0, <2>1, <2>4 DEF FlashType
      <3> DEFINE a == VirtAddrForId(o.id)
      <3> HIDE DEF o, p, a
      <3>3. /\ page' \in [0 .. 1 -> [status : Status, words : Seq(Word)]]
            /\ \A q \in 0 .. 1 : Len(page'[q].words) <= CAPACITY
        BY <2>1, <2>4, <3>1, ProgramWord DEF a
      <3>4. FlashType'
        BY <1>0, <2>1, <2>4, <3>2, <3>3 DEF FlashType
      <3> QED
        BY <1>0, <2>1, <2>4, <3>4, AdvanceType
    <2> QED
      BY <1>7, <2>2, <2>3, <2>4 DEF PutVariable
  <1>8. CASE PowerLoss
    <2>1. CallType'
      <3>1. call' = "off" /\ plan' = <<>> /\ usable' = FALSE /\ writing' = <<>>
            /\ result' = "none"
        BY <1>8 DEF PowerLoss
      <3>2. failedBoots' \in Nat
        BY <1>0, <1>8 DEF PowerLoss, CallType
      <3>3. usable' \in BOOLEAN
        BY <3>1, Zenon
      <3>4. <<>> \in Seq(Operation)
        OBVIOUS
      <3> QED
        BY <3>1, <3>2, <3>3, <3>4 DEF CallType
    <2>2. CASE UNCHANGED page
      BY <1>0, <1>8, <2>1, <2>2 DEF PowerLoss, FlashType
    <2>3. ASSUME Head(plan).sector \in {PAGE0_ID, PAGE1_ID},
                 NEW torn \in Torn(page[Head(plan).sector - PAGE0_ID]),
                 page' = [page EXCEPT ![Head(plan).sector - PAGE0_ID] = torn]
          PROVE  FlashType'
      <3> DEFINE q == Head(plan).sector - PAGE0_ID
      <3>1. q \in 0 .. 1
        BY <2>3 DEF PAGE0_ID, PAGE1_ID
      <3> HIDE DEF q
      <3>2. PICK st \in Status, w \in {page[q].words, <<>>} : torn = [status |-> st, words |-> w]
        BY DEF Torn, q
      <3>3. w \in Seq(Word) /\ Len(w) <= CAPACITY
        <4>1. <<>> \in Seq(Word) /\ Len(<<>>) = 0 /\ 0 <= CAPACITY
          BY FlashAssumption
        <4> QED
          BY <3>1, <4>1, PageFields
      <3>4. torn \in [status : Status, words : Seq(Word)] /\ Len(torn.words) <= CAPACITY
        BY <3>2, <3>3
      <3> QED
        BY <1>0, <1>8, <2>3, <3>1, <3>4, ReplacePage DEF q, FlashType, PowerLoss
    <2> QED
      BY <1>8, <2>1, <2>2, <2>3 DEF PowerLoss
  <1>9. CASE UNCHANGED vars
    BY <1>0, <1>9 DEF vars, history, FlashType, CallType
  <1> QED
    BY <1>1, <1>2, <1>3, <1>4, <1>5, <1>6, <1>7, <1>8, <1>9 DEF Next

\* The pages, the plan of the running call and its result keep their types over
\* power losses and failing operations, and no page ever holds more words than fit.
THEOREM TypeCorrect == Spec => []TypeOK
  BY TypeInit, TypeStep, PTL DEF Spec
-----------------------------------------------------------------------------
(***************************************************************************)
(* A write that reports success can be read back.                          *)
(***************************************************************************)

LEMMA AdvanceLast ==
  ASSUME CallType, LastIsPut, plan # <<>>, Advance
  PROVE  LastIsPut'
  <1>1. CASE Len(plan) = 1
    BY <1>1 DEF Advance, Return, LastIsPut
  <1>2. CASE Len(plan) # 1
    <2>1. plan' = Tail(plan) /\ UNCHANGED <<call, writing, result>>
      BY <1>2 DEF Advance
    <2> DEFINE n == Len(plan)
               t == Tail(plan)
    <2>2. /\ n \in Nat /\ n > 1 /\ Len(t) = n - 1
          /\ \A i \in 1 .. n - 1 : t[i] = plan[i + 1]
      BY <1>2, HeadTail DEF CallType
    <2> HIDE DEF n, t
    <2>3. n - 1 \in 1 .. n - 1 /\ (n - 1) + 1 = n
      BY <2>2
    <2>4. t[n - 1] = plan[n]
      BY <2>2, <2>3
    <2>5. ASSUME \A i \in 1 .. n - 1 : plan[i].op # "put",
                 NEW i \in 1 .. (n - 1) - 1
          PROVE  t[i].op # "put"
      <3>1. i \in 1 .. n - 1 /\ i + 1 \in 1 .. n - 1
        BY <2>2
      <3> QED
        BY <2>2, <2>5, <3>1
    <2>6. call = "write" =>
            /\ t[Len(t)].op = "put" /\ writing = <<t[Len(t)].id, t[Len(t)].value>>
            /\ \A i \in 1 .. Len(t) - 1 : t[i].op # "put"
            /\ result = "none"
      BY <2>2, <2>4, <2>5 DEF LastIsPut, n
    <2> QED
      BY <2>1, <2>6, Zenon DEF LastIsPut, t
  <1> QED
    BY <1>1, <1>2

LEMMA HeadIsLast ==
  ASSUME CallType, LastIsPut, call = "write"
  PROVE  /\ Head(plan).op = "put" <=> Len(plan) = 1
         /\ Head(plan).op = "put" => writing = <<Head(plan).id, Head(plan).value>>
  <1>1. plan # <<>> /\ plan \in Seq(Operation)
    BY DEF CallType
  <1>2. Len(plan) \in Nat /\ Len(plan) > 0 /\ Head(plan) = plan[1]
    BY <1>1, HeadTail
  <1>3. Len(plan) # 1 => 1 \in 1 .. Len(plan) - 1
    BY <1>2
  <1> QED
    BY <1>2, <1>3 DEF LastIsPut

LEMMA LastIsPutStep == TypeOK /\ LastIsPut /\ [Next]_vars => LastIsPut'
  <1> SUFFICES ASSUME TypeOK, LastIsPut, [Next]_vars PROVE LastIsPut'
    OBVIOUS
  <1>0. CallType
    BY TypeParts
  <1>1. CASE Boot \/ OperationFails \/ PowerLoss
    BY <1>1 DEF Boot, OperationFails, PowerLoss, Return, LastIsPut
  <1>2. ASSUME NEW id \in Ids, NEW v \in Value, UpdateVariable(id, v) PROVE LastIsPut'
    <2>1. CASE ReadVariable(id) = v
      BY <1>2, <2>1 DEF UpdateVariable, LastIsPut
    <2>2. CASE ReadVariable(id) # v
      <3>1. plan' = <<Put(id, v, FALSE)>> /\ writing' = <<id, v>> /\ result' = "none"
        BY <1>2, <2>2 DEF UpdateVariable
      <3>2. Len(plan') = 1 /\ plan'[1] = Put(id, v, FALSE)
        BY <3>1
      <3>3. plan'[1].op = "put" /\ plan'[1].id = id /\ plan'[1].value = v
        BY <3>2 DEF Put
      <3>4. \A i \in 1 .. 1 - 1 : plan'[i].op # "put"
        OBVIOUS
      <3> QED
        BY <3>1, <3>2, <3>3, <3>4 DEF LastIsPut
    <2> QED
      BY <2>1, <2>2
  <1>3. CASE EraseSector \/ ProgramHeader \/ CopyVariable
    <2>1. plan # <<>> /\ (Advance \/ Return(FALSE))
      BY <1>3 DEF EraseSector, ProgramHeader, CopyVariable
    <2>2. Return(FALSE) => LastIsPut'
      BY DEF Return, LastIsPut
    <2> QED
      BY <1>0, <2>1, <2>2, AdvanceLast
  <1>4. CASE PutVariable
    <2> DEFINE o == Head(plan)
    <2>1. plan # <<>> /\ o.op = "put" /\ o.id \in Ids /\ o.value \in Value
      BY <1>0, <1>4, HeadTail, OperationFields DEF PutVariable, CallType
    <2>2. CASE Return(FALSE)
      BY <2>2 DEF Return, LastIsPut
    <2>3. CASE Advance
      BY <1>0, <2>1, <2>3, AdvanceLast
    <2>4. ASSUME FindPage("WRITE_TO_VALID_PAGE") # NoPage, call = "write",
                 plan' = PageTransfer(o.id) \o <<Put(o.id, o.value, TRUE)>>,
                 UNCHANGED <<call, writing, result>>
          PROVE  LastIsPut'
      <3> DEFINE t == PageTransfer(o.id)
                 q == Put(o.id, o.value, TRUE)
                 n == NB_OF_VAR + 3
      <3>1. FindPage("READ_FROM_VALID_PAGE") # NoPage
        BY <2>4 DEF FindPage
      <3>2. /\ t \in Seq(Operation) /\ Len(t) = n
            /\ \A i \in 1 .. n : t[i].op # "put"
        BY <2>1, <3>1, PageTransferType
      <3>3. q \in Operation /\ q.op = "put" /\ q.id = o.id /\ q.value = o.value
        <4>1. q \in Operation
          BY <2>1, Operations
        <4> QED
          BY <4>1 DEF Put
      <3>4. n \in Nat
        BY FlashAssumption
      <3>5. writing = <<o.id, o.value>>
        BY <1>0, <2>1, <2>4, HeadIsLast
      <3>6. plan' = t \o <<q>>
        BY <2>4
      <3> HIDE DEF t, q, n, o
      <3>7. Len(t \o <<q>>) = n + 1 /\ (t \o <<q>>)[n + 1] = q
        BY <3>2, <3>3, <3>4
      <3>8. ASSUME NEW i \in 1 .. (n + 1) - 1 PROVE (t \o <<q>>)[i].op # "put"
        <4>1. i \in 1 .. n
          BY <3>4
        <4>2. (t \o <<q>>)[i] = t[i]
          BY <3>2, <3>3, <3>4, <4>1
        <4> QED
          BY <3>2, <4>1, <4>2
      <3>9. writing' = <<o.id, o.value>> /\ result' = "none"
        BY <2>4, <3>5 DEF LastIsPut
      <3> QED
        BY <3>3, <3>6, <3>7, <3>8, <3>9, Zenon DEF LastIsPut
    <2>5. call # "write" => (UNCHANGED call => LastIsPut')
      BY DEF LastIsPut
    <2> QED
      BY <1>4, <2>2, <2>3, <2>4, <2>5 DEF PutVariable
  <1>5. CASE UNCHANGED vars
    BY <1>5 DEF vars, LastIsPut
  <1> QED
    BY <1>1, <1>2, <1>3, <1>4, <1>5 DEF Next

\* What a successful write changes: its variable reads back as the new value.
LEMMA ReadAfterPut ==
  ASSUME TypeOK, NEW id \in Ids, NEW v \in Value,
         FindPage("WRITE_TO_VALID_PAGE") # NoPage, ~Full(FindPage("WRITE_TO_VALID_PAGE")),
         page' = Programmed(FindPage("WRITE_TO_VALID_PAGE"), VirtAddrForId(id), v)
  PROVE  \A k \in Ids : ReadVariable(k)' = IF k = id THEN v ELSE ReadVariable(k)
  <1> DEFINE p == FindPage("WRITE_TO_VALID_PAGE")
             a == VirtAddrForId(id)
             w == [address |-> a, value |-> v]
  <1>1. p \in 0 .. 1 /\ a \in Address /\ w \in Word
    BY FindPageType, AddressType DEF Ids, Word
  <1>2. /\ page'[p].status = page[p].status /\ page'[1 - p] = page[1 - p]
        /\ page'[p].words = Append(page[p].words, w)
    BY <1>1, ProgramWord
  <1>3. FindPage("READ_FROM_VALID_PAGE") = p /\ p # NoPage
    BY DEF FindPage
  <1>4. page'[0].status = page[0].status /\ page'[1].status = page[1].status
    <2> HIDE DEF p
    <2>1. (p = 0 /\ 1 - p = 1) \/ (p = 1 /\ 1 - p = 0)
      BY <1>1
    <2> QED
      BY <1>2, <2>1
  <1>5. FindPage("READ_FROM_VALID_PAGE")' = p
    BY <1>3, <1>4 DEF FindPage
  <1> HIDE DEF p, w
  <1> SUFFICES ASSUME NEW k \in Ids
               PROVE  ReadVariable(k)' = IF k = id THEN v ELSE ReadVariable(k)
    OBVIOUS
  <1>6. ReadVariable(k) = NewestWord(page[p].words, VirtAddrForId(k))
    BY <1>3 DEF ReadVariable
  <1>7. ReadVariable(k)' = NewestWord(page'[p].words, VirtAddrForId(k))
    BY <1>3, <1>5 DEF ReadVariable
  <1>8. NewestWord(Append(page[p].words, w), VirtAddrForId(k)) =
          IF w.address = VirtAddrForId(k) THEN w.value
          ELSE NewestWord(page[p].words, VirtAddrForId(k))
    BY <1>1, PageFields, NewestAppend
  <1>9. w.address = a /\ w.value = v
    BY DEF w
  <1>10. a = VirtAddrForId(k) <=> k = id
    BY AddressesDiffer
  <1> QED
    BY <1>2, <1>6, <1>7, <1>8, <1>9, <1>10

LEMMA SuccessStep ==
  ASSUME TypeOK, LastIsPut, [Next]_vars, NEW id \in Ids, NEW v \in Value,
         writing = <<id, v>>, result' = "ok"
  PROVE  ReadVariable(id)' = v
  <1>1. CallType /\ call = "write" /\ result = "none"
    BY TypeParts DEF CallType, LastIsPut
  <1>2. ASSUME PutVariable PROVE ReadVariable(id)' = v
    <2> DEFINE o == Head(plan)
               p == FindPage("WRITE_TO_VALID_PAGE")
    <2>1. o.op = "put" /\ writing = <<o.id, o.value>>
      BY <1>1, <1>2, HeadIsLast DEF PutVariable
    <2>2. o.id = id /\ o.value = v
      BY <2>1
    <2>3. ~Return(FALSE)
      BY <1>1 DEF Return
    <2>4. p # NoPage /\ ~Full(p) /\ page' = Programmed(p, VirtAddrForId(o.id), o.value)
      BY <1>1, <1>2, <2>3 DEF PutVariable
    <2> QED
      BY <2>2, <2>4, ReadAfterPut
  <1>3. ~(EraseSector \/ ProgramHeader \/ CopyVariable)
    <2> SUFFICES ASSUME EraseSector \/ ProgramHeader \/ CopyVariable PROVE FALSE
      OBVIOUS
    <2>1. Head(plan).op # "put" /\ (Advance \/ Return(FALSE))
      BY DEF EraseSector, ProgramHeader, CopyVariable
    <2>2. Len(plan) # 1
      BY <1>1, <2>1, HeadIsLast
    <2>3. result' # "ok"
      BY <1>1, <2>1, <2>2 DEF Advance, Return
    <2> QED
      BY <2>3
  <1>4. ~(Boot \/ OperationFails \/ PowerLoss \/ UNCHANGED vars)
    BY <1>1 DEF Boot, OperationFails, PowerLoss, Return, vars
  <1>5. \A k \in Ids, x \in Value : ~UpdateVariable(k, x)
    BY <1>1 DEF UpdateVariable
  <1> QED
    BY <1>2, <1>3, <1>4, <1>5 DEF Next

\* For every number of variables and every page size, also when the write had to
\* transfer a full page first and whatever happened before.
THEOREM SuccessReadsBack == Spec => SuccessIsReadable
  <1> DEFINE Readable == \A id \in Ids, v \in Value :
                           writing = <<id, v>> /\ result' = "ok" => ReadVariable(id)' = v
  <1>1. Init => TypeOK /\ LastIsPut
    BY TypeInit DEF Init, LastIsPut
  <1>2. TypeOK /\ LastIsPut /\ [Next]_vars => (TypeOK /\ LastIsPut)'
    BY TypeStep, LastIsPutStep
  <1>3. TypeOK /\ LastIsPut /\ [Next]_vars => Readable
    BY SuccessStep
  <1> QED
    BY <1>1, <1>2, <1>3, PTL DEF Spec, SuccessIsReadable
-----------------------------------------------------------------------------
(***************************************************************************)
(* The repairs of Flash_InitA.                                             *)
(***************************************************************************)

LEMMA InitPlanCases ==
  /\ s0 \in {"ERASED", "corrupt"} /\ s1 = "VALID_PAGE" => InitPlan = EraseIfNeeded(0)
  /\ s0 = "ERASED" /\ s1 = "RECEIVE_DATA" => InitPlan = EraseIfNeeded(0) \o <<M1>>
  /\ s0 = "RECEIVE_DATA" /\ s1 = "VALID_PAGE" =>
       InitPlan = TransferFullPage(PAGE1_ID, PAGE0_ID, 0)
  /\ s0 = "RECEIVE_DATA" /\ s1 = "ERASED" => InitPlan = EraseIfNeeded(0) \o <<M0>>
  /\ s0 = "VALID_PAGE" /\ s1 = "RECEIVE_DATA" =>
       InitPlan = TransferFullPage(PAGE0_ID, PAGE1_ID, 0)
  /\ s0 = "VALID_PAGE" /\ s1 \in {"ERASED", "corrupt"} => InitPlan = EraseIfNeeded(1)
  /\ ~ \/ s1 = "VALID_PAGE" /\ s0 \in {"ERASED", "corrupt", "RECEIVE_DATA"}
       \/ s1 = "RECEIVE_DATA" /\ s0 \in {"ERASED", "VALID_PAGE"}
       \/ s1 = "ERASED" /\ s0 \in {"RECEIVE_DATA", "VALID_PAGE"}
       \/ s1 = "corrupt" /\ s0 = "VALID_PAGE"
     => InitPlan = Format
  BY DEF InitPlan, s0, s1, M0, M1

LEMMA ErasePlans ==
  /\ EraseIfNeeded(0) = IF page[0] = BlankPage THEN <<>> ELSE <<E0>>
  /\ EraseIfNeeded(1) = IF page[1] = BlankPage THEN <<>> ELSE <<E1>>
  /\ Format = <<E0, M0, E1>>
  BY DEF EraseIfNeeded, Format, E0, E1, M0, BlankPage

\* A transfer at boot, with the pages as its callers name them.
LEMMA TransferCopies ==
  ASSUME NEW from \in {PAGE0_ID, PAGE1_ID}, NEW to \in {PAGE0_ID, PAGE1_ID}
  PROVE  CopiesThen(TransferFullPage(from, to, 0), M1, Erase(from))
  <1> DEFINE t == TransferFullPage(from, to, 0)
             n == NB_OF_VAR
  <1>1. from \in 0 .. PAGE1_ID /\ to \in 0 .. PAGE1_ID /\ 0 \in Address /\ to # 0
    BY DEF PAGE0_ID, PAGE1_ID, Address
  <1>2. /\ Len(t) = n + 2 /\ \A i \in 1 .. n : t[i].op = "copy"
        /\ t[n + 1] = M1 /\ t[n + 2] = Erase(from)
    BY <1>1, TransferShape DEF M1
  <1>3. n \in Nat
    BY FlashAssumption
  <1> HIDE DEF t, n
  <1>4. Len(t) - 1 = n + 1 /\ Len(t) - 2 = n /\ Len(t) >= 2
    BY <1>2, <1>3
  <1> QED
    BY <1>2, <1>4 DEF CopiesThen, t

LEMMA CopiesStep ==
  ASSUME plan \in Seq(Operation), NEW m, NEW e, CopiesThen(plan, m, e), m.op = "mark"
  PROVE  /\ plan # <<>> /\ Len(plan) # 1 /\ Head(plan).op \in {"copy", "mark"}
         /\ Head(plan).op = "mark" => Head(plan) = m /\ Tail(plan) = <<e>>
         /\ Head(plan).op = "copy" => CopiesThen(Tail(plan), m, e)
  <1> DEFINE n == Len(plan)
             t == Tail(plan)
  <1>1. /\ n \in Nat /\ n >= 2 /\ plan[n - 1] = m /\ plan[n] = e
        /\ \A i \in 1 .. n - 2 : plan[i].op = "copy"
    BY DEF CopiesThen
  <1>2. plan # <<>>
    BY <1>1
  <1>3. /\ Head(plan) = plan[1] /\ Len(t) = n - 1
        /\ \A i \in 1 .. n - 1 : t[i] = plan[i + 1]
        /\ t \in Seq(Operation)
    BY <1>2, HeadTail
  <1> HIDE DEF n, t
  <1>4. CASE n = 2
    <2>1. Head(plan) = m /\ Len(t) = 1 /\ t[1] = e
      BY <1>1, <1>3, <1>4
    <2>2. t = <<e>>
      <3>1. e \in Operation
        <4>1. \A i \in 1 .. Len(t) : t[i] \in Operation
          BY <1>3
        <4> QED
          BY <2>1, <4>1
      <3>2. <<e>> \in Seq(Operation) /\ Len(<<e>>) = 1 /\ <<e>>[1] = e
        BY <3>1
      <3>3. \A i \in 1 .. Len(t) : i = 1
        BY <2>1
      <3> QED
        BY <1>3, <2>1, <3>2, <3>3, SeqEqual, Zenon
    <2>3. n # 1 /\ "copy" # "mark"
      BY <1>4
    <2> QED
      BY <1>2, <2>1, <2>2, <2>3, Zenon DEF n, t
  <1>5. CASE n # 2
    <2>1. n > 2 /\ 1 \in 1 .. n - 2
      BY <1>1, <1>5
    <2>2. Head(plan).op = "copy"
      BY <1>1, <1>3, <2>1
    <2>3. t[(n - 1) - 1] = m /\ t[n - 1] = e
      <3>1. (n - 1) - 1 \in 1 .. n - 1 /\ ((n - 1) - 1) + 1 = n - 1
            /\ n - 1 \in 1 .. n - 1 /\ (n - 1) + 1 = n
        BY <1>1, <2>1
      <3> QED
        BY <1>1, <1>3, <3>1
    <2>4. ASSUME NEW i \in 1 .. (n - 1) - 2 PROVE t[i].op = "copy"
      <3>1. i \in 1 .. n - 1 /\ i + 1 \in 1 .. n - 2
        BY <1>1
      <3> QED
        BY <1>1, <1>3, <3>1
    <2>5. n - 1 >= 2
      BY <1>1, <2>1
    <2>6. CopiesThen(t, m, e)
      BY <1>3, <2>3, <2>4, <2>5 DEF CopiesThen
    <2>7. n # 1 /\ "copy" # "mark"
      BY <2>1
    <2> QED
      BY <1>2, <2>2, <2>6, <2>7, Zenon DEF n, t
  <1> QED
    BY <1>4, <1>5

\* What the operations of a call do to the pages.
LEMMA EraseEffect ==
  ASSUME TypeOK, EraseSector, NEW q \in 0 .. 1, Head(plan).sector = q + PAGE0_ID
  PROVE  page'[q] = BlankPage /\ page'[1 - q] = page[1 - q] /\ Advance
  <1>1. Head(plan).sector \in {PAGE0_ID, PAGE1_ID} /\ Head(plan).sector - PAGE0_ID = q
    BY DEF PAGE0_ID, PAGE1_ID
  <1>2. page' = [page EXCEPT ![q] = BlankPage] /\ Advance
    BY <1>1 DEF EraseSector
  <1>3. BlankPage \in [status : Status, words : Seq(Word)] /\ Len(BlankPage.words) <= CAPACITY
    BY FlashAssumption DEF BlankPage, Status
  <1> QED
    BY <1>2, <1>3, ReplacePage

LEMMA ProgramEffect ==
  ASSUME TypeOK, ProgramHeader, NEW q \in 0 .. 1, Head(plan).page = q
  PROVE  /\ page'[q].status = HeaderAfter(page[q].status, Head(plan).status)
         /\ page'[q].words = page[q].words /\ page'[1 - q] = page[1 - q] /\ Advance
  <1> DEFINE h == Head(plan).status
             new == [status |-> HeaderAfter(page[q].status, h), words |-> page[q].words]
  <1>1. page' = [page EXCEPT ![q] = new] /\ Advance
    BY HeaderProgrammed DEF ProgramHeader
  <1>2. h \in Status
    BY HeadTail, OperationFields DEF ProgramHeader, TypeOK
  <1>3. HeaderAfter(page[q].status, h) \in Status
    BY <1>2, PageFields DEF HeaderAfter, Status
  <1>4. new \in [status : Status, words : Seq(Word)] /\ Len(new.words) <= CAPACITY
    BY <1>3, PageFields
  <1>5. page'[q] = new /\ page'[1 - q] = page[1 - q]
    BY <1>1, <1>4, ReplacePage
  <1> QED
    BY <1>1, <1>5

LEMMA CopyEffect ==
  ASSUME TypeOK, CopyVariable
  PROVE  /\ page'[0].status = page[0].status /\ page'[1].status = page[1].status
         /\ (\A id : ReadVariable(id) = NotFound) => page' = page
         /\ Advance
  <1> DEFINE a == VirtAddrForId(Head(plan).id)
             found == ReadVariable(a)
             p == FindPage("RECEIVE_WRITE_PAGE")
  <1>1. \/ page' = page
        \/ page' = Programmed(p, a, found) /\ found # NotFound /\ p # NoPage /\ ~Full(p)
    BY DEF CopyVariable
  <1>2. ASSUME page' = Programmed(p, a, found), found # NotFound, p # NoPage, ~Full(p)
        PROVE  page'[0].status = page[0].status /\ page'[1].status = page[1].status
    <2>1. Head(plan).id \in Ids
      BY HeadTail, OperationFields DEF CopyVariable, TypeOK
    <2>2. a \in Address /\ found \in Value /\ p \in 0 .. 1
      BY <1>2, <2>1, AddressType, ReadType, FindPageType DEF Ids
    <2> HIDE DEF a, found, p
    <2>3. page'[p].status = page[p].status /\ page'[1 - p] = page[1 - p]
      BY <1>2, <2>2, ProgramWord
    <2>4. (p = 0 /\ 1 - p = 1) \/ (p = 1 /\ 1 - p = 0)
      BY <2>2
    <2> QED
      BY <2>3, <2>4
  <1>3. Advance
    BY DEF CopyVariable
  <1> QED
    BY <1>1, <1>2, <1>3

LEMMA ConcatOne == \A x, y : <<>> \o <<x>> = <<x>> /\ <<y>> \o <<x>> = <<y, x>>
  <1> SUFFICES ASSUME NEW x, NEW y
               PROVE  <<>> \o <<x>> = <<x>> /\ <<y>> \o <<x>> = <<y, x>>
    OBVIOUS
  <1>1. <<>> \o <<x>> = <<x>>
    <2>1. x \in {x} /\ <<x>> \in Seq({x})
      BY AppendOne
    <2> QED
      BY <2>1, ConcatEmptySeq
  <1>2. <<y>> \o <<x>> = <<y, x>>
    <2>1. ASSUME NEW S, y \in S, x \in S
          PROVE  /\ <<y>> \o <<x>> \in Seq(S) /\ Len(<<y>> \o <<x>>) = 2
                 /\ (<<y>> \o <<x>>)[1] = y /\ (<<y>> \o <<x>>)[2] = x
                 /\ <<y, x>> \in Seq(S) /\ Len(<<y, x>>) = 2
                 /\ <<y, x>>[1] = y /\ <<y, x>>[2] = x
      BY <2>1
    <2>2. \A i \in 1 .. 2 : i = 1 \/ i = 2
      OBVIOUS
    <2>3. y \in {x, y} /\ x \in {x, y}
      OBVIOUS
    <2> QED
      BY <2>1, <2>2, <2>3, SeqEqual, Zenon
  <1> QED
    BY <1>1, <1>2

LEMMA RepairBegins ==
  ASSUME TypeOK, InitPlan # <<>>
  PROVE  RepairLeft(InitPlan)
  <1>0. s0 \in Status /\ s1 \in Status
    BY PageFields DEF s0, s1
  <1>1. CASE s0 \in {"ERASED", "corrupt"} /\ s1 = "VALID_PAGE"
    BY <1>1, InitPlanCases, ErasePlans DEF RepairLeft
  <1>2. CASE s0 = "ERASED" /\ s1 = "RECEIVE_DATA"
    <2>1. <<>> \o <<M1>> = <<M1>> /\ <<E0>> \o <<M1>> = <<E0, M1>>
      BY ConcatOne
    <2> QED
      BY <1>2, <2>1, InitPlanCases, ErasePlans DEF RepairLeft
  <1>3. CASE s0 = "RECEIVE_DATA" /\ s1 = "VALID_PAGE"
    BY <1>3, InitPlanCases, TransferCopies DEF RepairLeft, E1
  <1>4. CASE s0 = "RECEIVE_DATA" /\ s1 = "ERASED"
    <2>1. <<E0>> \o <<M0>> = <<E0, M0>>
      BY ConcatOne
    <2>2. page[0] # BlankPage
      BY <1>4 DEF s0, BlankPage
    <2> QED
      BY <1>4, <2>1, <2>2, InitPlanCases, ErasePlans DEF RepairLeft
  <1>5. CASE s0 = "VALID_PAGE" /\ s1 = "RECEIVE_DATA"
    BY <1>5, InitPlanCases, TransferCopies DEF RepairLeft, E0
  <1>6. CASE s0 = "VALID_PAGE" /\ s1 \in {"ERASED", "corrupt"}
    BY <1>6, InitPlanCases, ErasePlans DEF RepairLeft
  <1>7. CASE InitPlan = Format
    BY <1>7, ErasePlans DEF RepairLeft
  <1> QED
    BY <1>0, <1>1, <1>2, <1>3, <1>4, <1>5, <1>6, <1>7, InitPlanCases DEF Status

LEMMA ShortPlans ==
  \A a, b, c :
    /\ Head(<<a>>) = a /\ Len(<<a>>) = 1
    /\ Head(<<a, b>>) = a /\ Tail(<<a, b>>) = <<b>> /\ Len(<<a, b>>) = 2
    /\ Head(<<a, b, c>>) = a /\ Tail(<<a, b, c>>) = <<b, c>> /\ Len(<<a, b, c>>) = 3
  OBVIOUS

\* While a repair goes on, every operation of it advances its plan.
LEMMA RepairAdvances ==
  ASSUME TypeOK, call' = "init", EraseSector \/ ProgramHeader \/ CopyVariable
  PROVE  plan # <<>> /\ Len(plan) # 1 /\ plan' = Tail(plan) /\ call = "init"
  BY DEF EraseSector, ProgramHeader, CopyVariable, Advance, Return

\* Erasing a page blanks it, whatever else the call still has to do.
LEMMA ErasesPage ==
  ASSUME TypeOK, EraseSector \/ ProgramHeader \/ CopyVariable
  PROVE  /\ Head(plan) = E0 => page'[0] = BlankPage /\ page'[1] = page[1]
         /\ Head(plan) = E1 => page'[1] = BlankPage /\ page'[0] = page[0]
         /\ Head(plan) \in {E0, E1} => Advance
  <1>1. ASSUME Head(plan) = E0
        PROVE  page'[0] = BlankPage /\ page'[1] = page[1] /\ Advance
    <2>1. EraseSector /\ Head(plan).sector = 0 + PAGE0_ID
      BY <1>1, NamedOperations DEF ProgramHeader, CopyVariable, PAGE0_ID
    <2>2. page'[0] = BlankPage /\ page'[1 - 0] = page[1 - 0] /\ Advance
      BY <2>1, EraseEffect
    <2> QED
      BY <2>2
  <1>2. ASSUME Head(plan) = E1
        PROVE  page'[1] = BlankPage /\ page'[0] = page[0] /\ Advance
    <2>1. EraseSector /\ Head(plan).sector = 1 + PAGE0_ID
      BY <1>2, NamedOperations DEF ProgramHeader, CopyVariable, PAGE0_ID
    <2>2. page'[1] = BlankPage /\ page'[1 - 1] = page[1 - 1] /\ Advance
      BY <2>1, EraseEffect
    <2> QED
      BY <2>2
  <1> QED
    BY <1>1, <1>2

\* Marking a page valid always takes effect and touches nothing else.
LEMMA MarksPage ==
  ASSUME TypeOK, EraseSector \/ ProgramHeader \/ CopyVariable
  PROVE  /\ Head(plan) = M0 => s0' = "VALID_PAGE" /\ page'[1] = page[1]
         /\ Head(plan) = M1 => s1' = "VALID_PAGE" /\ page'[0] = page[0]
         /\ Head(plan) \in {M0, M1} => /\ page'[0].words = page[0].words
                                       /\ page'[1].words = page[1].words
                                       /\ Advance
  <1>1. \A st : HeaderAfter(st, "VALID_PAGE") = "VALID_PAGE"
    BY DEF HeaderAfter
  <1>2. ASSUME Head(plan) = M0
        PROVE  /\ s0' = "VALID_PAGE" /\ page'[1] = page[1]
               /\ page'[0].words = page[0].words /\ Advance
    <2>1. ProgramHeader /\ Head(plan).page = 0 /\ Head(plan).status = "VALID_PAGE"
      BY <1>2, NamedOperations DEF EraseSector, CopyVariable
    <2>2. /\ page'[0].status = "VALID_PAGE" /\ page'[1 - 0] = page[1 - 0]
          /\ page'[0].words = page[0].words /\ Advance
      BY <1>1, <2>1, ProgramEffect
    <2> QED
      BY <2>2 DEF s0
  <1>3. ASSUME Head(plan) = M1
        PROVE  /\ s1' = "VALID_PAGE" /\ page'[0] = page[0]
               /\ page'[1].words = page[1].words /\ Advance
    <2>1. ProgramHeader /\ Head(plan).page = 1 /\ Head(plan).status = "VALID_PAGE"
      BY <1>3, NamedOperations DEF EraseSector, CopyVariable
    <2>2. /\ page'[1].status = "VALID_PAGE" /\ page'[1 - 1] = page[1 - 1]
          /\ page'[1].words = page[1].words /\ Advance
      BY <1>1, <2>1, ProgramEffect
    <2> QED
      BY <2>2 DEF s1
  <1> QED
    BY <1>2, <1>3

\* One operation of a repair leaves the rest of that repair to be done.
LEMMA RepairContinues ==
  ASSUME TypeOK, RepairLeft(plan), call' = "init",
         EraseSector \/ ProgramHeader \/ CopyVariable
  PROVE  RepairLeft(plan)'
  <1>1. plan # <<>> /\ Len(plan) # 1 /\ plan' = Tail(plan)
    BY RepairAdvances
  <1>2. CASE plan = <<E0, M0, E1>>
    <2>1. Head(plan) = E0 /\ plan' = <<M0, E1>>
      BY <1>1, <1>2, ShortPlans
    <2> QED
      BY <2>1, ErasesPage DEF RepairLeft
  <1>3. CASE plan = <<M0, E1>>
    <2>1. Head(plan) = M0 /\ plan' = <<E1>>
      BY <1>1, <1>3, ShortPlans
    <2> QED
      BY <2>1, MarksPage DEF RepairLeft
  <1>4. CASE plan = <<E0, M1>>
    <2>1. Head(plan) = E0 /\ plan' = <<M1>>
      BY <1>1, <1>4, ShortPlans
    <2> QED
      BY <2>1, ErasesPage DEF RepairLeft
  <1>5. CASE plan = <<E0, M0>> /\ s1 = "ERASED"
    <2>1. Head(plan) = E0 /\ plan' = <<M0>>
      BY <1>1, <1>5, ShortPlans
    <2>2. page'[0] = BlankPage /\ s1' = "ERASED"
      BY <1>5, <2>1, ErasesPage DEF s1
    <2> QED
      BY <2>1, <2>2 DEF RepairLeft
  <1>6. ASSUME NEW e, CopiesThen(plan, M1, e)
        PROVE  \/ CopiesThen(plan', M1, e) /\ s0' = s0
               \/ plan' = <<e>> /\ s0' = s0 /\ s1' = "VALID_PAGE"
    <2>1. /\ Head(plan).op \in {"copy", "mark"}
          /\ Head(plan).op = "mark" => Head(plan) = M1 /\ Tail(plan) = <<e>>
          /\ Head(plan).op = "copy" => CopiesThen(Tail(plan), M1, e)
      BY <1>6, CopiesStep, NamedOperations DEF TypeOK
    <2>2. CASE Head(plan).op = "mark"
      BY <1>1, <2>1, <2>2, MarksPage DEF s0
    <2>3. CASE Head(plan).op = "copy"
      <3>1. CopyVariable
        BY <2>3 DEF EraseSector, ProgramHeader
      <3> QED
        BY <1>1, <2>1, <2>3, <3>1, CopyEffect DEF s0
    <2> QED
      BY <2>1, <2>2, <2>3
  <1>7. CASE CopiesThen(plan, M1, E1) /\ s0 = "RECEIVE_DATA"
    <2>1. \/ CopiesThen(plan', M1, E1) /\ s0' = s0
          \/ plan' = <<E1>> /\ s0' = s0
      BY <1>6, <1>7
    <2> QED
      BY <1>7, <2>1 DEF RepairLeft, CopiesThen
  <1>8. CASE CopiesThen(plan, M1, E0)
    <2>1. CopiesThen(plan', M1, E0) \/ (plan' = <<E0>> /\ s1' = "VALID_PAGE")
      BY <1>6, <1>8
    <2> QED
      BY <2>1 DEF RepairLeft, CopiesThen
  <1>9. \A x : plan # <<x>>
    BY <1>1, ShortPlans
  <1> QED
    BY <1>2, <1>3, <1>4, <1>5, <1>7, <1>8, <1>9 DEF RepairLeft

\* A repair never writes a variable.
LEMMA PutIsWrite ==
  ASSUME TypeOK, RepairUnderWay, PutVariable
  PROVE  call = "write"
  <1>1. plan # <<>> /\ Head(plan).op = "put" /\ plan \in Seq(Operation)
        /\ call \in {"init", "write"}
    BY DEF PutVariable, TypeOK
  <1>2. call = "init" => RepairLeft(plan)
    BY DEF RepairUnderWay
  <1> QED
    BY <1>1, <1>2, ShortPlans, NamedOperations, CopiesStep DEF RepairLeft

LEMMA RepairStep == TypeOK /\ RepairUnderWay /\ [Next]_vars => RepairUnderWay'
  <1> SUFFICES ASSUME TypeOK, RepairUnderWay, [Next]_vars, call' = "init"
               PROVE  RepairLeft(plan)'
    BY DEF RepairUnderWay
  <1>1. CASE Boot
    <2>1. InitPlan # <<>> /\ plan' = InitPlan /\ UNCHANGED page
      BY <1>1 DEF Boot
    <2>2. RepairLeft(InitPlan)
      BY <2>1, RepairBegins
    <2>3. s0' = s0 /\ s1' = s1 /\ page' = page
      BY <2>1 DEF s0, s1
    <2> HIDE DEF InitPlan
    <2> QED
      BY <2>1, <2>2, <2>3 DEF RepairLeft, CopiesThen
  <1>2. CASE EraseSector \/ ProgramHeader \/ CopyVariable
    <2>1. RepairLeft(plan)
      BY <1>2, RepairAdvances DEF RepairUnderWay
    <2> QED
      BY <1>2, <2>1, RepairContinues
  <1>3. ~PutVariable
    <2> SUFFICES ASSUME PutVariable PROVE FALSE
      OBVIOUS
    <2>1. call = "write"
      BY PutIsWrite
    <2> QED
      BY <2>1 DEF PutVariable, Return, Advance
  <1>4. ~OperationFails /\ ~PowerLoss /\ \A id \in Ids, v \in Value : ~UpdateVariable(id, v)
    BY DEF OperationFails, Return, PowerLoss, UpdateVariable
  <1>5. CASE UNCHANGED vars
    BY <1>5 DEF vars, RepairUnderWay, RepairLeft, CopiesThen, s0, s1
  <1> QED
    BY <1>1, <1>2, <1>3, <1>4, <1>5 DEF Next

\* A boot that finds nothing to repair has found a page in use.
LEMMA NothingToRepair ==
  ASSUME TypeOK, InitPlan = <<>>
  PROVE  OneInUse
  <1>0. s0 \in Status /\ s1 \in Status
    BY PageFields DEF s0, s1
  <1>1. ~CopiesThen(<<>>, M1, E0) /\ ~CopiesThen(<<>>, M1, E1)
    BY DEF CopiesThen
  <1>2. \A x, y, z : <<x>> # <<>> /\ <<x, y>> # <<>> /\ <<x, y, z>> # <<>>
    OBVIOUS
  <1>3. \A x : <<>> \o <<x>> # <<>> /\ \A y : <<y>> \o <<x>> # <<>>
    BY <1>2, ConcatOne
  <1>4. ~(s0 = "RECEIVE_DATA" /\ s1 = "VALID_PAGE") /\ ~(s0 = "VALID_PAGE" /\ s1 = "RECEIVE_DATA")
    BY <1>1, InitPlanCases, TransferCopies DEF E0, E1
  <1>5. InitPlan # Format
    BY <1>2, ErasePlans
  <1>6. ~(s0 = "ERASED" /\ s1 = "RECEIVE_DATA") /\ ~(s0 = "RECEIVE_DATA" /\ s1 = "ERASED")
    BY <1>3, InitPlanCases, ErasePlans
  <1>7. \/ s1 = "VALID_PAGE" /\ s0 \in {"ERASED", "corrupt"} /\ EraseIfNeeded(0) = <<>>
        \/ s0 = "VALID_PAGE" /\ s1 \in {"ERASED", "corrupt"} /\ EraseIfNeeded(1) = <<>>
    BY <1>0, <1>4, <1>5, <1>6, InitPlanCases DEF Status
  <1>8. \/ page[1].status = "VALID_PAGE" /\ page[0] = BlankPage
        \/ page[0].status = "VALID_PAGE" /\ page[1] = BlankPage
    BY <1>2, <1>7, ErasePlans DEF s0, s1
  <1> QED
    BY <1>8 DEF OneInUse

\* The last operation of a repair.
LEMMA RepairEnds ==
  ASSUME TypeOK, RepairUnderWay, call = "init", Len(plan) = 1,
         EraseSector \/ ProgramHeader \/ CopyVariable
  PROVE  /\ Return(TRUE)
         /\ \/ page'[1] = BlankPage /\ page'[0] = page[0] /\ s0' = "VALID_PAGE"
            \/ page'[0] = BlankPage /\ page'[1] = page[1] /\ s1' = "VALID_PAGE"
            \/ page'[0] = page[0] /\ page[0] = BlankPage /\ s1' = "VALID_PAGE"
            \/ page'[1] = page[1] /\ s1' = "ERASED" /\ s0' = "VALID_PAGE"
            \/ /\ plan = <<E1>> /\ page'[1] = BlankPage /\ page'[0] = page[0]
               /\ s0' = "RECEIVE_DATA"
  <1>1. RepairLeft(plan) /\ plan \in Seq(Operation)
    BY DEF RepairUnderWay, TypeOK
  <1>2. \A e : ~CopiesThen(plan, M1, e)
    BY DEF CopiesThen
  <1>3. \/ plan = <<E1>> /\ s0 \in {"VALID_PAGE", "RECEIVE_DATA"}
        \/ plan = <<E0>> /\ s1 = "VALID_PAGE"
        \/ plan = <<M1>> /\ page[0] = BlankPage
        \/ plan = <<M0>> /\ s1 = "ERASED"
    <2>1. \A x, y, z : plan # <<x, y>> /\ plan # <<x, y, z>>
      BY ShortPlans
    <2> QED
      BY <1>1, <1>2, <2>1, Zenon DEF RepairLeft
  <1>4. Head(plan) \in {E0, E1, M0, M1} /\ Advance /\ Return(TRUE)
    BY <1>3, ShortPlans, ErasesPage, MarksPage DEF Advance
  <1>5. CASE plan = <<E1>> /\ s0 \in {"VALID_PAGE", "RECEIVE_DATA"}
    BY <1>4, <1>5, ShortPlans, ErasesPage DEF s0
  <1>6. CASE plan = <<E0>> /\ s1 = "VALID_PAGE"
    BY <1>4, <1>6, ShortPlans, ErasesPage DEF s1
  <1>7. CASE plan = <<M1>> /\ page[0] = BlankPage
    BY <1>4, <1>7, ShortPlans, MarksPage
  <1>8. CASE plan = <<M0>> /\ s1 = "ERASED"
    BY <1>4, <1>8, ShortPlans, MarksPage DEF s1
  <1> QED
    BY <1>3, <1>5, <1>6, <1>7, <1>8

\* The operation that comes next in a write on a page with room is the write itself.
LEMMA PlainWriteIsPut ==
  ASSUME TypeOK, LastIsPut, PlainWrites, call = "write"
  PROVE  Head(plan).op = "put" /\ Len(plan) = 1 /\ writing = <<Head(plan).id, Head(plan).value>>
  BY TypeParts, HeadIsLast DEF PlainWrites

LEMMA FailedBootStep ==
  TypeOK /\ LastIsPut /\ RepairUnderWay /\ FailedBootLeaves /\ [Next]_vars => FailedBootLeaves'
  <1> SUFFICES ASSUME TypeOK, LastIsPut, RepairUnderWay, FailedBootLeaves, [Next]_vars
               PROVE  FailedBootLeaves'
    OBVIOUS
  <1>0. call \in {"off", "init", "write", "idle"} /\ (plan # <<>> => call \in {"init", "write"})
    BY DEF TypeOK
  <1>1. CASE Boot
    <2>1. call = "off" /\ UNCHANGED page /\ s0' = s0 /\ s1' = s1
      BY <1>1 DEF Boot, s0, s1
    <2>2. CASE InitPlan = <<>>
      <3>1. OneInUse /\ CountBoot(TRUE)
        BY <1>1, <2>2, NothingToRepair DEF Boot
      <3>2. "VALID_PAGE" \in {page[0].status, page[1].status}
        BY <3>1 DEF OneInUse
      <3>3. failedBoots' = 0
        BY <2>1, <3>1, <3>2 DEF CountBoot
      <3> QED
        BY <3>3 DEF FailedBootLeaves
    <2>3. CASE InitPlan # <<>>
      <3>1. call' = "init" /\ plan' = InitPlan /\ UNCHANGED failedBoots
        BY <1>1, <2>3 DEF Boot
      <3>2. failedBoots = 1 => s0 = "RECEIVE_DATA" /\ s1 = "ERASED"
        BY <2>1 DEF FailedBootLeaves
      <3>3. s0 = "RECEIVE_DATA" => page[0] # BlankPage
        BY DEF s0, BlankPage
      <3>4. failedBoots = 1 => plan' = <<E0, M0>>
        BY <3>1, <3>2, <3>3, InitPlanCases, ErasePlans, ConcatOne
      <3> QED
        BY <3>1, <3>4 DEF FailedBootLeaves
    <2> QED
      BY <2>2, <2>3
  <1>2. ASSUME NEW id \in Ids, NEW v \in Value, UpdateVariable(id, v) PROVE FailedBootLeaves'
    <2>1. /\ call = "idle" /\ call' \in {"idle", "write"} /\ UNCHANGED <<page, failedBoots>>
          /\ call' = "write" => plan' = <<Put(id, v, FALSE)>>
      BY <1>2 DEF UpdateVariable, history
    <2>2. PlainWrites'
      BY <2>1, ShortPlans DEF PlainWrites
    <2> QED
      BY <2>1, <2>2 DEF FailedBootLeaves, s0, s1
  <1>3. CASE EraseSector \/ ProgramHeader \/ CopyVariable
    <2>0. plan # <<>> /\ Head(plan).op # "put" /\ (Advance \/ Return(FALSE))
      BY <1>3 DEF EraseSector, ProgramHeader, CopyVariable
    <2>1. CASE call = "write"
      <3>1. UNCHANGED failedBoots /\ failedBoots # 1
        BY <2>0, <2>1, PlainWriteIsPut DEF Advance, Return, FailedBootLeaves
      <3> QED
        BY <3>1 DEF FailedBootLeaves
    <2>2. CASE call = "init" /\ call' = "init"
      <3>1. /\ Len(plan) # 1 /\ plan' = Tail(plan) /\ UNCHANGED failedBoots
            /\ failedBoots = 1 => plan = <<E0, M0>>
        BY <1>3, <2>0, <2>2, RepairAdvances, ShortPlans DEF Advance, Return, FailedBootLeaves
      <3>2. plan = <<E0, M0>> => plan' = <<M0>>
        BY <3>1, ShortPlans
      <3> QED
        BY <2>2, <3>1, <3>2 DEF FailedBootLeaves
    <2>3. CASE call = "init" /\ call' # "init"
      <3>1. call' = "idle"
        BY <2>0, <2>3 DEF Advance, Return
      <3>2. CASE Return(FALSE)
        BY <2>3, <3>2 DEF Return, CountBoot, FailedBootLeaves
      <3>3. CASE ~Return(FALSE)
        <4>1. Len(plan) = 1
          BY <2>0, <2>3, <3>3 DEF Advance
        <4>2. /\ CountBoot(TRUE)
              /\ \/ "VALID_PAGE" \in {page'[0].status, page'[1].status}
                 \/ plan = <<E1>> /\ s1' = "ERASED" /\ s0' = "RECEIVE_DATA"
          <5>1. Return(TRUE)
            BY <1>3, <2>3, <4>1, RepairEnds
          <5>2. \/ s0' = "VALID_PAGE" \/ s1' = "VALID_PAGE"
                \/ plan = <<E1>> /\ page'[1] = BlankPage /\ s0' = "RECEIVE_DATA"
            BY <1>3, <2>3, <4>1, RepairEnds
          <5>3. CountBoot(TRUE)
            BY <2>3, <5>1 DEF Return
          <5>4. page'[1] = BlankPage => s1' = "ERASED"
            BY DEF s1, BlankPage
          <5> QED
            BY <5>2, <5>3, <5>4 DEF s0, s1
        <4>3. plan = <<E1>> => failedBoots = 0
          BY <2>3, ShortPlans, NamedOperations DEF FailedBootLeaves
        <4>4. \/ failedBoots' = 0
              \/ failedBoots' = 1 /\ s1' = "ERASED" /\ s0' = "RECEIVE_DATA"
          BY <4>2, <4>3 DEF CountBoot
        <4>5. PlainWrites'
          BY <3>1 DEF PlainWrites
        <4> QED
          BY <3>1, <4>4, <4>5 DEF FailedBootLeaves
      <3> QED
        BY <3>2, <3>3
    <2> QED
      BY <1>0, <2>0, <2>1, <2>2, <2>3
  <1>4. CASE PutVariable
    <2>1. call = "write"
      BY <1>4, PutIsWrite
    <2>2. UNCHANGED failedBoots
      BY <1>4, <2>1 DEF PutVariable, Advance, Return
    <2>3. ASSUME failedBoots = 1
          PROVE  s0' = "RECEIVE_DATA" /\ s1' = "ERASED" /\ call' = "idle"
      <3>1. s0 = "RECEIVE_DATA" /\ s1 = "ERASED"
        BY <2>1, <2>3 DEF FailedBootLeaves
      <3>2. FindPage("WRITE_TO_VALID_PAGE") = NoPage
        BY <3>1 DEF FindPage, s0, s1
      <3>3. UNCHANGED page /\ Return(FALSE)
        BY <1>4, <3>2 DEF PutVariable
      <3> QED
        BY <3>1, <3>3 DEF Return, s0, s1
    <2> QED
      BY <2>2, <2>3 DEF FailedBootLeaves, PlainWrites
  <1>5. CASE OperationFails
    <2>1. call' = "idle" /\ UNCHANGED page
      BY <1>5 DEF OperationFails, Return
    <2>2. CASE call = "init"
      BY <1>5, <2>2 DEF OperationFails, Return, CountBoot, FailedBootLeaves
    <2>3. CASE call # "init"
      <3>1. UNCHANGED failedBoots
        BY <1>5, <2>3 DEF OperationFails, Return
      <3> QED
        BY <2>1, <2>3, <3>1 DEF FailedBootLeaves, PlainWrites, s0, s1
    <2> QED
      BY <2>2, <2>3
  <1>6. CASE PowerLoss
    <2>1. call' = "off"
      BY <1>6 DEF PowerLoss
    <2>2. CASE call = "init"
      BY <1>6, <2>2 DEF PowerLoss, FailedBootLeaves
    <2>3. CASE call # "init"
      <3>1. UNCHANGED failedBoots
        BY <1>6, <2>3 DEF PowerLoss
      <3>2. failedBoots = 1 => UNCHANGED page
        BY <1>0, <1>6, <2>3, PlainWriteIsPut DEF PowerLoss, FailedBootLeaves
      <3> QED
        BY <2>1, <2>3, <3>1, <3>2 DEF FailedBootLeaves, PlainWrites, s0, s1
    <2> QED
      BY <2>2, <2>3
  <1>7. CASE UNCHANGED vars
    BY <1>7 DEF vars, history, FailedBootLeaves, PlainWrites, s0, s1
  <1> QED
    BY <1>1, <1>2, <1>3, <1>4, <1>5, <1>6, <1>7 DEF Next

\* For every number of variables and every page size: whatever a power loss, also in
\* the middle of an erasure, left behind, the second boot that runs to its end has a
\* valid page.
THEOREM SecondBoot == Spec => []SecondBootRepairs
  <1> DEFINE IInv == TypeOK /\ LastIsPut /\ RepairUnderWay /\ FailedBootLeaves
  <1>1. Init => IInv
    BY TypeInit DEF Init, LastIsPut, RepairUnderWay, FailedBootLeaves
  <1>2. IInv /\ [Next]_vars => IInv'
    BY TypeStep, LastIsPutStep, RepairStep, FailedBootStep
  <1>3. IInv => SecondBootRepairs
    BY DEF FailedBootLeaves, SecondBootRepairs
  <1> QED
    BY <1>1, <1>2, <1>3, PTL DEF Spec

(***************************************************************************)
(* The refinement of SettingsStore.                                        *)
(***************************************************************************)

LEMMA NothingRead == NoWords => \A id : ReadVariable(id) = NotFound
  <1> SUFFICES ASSUME NoWords PROVE \A id : ReadVariable(id) = NotFound
    OBVIOUS
  <1>1. \A a : NewestWord(<<>>, a) = NotFound
    <2> SUFFICES ASSUME NEW a PROVE NewestWord(<<>>, a) = NotFound
      OBVIOUS
    <2>1. Hits(<<>>, a) = {}
      BY DEF Hits
    <2> QED
      BY <2>1 DEF NewestWord
  <1>2. FindPage("READ_FROM_VALID_PAGE") \in {0, 1, NoPage}
    BY DEF FindPage
  <1>3. \A p \in {0, 1} : page[p].words = <<>>
    BY DEF NoWords
  <1> QED
    BY <1>1, <1>2, <1>3 DEF ReadVariable

\* Flash operations that store nothing keep two pages without words that way.
LEMMA NoWordsKept ==
  ASSUME TypeOK, NoWords, EraseSector \/ ProgramHeader \/ CopyVariable
  PROVE  NoWords'
  <1>1. CASE EraseSector
    <2>1. CASE UNCHANGED page
      BY <2>1 DEF NoWords
    <2>2. CASE ~UNCHANGED page
      <3>1. Head(plan).sector \in {PAGE0_ID, PAGE1_ID}
        BY <1>1, <2>2 DEF EraseSector
      <3>2. PICK q \in 0 .. 1 : Head(plan).sector = q + PAGE0_ID
        BY <3>1 DEF PAGE0_ID, PAGE1_ID
      <3>3. page'[q] = BlankPage /\ page'[1 - q] = page[1 - q]
        BY <1>1, <3>2, EraseEffect
      <3>4. (q = 0 /\ 1 - q = 1) \/ (q = 1 /\ 1 - q = 0)
        BY <3>2
      <3>5. BlankPage.words = <<>>
        BY DEF BlankPage
      <3> QED
        BY <3>3, <3>4, <3>5 DEF NoWords
    <2> QED
      BY <2>1, <2>2
  <1>2. CASE ProgramHeader
    <2> DEFINE q == Head(plan).page
    <2>1. q \in 0 .. 1
      BY <1>2, HeadTail, OperationFields DEF ProgramHeader, TypeOK
    <2>2. page'[q].words = page[q].words /\ page'[1 - q] = page[1 - q]
      BY <1>2, <2>1, ProgramEffect
    <2> HIDE DEF q
    <2>3. (q = 0 /\ 1 - q = 1) \/ (q = 1 /\ 1 - q = 0)
      BY <2>1
    <2> QED
      BY <2>2, <2>3 DEF NoWords
  <1>3. CASE CopyVariable
    BY <1>3, NothingRead, CopyEffect DEF NoWords
  <1> QED
    BY <1>1, <1>2, <1>3

\* A page in use is the page that is read and the page that is written.
LEMMA InUseIsFound ==
  ASSUME TypeOK, OneInUse
  PROVE  LET p == FindPage("WRITE_TO_VALID_PAGE")
         IN  p \in 0 .. 1 /\ page[p].status = "VALID_PAGE" /\ page[1 - p] = BlankPage
  <1>1. BlankPage.status # "VALID_PAGE"
    BY DEF BlankPage
  <1>2. \/ page[0].status = "VALID_PAGE" /\ page[1] = BlankPage
        \/ page[1].status = "VALID_PAGE" /\ page[0] = BlankPage
    <2>1. PICK p \in 0 .. 1 : page[p].status = "VALID_PAGE" /\ page[1 - p] = BlankPage
      BY DEF OneInUse
    <2>2. (p = 0 /\ 1 - p = 1) \/ (p = 1 /\ 1 - p = 0)
      OBVIOUS
    <2> QED
      BY <2>1, <2>2
  <1>3. CASE page[0].status = "VALID_PAGE" /\ page[1] = BlankPage
    BY <1>3 DEF FindPage
  <1>4. CASE page[1].status = "VALID_PAGE" /\ page[0] = BlankPage
    <2>1. page[0].status # "VALID_PAGE"
      BY <1>1, <1>4
    <2> QED
      BY <1>4, <2>1 DEF FindPage
  <1> QED
    BY <1>2, <1>3, <1>4

\* A write that finds room: it is done on the page in use and ends successfully.
LEMMA PutDone ==
  ASSUME TypeOK, LastIsPut, StoreInv, call = "write", PutVariable, ~transferred'
  PROVE  /\ ~transferred
         /\ \/ UNCHANGED page /\ Return(FALSE)
            \/ /\ LET p == FindPage("WRITE_TO_VALID_PAGE")
                  IN  /\ p # NoPage /\ ~Full(p)
                      /\ page' = Programmed(p, VirtAddrForId(Head(plan).id), Head(plan).value)
               /\ Return(TRUE) /\ OneInUse
  <1>1. ~transferred /\ PlainWrites /\ usable
    <2>1. UNCHANGED transferred
      BY DEF PutVariable
    <2> QED
      BY <2>1, Zenon DEF StoreInv
  <1>2. Len(plan) = 1 /\ (Advance => Return(TRUE))
    BY <1>1, PlainWriteIsPut DEF Advance
  <1>3. FindPage("WRITE_TO_VALID_PAGE") = FindPage("READ_FROM_VALID_PAGE")
    BY DEF FindPage
  <1>4. FindPage("WRITE_TO_VALID_PAGE") # NoPage => OneInUse
    BY <1>1, <1>3 DEF StoreInv
  <1>5. \/ UNCHANGED page /\ Return(FALSE)
        \/ /\ LET p == FindPage("WRITE_TO_VALID_PAGE")
               IN  /\ p # NoPage /\ ~Full(p)
                   /\ page' = Programmed(p, VirtAddrForId(Head(plan).id), Head(plan).value)
           /\ Advance
    BY DEF PutVariable
  <1> QED
    BY <1>1, <1>2, <1>4, <1>5, Zenon

\* Writing a word to the page in use leaves the other one blank.
LEMMA InUseAfterPut ==
  ASSUME TypeOK, OneInUse, NEW id \in Ids, NEW v \in Value,
         ~Full(FindPage("WRITE_TO_VALID_PAGE")),
         page' = Programmed(FindPage("WRITE_TO_VALID_PAGE"), VirtAddrForId(id), v)
  PROVE  OneInUse'
  <1> DEFINE p == FindPage("WRITE_TO_VALID_PAGE")
             a == VirtAddrForId(id)
  <1>1. p \in 0 .. 1 /\ page[p].status = "VALID_PAGE" /\ page[1 - p] = BlankPage
    BY InUseIsFound
  <1>2. a \in Address
    BY AddressType DEF Ids
  <1> HIDE DEF p, a
  <1>3. page'[p].status = page[p].status /\ page'[1 - p] = page[1 - p]
    BY <1>1, <1>2, ProgramWord DEF p, a
  <1> QED
    BY <1>1, <1>3 DEF OneInUse

\* What a boot that ends has made of the pages, as long as there is nothing stored.
LEMMA BootLeaves ==
  ASSUME TypeOK, RepairUnderWay, NoWords, call = "init", Len(plan) = 1,
         EraseSector \/ ProgramHeader \/ CopyVariable
  PROVE  OneInUse' \/ FindPage("READ_FROM_VALID_PAGE")' = NoPage
  <1>1. NoWords'
    BY NoWordsKept
  <1>2. TypeOK'
    BY TypeStep DEF Next
  <1>3. \A q \in 0 .. 1 : page'[q] = [status |-> page'[q].status, words |-> page'[q].words]
    BY <1>2 DEF TypeOK
  <1>4. page'[1].status = "ERASED" => page'[1] = BlankPage
    BY <1>1, <1>3 DEF NoWords, BlankPage
  <1>5. \/ page'[0].status = "VALID_PAGE" /\ page'[1] = BlankPage
        \/ page'[1].status = "VALID_PAGE" /\ page'[0] = BlankPage
        \/ page'[1] = BlankPage /\ page'[0].status = "RECEIVE_DATA"
    BY <1>4, RepairEnds DEF s0, s1
  <1>6. BlankPage.status = "ERASED"
    BY DEF BlankPage
  <1>7. CASE page'[1] = BlankPage /\ page'[0].status = "RECEIVE_DATA"
    BY <1>6, <1>7 DEF FindPage
  <1>8. CASE page'[0].status = "VALID_PAGE" /\ page'[1] = BlankPage
    BY <1>8 DEF OneInUse
  <1>9. CASE page'[1].status = "VALID_PAGE" /\ page'[0] = BlankPage
    <2>1. page'[1].status = "VALID_PAGE" /\ page'[1 - 1] = BlankPage
      BY <1>9
    <2> QED
      BY <2>1 DEF OneInUse
  <1> QED
    BY <1>5, <1>7, <1>8, <1>9

\* Without words a torn page has none either, and no write erases a page.
LEMMA NothingTorn ==
  ASSUME TypeOK, LastIsPut, StoreInv, ~transferred, PowerLoss
  PROVE  UNCHANGED page \/ (NoWords /\ NoWords')
  <1>1. plan # <<>> => call \in {"init", "write"}
    BY DEF TypeOK
  <1>2. PlainWrites /\ (call = "init" => NoWords)
    BY DEF StoreInv
  <1>3. CASE call = "init"
    <2>1. CASE UNCHANGED page
      BY <2>1
    <2>2. CASE ~UNCHANGED page
      <3>1. /\ Head(plan).sector \in {PAGE0_ID, PAGE1_ID}
            /\ \E torn \in Torn(page[Head(plan).sector - PAGE0_ID]) :
                  page' = [page EXCEPT ![Head(plan).sector - PAGE0_ID] = torn]
        BY <2>2 DEF PowerLoss
      <3>2. PICK q \in 0 .. 1 : Head(plan).sector - PAGE0_ID = q
        BY <3>1 DEF PAGE0_ID, PAGE1_ID
      <3>3. PICK torn \in Torn(page[q]) : page' = [page EXCEPT ![q] = torn]
        BY <3>1, <3>2
      <3>4. page[q].words = <<>> /\ NoWords
        BY <1>2, <1>3, <3>2 DEF NoWords
      <3>5. torn.words = <<>>
        BY <3>3, <3>4 DEF Torn
      <3>6. \A r \in 0 .. 1 : page'[r].words = <<>>
        BY <3>3, <3>4, <3>5, PageFields DEF NoWords
      <3> QED
        BY <3>4, <3>6 DEF NoWords
    <2> QED
      BY <2>1, <2>2
  <1>4. CASE call = "write"
    <2>1. Head(plan).op = "put"
      BY <1>2, <1>4, PlainWriteIsPut
    <2> QED
      BY <2>1 DEF PowerLoss
  <1>5. CASE plan = <<>>
    BY <1>5 DEF PowerLoss
  <1> QED
    BY <1>1, <1>3, <1>4, <1>5

LEMMA StoreStep ==
  TypeOK /\ LastIsPut /\ RepairUnderWay /\ StoreInv /\ [Next]_vars => StoreInv'
  <1> SUFFICES ASSUME TypeOK, LastIsPut, RepairUnderWay, StoreInv, [Next]_vars, ~transferred'
               PROVE  StoreInv'
    BY DEF StoreInv
  <1> DEFINE found == FindPage("READ_FROM_VALID_PAGE")
  <1>0. call \in {"off", "init", "write", "idle"} /\ (plan # <<>> => call \in {"init", "write"})
    BY DEF TypeOK
  <1>1. ASSUME ~transferred, UNCHANGED page
        PROVE  UNCHANGED <<OneInUse, NoWords, found>>
    BY <1>1 DEF OneInUse, NoWords, FindPage
  <1> HIDE DEF found
  <1>2. CASE Boot
    <2>1. ~transferred /\ UNCHANGED page /\ call = "off"
      BY <1>2 DEF Boot
    <2>2. CASE InitPlan = <<>>
      <3>1. OneInUse /\ call' = "idle"
        BY <1>2, <2>2, NothingToRepair DEF Boot
      <3> QED
        BY <1>1, <2>1, <3>1 DEF StoreInv, PlainWrites
    <2>3. CASE InitPlan # <<>>
      <3>1. call' = "init" /\ usable' = FALSE
        BY <1>2, <2>3 DEF Boot
      <3>2. NoWords
        <4> SUFFICES ASSUME OneInUse PROVE FALSE
          BY <2>1 DEF StoreInv
        <4>1. BlankPage.status = "ERASED"
          BY DEF BlankPage
        <4>2. \/ s0 = "VALID_PAGE" /\ page[1] = BlankPage
              \/ s1 = "VALID_PAGE" /\ page[0] = BlankPage
          <5>1. PICK p \in 0 .. 1 : page[p].status = "VALID_PAGE" /\ page[1 - p] = BlankPage
            BY DEF OneInUse
          <5>2. (p = 0 /\ 1 - p = 1) \/ (p = 1 /\ 1 - p = 0)
            OBVIOUS
          <5> QED
            BY <5>1, <5>2 DEF s0, s1
        <4>3. InitPlan = <<>>
          BY <4>1, <4>2, InitPlanCases, ErasePlans DEF s0, s1
        <4> QED
          BY <2>3, <4>3
      <3> QED
        BY <1>1, <2>1, <3>1, <3>2 DEF StoreInv, PlainWrites
    <2> QED
      BY <2>2, <2>3
  <1>3. ASSUME NEW id \in Ids, NEW v \in Value, UpdateVariable(id, v) PROVE StoreInv'
    <2>1. /\ call = "idle" /\ usable /\ call' \in {"idle", "write"}
          /\ UNCHANGED <<page, usable, transferred>>
          /\ call' = "write" => plan' = <<Put(id, v, FALSE)>>
      BY <1>3 DEF UpdateVariable, history
    <2>2. PlainWrites'
      BY <2>1, ShortPlans DEF PlainWrites
    <2> QED
      BY <1>1, <2>1, <2>2 DEF StoreInv, found
  <1>4. CASE EraseSector \/ ProgramHeader \/ CopyVariable
    <2>0. plan # <<>> /\ Head(plan).op # "put" /\ (Advance \/ Return(FALSE))
      BY <1>4 DEF EraseSector, ProgramHeader, CopyVariable
    <2>1. plan # <<>> /\ Head(plan).op # "put" /\ (Advance \/ Return(FALSE)) /\ ~transferred
      <3>1. UNCHANGED transferred
        BY <1>4 DEF EraseSector, ProgramHeader, CopyVariable
      <3> QED
        BY <2>0, <3>1
    <2>2. call = "init"
      BY <1>0, <2>1, PlainWriteIsPut DEF StoreInv
    <2>3. NoWords /\ ~usable
      BY <2>1, <2>2 DEF StoreInv
    <2>4. NoWords'
      BY <1>4, <2>3, NoWordsKept
    <2>5. CASE call' = "init"
      <3>1. UNCHANGED usable
        BY <2>1, <2>5 DEF Advance, Return
      <3> QED
        BY <2>3, <2>4, <2>5, <3>1 DEF StoreInv, PlainWrites
    <2>6. CASE call' # "init"
      <3>1. call' = "idle"
        BY <2>1, <2>2, <2>6 DEF Advance, Return
      <3>2. usable' => OneInUse' \/ found' = NoPage
        <4>1. CASE Return(FALSE)
          BY <2>2, <4>1 DEF Return
        <4>2. CASE ~Return(FALSE)
          <5>1. Len(plan) = 1
            BY <2>1, <2>2, <2>6, <4>2 DEF Advance
          <5> QED
            BY <1>4, <2>2, <2>3, <5>1, BootLeaves DEF found
        <4> QED
          BY <4>1, <4>2
      <3> QED
        BY <2>4, <3>1, <3>2 DEF StoreInv, PlainWrites, found
    <2> QED
      BY <2>5, <2>6
  <1>5. CASE PutVariable
    <2>1. call = "write"
      BY <1>5, PutIsWrite
    <2>2. call' = "idle" /\ UNCHANGED usable /\ ~transferred
      <3>1. ~transferred /\ (Return(TRUE) \/ Return(FALSE))
        BY <1>5, <2>1, PutDone
      <3> QED
        BY <2>1, <3>1 DEF Return
    <2>3. CASE UNCHANGED page
      BY <1>1, <2>1, <2>2, <2>3 DEF StoreInv, PlainWrites, found
    <2>4. CASE ~UNCHANGED page
      <3> DEFINE o == Head(plan)
      <3>1. o.id \in Ids /\ o.value \in Value
        BY <1>5, HeadTail, OperationFields DEF PutVariable, TypeOK
      <3>2. OneInUse'
        BY <1>5, <2>1, <2>4, <3>1, PutDone, InUseAfterPut
      <3> QED
        BY <2>2, <3>2 DEF StoreInv, PlainWrites
    <2> QED
      BY <2>3, <2>4
  <1>6. CASE OperationFails
    <2>1. call' = "idle" /\ UNCHANGED page /\ ~transferred /\ call # "write"
      BY <1>6, PlainWriteIsPut DEF OperationFails, Return, StoreInv
    <2>2. call = "init" /\ usable' = FALSE
      BY <1>0, <1>6, <2>1 DEF OperationFails, Return
    <2> QED
      BY <1>1, <2>1, <2>2 DEF StoreInv, PlainWrites
  <1>7. CASE PowerLoss
    <2>1. call' = "off" /\ usable' = FALSE /\ ~transferred
      BY <1>7 DEF PowerLoss
    <2>2. CASE UNCHANGED page
      BY <1>1, <2>1, <2>2 DEF StoreInv, PlainWrites
    <2>3. CASE NoWords'
      BY <2>1, <2>3 DEF StoreInv, PlainWrites
    <2> QED
      BY <1>7, <2>1, <2>2, <2>3, NothingTorn
  <1>8. CASE UNCHANGED vars
    <2>1. UNCHANGED <<page, call, plan, usable, transferred>>
      BY <1>8 DEF vars, history
    <2> QED
      BY <1>1, <2>1 DEF StoreInv, PlainWrites, found
  <1> QED
    BY <1>2, <1>3, <1>4, <1>5, <1>6, <1>7, <1>8 DEF Next

\* What the variables read back as: the state of the settings memory.
Stored == [id \in Ids |-> ReadVariable(id)]

LEMMA StoredKept ==
  /\ UNCHANGED page => UNCHANGED Stored
  /\ NoWords /\ NoWords' => UNCHANGED Stored
  <1>0. (NoWords => \A id : ReadVariable(id) = NotFound)'
    BY NothingRead, PTL
  <1>1. ASSUME UNCHANGED page PROVE UNCHANGED Stored
    <2>1. FindPage("READ_FROM_VALID_PAGE")' = FindPage("READ_FROM_VALID_PAGE")
      BY <1>1 DEF FindPage
    <2>2. \A id \in Ids : ReadVariable(id)' = ReadVariable(id)
      BY <1>1, <2>1 DEF ReadVariable
    <2> QED
      BY <2>2 DEF Stored
  <1>2. ASSUME NoWords, NoWords' PROVE UNCHANGED Stored
    <2>1. \A id \in Ids : ReadVariable(id) = NotFound
      BY <1>2, NothingRead
    <2>2. \A id \in Ids : ReadVariable(id)' = NotFound
      BY <1>0, <1>2
    <2> QED
      BY <2>1, <2>2 DEF Stored
  <1> QED
    BY <1>1, <1>2

\* Every step is one of the settings memory or changes nothing a reader can see.
LEMMA StoreRefines ==
  ASSUME TypeOK, LastIsPut, RepairUnderWay, StoreInv, [Next]_vars, ~transferred'
  PROVE  Store!Next \/ UNCHANGED Store!vars
  <1> USE DEF Stored
  <1>0. call \in {"off", "init", "write", "idle"} /\ (plan # <<>> => call \in {"init", "write"})
        /\ (writing # <<>> <=> call = "write")
    BY DEF TypeOK
  <1>1. CASE Boot
    BY <1>1, StoredKept DEF Boot, Store!vars
  <1>2. ASSUME NEW id \in Ids, NEW v \in Value, UpdateVariable(id, v)
        PROVE  Store!Next
    <2>1. UNCHANGED Stored /\ writing = <<>>
      BY <1>0, <1>2, StoredKept DEF UpdateVariable
    <2>2. CASE ReadVariable(id) = v
      <3>1. Store!AlreadyStored
        BY <1>2, <2>1, <2>2 DEF UpdateVariable, Store!AlreadyStored
      <3> QED
        BY <3>1 DEF Store!Next
    <2>3. CASE ReadVariable(id) # v
      <3>1. Store!Begin(id, v)
        BY <1>2, <2>1, <2>3 DEF UpdateVariable, Store!Begin
      <3> QED
        BY <3>1 DEF Store!Next
    <2> QED
      BY <2>2, <2>3
  <1>3. CASE EraseSector \/ ProgramHeader \/ CopyVariable
    <2>1. plan # <<>> /\ Head(plan).op # "put" /\ (Advance \/ Return(FALSE))
      BY <1>3 DEF EraseSector, ProgramHeader, CopyVariable
    <2>2. UNCHANGED transferred
      BY <1>3 DEF EraseSector, ProgramHeader, CopyVariable
    <2>3. call = "init"
      BY <1>0, <2>1, <2>2, PlainWriteIsPut DEF StoreInv
    <2>4. NoWords
      BY <2>2, <2>3 DEF StoreInv
    <2>5. UNCHANGED Stored
      BY <1>3, <2>4, NoWordsKept, StoredKept
    <2>6. UNCHANGED <<writing, result>>
      BY <2>1, <2>3 DEF Advance, Return
    <2> QED
      BY <2>5, <2>6 DEF Store!vars
  <1>4. CASE PutVariable
    <2> DEFINE o == Head(plan)
    <2>1. call = "write"
      BY <1>4, PutIsWrite
    <2>2. ~transferred /\ o.id \in Ids /\ o.value \in Value
      BY <1>4, <2>1, PutDone, HeadTail, OperationFields DEF PutVariable, TypeOK
    <2>3. writing = <<o.id, o.value>> /\ writing # <<>>
      BY <1>0, <2>1, <2>2, PlainWriteIsPut DEF StoreInv
    <2>4. CASE UNCHANGED page /\ Return(FALSE)
      <3>1. Store!Fail
        BY <2>1, <2>3, <2>4, StoredKept DEF Return, Store!Fail
      <3> QED
        BY <3>1 DEF Store!Next
    <2>5. CASE ~(UNCHANGED page /\ Return(FALSE))
      <3>1. Return(TRUE)
        BY <1>4, <2>1, <2>5, PutDone
      <3>2. \A k \in Ids : ReadVariable(k)' = IF k = o.id THEN o.value ELSE ReadVariable(k)
        BY <1>4, <2>1, <2>2, <2>5, PutDone, ReadAfterPut
      <3>3. Stored' = [Stored EXCEPT ![o.id] = o.value]
        BY <2>2, <3>2
      <3>4. writing[1] = o.id /\ writing[2] = o.value
        BY <2>3
      <3>5. writing' = <<>> /\ result' = "ok"
        BY <2>1, <3>1 DEF Return
      <3>6. Store!Succeed
        BY <2>3, <3>3, <3>4, <3>5 DEF Store!Succeed
      <3> QED
        BY <3>6 DEF Store!Next
    <2> QED
      BY <2>4, <2>5
  <1>5. CASE OperationFails
    <2>1. UNCHANGED page /\ call # "write"
      BY <1>5, PlainWriteIsPut DEF OperationFails, StoreInv
    <2>2. UNCHANGED <<writing, result>>
      BY <1>0, <1>5, <2>1 DEF OperationFails, Return
    <2> QED
      BY <2>1, <2>2, StoredKept DEF Store!vars
  <1>6. CASE PowerLoss
    <2>1. ~transferred /\ writing' = <<>> /\ result' = "none"
      BY <1>6 DEF PowerLoss
    <2>2. UNCHANGED Stored
      BY <1>6, <2>1, NothingTorn, StoredKept
    <2>3. Store!PowerLoss
      BY <2>1, <2>2 DEF Store!PowerLoss
    <2> QED
      BY <2>3 DEF Store!Next
  <1>7. CASE UNCHANGED vars
    <2>1. UNCHANGED <<page, writing, result>>
      BY <1>7 DEF vars
    <2> QED
      BY <2>1, StoredKept DEF Store!vars
  <1> QED
    BY <1>1, <1>2, <1>3, <1>4, <1>5, <1>6, <1>7 DEF Next

\* For every number of variables and every page size, with power losses and failing
\* operations at any point: until the first full page the flash emulation is a
\* settings memory.
THEOREM StoreUntilTransfer == Spec => ImplementsStore
  <1> DEFINE IInv == TypeOK /\ LastIsPut /\ RepairUnderWay /\ StoreInv
  <1>1. Init => IInv /\ Store!Init
    <2> SUFFICES ASSUME Init PROVE IInv /\ Store!Init
      OBVIOUS
    <2>1. NoWords /\ FindPage("READ_FROM_VALID_PAGE") = NoPage
      BY DEF Init, NoWords, FindPage, BlankPage
    <2>2. Store!Init
      BY <2>1, NothingRead DEF Init, Store!Init
    <2> QED
      BY <2>1, <2>2, TypeInit DEF Init, LastIsPut, RepairUnderWay, StoreInv, PlainWrites
  <1>2. IInv /\ [Next]_vars => IInv'
    BY TypeStep, LastIsPutStep, RepairStep, StoreStep
  <1>3. IInv /\ [Next]_vars => [transferred' \/ Store!Next]_(Store!vars)
    BY StoreRefines
  <1> QED
    BY <1>1, <1>2, <1>3, PTL DEF Spec, ImplementsStore
=============================================================================
