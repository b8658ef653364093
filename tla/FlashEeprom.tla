---------------------------- MODULE FlashEeprom ----------------------------
(***************************************************************************)
(* The settings memory emulated in two flash pages                          *)
(* (misc/v_eprom/uhsdr_flash.c).  A call is the sequence of flash           *)
(* operations (erase a sector, program a word) it issues: one step each, so *)
(* that the power can fail, or the operation report an error, at every one. *)
(* A page is its status word and the (address, value) words programmed into *)
(* it so far.                                                               *)
(***************************************************************************)
EXTENDS Integers, Sequences

CONSTANTS NB_OF_VAR,      \* number of variables (0x1ff in the code)
          Value,          \* what a variable can hold
          NotFound,       \* no such variable: status 1 or NO_VALID_PAGE
          CAPACITY,       \* data words in a page (4095 in the code)
          FlashMayFail    \* an erase or a program may report an error

ASSUME FlashAssumption ==
  /\ NB_OF_VAR \in 0 .. 65536        \* each variable has an address of its own
  /\ CAPACITY \in Nat
  /\ NotFound \notin Value
  /\ FlashMayFail \in BOOLEAN

VARIABLES page,        \* [0 .. 1 -> [status, words]]
          bootErased,  \* boot sectors that have been erased
          plan,        \* flash operations the running call still has to issue
          call,        \* "off", "init", "write" or "idle"
          usable,      \* ts.ee_init_stat = FLASH_ERROR_NONE
          writing,     \* the write under way as <<id, value>>, or <<>>
          result,      \* of the last write in this power cycle
          newest,      \* history: what was last programmed for a variable
          failedBoots, \* history: boots in a row, each run to its end, that report success
                       \* and leave no valid page
          transferred  \* history: a full page has been transferred

history == <<newest, failedBoots, transferred>>
vars == <<page, bootErased, plan, call, usable, writing, result, history>>

Ids == 0 .. NB_OF_VAR - 1
Status == {"ERASED", "RECEIVE_DATA", "VALID_PAGE", "corrupt"}
NoPage == 2          \* NO_VALID_PAGE
PAGE0_ID == 2        \* HAL_FLASH_SECTOR_2; sectors 0 and 1 hold the boot loader
PAGE1_ID == 3

\* Flash_GetVirtAddrForId, a uint16_t.
VAR_ADDR_START == 43521
VirtAddrForId(id) == (VAR_ADDR_START + id) % 65536

BlankPage == [status |-> "ERASED", words |-> <<>>]

\* Flash_FindPage, per operation.
FindPage(operation) ==
  LET s0 == page[0].status
      s1 == page[1].status
  IN  IF operation = "RECEIVE_WRITE_PAGE"
      THEN IF s1 = "VALID_PAGE"
           THEN IF s0 = "RECEIVE_DATA" THEN 0 ELSE NoPage
           ELSE IF s0 = "VALID_PAGE" /\ s1 = "RECEIVE_DATA" THEN 1 ELSE NoPage
      ELSE IF s0 = "VALID_PAGE" THEN 0
      ELSE IF s1 = "VALID_PAGE" THEN 1 ELSE NoPage

\* Flash_WriteVariableToPage finds no blank word.
Full(p) == Len(page[p].words) >= CAPACITY

Hits(words, address) == {i \in DOMAIN words : words[i].address = address}

\* Mutant: the search starts at the beginning of the page.
OldestWord(words, address) ==
  LET hits == Hits(words, address)
  IN  IF hits = {} THEN NotFound
      ELSE words[CHOOSE i \in hits : \A j \in hits : i <= j].value

\* The search from the end of the page in Flash_ReadVariable.
NewestWord(words, address) ==
  LET hits == Hits(words, address)
  IN  IF hits = {} THEN NotFound
      ELSE words[CHOOSE i \in hits : \A j \in hits : j <= i].value

\* Flash_ReadVariable: the parameter is a variable's id, not its address.
ReadVariable(id) ==
  LET p == FindPage("READ_FROM_VALID_PAGE")
  IN  IF p = NoPage THEN NotFound ELSE NewestWord(page[p].words, VirtAddrForId(id))

\* Programming can only clear bits: 0x0000 wins, 0xEEEE over 0x0000 has no effect.
HeaderAfter(old, new) ==
  CASE new = "VALID_PAGE" -> "VALID_PAGE"
    [] old \in {"ERASED", "RECEIVE_DATA"} -> new
    [] OTHER -> old

Erase(sector)      == [op |-> "erase", sector |-> sector]
Mark(p, status)    == [op |-> "mark", page |-> p, status |-> status]
Put(id, v, retry)  == [op |-> "put", id |-> id, value |-> v, retry |-> retry]
Copy(id, to, skip) == [op |-> "copy", id |-> id, to |-> to, skip |-> skip]

\* Flash_Check_And_EraseIfNeeded.
EraseIfNeeded(p) ==
  IF page[p] = BlankPage THEN <<>>
  ELSE <<Erase(IF p = 0 THEN PAGE0_ID ELSE PAGE1_ID)>>

\* Flash_TransferFullPage: both page arguments as the callers pass them.
TransferFullPage(from, to, skip) ==
  LET p == IF to = 0 THEN 0 ELSE 1
  IN  [i \in 1 .. NB_OF_VAR |-> Copy(i - 1, p, skip)]
        \o <<Mark(p, "VALID_PAGE"), Erase(from)>>

\* Flash_Format.
Format == <<Erase(PAGE0_ID), Mark(0, "VALID_PAGE"), Erase(PAGE1_ID)>>

\* Flash_PageTransfer.
PageTransfer(id) ==
  LET old == FindPage("READ_FROM_VALID_PAGE")
      new == 1 - old
  IN  <<Mark(new, "RECEIVE_DATA")>> \o TransferFullPage(old, new, VirtAddrForId(id))

\* Mutant: a chip whose first page is not valid is taken as it is.
InitPlanNoFormat ==
  IF page[0].status = "VALID_PAGE" THEN EraseIfNeeded(1) ELSE <<>>

\* Flash_InitA by the two page headers; what no case repairs is formatted.
InitPlan ==
  LET s0 == page[0].status
      s1 == page[1].status
      NoSkip == 0
  IN  CASE s0 \in {"ERASED", "corrupt"} /\ s1 = "VALID_PAGE" -> EraseIfNeeded(0)
        [] s0 = "ERASED" /\ s1 = "RECEIVE_DATA"
             -> EraseIfNeeded(0) \o <<Mark(1, "VALID_PAGE")>>
        [] s0 = "RECEIVE_DATA" /\ s1 = "VALID_PAGE"
             -> TransferFullPage(PAGE1_ID, PAGE0_ID, NoSkip)
        [] s0 = "RECEIVE_DATA" /\ s1 = "ERASED"
             -> EraseIfNeeded(0) \o <<Mark(0, "VALID_PAGE")>>
        [] s0 = "VALID_PAGE" /\ s1 = "RECEIVE_DATA"
             -> TransferFullPage(PAGE0_ID, PAGE1_ID, NoSkip)
        [] s0 = "VALID_PAGE" /\ s1 \in {"ERASED", "corrupt"} -> EraseIfNeeded(1)
        [] OTHER -> Format
-----------------------------------------------------------------------------
Init ==
  /\ page = [p \in 0 .. 1 |-> BlankPage] /\ bootErased = {}
  /\ plan = <<>> /\ call = "off" /\ usable = FALSE
  /\ writing = <<>> /\ result = "none"
  /\ newest = [id \in Ids |-> NotFound] /\ failedBoots = 0 /\ transferred = FALSE

CountBoot(ok) ==
  failedBoots' = IF ok /\ "VALID_PAGE" \notin {page'[0].status, page'[1].status}
                 THEN failedBoots + 1 ELSE 0

\* The running call returns, successfully or with an error code.
Return(ok) ==
  /\ plan' = <<>> /\ call' = "idle"
  /\ IF call = "init"
     THEN usable' = ok /\ UNCHANGED <<writing, result>>
     ELSE /\ writing' = <<>> /\ result' = IF ok THEN "ok" ELSE "error"
          /\ UNCHANGED usable
  /\ IF call = "init" THEN CountBoot(ok) ELSE UNCHANGED failedBoots

\* One flash operation of the running call is done, the next one is due.
Advance ==
  IF Len(plan) = 1 THEN Return(TRUE)
  ELSE plan' = Tail(plan) /\ UNCHANGED <<call, usable, writing, result, failedBoots>>

\* Power on: Flash_Init reads both headers.  Without its boot sectors the unit
\* does not start any more.
Boot ==
  /\ call = "off" /\ bootErased = {}
  /\ UNCHANGED <<page, bootErased, writing, result, newest, transferred>>
  /\ IF InitPlan = <<>>
     THEN call' = "idle" /\ usable' = TRUE /\ plan' = <<>> /\ CountBoot(TRUE)
     ELSE call' = "init" /\ usable' = FALSE /\ plan' = InitPlan
          /\ UNCHANGED failedBoots

\* Flash_UpdateVariable: a value that is there already is not written again.
UpdateVariable(id, v) ==
  /\ call = "idle" /\ usable
  /\ IF ReadVariable(id) = v
     THEN result' = "ok" /\ UNCHANGED <<call, plan, writing>>
     ELSE call' = "write" /\ plan' = <<Put(id, v, FALSE)>>
          /\ writing' = <<id, v>> /\ result' = "none"
  /\ UNCHANGED <<page, bootErased, usable, history>>

\* The flash controller reports an error and leaves the flash as it was.
OperationFails ==
  /\ FlashMayFail /\ plan # <<>> /\ Head(plan).op \in {"erase", "mark"}
  /\ UNCHANGED <<page, bootErased, newest, transferred>>
  /\ Return(FALSE)

\* Flash_Erase.  A boot sector is erased as well, unless the option bytes of the
\* chip write-protect it.
EraseSector ==
  /\ plan # <<>> /\ Head(plan).op = "erase"
  /\ LET sector == Head(plan).sector
     IN  \/ /\ sector \in {PAGE0_ID, PAGE1_ID}
            /\ page' = [page EXCEPT ![sector - PAGE0_ID] = BlankPage]
            /\ UNCHANGED bootErased /\ Advance
         \/ /\ sector \notin {PAGE0_ID, PAGE1_ID}
            /\ bootErased' = bootErased \cup {sector}
            /\ UNCHANGED page /\ Advance
         \/ /\ sector \notin {PAGE0_ID, PAGE1_ID}
            /\ UNCHANGED <<page, bootErased>> /\ Return(FALSE)
  /\ UNCHANGED <<newest, transferred>>

\* Flash_Program of a page header.
ProgramHeader ==
  /\ plan # <<>> /\ Head(plan).op = "mark"
  /\ LET o == Head(plan)
     IN  page' = [page EXCEPT ![o.page].status = HeaderAfter(@, o.status)]
  /\ Advance
  /\ UNCHANGED <<bootErased, newest, transferred>>

Programmed(p, address, v) ==
  [page EXCEPT ![p].words = Append(@, [address |-> address, value |-> v])]

\* One turn of the loop in Flash_TransferFullPage.  The address of the variable
\* is handed to Flash_ReadVariable as if it were the variable's id.  A copy that
\* finds no room programs nothing; the error is overwritten by the result of the
\* next operation, so the transfer goes on as if it had been copied.
CopyVariable ==
  /\ plan # <<>> /\ Head(plan).op = "copy"
  /\ LET o == Head(plan)
         address == VirtAddrForId(o.id)
         first == page[o.to].words
         wanted == (first = <<>> \/ first[1].address # address) /\ address # o.skip
         found == ReadVariable(address)
         p == FindPage("RECEIVE_WRITE_PAGE")
     IN  page' = IF wanted /\ found # NotFound /\ p # NoPage
                    /\ ~Full(p)
                 THEN Programmed(p, address, found) ELSE page
  /\ Advance
  /\ UNCHANGED <<bootErased, newest, transferred>>

\* Mutant: the free slot is looked for without checking that there is one.
PutVariableUnchecked ==
  /\ plan # <<>> /\ Head(plan).op = "put"
  /\ LET o == Head(plan)
         p == FindPage("WRITE_TO_VALID_PAGE")
     IN  IF p = NoPage THEN UNCHANGED <<page, newest>> /\ Return(FALSE)
         ELSE /\ newest' = [newest EXCEPT ![o.id] = o.value]
              /\ page' = IF Full(p) THEN page
                         ELSE Programmed(p, VirtAddrForId(o.id), o.value)
              /\ Advance
  /\ UNCHANGED <<bootErased, transferred>>

\* Flash_WriteVariableToPage for Flash_WriteVariable; a full page is transferred
\* once and the write tried again.
PutVariable ==
  /\ plan # <<>> /\ Head(plan).op = "put"
  /\ LET o == Head(plan)
         p == FindPage("WRITE_TO_VALID_PAGE")
         full == p # NoPage /\ Full(p)
     IN  \/ /\ p = NoPage \/ (full /\ o.retry) \/ (~full /\ FlashMayFail)
            /\ UNCHANGED <<page, newest, transferred>> /\ Return(FALSE)
         \/ /\ full /\ ~o.retry
            /\ plan' = PageTransfer(o.id) \o <<Put(o.id, o.value, TRUE)>>
            /\ transferred' = TRUE
            /\ UNCHANGED <<page, newest, call, usable, writing, result, failedBoots>>
         \/ /\ p # NoPage /\ ~full
            /\ page' = Programmed(p, VirtAddrForId(o.id), o.value)
            /\ newest' = [newest EXCEPT ![o.id] = o.value]
            /\ Advance /\ UNCHANGED transferred
  /\ UNCHANGED bootErased

\* What is left of a page whose erasure was cut short: a word of either page
\* header may read as anything, the data may or may not be gone.
Torn(content) ==
  {[status |-> s, words |-> w] : s \in Status, w \in {content.words, <<>>}}

\* The power fails, possibly in the middle of an erasure.
PowerLoss ==
  /\ call # "off" /\ call' = "off"
  /\ plan' = <<>> /\ usable' = FALSE /\ writing' = <<>> /\ result' = "none"
  /\ \/ UNCHANGED page
     \/ /\ plan # <<>> /\ Head(plan).op = "erase"
        /\ Head(plan).sector \in {PAGE0_ID, PAGE1_ID}
        /\ \E torn \in Torn(page[Head(plan).sector - PAGE0_ID]) :
              page' = [page EXCEPT ![Head(plan).sector - PAGE0_ID] = torn]
  /\ failedBoots' = IF call = "init" THEN 0 ELSE failedBoots
  /\ UNCHANGED <<bootErased, newest, transferred>>

Next ==
  \/ Boot
  \/ \E id \in Ids, v \in Value : UpdateVariable(id, v)
  \/ EraseSector \/ ProgramHeader \/ CopyVariable \/ PutVariable \/ OperationFails
  \/ PowerLoss

Spec == Init /\ [][Next]_vars
-----------------------------------------------------------------------------
Address == 0 .. 65535
Word == [address : Address, value : Value]

EraseOp == [op : {"erase"}, sector : 0 .. PAGE1_ID]
MarkOp  == [op : {"mark"}, page : 0 .. 1, status : Status]
PutOp   == [op : {"put"}, id : Ids, value : Value, retry : BOOLEAN]
CopyOp  == [op : {"copy"}, id : Ids, to : 0 .. 1, skip : Address]
Operation == EraseOp \cup MarkOp \cup PutOp \cup CopyOp

TypeOK ==
  /\ page \in [0 .. 1 -> [status : Status, words : Seq(Word)]]
  /\ \A p \in 0 .. 1 : Len(page[p].words) <= CAPACITY
  /\ bootErased \subseteq 0 .. 1
  /\ call \in {"off", "init", "write", "idle"} /\ usable \in BOOLEAN
  /\ plan \in Seq(Operation) /\ (plan # <<>> <=> call \in {"init", "write"})
  /\ writing \in {<<>>} \cup Ids \X Value /\ (writing # <<>> <=> call = "write")
  /\ result \in {"none", "ok", "error"}
  /\ newest \in [Ids -> Value \cup {NotFound}] /\ failedBoots \in Nat
  /\ transferred \in BOOLEAN

\* A write that reports success can be read back, also when it went through a
\* page transfer (Flash_WriteVariable, Flash_FindPage and Flash_ReadVariable
\* must agree on the page that counts).
SuccessIsReadable ==
  [][\A id \in Ids, v \in Value :
       writing = <<id, v>> /\ result' = "ok" => ReadVariable(id)' = v]_vars

\* Whatever state a power loss left the two pages in, at most one boot in a row
\* that is not interrupted itself reports success and leaves the unit without a
\* valid page: the next one repairs it (Flash_InitA).
SecondBootRepairs == failedBoots <= 1

\* Until the first page is full and has to be transferred the emulation keeps the
\* promise of a settings memory (SettingsStore), over power losses at any flash
\* operation and over operations that fail.
Store == INSTANCE SettingsStore
           WITH store <- [id \in Ids |-> ReadVariable(id)],
                pending <- writing, result <- result

ImplementsStore ==
  Store!Init /\ [][transferred' \/ Store!Next]_(Store!vars)

\* Flash_PageTransfer "Transfers last updated variables data from the full Page to
\* an empty one" (line 607): no variable that has been stored gets lost.
TransferKeepsVariables ==
  call = "idle" /\ usable =>
    \A id \in Ids : newest[id] # NotFound => ReadVariable(id) # NotFound
=============================================================================
