------------------------ MODULE ConfigStorage_proofs ------------------------
(***************************************************************************)
(* What ConfigStorage guarantees for every number of variables, every set  *)
(* of values and every number of I2C failures and power losses: the state  *)
(* keeps its type; the serial EEPROM is marked as in use only when it holds*)
(* what the flash holds; a save stores the present settings and nothing    *)
(* else, and one that reports success has stored them all; settings are not*)
(* spread over two stores. All but the first as long as no access fails.   *)
(***************************************************************************)
EXTENDS ConfigStorage, TLAPS

(***************************************************************************)
(* The helpers.                                                            *)
(***************************************************************************)

\* A setting that is loaded is in its range.
LEMMA InRangeIsValue == ASSUME NEW x PROVE InRange(x) \in Value
  BY ConfigAssumption DEF InRange

\* The page after one that is not the last is a page.
LEMMA NextPage ==
  ASSUME NEW v \in Var
  PROVE  /\ ~Done(v) => v + 1 \in Var
         /\ 1 \in Var
         /\ Done(v) => v = LAST_VAR
  BY ConfigAssumption DEF Var, Done

\* An access keeps the type of what it counts, and only one that succeeds leaves
\* a clean history clean.
LEMMA AccessKeeps ==
  ASSUME NEW ok \in BOOLEAN, Access(ok), faults \in 0 .. MaxFaults, clean \in BOOLEAN
  PROVE  /\ faults' \in 0 .. MaxFaults /\ clean' \in BOOLEAN
         /\ clean' => clean /\ ok
  BY ConfigAssumption DEF Access

\* Writing a page changes that page only.
LEMMA WritePageKeeps ==
  ASSUME NEW v \in Var, NEW content \in Cell, NEW ok \in BOOLEAN, WritePage(v, content, ok),
         eeprom \in [Var -> Cell], faults \in 0 .. MaxFaults, clean \in BOOLEAN
  PROVE  /\ eeprom' \in [Var -> Cell]
         /\ faults' \in 0 .. MaxFaults /\ clean' \in BOOLEAN
         /\ clean' => clean /\ ok /\ eeprom' = [eeprom EXCEPT ![v] = content]
  <1>1. Access(ok)
    BY DEF WritePage
  <1>2. eeprom' = [eeprom EXCEPT ![v] = content] \/ (~ok /\ eeprom' = eeprom)
    BY DEF WritePage
  <1> QED
    BY <1>1, <1>2, AccessKeeps

\* The state of a bulk write after one more page.
LEMMA CopyPageKeeps ==
  ASSUME NEW then \in Jobs, CopyPage(then), TypeOK
  PROVE  /\ eeprom' \in [Var -> Cell] /\ next' \in Var
         /\ job' \in Jobs /\ inUse' \in {"FLASH", "I2C", "RAMCACHE", "ERROR"}
         /\ faults' \in 0 .. MaxFaults /\ clean' \in BOOLEAN
         /\ clean' => /\ clean
                      /\ eeprom' = [eeprom EXCEPT ![next] = cache[next]]
                      /\ IF Done(next)
                         THEN job' = then /\ inUse' = "I2C"
                         ELSE job' = job /\ next' = next + 1 /\ inUse' = inUse
  <1>1. PICK ok \in BOOLEAN :
          /\ WritePage(next, cache[next], ok)
          /\ next' = IF ok /\ ~Done(next) THEN next + 1 ELSE 1
          /\ job' = IF ok /\ ~Done(next) THEN job ELSE then
          /\ inUse' = IF ok /\ Done(next) THEN "I2C" ELSE inUse
    BY DEF CopyPage
  <1>2. /\ next \in Var /\ cache[next] \in Cell /\ job \in Jobs
        /\ inUse \in {"FLASH", "I2C", "RAMCACHE", "ERROR"}
        /\ eeprom \in [Var -> Cell] /\ faults \in 0 .. MaxFaults /\ clean \in BOOLEAN
    BY DEF TypeOK
  <1>3. /\ eeprom' \in [Var -> Cell] /\ faults' \in 0 .. MaxFaults /\ clean' \in BOOLEAN
        /\ clean' => clean /\ ok /\ eeprom' = [eeprom EXCEPT ![next] = cache[next]]
    BY <1>1, <1>2, WritePageKeeps
  <1>4. next' \in Var
    BY <1>1, <1>2, NextPage
  <1> QED
    BY <1>1, <1>2, <1>3, <1>4

\* The cache a save writes.
LEMMA OverlaidType ==
  ASSUME TypeOK, NEW k \in Int
  PROVE  /\ Overlaid(ReadIntoCache(k)) \in [Var -> Cell]
         /\ Overlaid(cache) \in [Var -> Cell]
  BY DEF TypeOK, Overlaid, ReadIntoCache, Cell, Saved

(***************************************************************************)
(* The type.                                                               *)
(***************************************************************************)

LEMMA TypeInit == Init => TypeOK
  <1> SUFFICES ASSUME Init PROVE TypeOK
    OBVIOUS
  <1>1. 1 \in Var /\ 0 \in 0 .. MaxFaults
    BY ConfigAssumption DEF Var
  <1>2. /\ flash \in [Var -> Cell \cup {NotFound}] /\ eeprom \in [Var -> Cell]
        /\ cache \in [Var -> Cell] /\ settings \in [Var -> Value]
    BY ConfigAssumption DEF Init, Cell
  <1>3. signature \in [type : {"blank", "known"}, state : {"NOT_IN_USE", "IN_USE"}]
    BY DEF Init
  <1> QED
    BY <1>1, <1>2, <1>3 DEF Init, TypeOK, Jobs

LEMMA TypeStep == TypeOK /\ [Next]_vars => TypeOK'
  <1> SUFFICES ASSUME TypeOK, [Next]_vars PROVE TypeOK'
    OBVIOUS
  <1> USE DEF stores, ram, save
  <1>0. 1 \in Var /\ LAST_VAR \in Nat
    BY ConfigAssumption DEF Var
  <1>1. CASE Boot
    <2>1. /\ flashUsed' \in BOOLEAN /\ next' = 1
          /\ UNCHANGED <<flash, eeprom, settings, save>>
      BY <1>1 DEF Boot
    <2>2. CASE BootWithoutSerial
      <3>1. faults' \in 0 .. MaxFaults /\ clean' \in BOOLEAN
        BY <2>2, AccessKeeps DEF BootWithoutSerial, TypeOK
      <3> QED BY <1>0, <2>1, <2>2, <3>1 DEF BootWithoutSerial, TypeOK, Jobs
    <2>3. CASE BootUnknownUse
      <3>1. faults' \in 0 .. MaxFaults /\ clean' \in BOOLEAN
        BY <2>3, AccessKeeps DEF BootUnknownUse, TypeOK
      <3> QED BY <1>0, <2>1, <2>3, <3>1 DEF BootUnknownUse, TypeOK, Jobs
    <2>4. CASE BootInUse
      <3>1. PICK ok \in BOOLEAN :
              /\ Access(ok)
              /\ signature' = IF ok THEN [signature EXCEPT !.type = "known"] ELSE signature
        BY <2>4 DEF BootInUse
      <3>2. faults' \in 0 .. MaxFaults /\ clean' \in BOOLEAN
        BY <3>1, AccessKeeps DEF TypeOK
      <3> QED BY <1>0, <2>1, <2>4, <3>1, <3>2 DEF BootInUse, TypeOK, Jobs
    <2>5. CASE BootNotInUse
      <3>1. PICK ok \in BOOLEAN :
              /\ Access(ok)
              /\ signature' = IF ok THEN [signature EXCEPT !.type = "known"] ELSE signature
        BY <2>5 DEF BootNotInUse
      <3>2. faults' \in 0 .. MaxFaults /\ clean' \in BOOLEAN
        BY <3>1, AccessKeeps DEF TypeOK
      <3>3. /\ cache' \in [Var -> Cell] /\ inUse' \in {"RAMCACHE", "ERROR"}
            /\ job' \in {"migrate", "mark"}
        BY <2>5 DEF BootNotInUse, CopyFlash2RAMCache, TypeOK
      <3> QED BY <1>0, <2>1, <3>1, <3>2, <3>3 DEF TypeOK, Jobs
    <2> QED BY <1>1, <2>2, <2>3, <2>4, <2>5 DEF Boot
  <1>2. CASE Migrate \/ SavePage \/ RestorePage
    <2>1. PICK then \in Jobs : CopyPage(then)
      BY <1>2 DEF Migrate, SavePage, RestorePage, Jobs
    <2>2. UNCHANGED <<flash, signature, cache, settings, save, flashUsed>>
      BY <1>2 DEF Migrate, SavePage, RestorePage
    <2> QED BY <2>1, <2>2, CopyPageKeeps DEF TypeOK
  <1>3. CASE Verify
    <2>1. PICK ok \in BOOLEAN : Access(ok) /\ (inUse' = "ERROR" \/ UNCHANGED inUse)
      BY <1>3 DEF Verify
    <2>2. faults' \in 0 .. MaxFaults /\ clean' \in BOOLEAN
      BY <2>1, AccessKeeps DEF TypeOK
    <2> QED BY <1>3, <2>1, <2>2 DEF Verify, TypeOK, Jobs
  <1>4. CASE Mark
    <2>1. PICK ok \in BOOLEAN :
            /\ Access(ok)
            /\ signature' = IF ok THEN [signature EXCEPT !.state = "IN_USE"] ELSE signature
      BY <1>4 DEF Mark
    <2>2. faults' \in 0 .. MaxFaults /\ clean' \in BOOLEAN
      BY <2>1, AccessKeeps DEF TypeOK
    <2> QED BY <1>4, <2>1, <2>2 DEF Mark, TypeOK, Jobs
  <1>5. CASE LoadEepromValues
    <2>1. PICK ok \in BOOLEAN : Access(ok)
      BY <1>5 DEF LoadEepromValues
    <2>2. faults' \in 0 .. MaxFaults /\ clean' \in BOOLEAN
      BY <2>1, AccessKeeps DEF TypeOK
    <2>3. settings' \in [Var -> Value]
      BY <1>5, InRangeIsValue, ConfigAssumption DEF LoadEepromValues
    <2> QED BY <1>5, <2>2, <2>3 DEF LoadEepromValues, TypeOK, Jobs
  <1>6. CASE Change
    BY <1>6 DEF Change, TypeOK
  <1>7. CASE CatSetsFrequency
    BY <1>0, <1>7 DEF CatSetsFrequency, TypeOK
  <1>8. CASE RequestSave
    BY <1>8 DEF RequestSave, TypeOK, Jobs
  <1>9. CASE BeginSave
    <2>1. PICK ok \in BOOLEAN : Access(ok)
      BY <1>9 DEF BeginSave
    <2>2. faults' \in 0 .. MaxFaults /\ clean' \in BOOLEAN
      BY <2>1, AccessKeeps DEF TypeOK
    <2>3. Var \subseteq Int /\ LAST_VAR + 1 \in Int
      BY <1>0 DEF Var
    <2>4. cache' \in [Var -> Cell]
      <3>1. CASE cache' = cache
        BY <3>1 DEF TypeOK
      <3>2. CASE cache' # cache
        <4>1. \/ \E k \in Int : cache' = Overlaid(ReadIntoCache(k))
              \/ cache' = Overlaid(cache)
          BY <1>9, <2>3, <3>2 DEF BeginSave
        <4> QED BY <4>1, OverlaidType
      <3> QED BY <3>1, <3>2
    <2>5. inUse' \in {"FLASH", "I2C", "RAMCACHE", "ERROR"} /\ job' \in Jobs /\ next' \in Var
      BY <1>0, <1>9 DEF BeginSave, TypeOK, Jobs
    <2>6. UNCHANGED <<stores, settings, save, flashUsed>>
      BY <1>9 DEF BeginSave
    <2> QED BY <2>2, <2>4, <2>5, <2>6 DEF TypeOK
  <1>10. CASE SaveVariable
    <2>1. PICK ok \in BOOLEAN :
            /\ Access(ok)
            /\ flash' = IF ok /\ next \in Saved THEN [flash EXCEPT ![next] = settings[next]]
                                                ELSE flash
            /\ \/ /\ next' = IF Done(next) THEN 1 ELSE next + 1
                  /\ job' = IF Done(next) THEN "keyer" ELSE job
               \/ ~ok /\ next' = 1 /\ job' = "keyer"
      BY <1>10 DEF SaveVariable
    <2>2. faults' \in 0 .. MaxFaults /\ clean' \in BOOLEAN
      BY <2>1, AccessKeeps DEF TypeOK
    <2>3. next' \in Var /\ job' \in Jobs
      BY <2>1, NextPage DEF TypeOK, Jobs
    <2>4. flash' \in [Var -> Cell \cup {NotFound}]
      BY <2>1 DEF TypeOK, Cell
    <2> QED BY <1>10, <2>2, <2>3, <2>4 DEF SaveVariable, TypeOK
  <1>11. CASE SaveKeyerMacros
    <2>1. PICK ok \in BOOLEAN : Access(ok) /\ result' = IF ok THEN "ok" ELSE "error"
      BY <1>11 DEF SaveKeyerMacros
    <2>2. faults' \in 0 .. MaxFaults /\ clean' \in BOOLEAN
      BY <2>1, AccessKeeps DEF TypeOK
    <2> QED BY <1>11, <2>1, <2>2 DEF SaveKeyerMacros, TypeOK, Jobs
  <1>12. CASE StartMenuJob
    <2>1. cache' \in [Var -> Cell]
      BY <1>12 DEF StartMenuJob, CopyFlash2RAMCache, TypeOK
    <2> QED BY <1>0, <1>12, <2>1 DEF StartMenuJob, TypeOK, Jobs
  <1>13. CASE BackupVariable
    <2>1. PICK ok \in BOOLEAN :
            Access(ok) /\ flash' = IF ok THEN [flash EXCEPT ![next] = eeprom[next]] ELSE flash
      BY <1>13 DEF BackupVariable
    <2>2. faults' \in 0 .. MaxFaults /\ clean' \in BOOLEAN
      BY <2>1, AccessKeeps DEF TypeOK
    <2>3. flash' \in [Var -> Cell \cup {NotFound}]
      BY <2>1 DEF TypeOK
    <2>4. next' \in Var /\ job' \in Jobs
      BY <1>13, NextPage DEF BackupVariable, TypeOK, Jobs
    <2> QED BY <1>13, <2>2, <2>3, <2>4 DEF BackupVariable, TypeOK
  <1>14. CASE ClearSignature
    <2>1. PICK ok \in BOOLEAN : Access(ok)
      BY <1>14 DEF ClearSignature
    <2>2. faults' \in 0 .. MaxFaults /\ clean' \in BOOLEAN
      BY <2>1, AccessKeeps DEF TypeOK
    <2>3. signature' \in [type : {"blank", "known"}, state : {"NOT_IN_USE", "IN_USE"}]
      BY <1>14 DEF ClearSignature, TypeOK
    <2> QED BY <1>14, <2>2, <2>3 DEF ClearSignature, TypeOK, Jobs
  <1>15. CASE ClearVariable
    <2>1. PICK ok \in BOOLEAN : WritePage(next, Unset, ok)
      BY <1>15 DEF ClearVariable
    <2>2. Unset \in Cell
      BY DEF Cell
    <2>3. eeprom' \in [Var -> Cell] /\ faults' \in 0 .. MaxFaults /\ clean' \in BOOLEAN
      BY <2>1, <2>2, WritePageKeeps DEF TypeOK
    <2>4. next' \in Var /\ job' \in Jobs
      BY <1>15, NextPage DEF ClearVariable, TypeOK, Jobs
    <2> QED BY <1>15, <2>3, <2>4 DEF ClearVariable, TypeOK
  <1>16. CASE PowerOff
    BY <1>0, <1>16, ConfigAssumption DEF PowerOff, TypeOK, Cell, Jobs
  <1>17. CASE UNCHANGED vars
    BY <1>17 DEF vars, TypeOK
  <1> QED
    BY <1>1, <1>2, <1>3, <1>4, <1>5, <1>6, <1>7, <1>8, <1>9, <1>10, <1>11, <1>12,
       <1>13, <1>14, <1>15, <1>16, <1>17 DEF Next

\* The configuration storage keeps its type through any number of saves, migrations,
\* I2C failures and power losses.
THEOREM TypeCorrect == Spec => []TypeOK
  <1>1. Init => TypeOK
    BY TypeInit
  <1>2. TypeOK /\ [Next]_vars => TypeOK'
    BY TypeStep
  <1> QED
    BY <1>1, <1>2, PTL DEF Spec

(***************************************************************************)
(* The migration.                                                          *)
(***************************************************************************)

\* The variables below k are in the EEPROM as the flash has them.
CopiedBelow(k) == \A v \in Var : v < k => flash[v] \in {NotFound, eeprom[v]}

\* The inductive invariant: while settings migrate the cache holds the flash's and
\* the pages before the next one are in the EEPROM; afterwards all of them are,
\* until the EEPROM has been marked.
MigrationInv ==
  /\ job = "migrate" /\ clean =>
       /\ \A v \in Var : flash[v] # NotFound => cache[v] = flash[v]
       /\ CopiedBelow(next)
  /\ job \in {"verify", "mark"} /\ clean /\ flashUsed =>
       \A v \in Var : flash[v] \in {NotFound, eeprom[v]}

LEMMA MigrationInit == Init => MigrationInv
  BY DEF Init, MigrationInv

LEMMA MigrationStep == TypeOK /\ MigrationInv /\ [Next]_vars => MigrationInv'
  <1> SUFFICES ASSUME TypeOK, MigrationInv, [Next]_vars PROVE MigrationInv'
    OBVIOUS
  <1> USE DEF stores, ram, save
  <1>1. CASE Boot
    <2>1. CASE BootNotInUse
      <3>1. CASE flashUsed'
        <4>1. job' = "migrate" /\ next' = 1 /\ flash' = flash /\ eeprom' = eeprom
          BY <1>1, <2>1, <3>1 DEF Boot, BootNotInUse
        <4>2. \A v \in Var : flash[v] # NotFound => cache'[v] = flash[v]
          BY <2>1, <3>1 DEF BootNotInUse, CopyFlash2RAMCache
        <4>3. \A v \in Var : ~(v < 1)
          BY DEF Var
        <4> QED BY <4>1, <4>2, <4>3 DEF MigrationInv, CopiedBelow
      <3>2. CASE ~flashUsed'
        BY <2>1, <3>2 DEF BootNotInUse, MigrationInv
      <3> QED BY <3>1, <3>2
    <2>2. CASE ~BootNotInUse
      <3>1. job' = "load"
        BY <1>1, <2>2 DEF Boot, BootWithoutSerial, BootUnknownUse, BootInUse
      <3> QED BY <3>1 DEF MigrationInv
    <2> QED BY <2>1, <2>2
  <1>2. CASE Migrate
    <2>1. CopyPage("verify") /\ "verify" \in Jobs /\ job = "migrate"
          /\ UNCHANGED <<flash, cache, flashUsed>>
      BY <1>2 DEF Migrate, Jobs
    <2>2. CASE ~clean'
      BY <2>2 DEF MigrationInv
    <2>3. CASE clean'
      <3>1. /\ clean /\ eeprom' = [eeprom EXCEPT ![next] = cache[next]]
            /\ IF Done(next) THEN job' = "verify" ELSE job' = job /\ next' = next + 1
        BY <2>1, <2>3, CopyPageKeeps
      <3>2. /\ \A v \in Var : flash[v] # NotFound => cache[v] = flash[v]
            /\ \A v \in Var : v < next => flash[v] \in {NotFound, eeprom[v]}
        BY <2>1, <3>1 DEF MigrationInv, CopiedBelow
      <3>3. \A v \in Var : v <= next => flash[v] \in {NotFound, eeprom'[v]}
        <4> SUFFICES ASSUME NEW v \in Var, v <= next PROVE flash[v] \in {NotFound, eeprom'[v]}
          OBVIOUS
        <4>1. eeprom \in [Var -> Cell] /\ next \in Var
          BY DEF TypeOK
        <4>2. CASE v = next
          BY <3>1, <3>2, <4>1, <4>2
        <4>3. CASE v # next
          <5>1. v < next
            BY <4>1, <4>3 DEF Var
          <5> QED BY <3>1, <3>2, <4>1, <4>3, <5>1
        <4> QED BY <4>2, <4>3
      <3>4. CASE Done(next)
        <4>1. \A v \in Var : v <= next
          BY <3>4 DEF Done, Var
        <4> QED BY <2>1, <3>1, <3>3, <3>4, <4>1 DEF MigrationInv
      <3>5. CASE ~Done(next)
        <4>1. \A v \in Var : v < next' => v <= next
          BY <3>1, <3>5 DEF TypeOK, Var
        <4> QED BY <2>1, <3>1, <3>2, <3>3, <3>5, <4>1 DEF MigrationInv, CopiedBelow
      <3> QED BY <3>4, <3>5
    <2> QED BY <2>2, <2>3
  <1>3. CASE Verify
    <2>1. PICK ok \in BOOLEAN : Access(ok)
      BY <1>3 DEF Verify
    <2>2. clean' => clean
      BY <2>1, AccessKeeps DEF TypeOK
    <2> QED BY <1>3, <2>2 DEF Verify, MigrationInv
  <1>4. CASE UNCHANGED vars
    BY <1>4 DEF vars, MigrationInv, CopiedBelow
  <1>5. CASE job' \notin {"migrate", "verify", "mark"}
    BY <1>5 DEF MigrationInv
  <1>6. ASSUME Next, ~Boot, ~Migrate, ~Verify
        PROVE  job' \notin {"migrate", "verify", "mark"}
    <2>1. CASE Mark \/ LoadEepromValues \/ Change \/ CatSetsFrequency \/ RequestSave \/ PowerOff
      BY <2>1 DEF Mark, LoadEepromValues, Change, CatSetsFrequency, RequestSave, PowerOff
    <2>2. CASE BeginSave \/ SaveVariable
      BY <2>2 DEF BeginSave, SaveVariable
    <2>3. CASE SavePage \/ RestorePage
      BY <2>3 DEF SavePage, RestorePage, CopyPage
    <2>4. CASE SaveKeyerMacros
      BY <2>4 DEF SaveKeyerMacros, TypeOK
    <2>5. CASE StartMenuJob \/ BackupVariable \/ ClearSignature \/ ClearVariable
      BY <2>5 DEF StartMenuJob, BackupVariable, ClearSignature, ClearVariable
    <2> QED BY <1>6, <2>1, <2>2, <2>3, <2>4, <2>5 DEF Next
  <1> QED
    BY <1>1, <1>2, <1>3, <1>4, <1>5, <1>6

\* Only Mark sets the use state, and only when it succeeds.
LEMMA MarkSetsState ==
  ASSUME TypeOK, [Next]_vars, signature.state = "NOT_IN_USE", signature'.state = "IN_USE"
  PROVE  job = "mark" /\ (clean' => clean)
  <1> USE DEF stores, ram, save
  <1>1. CASE Mark
    <2>1. PICK ok \in BOOLEAN : Access(ok)
      BY <1>1 DEF Mark
    <2> QED BY <1>1, <2>1, AccessKeeps DEF Mark, TypeOK
  <1>2. ASSUME ~Mark PROVE signature'.state # "IN_USE"
    <2>1. CASE UNCHANGED vars
      BY <2>1 DEF vars
    <2>2. CASE Boot
      BY <2>2 DEF Boot, BootWithoutSerial, BootUnknownUse, BootInUse, BootNotInUse, TypeOK
    <2>3. CASE Migrate \/ Verify \/ LoadEepromValues \/ Change \/ CatSetsFrequency \/ RequestSave
      BY <2>3 DEF Migrate, Verify, LoadEepromValues, Change, CatSetsFrequency, RequestSave
    <2>4. CASE BeginSave \/ SavePage \/ SaveVariable \/ SaveKeyerMacros
      BY <2>4 DEF BeginSave, SavePage, SaveVariable, SaveKeyerMacros
    <2>5. CASE StartMenuJob \/ BackupVariable \/ RestorePage \/ ClearVariable \/ PowerOff
      BY <2>5 DEF StartMenuJob, BackupVariable, RestorePage, ClearVariable, PowerOff
    <2>6. CASE ClearSignature
      BY <2>6 DEF ClearSignature
    <2> QED BY <1>2, <2>1, <2>2, <2>3, <2>4, <2>5, <2>6 DEF Next
  <1> QED
    BY <1>1, <1>2

\* The serial EEPROM is marked as in use only when it holds every setting the flash
\* has, over any number of power losses in the middle of the copy.
THEOREM MarkedOnlyWhenComplete == Spec => MarkedWhenComplete
  <1>1. Init => TypeOK /\ MigrationInv
    BY TypeInit, MigrationInit
  <1>2. TypeOK /\ MigrationInv /\ [Next]_vars => TypeOK' /\ MigrationInv'
    BY TypeStep, MigrationStep
  <1>3. TypeOK /\ MigrationInv /\ [Next]_vars =>
          [signature.state = "NOT_IN_USE" /\ signature'.state = "IN_USE" /\ flashUsed /\ clean'
             => \A v \in Var : flash[v] \in {NotFound, eeprom[v]}]_vars
    BY MarkSetsState DEF MigrationInv
  <1> QED
    BY <1>1, <1>2, <1>3, PTL DEF Spec, MarkedWhenComplete

(***************************************************************************)
(* Saving.                                                                 *)
(***************************************************************************)

\* The jobs during which the cache, or before which the flash, is in use though
\* nothing failed.
Transient == {"off", "migrate", "save", "restore"}

\* The inductive invariant, as long as no access has failed: outside of these
\* jobs the serial EEPROM is in use or nothing is, and nothing is saved to the
\* flash; while a save writes its pages
\* the cache holds the settings to be saved, and what the EEPROM holds for the
\* others; the pages before the next one are in the EEPROM, and after the last
\* page all of them are.
SaveInv ==
  clean =>
    /\ job \notin Transient => inUse \in {"I2C", "ERROR"}
    /\ job # "flashSave"
    /\ job = "save" =>
         /\ \A v \in Var : cache[v] = IF v \in Saved THEN settings[v] ELSE eeprom[v]
         /\ \A v \in Saved : v < next => eeprom[v] = settings[v]
    /\ job = "keyer" /\ inUse = "I2C" => \A v \in Saved : eeprom[v] = settings[v]

LEMMA SaveInit == Init => SaveInv
  BY DEF Init, SaveInv, Transient

LEMMA SaveStep == TypeOK /\ SaveInv /\ [Next]_vars => SaveInv'
  <1> SUFFICES ASSUME TypeOK, SaveInv, [Next]_vars, clean' PROVE SaveInv'
    BY DEF SaveInv
  <1> USE DEF stores, ram, save
  <1>1. CASE Boot
    <2>1. job' \notin {"save", "keyer"}
      BY <1>1 DEF Boot, BootWithoutSerial, BootUnknownUse, BootInUse, BootNotInUse
    <2>2. job' \notin Transient => inUse' \in {"I2C", "ERROR"}
      BY <1>1 DEF Boot, BootWithoutSerial, BootUnknownUse, BootInUse, BootNotInUse,
                  Access, Transient
    <2>3. job' # "flashSave"
      BY <1>1 DEF Boot, BootWithoutSerial, BootUnknownUse, BootInUse, BootNotInUse
    <2> QED BY <2>1, <2>2, <2>3 DEF SaveInv
  <1>2. CASE PowerOff
    BY <1>2 DEF PowerOff, SaveInv, Transient
  <1>3. ASSUME NEW then \in Jobs \ {"save", "keyer", "flashSave"}, CopyPage(then),
               job \in {"migrate", "restore"}
        PROVE  SaveInv'
    <2>1. IF Done(next) THEN job' = then /\ inUse' = "I2C"
                        ELSE job' = job /\ next' = next + 1 /\ inUse' = inUse
      BY <1>3, CopyPageKeeps
    <2> QED BY <1>3, <2>1 DEF SaveInv, Transient
  <1>4. CASE Migrate \/ RestorePage
    BY <1>3, <1>4 DEF Migrate, RestorePage, Jobs
  <1>5. CASE Verify \/ Mark \/ LoadEepromValues
    <2>1. PICK ok \in BOOLEAN : Access(ok)
      BY <1>5 DEF Verify, Mark, LoadEepromValues
    <2>2. clean
      BY <2>1, AccessKeeps DEF TypeOK
    <2>3. inUse \in {"I2C", "ERROR"}
      BY <1>5, <2>2 DEF Verify, Mark, LoadEepromValues, SaveInv, Transient
    <2>4. inUse' \in {"I2C", "ERROR"} /\ job' \in {"mark", "load", "idle"}
      BY <1>5, <2>3 DEF Verify, Mark, LoadEepromValues
    <2> QED BY <2>4 DEF SaveInv
  <1>6. CASE Change \/ CatSetsFrequency \/ RequestSave
    BY <1>6 DEF Change, CatSetsFrequency, RequestSave, SaveInv, Transient
  <1>7. CASE BeginSave
    <2>1. UNCHANGED <<stores, settings, save>> /\ next' = 1
      BY <1>7 DEF BeginSave
    <2>2. PICK ok \in BOOLEAN : Access(ok)
      BY <1>7 DEF BeginSave
    <2>3. clean /\ ok /\ inUse \in {"I2C", "ERROR"}
      BY <1>7, <2>2, AccessKeeps DEF BeginSave, SaveInv, Transient, TypeOK
    <2>4. CASE inUse = "ERROR"
      BY <1>7, <2>4 DEF BeginSave, SaveInv, Transient
    <2>5. CASE inUse = "I2C"
      <3>1. ~Access(FALSE)
        BY DEF Access
      <3>2. job' = "save" /\ cache' = Overlaid(ReadIntoCache(LAST_VAR + 1))
        BY <1>7, <2>5, <3>1 DEF BeginSave
      <3>3. \A v \in Var : v < LAST_VAR + 1 /\ ~(v < 1)
        BY ConfigAssumption DEF Var
      <3>4. \A v \in Var : cache'[v] = IF v \in Saved THEN settings[v] ELSE eeprom[v]
        BY <3>2, <3>3 DEF Overlaid, ReadIntoCache
      <3>5. Saved' = Saved /\ Saved \subseteq Var
        BY <2>1 DEF Saved
      <3> QED BY <2>1, <3>2, <3>3, <3>4, <3>5 DEF SaveInv, Transient
    <2> QED BY <2>3, <2>4, <2>5
  <1>8. CASE SavePage
    <2>1. /\ job = "save" /\ CopyPage("keyer") /\ "keyer" \in Jobs
          /\ UNCHANGED <<cache, settings, save>>
      BY <1>8 DEF SavePage, Jobs
    <2>2. /\ clean /\ eeprom' = [eeprom EXCEPT ![next] = cache[next]]
          /\ IF Done(next) THEN job' = "keyer" /\ inUse' = "I2C"
                           ELSE job' = job /\ next' = next + 1 /\ inUse' = inUse
      BY <2>1, CopyPageKeeps
    <2>3. /\ \A v \in Var : cache[v] = IF v \in Saved THEN settings[v] ELSE eeprom[v]
          /\ \A v \in Saved : v < next => eeprom[v] = settings[v]
      BY <2>1, <2>2 DEF SaveInv
    <2>4. eeprom \in [Var -> Cell] /\ next \in Var
      BY DEF TypeOK
    <2>5. Saved' = Saved /\ Saved \subseteq Var
      BY <2>1 DEF Saved
    <2>6. \A v \in Var : cache[v] = IF v \in Saved THEN settings[v] ELSE eeprom'[v]
      BY <2>2, <2>3, <2>4
    <2>7. \A v \in Saved : v <= next => eeprom'[v] = settings[v]
      <3> SUFFICES ASSUME NEW v \in Saved, v <= next PROVE eeprom'[v] = settings[v]
        OBVIOUS
      <3>1. v = next \/ v < next
        BY <2>4, <2>5 DEF Var
      <3> QED BY <2>2, <2>3, <2>4, <2>5, <3>1
    <2>8. CASE Done(next)
      <3>1. \A v \in Saved : v <= next
        BY <2>5, <2>8 DEF Done, Var
      <3> QED BY <2>1, <2>2, <2>5, <2>7, <2>8, <3>1 DEF SaveInv, Transient
    <2>9. CASE ~Done(next)
      <3>1. \A v \in Saved : v < next' => v <= next
        BY <2>2, <2>4, <2>5, <2>9 DEF Var
      <3> QED BY <2>1, <2>2, <2>5, <2>6, <2>7, <2>9, <3>1 DEF SaveInv, Transient
    <2> QED BY <2>8, <2>9
  <1>9. CASE SaveVariable \/ BackupVariable
    <2>1. PICK ok \in BOOLEAN : Access(ok)
      BY <1>9 DEF SaveVariable, BackupVariable
    <2>2. clean
      BY <2>1, AccessKeeps DEF TypeOK
    <2>3. job = "backup" /\ inUse \in {"I2C", "ERROR"}
      BY <1>9, <2>2 DEF SaveVariable, BackupVariable, SaveInv, Transient
    <2>4. inUse' = inUse /\ job' \in {"backup", "idle"}
      BY <1>9, <2>3 DEF SaveVariable, BackupVariable
    <2> QED BY <2>3, <2>4 DEF SaveInv
  <1>10. CASE SaveKeyerMacros
    <2>1. PICK ok \in BOOLEAN : Access(ok)
      BY <1>10 DEF SaveKeyerMacros
    <2>2. clean
      BY <2>1, AccessKeeps DEF TypeOK
    <2>3. job' \in {"idle", "begin", "reboot"} /\ inUse' = inUse /\ job = "keyer"
      BY <1>10 DEF SaveKeyerMacros, TypeOK
    <2> QED BY <2>2, <2>3 DEF SaveInv, Transient
  <1>11. CASE StartMenuJob
    BY <1>11 DEF StartMenuJob, SaveInv, Transient
  <1>12. CASE ClearSignature \/ ClearVariable
    <2>1. PICK ok \in BOOLEAN : Access(ok)
      BY <1>12 DEF ClearSignature, ClearVariable, WritePage
    <2>2. clean
      BY <2>1, AccessKeeps DEF TypeOK
    <2>3. inUse' = inUse /\ job \notin Transient /\ job' \in {"clear", "reboot"}
      BY <1>12 DEF ClearSignature, ClearVariable, Transient
    <2> QED BY <2>2, <2>3 DEF SaveInv
  <1>13. CASE UNCHANGED vars
    BY <1>13 DEF vars, SaveInv, Saved
  <1> QED
    BY <1>1, <1>2, <1>4, <1>5, <1>6, <1>7, <1>8, <1>9, <1>10, <1>11, <1>12, <1>13 DEF Next

\* A save to the serial EEPROM writes nothing but the present settings, for any
\* number of variables and over any number of power losses and aborted saves.
THEOREM SavesThePresent == Spec => NothingStaleStored
  <1>1. TypeOK /\ SaveInv /\ [Next]_vars => TypeOK' /\ SaveInv'
    BY TypeStep, SaveStep
  <1>2. TypeOK /\ SaveInv /\ [Next]_vars =>
          [job = "save" /\ clean' => \A v \in Var : eeprom'[v] \in {eeprom[v], settings[v]}]_vars
    <2> SUFFICES ASSUME TypeOK, SaveInv, [Next]_vars, job = "save", clean'
                 PROVE  \A v \in Var : eeprom'[v] \in {eeprom[v], settings[v]}
      OBVIOUS
    <2> USE DEF stores, ram, save
    <2>1. CASE SavePage
      <3>1. clean /\ eeprom' = [eeprom EXCEPT ![next] = cache[next]]
        BY <2>1, CopyPageKeeps DEF SavePage, Jobs
      <3>2. \A v \in Var : cache[v] \in {eeprom[v], settings[v]}
        BY <3>1 DEF SaveInv
      <3> QED BY <3>1, <3>2 DEF TypeOK
    <2>2. CASE PowerOff \/ UNCHANGED vars
      BY <2>2 DEF PowerOff, vars
    <2> QED
      BY <2>1, <2>2
         DEF Next, Boot, Migrate, Verify, Mark, LoadEepromValues, Change, CatSetsFrequency,
             RequestSave, BeginSave, SaveVariable, SaveKeyerMacros, StartMenuJob,
             BackupVariable, RestorePage, ClearSignature, ClearVariable
  <1> QED
    BY <1>1, <1>2, TypeInit, SaveInit, PTL DEF Spec, NothingStaleStored

\* A save that reports success has stored every setting it is meant to, where the
\* next start looks for it.
THEOREM SuccessMeansStored == Spec => SavedIsStored
  <1>1. TypeOK /\ SaveInv /\ [Next]_vars => TypeOK' /\ SaveInv'
    BY TypeStep, SaveStep
  <1>2. TypeOK /\ SaveInv /\ [Next]_vars =>
          [job = "keyer" /\ result' = "ok" /\ clean' /\ inUse # "ERROR"
             => \A v \in Saved : Stored(v) = settings[v]]_vars
    <2> SUFFICES ASSUME TypeOK, SaveInv, Next, job = "keyer", result' = "ok", clean',
                        inUse # "ERROR"
                 PROVE  \A v \in Saved : Stored(v) = settings[v]
      OBVIOUS
    <2>1. CASE SaveKeyerMacros
      <3>1. PICK ok \in BOOLEAN : Access(ok)
        BY <2>1 DEF SaveKeyerMacros
      <3>2. clean
        BY <3>1, AccessKeeps DEF TypeOK
      <3>3. inUse = "I2C" /\ \A v \in Saved : eeprom[v] = settings[v]
        BY <3>2 DEF SaveInv, Transient
      <3> QED BY <3>3 DEF Stored
    <2>2. CASE PowerOff
      BY <2>2 DEF PowerOff
    <2> QED
      BY <2>1, <2>2
         DEF Next, Boot, Migrate, Verify, Mark, LoadEepromValues, Change, CatSetsFrequency,
             RequestSave, BeginSave, SavePage, SaveVariable, StartMenuJob,
             BackupVariable, RestorePage, ClearSignature, ClearVariable
  <1> QED
    BY <1>1, <1>2, TypeInit, SaveInit, PTL DEF Spec, SavedIsStored

\* With an EEPROM that answers, settings never live in the flash or in a cache.
THEOREM OneStoreOnly == Spec => []OneStoreInUse
  <1>1. TypeOK /\ SaveInv /\ [Next]_vars => TypeOK' /\ SaveInv'
    BY TypeStep, SaveStep
  <1>2. SaveInv => OneStoreInUse
    BY DEF SaveInv, OneStoreInUse, Transient
  <1> QED
    BY <1>1, <1>2, TypeInit, SaveInit, PTL DEF Spec
=============================================================================
