--------------------------- MODULE ConfigStorage ---------------------------
(***************************************************************************)
(* Where the settings live (misc/config_storage.c, misc/serial_eeprom.c,    *)
(* drivers/ui/ui_configuration.c, drivers/ui/ui_driver_power.c): a flash    *)
(* store, a serial EEPROM behind a two-byte signature, and a RAM cache that *)
(* is written to the EEPROM page by page.  I2C may fail at every access and *)
(* the power may fail between any two pages.                               *)
(*                                                                         *)
(* A page of the EEPROM holds one variable here.  A page is written whole   *)
(* or not at all: the chip programs it after the stop condition.  The flash *)
(* store is the abstract SettingsStore that FlashEeprom implements until   *)
(* its first page transfer.                                                *)
(***************************************************************************)
EXTENDS Integers

CONSTANTS LAST_VAR,    \* MAX_VAR_ADDR: variables 1 .. LAST_VAR
          Value,       \* settings in the range UiReadSettingEEPROM_* accepts
          DefaultValue,
          Zero,        \* what RAM holds after a start
          Unset,       \* 0xFFFF, an erased cell: out of range
          NotFound,    \* the flash does not have the variable
          MaxFaults    \* bound: accesses that fail in a behaviour

ASSUME ConfigAssumption ==
  /\ LAST_VAR \in Nat \ {0} /\ MaxFaults \in Nat
  /\ DefaultValue \in Value /\ Zero \in Value /\ Unset \notin Value /\ NotFound \notin Value \cup {Unset}

VARIABLES
  flash,     \* variables in the flash store
  eeprom,    \* variables in the serial EEPROM
  signature, \* its bytes 0 (chip type) and 1 (use state)
  cache,     \* config_ramcache
  inUse,     \* ts.configstore_in_use
  settings,  \* the settings in RAM
  job,       \* what the main loop is doing
  next,      \* the next variable or page of the job
  sandbox,   \* ts.cat_band_index # 255: band and frequency (variable 1) are not saved
  after,     \* what follows the save: "idle", "begin" (a second save) or "reboot"
  result,    \* of the last save
  flashUsed, \* Flash_Init succeeded at power on
  faults,    \* failures so far
  clean,     \* history: no access has failed since power on
  byCat      \* history: the frequency was set by CAT in the sandbox

stores == <<flash, eeprom, signature>>
ram    == <<cache, inUse, settings>>
save   == <<sandbox, byCat, after, result>>
vars   == <<stores, ram, job, next, save, flashUsed, faults, clean>>

Var  == 1 .. LAST_VAR
Cell == Value \cup {Unset}

Saved == IF sandbox THEN Var \ {1} ELSE Var

\* An access succeeds or, MaxFaults times in all, fails.
Access(ok) ==
  /\ ok \/ faults < MaxFaults
  /\ faults' = IF ok THEN faults ELSE faults + 1
  /\ clean' = (clean /\ ok)

\* One turn of SerialEEPROM_24Cxx_WriteBulk.  When the poll for the acknowledge
\* fails the page may have been written all the same.
WritePage(v, content, ok) ==
  /\ Access(ok)
  /\ \/ eeprom' = [eeprom EXCEPT ![v] = content]
     \/ ~ok /\ UNCHANGED eeprom

\* Mutant of Done: one variable too few.
DoneEarly(v) == v >= LAST_VAR - 1

Done(v) == v = LAST_VAR
-----------------------------------------------------------------------------
Init ==
  /\ flash \in [Var -> {NotFound, DefaultValue}]
  /\ eeprom = [v \in Var |-> Unset]
  /\ signature = [type |-> "blank", state |-> "NOT_IN_USE"]
  /\ cache = [v \in Var |-> Zero] /\ inUse = "FLASH"
  /\ settings = [v \in Var |-> Zero]
  /\ job = "off" /\ next = 1
  /\ sandbox = FALSE /\ byCat = FALSE /\ after = "idle" /\ result = "none"
  /\ flashUsed = FALSE /\ faults = 0 /\ clean = TRUE

\* ConfigStorage_CopyFlash2RAMCache: a variable the flash does not have leaves
\* `data' as it was, at first without any value.
CopyFlash2RAMCache ==
  /\ cache' \in [Var -> Cell]
  /\ \A v \in Var : flash[v] # NotFound => cache'[v] = flash[v]

\* ConfigStorage_Init up to the migration, by what SerialEEPROM_Detect and the
\* use state say.
BootWithoutSerial ==     \* I2C fails while the chip is looked for
  /\ Access(FALSE)
  /\ inUse' = (IF flashUsed' THEN "FLASH" ELSE "ERROR") /\ job' = "load"
  /\ UNCHANGED <<signature, cache>>

BootUnknownUse ==        \* I2C fails while the use state is read
  /\ Access(FALSE)
  /\ inUse' = "ERROR" /\ job' = "load"
  /\ UNCHANGED <<signature, cache>>

BootInUse ==
  /\ signature.state = "IN_USE"
  /\ \E ok \in BOOLEAN :
       /\ Access(ok) /\ (ok \/ signature.type = "blank")
       /\ signature' = IF ok THEN [signature EXCEPT !.type = "known"] ELSE signature
  /\ inUse' = "I2C" /\ job' = "load"
  /\ UNCHANGED cache

BootNotInUse ==
  /\ signature.state = "NOT_IN_USE"
  /\ \E ok \in BOOLEAN :
       /\ Access(ok) /\ (ok \/ signature.type = "blank")
       /\ signature' = IF ok THEN [signature EXCEPT !.type = "known"] ELSE signature
  /\ IF flashUsed'
     THEN CopyFlash2RAMCache /\ inUse' = "RAMCACHE" /\ job' = "migrate"
     ELSE inUse' = "ERROR" /\ job' = "mark" /\ UNCHANGED cache

Boot ==
  /\ job = "off" /\ flashUsed' \in BOOLEAN
  /\ BootWithoutSerial \/ BootUnknownUse \/ BootInUse \/ BootNotInUse
  /\ next' = 1 /\ UNCHANGED <<flash, eeprom, settings, save>>

\* Mutant of CopyPage: the cache stays in use.
CopyPageInCache(then) ==
  \E ok \in BOOLEAN :
    /\ WritePage(next, cache[next], ok)
    /\ next' = IF ok /\ ~Done(next) THEN next + 1 ELSE 1
    /\ job' = IF ok /\ ~Done(next) THEN job ELSE then
    /\ UNCHANGED inUse

\* ConfigStorage_CopyRAMCache2Serial: the pages one after the other up to the
\* first error; only when all are written the EEPROM is in use again.
CopyPage(then) ==
  \E ok \in BOOLEAN :
    /\ WritePage(next, cache[next], ok)
    /\ next' = IF ok /\ ~Done(next) THEN next + 1 ELSE 1
    /\ job' = IF ok /\ ~Done(next) THEN job ELSE then
    /\ inUse' = IF ok /\ Done(next) THEN "I2C" ELSE inUse

\* Mutant of Migrate: the EEPROM is marked as in use before it is filled.
MigrateAfterMark ==
  /\ job = "migrate" /\ CopyPage("verify")
  /\ signature' = [signature EXCEPT !.state = "IN_USE"]
  /\ UNCHANGED <<flash, cache, settings, save, flashUsed>>

Migrate ==
  /\ job = "migrate" /\ CopyPage("verify")
  /\ UNCHANGED <<flash, signature, cache, settings, save, flashUsed>>

\* ConfigStorage_CheckSameContentSerialAndFlash; what it compares a variable with
\* that the flash does not have is undefined.
Verify ==
  /\ job = "verify" /\ job' = "mark"
  /\ \/ /\ Access(TRUE) /\ inUse' = "ERROR"
        /\ \E v \in Var : flash[v] \in {NotFound} \cup (Cell \ {eeprom[v]})
     \/ /\ Access(TRUE) /\ UNCHANGED inUse
        /\ \A v \in Var : flash[v] \in {NotFound, eeprom[v]}
     \/ Access(FALSE) /\ UNCHANGED inUse
  /\ UNCHANGED <<stores, cache, settings, next, save, flashUsed>>

\* SerialEEPROM_Set_UseStateInSignature, whatever became of the copy.
Mark ==
  /\ job = "mark" /\ job' = "load"
  /\ \E ok \in BOOLEAN :
       /\ Access(ok)
       /\ signature' = IF ok THEN [signature EXCEPT !.state = "IN_USE"] ELSE signature
  /\ UNCHANGED <<flash, eeprom, ram, next, save, flashUsed>>

InRange(x) == IF x \in Value THEN x ELSE DefaultValue

\* UiConfiguration_LoadEepromValues: what is out of range or cannot be read is
\* replaced by its default.  With CONFIGSTORE_IN_USE_ERROR the read reports success
\* and the value is undefined.
LoadEepromValues ==
  /\ job = "load" /\ job' = "idle"
  /\ \/ inUse = "FLASH" /\ Access(TRUE) /\ settings' = [v \in Var |-> InRange(flash[v])]
     \/ inUse = "RAMCACHE" /\ Access(TRUE) /\ settings' = [v \in Var |-> InRange(cache[v])]
     \/ inUse = "I2C" /\ Access(TRUE) /\ settings' = [v \in Var |-> InRange(eeprom[v])]
     \/ /\ inUse = "I2C" /\ Access(FALSE)
        /\ \E v \in Var :
             settings' = [w \in Var |-> IF w = v THEN DefaultValue ELSE InRange(eeprom[w])]
     \/ inUse = "ERROR" /\ Access(TRUE) /\ settings' \in [Var -> Value]
  /\ UNCHANGED <<stores, cache, inUse, next, save, flashUsed>>
-----------------------------------------------------------------------------
\* The operator changes a setting; a change of band leaves the sandbox.
Change ==
  /\ job = "idle"
  /\ \E v \in Var, x \in Value :
       /\ settings' = [settings EXCEPT ![v] = x]
       /\ sandbox' = (sandbox /\ v # 1) /\ byCat' = (byCat /\ v # 1)
  /\ UNCHANGED <<stores, cache, inUse, job, next, after, result, flashUsed, faults, clean>>

\* A CAT command sets the frequency with FLAGS1_CAT_IN_SANDBOX.
CatSetsFrequency ==
  /\ job = "idle"
  /\ \E x \in Value : settings' = [settings EXCEPT ![1] = x]
  /\ sandbox' = TRUE /\ byCat' = TRUE
  /\ UNCHANGED <<stores, cache, inUse, job, next, after, result, flashUsed, faults, clean>>

\* UiDriver_SaveConfiguration refuses unless flash or EEPROM is in use;
\* UiDriver_PowerDownCleanup saves once more without asking, then goes off.
Savable == inUse \in {"FLASH", "I2C"}

RequestSave ==
  /\ job = "idle" /\ job' = "begin"
  /\ \/ Savable /\ after' = "idle"
     \/ after' = IF Savable THEN "begin" ELSE "reboot"
  /\ result' = "none"
  /\ UNCHANGED <<stores, ram, next, sandbox, byCat, flashUsed, faults, clean>>

\* The settings as UiConfiguration_SaveEepromValues writes them into the cache.
Overlaid(content) == [v \in Var |-> IF v \in Saved THEN settings[v] ELSE content[v]]

\* Mutant of ReadIntoCache: the cache is taken as it is.
ReadNothing(k) == cache

\* ConfigStorage_CopySerial2RAMCache; a read that fails leaves the rest of the
\* cache as it was and nobody looks at the error.
ReadIntoCache(k) == [v \in Var |-> IF v < k THEN eeprom[v] ELSE cache[v]]

\* UiConfiguration_SaveEepromValues by the storage in use.
BeginSave ==
  /\ job = "begin" /\ next' = 1
  /\ \/ /\ inUse = "I2C" /\ inUse' = "RAMCACHE" /\ job' = "save"
        /\ \/ Access(TRUE) /\ cache' = Overlaid(ReadIntoCache(LAST_VAR + 1))
           \/ Access(FALSE) /\ \E k \in Var : cache' = Overlaid(ReadIntoCache(k))
     \/ /\ inUse = "RAMCACHE" /\ Access(TRUE)
        /\ cache' = Overlaid(cache) /\ job' = "save" /\ UNCHANGED inUse
     \/ /\ inUse = "FLASH" /\ Access(TRUE)
        /\ job' = "flashSave" /\ UNCHANGED <<cache, inUse>>
     \/ /\ inUse = "ERROR" /\ Access(TRUE)
        /\ job' = "keyer" /\ UNCHANGED <<cache, inUse>>
  /\ UNCHANGED <<stores, settings, save, flashUsed>>

SavePage ==
  /\ job = "save" /\ CopyPage("keyer")
  /\ UNCHANGED <<flash, signature, cache, settings, save, flashUsed>>

\* Variables go to the flash one by one; some stop the save when they fail, those
\* of UiConfiguration_WriteConfigEntries do not.
SaveVariable ==
  /\ job = "flashSave"
  /\ \E ok \in BOOLEAN :
       /\ Access(ok)
       /\ flash' = IF ok /\ next \in Saved THEN [flash EXCEPT ![next] = settings[next]]
                                           ELSE flash
       /\ \/ /\ next' = IF Done(next) THEN 1 ELSE next + 1
             /\ job' = IF Done(next) THEN "keyer" ELSE job
          \/ ~ok /\ next' = 1 /\ job' = "keyer"
  /\ UNCHANGED <<eeprom, signature, ram, save, flashUsed>>

\* ConfigStorage_CopyArray2Serial with the keyer macros; its return value becomes
\* the one of the save.  A save ends the sandbox (ts.cat_band_index = 255).
SaveKeyerMacros ==
  /\ job = "keyer" /\ job' = after
  /\ after' = IF after = "begin" THEN "reboot" ELSE "idle"
  /\ sandbox' = FALSE
  /\ \E ok \in BOOLEAN :
       /\ Access(ok) /\ (ok \/ inUse = "I2C")
       /\ result' = IF ok THEN "ok" ELSE "error"
  /\ UNCHANGED <<stores, ram, next, byCat, flashUsed>>
-----------------------------------------------------------------------------
StartMenuJob ==
  /\ job = "idle" /\ next' = 1
  /\ \/ inUse = "I2C" /\ job' = "backup" /\ UNCHANGED <<cache, inUse>>
     \/ inUse = "I2C" /\ job' = "restore" /\ CopyFlash2RAMCache /\ inUse' = "RAMCACHE"
     \/ job' = "clearSignature" /\ UNCHANGED <<cache, inUse>>
  /\ UNCHANGED <<stores, settings, save, flashUsed, faults, clean>>

\* ConfigStorage_CopySerial2Flash, a variable whose read or update fails is skipped.
BackupVariable ==
  /\ job = "backup"
  /\ \E ok \in BOOLEAN :
       /\ Access(ok)
       /\ flash' = IF ok THEN [flash EXCEPT ![next] = eeprom[next]] ELSE flash
  /\ next' = IF Done(next) THEN 1 ELSE next + 1
  /\ job' = IF Done(next) THEN "idle" ELSE job
  /\ UNCHANGED <<eeprom, signature, ram, save, flashUsed>>

\* ConfigStorage_CopyFlash2Serial and Board_Reboot.
RestorePage ==
  /\ job = "restore" /\ CopyPage("reboot")
  /\ UNCHANGED <<flash, signature, cache, settings, save, flashUsed>>

\* SerialEEPROM_Clear_Signature, and a reboot or the variables as well.
ClearSignature ==
  /\ job = "clearSignature" /\ job' \in {"clear", "reboot"}
  /\ \E ok \in BOOLEAN :
       /\ Access(ok)
       /\ \/ signature' = [type |-> "blank", state |-> "NOT_IN_USE"]
          \/ ~ok /\ UNCHANGED signature
  /\ UNCHANGED <<flash, eeprom, ram, next, save, flashUsed>>

\* SerialEEPROM_Clear_AllVariables and Board_Reboot.
ClearVariable ==
  /\ job = "clear"
  /\ \E ok \in BOOLEAN : WritePage(next, Unset, ok)
  /\ next' = IF Done(next) THEN 1 ELSE next + 1
  /\ job' = IF Done(next) THEN "reboot" ELSE job
  /\ UNCHANGED <<flash, signature, ram, save, flashUsed>>

\* Power is lost or switched off, or Board_Reboot: RAM does not survive.
PowerOff ==
  /\ job # "off" /\ job' = "off" /\ next' = 1
  /\ cache' = [v \in Var |-> Zero] /\ inUse' = "FLASH"
  /\ settings' = [v \in Var |-> Zero]
  /\ sandbox' = FALSE /\ byCat' = FALSE /\ after' = "idle" /\ result' = "none"
  /\ flashUsed' = FALSE /\ clean' = TRUE
  /\ UNCHANGED <<stores, faults>>

Next ==
  \/ Boot \/ Migrate \/ Verify \/ Mark \/ LoadEepromValues
  \/ Change \/ CatSetsFrequency \/ RequestSave \/ BeginSave \/ SavePage \/ SaveVariable \/ SaveKeyerMacros
  \/ StartMenuJob \/ BackupVariable \/ RestorePage \/ ClearSignature \/ ClearVariable
  \/ PowerOff

Spec == Init /\ [][Next]_vars
-----------------------------------------------------------------------------
Jobs == {"off", "reboot", "idle", "migrate", "verify", "mark", "load", "begin", "save",
         "flashSave", "keyer", "backup", "restore", "clearSignature", "clear"}

TypeOK ==
  /\ flash \in [Var -> Cell \cup {NotFound}] /\ eeprom \in [Var -> Cell]
  /\ signature \in [type : {"blank", "known"}, state : {"NOT_IN_USE", "IN_USE"}]
  /\ cache \in [Var -> Cell] /\ inUse \in {"FLASH", "I2C", "RAMCACHE", "ERROR"}
  /\ settings \in [Var -> Value] /\ job \in Jobs /\ next \in Var
  /\ sandbox \in BOOLEAN /\ after \in {"idle", "begin", "reboot"}
  /\ result \in {"none", "ok", "error"} /\ flashUsed \in BOOLEAN
  /\ faults \in 0 .. MaxFaults /\ clean \in BOOLEAN /\ byCat \in BOOLEAN

\* The serial EEPROM is marked as in use only when it holds every setting the flash
\* has, over any number of power losses while they are copied: a copy that was cut
\* short is begun again (ConfigStorage_Init), unless I2C failed.
MarkedWhenComplete ==
  [][signature.state = "NOT_IN_USE" /\ signature'.state = "IN_USE" /\ flashUsed /\ clean'
       => \A v \in Var : flash[v] \in {NotFound, eeprom[v]}]_vars

\* A save to the serial EEPROM puts into it nothing but the present settings, also
\* for the variables the save leaves out and the cache carries along: whatever was
\* in the cache before (CopySerial2RAMCache, CopyRAMCache2Serial).
NothingStaleStored ==
  [][job = "save" /\ clean'
       => \A v \in Var : eeprom'[v] \in {eeprom[v], settings[v]}]_vars

Stored(v) == IF inUse = "FLASH" THEN flash[v] ELSE eeprom[v]

\* A save that reports success with no access having failed has stored every setting
\* it is meant to where the next start looks for it.
SavedIsStored ==
  [][job = "keyer" /\ result' = "ok" /\ clean' /\ inUse # "ERROR"
       => \A v \in Saved : Stored(v) = settings[v]]_vars

\* With a serial EEPROM that answers, settings are never loaded from or saved to the
\* flash or a cache: the two stores cannot drift apart.
OneStoreInUse == clean /\ job = "idle" => inUse \in {"I2C", "ERROR"}

\* ui_menu_structure.c:135 "frequency Changes made via CAT will not [...] affect the
\* manually selected frequencies": a frequency set in the sandbox is not saved.
SandboxNotSaved ==
  [][byCat /\ clean' /\ job \in {"save", "flashSave"}
       => eeprom'[1] = eeprom[1] /\ flash'[1] = flash[1]]_vars
=============================================================================
