-------------------------------- MODULE Vault --------------------------------
(***************************************************************************)
(* main/vault.cpp over components/non_volatile_storage: what Irrigator     *)
(* takes as one value in flash is two keys, the number of ports and the    *)
(* list of their configurations, each written and committed on its own by  *)
(* either task, and both read at every start.                              *)
(*                                                                         *)
(* A start that cannot read both ends in app_main's portList[0] of an      *)
(* empty list: the chip panics and starts again, and no code provisions a  *)
(* vault.  setup erases a partition that nvs_flash_init finds unusable.    *)
(* The list never grows or shrinks after a start, so what matters of a key *)
(* is whether it is there.                                                 *)
(* vault.cpp:95 writes a third key, whose name is longer than NVS allows;  *)
(* that always fails and is no step here.                                  *)
(*                                                                         *)
(* Bounds: MaxReadErrors reads that fail, MaxErasures partitions erased.   *)
(***************************************************************************)
EXTENDS Irrigator

CONSTANTS MaxReadErrors, MaxErasures

ASSUME VaultAssumption == MaxReadErrors \in Nat /\ MaxErasures \in Nat

VARIABLES
  flash,       \* is the key there?
  counted,     \* has the task written NUMBER_OF_PORTS in this save?
  readErrors, erasures

vaultVars == <<flash, counted, readErrors, erasures>>
allVars   == <<vars, vaultVars>>

Keys   == {"numberOfPorts", "portConfig"}
NoKeys == [k \in Keys |-> FALSE]

(* Provisioned from outside, like Irrigator's Init.                        *)
VaultInit ==
  /\ Init
  /\ flash = [k \in Keys |-> TRUE]
  /\ counted = [w \in Tasks |-> FALSE]
  /\ readErrors = 0 /\ erasures = 0

-----------------------------------------------------------------------------
(* nvs_set_u8 or nvs_set_blob with nvs_commit, whose errors nobody sees.   *)
Write(key) ==
  \/ flash' = [flash EXCEPT ![key] = TRUE]
  \/ FlashErrors /\ UNCHANGED flash

(* What getVaultData needs to fill the port list.                          *)
Readable == \A k \in Keys : flash[k]

(* setup: nvs_flash_init fails for want of pages, or of a known version.   *)
EraseFlash ==
  /\ pc = "off" /\ erasures < MaxErasures /\ erasures' = erasures + 1
  /\ flash' = NoKeys
  /\ UNCHANGED <<vars, counted, readErrors>>

StartUp ==
  /\ Boot /\ Readable
  /\ counted' = [w \in Tasks |-> FALSE]
  /\ UNCHANGED <<flash, readErrors, erasures>>

(* The port list stays empty, and app_main panics ...                      *)
ReadFails ==
  /\ pc = "off" /\ readErrors < MaxReadErrors /\ readErrors' = readErrors + 1
  /\ UNCHANGED <<vars, flash, counted, erasures>>

(* ... at every start, if it is the keys that are missing.                 *)
BootLoop == pc = "off" /\ ~Readable /\ UNCHANGED allVars

(* Bug: the name space is emptied before it is written.                    *)
BugErasesFirst(w) ==
  /\ Saving(w) /\ ~counted[w] /\ counted' = [counted EXCEPT ![w] = TRUE]
  /\ flash' = [NoKeys EXCEPT !["numberOfPorts"] = TRUE]
  /\ UNCHANGED <<vars, readErrors, erasures>>

(* setVaultData: the number of ports first ...                             *)
WriteCount(w) ==
  /\ Saving(w) /\ ~counted[w] /\ counted' = [counted EXCEPT ![w] = TRUE]
  /\ Write("numberOfPorts")
  /\ UNCHANGED <<vars, readErrors, erasures>>

(* ... then their configurations.                                          *)
CopyPort(w) == counted[w] /\ CopyField(w) /\ UNCHANGED vaultVars

(* Bug: the next save leaves the count out.                                *)
BugStaysCounted(w) ==
  /\ counted[w] /\ WriteChunk(w) /\ UNCHANGED counted
  /\ Write("portConfig")
  /\ UNCHANGED <<readErrors, erasures>>

WriteConfig(w) ==
  /\ counted[w] /\ WriteChunk(w) /\ counted' = [counted EXCEPT ![w] = FALSE]
  /\ Write("portConfig")
  /\ UNCHANGED <<readErrors, erasures>>

setVaultData(w) == WriteCount(w) \/ CopyPort(w) \/ WriteConfig(w)

-----------------------------------------------------------------------------
MainLoop == \/ (CheckFlag \/ Update \/ ClearFlag \/ Flow \/ CheckWifi) /\ UNCHANGED vaultVars
            \/ (runPortCheck \/ Delay \/ Sleep) /\ UNCHANGED vaultVars
            \/ setVaultData("main")

Handler == \/ (SetInterval \/ SetQuantity) /\ UNCHANGED vaultVars
           \/ setVaultData("httpd")

Around == (Wake \/ timeUpdateNotif \/ Tick) /\ UNCHANGED vaultVars
Chance == (Post \/ SntpSet \/ Reset) /\ UNCHANGED vaultVars

VaultNext == \/ EraseFlash \/ StartUp \/ ReadFails \/ BootLoop
             \/ MainLoop \/ Handler \/ Around \/ Chance

VaultSpec == VaultInit /\ [][VaultNext]_allVars

(* Every task is scheduled, a device that is off or asleep comes back, and
   time passes.  Nobody has to post, synchronise or reset, erase the flash or
   fail to read it.                                                        *)
VaultFairness ==
  /\ WF_allVars(StartUp) /\ WF_allVars(MainLoop) /\ WF_allVars(Handler)
  /\ WF_allVars(Wake /\ UNCHANGED vaultVars)
  /\ WF_allVars(timeUpdateNotif /\ UNCHANGED vaultVars)
  /\ WF_allVars(Tick /\ UNCHANGED vaultVars)

VaultFairSpec == VaultSpec /\ VaultFairness

-----------------------------------------------------------------------------
(* Every variable has its type, and a task has counted only while it saves. *)
VaultTypeOK ==
  /\ flash \in [Keys -> BOOLEAN]
  /\ counted \in [Tasks -> BOOLEAN]
  /\ \A w \in Tasks : Running /\ counted[w] => Saving(w)
  /\ \A w \in Tasks : Running /\ copied[w] > 0 => counted[w]
  /\ readErrors \in 0 .. MaxReadErrors /\ erasures \in 0 .. MaxErasures

(* The slot will not come before the model's clock stops.                  *)
BeyondTheClock == port.switch >= MaxNow

(* Though the flow meter may stay dry, with no station connected an open valve
   is closed, by the pass that met the quantity, the sleep branch or after the
   next opening, over resets in the middle of a save, failing reads and lost
   writes; only a vault that was erased as a whole leaves it open for good
   (vault.cpp:71-98, main.cpp:276-284).                                    *)
ClosesUnlessErased == valve = OPEN ~> valve = CLOSED \/ erasures > 0 \/ BeyondTheClock

=============================================================================
