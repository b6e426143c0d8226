----------------------------- MODULE Vault_proofs -----------------------------
(***************************************************************************)
(* Proofs about Vault, for every value of its constants.                   *)
(***************************************************************************)
EXTENDS Vault, Irrigator_proofs

(* Every step of the vault is one of Irrigator's, or none of its business. *)
LEMMA VaultStepRefines == [VaultNext]_allVars => [Next]_vars
<1> SUFFICES ASSUME [VaultNext]_allVars PROVE [Next]_vars
  OBVIOUS
<1>1. CASE EraseFlash \/ ReadFails \/ BootLoop
  BY <1>1 DEF EraseFlash, ReadFails, BootLoop, allVars
<1>2. CASE StartUp
  BY <1>2 DEF StartUp, Next
<1>3. ASSUME NEW w \in Tasks, setVaultData(w)
      PROVE  CopyField(w) \/ WriteChunk(w) \/ UNCHANGED vars
  BY <1>3 DEF setVaultData, WriteCount, CopyPort, WriteConfig
<1>4. CASE MainLoop
  BY <1>3, <1>4 DEF MainLoop, Next, app_main, Tasks
<1>5. CASE Handler
  BY <1>3, <1>5 DEF Handler, Next, httpd, Tasks
<1>6. CASE Around \/ Chance
  BY <1>6 DEF Around, Chance, Next
<1>7. CASE UNCHANGED allVars
  BY <1>7 DEF allVars
<1> QED
  BY <1>1, <1>2, <1>4, <1>5, <1>6, <1>7 DEF VaultNext

(* So every theorem on Irrigator is one on the controller with its vault.  *)
LEMMA VaultImplementsIrrigator == VaultSpec => Spec
<1>1. VaultInit => Init
  BY DEF VaultInit
<1> QED
  BY <1>1, VaultStepRefines, PTL DEF VaultSpec, Spec

-----------------------------------------------------------------------------
(* The keys.                                                               *)

(* A key is there or it is not ...                                         *)
KeysInv == flash \in [Keys -> BOOLEAN]

LEMMA KeysInit == VaultInit => KeysInv
BY DEF VaultInit, KeysInv

(* ... whoever writes it, and whatever becomes of the write.               *)
LEMMA KeysStep == KeysInv /\ [VaultNext]_allVars => KeysInv'
<1> SUFFICES ASSUME KeysInv, [VaultNext]_allVars PROVE KeysInv'
  OBVIOUS
<1> USE DEF KeysInv, vaultVars
<1>1. ASSUME NEW key \in Keys, Write(key) PROVE KeysInv'
  BY <1>1 DEF Write
<1>2. CASE EraseFlash
  BY <1>2 DEF EraseFlash, NoKeys
<1>3. CASE StartUp \/ ReadFails \/ BootLoop
  BY <1>3 DEF StartUp, ReadFails, BootLoop, allVars
<1>4. ASSUME NEW w \in Tasks, setVaultData(w) PROVE KeysInv'
  BY <1>1, <1>4 DEF setVaultData, WriteCount, CopyPort, WriteConfig, Keys
<1>5. CASE MainLoop \/ Handler
  BY <1>4, <1>5 DEF MainLoop, Handler, Tasks
<1>6. CASE Around \/ Chance
  BY <1>6 DEF Around, Chance
<1>7. CASE UNCHANGED allVars
  BY <1>7 DEF allVars
<1> QED
  BY <1>2, <1>3, <1>5, <1>6, <1>7 DEF VaultNext

-----------------------------------------------------------------------------
(* Type correctness, and where a task stands in its save.                  *)

(* A task that counted is saving, and has copied a field only after that.  *)
CountedInv ==
  /\ counted \in [Tasks -> BOOLEAN]
  /\ Running => \A w \in Tasks : /\ counted[w] => Saving(w)
                                 /\ copied[w] > 0 => counted[w]

(* The counters of the model's two bounds.                                 *)
ErrorsInv == readErrors \in 0 .. MaxReadErrors /\ erasures \in 0 .. MaxErasures

LEMMA CountedInit == VaultInit => CountedInv /\ ErrorsInv
BY VaultAssumption DEF VaultInit, Init, Running, CountedInv, ErrorsInv, VaultAssumption

(* Whoever saves goes on saving until its WriteConfig: nothing else a task
   does is enabled meanwhile, and what another one does leaves it there,
   unless the chip goes down.                                              *)
LEMMA SavingIsLeftByWritingOnly ==
  ASSUME CountedInv, UNCHANGED <<counted, copied>>, Running' => Running,
         \A w \in Tasks : Saving(w) /\ Running' => Saving(w)'
  PROVE  CountedInv'
<1>1. counted' \in [Tasks -> BOOLEAN]
  BY DEF CountedInv
<1>2. ASSUME Running', NEW w \in Tasks
      PROVE  (counted[w]' => Saving(w)') /\ (copied[w]' > 0 => counted[w]')
  BY <1>2 DEF CountedInv
<1> QED
  BY <1>1, <1>2 DEF CountedInv

(* The steps of Irrigator that save nothing.                               *)
LEMMA CountedKept ==
  ASSUME CountedInv, UNCHANGED vaultVars,
         \/ CheckFlag \/ Update \/ ClearFlag \/ Flow \/ CheckWifi
         \/ runPortCheck \/ Delay \/ Sleep \/ SetInterval \/ SetQuantity
         \/ Wake \/ timeUpdateNotif \/ Tick \/ Post \/ SntpSet \/ Reset
  PROVE  CountedInv'
<1>0. UNCHANGED counted
  BY DEF vaultVars
<1> USE DEF Running, Saving, vault, http
<1>1. CASE CheckFlag \/ ClearFlag \/ Flow \/ CheckWifi \/ Delay
  BY <1>0, <1>1, SavingIsLeftByWritingOnly
     DEF CheckFlag, ClearFlag, Flow, CheckWifi, Delay
<1>2. CASE Update
  BY <1>0, <1>2, SavingIsLeftByWritingOnly
     DEF Update, UpdateBegin, UpdatePulse, CatchUp, UpdateReturn
<1>3. CASE runPortCheck
  BY <1>0, <1>3, SavingIsLeftByWritingOnly
     DEF runPortCheck, CheckDue, OpenPulse, CheckQuantity, ClosePulse
<1>4. CASE Sleep
  BY <1>0, <1>4, SavingIsLeftByWritingOnly DEF Sleep, DeepSleep
<1>5. CASE SetInterval \/ SetQuantity
  BY <1>0, <1>5, SavingIsLeftByWritingOnly DEF SetInterval, SetQuantity, SetField
<1>6. CASE Wake \/ Reset
  BY <1>0, <1>6, SavingIsLeftByWritingOnly DEF Wake, Reset
<1>7. CASE timeUpdateNotif \/ Tick \/ SntpSet
  BY <1>0, <1>7, SavingIsLeftByWritingOnly DEF timeUpdateNotif, Tick, SntpSet
<1>8. CASE Post
  BY <1>0, <1>8, SavingIsLeftByWritingOnly DEF Post
<1> QED
  BY <1>1, <1>2, <1>3, <1>4, <1>5, <1>6, <1>7, <1>8

(* The steps of a save.                                                    *)
LEMMA CountedSaved ==
  ASSUME TypeOK, CountedInv, NEW w \in Tasks, setVaultData(w)
  PROVE  CountedInv'
<1> USE DEF Running, Tasks
<1>1. CASE WriteCount(w)
  <2>1. counted' = [counted EXCEPT ![w] = TRUE] /\ Saving(w)
        /\ UNCHANGED <<pc, hpc, copied>>
    BY <1>1 DEF WriteCount, vars, http, vault
  <2> QED BY <2>1 DEF CountedInv, Saving
<1>2. CASE CopyPort(w)
  <2>1. counted[w] /\ UNCHANGED <<counted, pc, hpc>>
    BY <1>2 DEF CopyPort, CopyField, vaultVars
  <2>2. copied' = [copied EXCEPT ![w] = @ + 1]
    BY <1>2 DEF CopyPort, CopyField
  <2> QED BY <2>1, <2>2 DEF CountedInv, Saving, TypeOK
<1>3. CASE WriteConfig(w)
  <2>1. counted' = [counted EXCEPT ![w] = FALSE]
    BY <1>3 DEF WriteConfig
  <2>2. copied' = [copied EXCEPT ![w] = 0] /\ Saving(w)
    BY <1>3 DEF WriteConfig, WriteChunk
  <2>3. \/ w = "main" /\ UNCHANGED hpc /\ pc' \in {"flow", "delay"}
        \/ w = "httpd" /\ UNCHANGED pc
    BY <1>3 DEF WriteConfig, WriteChunk
  <2>4. counted' \in [Tasks -> BOOLEAN]
    BY <2>1 DEF CountedInv
  <2>5. ASSUME Running', NEW u \in Tasks
        PROVE  (counted[u]' => Saving(u)') /\ (copied[u]' > 0 => counted[u]')
    <3>1. Running
      BY <2>2, <2>3, <2>5 DEF Saving
    <3>2. CASE u = w
      BY <2>1, <2>2, <3>2 DEF CountedInv, TypeOK
    <3>3. CASE u # w
      <4>1. counted[u]' = counted[u] /\ copied[u]' = copied[u]
        BY <2>1, <2>2, <3>3 DEF CountedInv, TypeOK
      <4>2. Saving(u) => Saving(u)'
        BY <2>3, <2>5, <3>3 DEF Saving
      <4> QED BY <3>1, <4>1, <4>2 DEF CountedInv
    <3> QED BY <3>2, <3>3
  <2> QED BY <2>4, <2>5 DEF CountedInv
<1> QED
  BY <1>1, <1>2, <1>3 DEF setVaultData

LEMMA CountedStep == TypeOK /\ CountedInv /\ [VaultNext]_allVars => CountedInv'
<1> SUFFICES ASSUME TypeOK, CountedInv, [VaultNext]_allVars PROVE CountedInv'
  OBVIOUS
<1>1. CASE EraseFlash \/ ReadFails \/ BootLoop \/ UNCHANGED allVars
  <2>1. UNCHANGED <<counted, copied, pc, hpc>>
    BY <1>1 DEF EraseFlash, ReadFails, BootLoop, allVars, vaultVars, vars, vault, http
  <2> QED BY <2>1, SavingIsLeftByWritingOnly DEF Running, Saving
<1>2. CASE StartUp
  <2>1. counted' = [w \in Tasks |-> FALSE] /\ copied' = [w \in Tasks |-> 0]
    BY <1>2 DEF StartUp, Boot, Restart
  <2> QED BY <2>1 DEF CountedInv
<1>3. CASE MainLoop
  BY <1>3, CountedKept, CountedSaved DEF MainLoop, Tasks
<1>4. CASE Handler
  BY <1>4, CountedKept, CountedSaved DEF Handler, Tasks
<1>5. CASE Around
  BY <1>5, CountedKept DEF Around
<1>6. CASE Chance
  BY <1>6, CountedKept DEF Chance
<1> QED
  BY <1>1, <1>2, <1>3, <1>4, <1>5, <1>6 DEF VaultNext

LEMMA ErrorsStep == ErrorsInv /\ [VaultNext]_allVars => ErrorsInv'
<1> SUFFICES ASSUME ErrorsInv, [VaultNext]_allVars PROVE ErrorsInv'
  OBVIOUS
<1> USE DEF ErrorsInv, vaultVars
<1>1. CASE EraseFlash \/ ReadFails
  BY <1>1, VaultAssumption DEF EraseFlash, ReadFails, VaultAssumption
<1>2. CASE StartUp \/ BootLoop \/ UNCHANGED allVars
  BY <1>2 DEF StartUp, BootLoop, allVars
<1>3. ASSUME NEW w \in Tasks, setVaultData(w) PROVE ErrorsInv'
  BY <1>3 DEF setVaultData, WriteCount, CopyPort, WriteConfig
<1>4. CASE MainLoop \/ Handler
  BY <1>3, <1>4 DEF MainLoop, Handler, Tasks
<1>5. CASE Around \/ Chance
  BY <1>5 DEF Around, Chance
<1> QED
  BY <1>1, <1>2, <1>4, <1>5 DEF VaultNext

(* Every variable of the vault has its type, and a task counts as being in the
   middle of a save only while it saves: no reset, sleep or restart leaves one
   half saved in RAM, whose next save would then skip the count.           *)
THEOREM VaultTypeInvariant == VaultSpec => []VaultTypeOK
<1>1. VaultSpec => []TypeOK
  BY VaultImplementsIrrigator, TypeInvariant, PTL
<1>2. KeysInv /\ CountedInv /\ ErrorsInv => VaultTypeOK
  BY DEF KeysInv, CountedInv, ErrorsInv, VaultTypeOK
<1> QED
  BY <1>1, <1>2, KeysInit, KeysStep, CountedInit, CountedStep, ErrorsStep, PTL
     DEF VaultSpec

=============================================================================
