--------------------------- MODULE Irrigator_proofs ---------------------------
(***************************************************************************)
(* Proofs about Irrigator, for every value of its constants, and that it   *)
(* implements Irrigation, for those that leave the schedule alone.         *)
(***************************************************************************)
EXTENDS Irrigator, TLAPS

(* What holds of every behaviour holds of those without a client.          *)
LEMMA AloneIsSpec == SpecAlone => Spec
<1>1. [NextAlone]_vars => [Next]_vars
  BY DEF NextAlone, Next
<1> QED BY <1>1, PTL DEF SpecAlone, Spec

(* What the operators on ports make of a port is a port.                   *)
LEMMA PortClosure ==
  ASSUME NEW p \in Port
  PROVE  /\ Opened(p) \in Port /\ Closed(p) \in Port
         /\ NextSlot(p) \in Port /\ getVaultData(p) \in Port
         /\ p.switch \in Word32 /\ p.interval \in Word32
         /\ p.required \in Word16 /\ p.current \in Word16
         /\ \A s \in Word32 : [p EXCEPT !.switch = s] \in Port
         /\ \A n \in Word16 : [p EXCEPT !.current = n] \in Port
         /\ Configured(p) \in [interval : Word32, required : Word16]
<1> USE WidthAssumption DEF WidthAssumption, Port, Word32, Word16, PortState,
        OPEN, CLOSED
<1>1. 0 \in Word16
  OBVIOUS
<1>2. Closed(p) \in Port
  BY DEF Closed
<1>3. Opened(p) \in Port
  BY <1>1 DEF Opened
<1>4. NextSlot(p) \in Port
  <2>1. (p.switch + p.interval) % U32 \in 0 .. U32 - 1
    OBVIOUS
  <2> QED BY <2>1 DEF NextSlot
<1>5. getVaultData(p) \in Port
  BY DEF getVaultData
<1>6. Configured(p) \in [interval : Word32, required : Word16]
  BY DEF Configured
<1> QED BY <1>2, <1>3, <1>4, <1>5, <1>6

(* A field copied from one port to another, whichever it is.               *)
LEMMA CopyClosure ==
  ASSUME NEW p \in Port, NEW q \in Port,
         NEW f \in {"state", "switch", "interval", "required", "current"}
  PROVE  [p EXCEPT ![f] = q[f]] \in Port
BY DEF Port

(* Sums wrap into the width of the word that holds them.                   *)
LEMMA Wraps ==
  /\ \A n \in Nat : n % U32 \in Word32 /\ n % U16 \in Word16
  /\ 0 \in Word32 /\ 0 \in Word16
  /\ \A n \in Word32 : n \in Nat
  /\ \A n \in Word16 : n \in Nat
BY WidthAssumption DEF WidthAssumption, Word32, Word16

-----------------------------------------------------------------------------
(* The type invariant is inductive as it stands.                           *)

(* setVaultData's locals between two saves.                                *)
LEMMA FreshCopies ==
  /\ [w \in Tasks |-> InitPort] \in [Tasks -> Port]
  /\ [w \in Tasks |-> 0] \in [Tasks -> 0 .. Len(Fields)]
<1>1. 0 \in 0 .. Len(Fields)
  BY DEF Fields
<1> QED BY <1>1, InputAssumption DEF InputAssumption

(* Initially ...                                                           *)
LEMMA TypeInit == Init => TypeOK
<1> SUFFICES ASSUME Init PROVE TypeOK
  OBVIOUS
<1>1. pc \in Pcs
  BY DEF Init, Pcs
<1>2. Configured(InitPort) \in [interval : Word32, required : Word16]
  BY InputAssumption, PortClosure DEF InputAssumption
<1>3. ~Running
  BY DEF Init, Running
<1>4. /\ known \in BOOLEAN /\ notify \in BOOLEAN /\ timeUpdated \in BOOLEAN
      /\ restarted \in BOOLEAN /\ overlap \in BOOLEAN /\ valve \in PortState
  BY DEF Init, PortState
<1>5. /\ nvs \in Port /\ port \in Port /\ config \in [Tasks -> Port]
      /\ copied \in [Tasks -> 0 .. Len(Fields)]
  BY FreshCopies, InputAssumption DEF InputAssumption, Init
<1>6. portSwitchTime \in Word32 /\ lastSlot \in Word32 \cup {NoSlot}
  BY Wraps DEF Init
<1> QED
  BY <1>1, <1>2, <1>3, <1>4, <1>5, <1>6, BoundAssumption
     DEF BoundAssumption, Init, TypeOK

(* ... after a restart, timed or not ...                                   *)
LEMMA TypeRestart ==
  ASSUME TypeOK, Restart, now' \in 0 .. MaxNow
  PROVE  TypeOK'
<1>1. pc' \in Pcs /\ Running' /\ sleepInterval' # 0
  BY BoundAssumption DEF BoundAssumption, Restart, Pcs, Running
<1>2. /\ getVaultData(nvs) \in Port
      /\ Configured(nvs) \in [interval : Word32, required : Word16]
  BY PortClosure DEF TypeOK
<1>3. /\ known' \in BOOLEAN /\ notify' \in BOOLEAN /\ timeUpdated' \in BOOLEAN
      /\ restarted' \in BOOLEAN /\ overlap' \in BOOLEAN
  BY DEF Restart
<1>4. /\ config' \in [Tasks -> Port] /\ copied' \in [Tasks -> 0 .. Len(Fields)]
      /\ portSwitchTime' \in Word32
  BY FreshCopies, Wraps DEF Restart
<1> QED
  BY <1>1, <1>2, <1>3, <1>4, BoundAssumption
     DEF BoundAssumption, Restart, TypeOK

(* ... and after every step.                                               *)
LEMMA TypeStep == TypeOK /\ [Next]_vars => TypeOK'
<1> SUFFICES ASSUME TypeOK, [Next]_vars PROVE TypeOK'
  OBVIOUS
<1> USE BoundAssumption DEF BoundAssumption, TypeOK, Running, solenoid, clock,
        loop, locals, vault, http, slots
<1>1. CASE Boot
  BY <1>1, TypeRestart DEF Boot
<1>2. CASE Wake
  <2>1. pc' \in Pcs
    BY <1>2 DEF Wake, Pcs
  <2>2. now' \in 0 .. MaxNow
    BY <1>2 DEF Wake
  <2> QED BY <1>2, <2>1, <2>2 DEF Wake
<1>3. CASE CheckFlag
  <2>1. pc' \in Pcs
    BY <1>3 DEF CheckFlag, Pcs
  <2> QED BY <1>3, <2>1 DEF CheckFlag
<1>4. CASE UpdateBegin
  <2>1. pc' \in Pcs
    BY <1>4 DEF UpdateBegin, Pcs
  <2>2. port' \in Port /\ portSwitchTime' \in Word32
    BY <1>4, PortClosure DEF UpdateBegin
  <2> QED BY <1>4, <2>1, <2>2 DEF UpdateBegin
<1>5. CASE UpdatePulse
  <2>1. pc' \in Pcs /\ valve' \in PortState /\ known' \in BOOLEAN
    BY <1>5 DEF UpdatePulse, Pcs, PortState
  <2>2. port' \in Port /\ portSwitchTime' \in Word32
    BY <1>5, PortClosure DEF UpdatePulse
  <2> QED BY <1>5, <2>1, <2>2 DEF UpdatePulse
<1>6. CASE CatchUp
  <2>1. portSwitchTime \in Nat /\ port.interval \in Nat
    BY PortClosure, Wraps
  <2>2. portSwitchTime' \in Word32
    BY <1>6, <2>1, Wraps DEF CatchUp
  <2> QED BY <1>6, <2>2 DEF CatchUp
<1>7. CASE UpdateReturn
  <2>1. pc' \in Pcs
    BY <1>7 DEF UpdateReturn, Pcs
  <2>2. port' \in Port
    BY <1>7, PortClosure DEF UpdateReturn
  <2>3. portSwitchTime' \in Word32
    BY <1>7, Wraps DEF UpdateReturn
  <2> QED BY SMTT(30), <1>7, <2>1, <2>2, <2>3 DEF UpdateReturn
<1>8. CASE ClearFlag
  <2>1. timeUpdated' = FALSE /\ pc' = "save"
    BY <1>8 DEF ClearFlag
  <2>2. UNCHANGED <<port, caller, resets, solenoid, clock, loop, locals, vault, http,
                    slots>>
    BY <1>8 DEF ClearFlag
  <2>3. pc' \in Pcs /\ timeUpdated' \in BOOLEAN
    BY <2>1 DEF Pcs
  <2>4. Running /\ pc # "sleep" /\ pc \notin {"updateSwitchTimes", "updatePulse", "catchUp"}
    BY <1>8 DEF ClearFlag
  <2>5. sleepInterval' # 0
    BY <2>2, <2>4
  <2> QED BY <2>2, <2>3, <2>5
<1>9. CASE Flow
  <2>1. pc' \in Pcs
    BY <1>9 DEF Flow, Pcs
  <2>2. ASSUME NEW litres \in Litres
        PROVE  [port EXCEPT !.current = (@ + litres) % U16] \in Port
    <3>1. port.current \in Nat /\ litres \in Nat
      BY PortClosure, Wraps, InputAssumption DEF InputAssumption
    <3> DEFINE n == port.current + litres
    <3>2. n % U16 \in Word16
      <4>1. n \in Nat
        BY <3>1
      <4> HIDE DEF n
      <4> QED BY <4>1, Wraps
    <3> QED BY <3>2 DEF Port
  <2>3. port' \in Port /\ prevTicks' \in 0 .. MaxNow
    BY <1>9, <2>2 DEF Flow
  <2> QED BY SMTT(30), <1>9, <2>1, <2>3 DEF Flow
<1>10. CASE CheckWifi
  <2>1. pc' \in Pcs
    BY <1>10 DEF CheckWifi, Pcs
  <2> QED BY <1>10, <2>1 DEF CheckWifi
<1>11. CASE CheckDue
  <2>1. pc' \in Pcs
    BY <1>11 DEF CheckDue, Pcs
  <2>2. port' \in Port /\ lastSlot' \in Word32 \cup {NoSlot} /\ restarted' \in BOOLEAN
    BY <1>11, PortClosure DEF CheckDue
  <2> QED BY <1>11, <2>1, <2>2 DEF CheckDue
<1>12. CASE OpenPulse
  <2>1. pc' \in Pcs /\ valve' \in PortState /\ known' \in BOOLEAN
    BY <1>12 DEF OpenPulse, Pcs, PortState
  <2> QED BY <1>12, <2>1 DEF OpenPulse
<1>13. CASE CheckQuantity
  <2>1. pc' \in Pcs
    BY <1>13 DEF CheckQuantity, Pcs
  <2>2. port' \in Port
    BY <1>13, PortClosure DEF CheckQuantity
  <2>3. pc' \notin {"sleep", "updateSwitchTimes", "updatePulse", "catchUp"}
    BY <1>13 DEF CheckQuantity
  <2>4. sleepInterval' = sleepInterval /\ Running
    BY <1>13 DEF CheckQuantity
  <2> QED BY <1>13, <2>1, <2>2, <2>3, <2>4 DEF CheckQuantity
<1>14. CASE ClosePulse
  <2>1. pc' \in Pcs /\ valve' \in PortState /\ known' \in BOOLEAN
    BY <1>14 DEF ClosePulse, Pcs, PortState
  <2>2. port' \in Port
    BY <1>14, PortClosure DEF ClosePulse
  <2> QED BY <1>14, <2>1, <2>2 DEF ClosePulse
<1>15. CASE Delay
  <2>1. pc' \in Pcs
    BY <1>15 DEF Delay, Pcs
  <2> QED BY <1>15, <2>1 DEF Delay
<1>16. CASE Sleep
  <2>1. pc' \in Pcs
    BY <1>16 DEF Sleep, DeepSleep, Pcs
  <2>2. port.switch \in Nat
    BY PortClosure, Wraps
  <2>3. wakeAt' \in 0 .. MaxNow + MaxSleep
    BY <1>16, <2>2 DEF Sleep, DeepSleep, getNextPortTriggerTime
  <2> QED BY <1>16, <2>1, <2>3 DEF Sleep, DeepSleep
<1>17. ASSUME NEW w \in Tasks, CopyField(w) PROVE TypeOK'
  <2> DEFINE f == Fields[copied[w] + 1]
  <2>1. copied[w] \in 0 .. 4 /\ copied[w] + 1 \in 0 .. Len(Fields)
    BY <1>17 DEF CopyField, Fields
  <2>2. f \in {"state", "switch", "interval", "required", "current"}
    BY <2>1 DEF Fields
  <2>3. [config[w] EXCEPT ![f] = port[f]] \in Port
    <3> HIDE DEF f
    <3> QED BY <2>2, CopyClosure
  <2>4. config' = [config EXCEPT ![w] = [config[w] EXCEPT ![f] = port[f]]]
    BY <1>17 DEF CopyField
  <2>5. config' \in [Tasks -> Port] /\ copied' \in [Tasks -> 0 .. Len(Fields)]
    BY <1>17, <2>1, <2>3, <2>4 DEF CopyField
  <2>6. overlap' \in BOOLEAN
    BY <1>17 DEF CopyField
  <2>7. UNCHANGED <<nvs, port, pc, caller, timeUpdated, resets, solenoid, clock,
                    loop, locals, hpc, post, posts, slots>>
    BY <1>17 DEF CopyField
  <2> QED BY <2>5, <2>6, <2>7
<1>18. ASSUME NEW w \in Tasks, WriteChunk(w) PROVE TypeOK'
  <2>1. pc' \in Pcs
    BY <1>18 DEF WriteChunk, Pcs
  <2>2. /\ nvs' \in Port /\ config' \in [Tasks -> Port]
        /\ copied' \in [Tasks -> 0 .. Len(Fields)]
    BY <1>18, InputAssumption DEF WriteChunk, InputAssumption, Fields
  <2>3. pc = "save" \/ w = "httpd"
    BY <1>18 DEF WriteChunk, Saving
  <2> QED BY <1>18, <2>1, <2>2, <2>3 DEF WriteChunk
<1>19. CASE Post
  <2>1. post' \in [interval : Word32, required : Word16]
    BY <1>19, InputAssumption DEF InputAssumption, Post, Posted
  <2>2. posts' \in 0 .. MaxPosts
    BY <1>19 DEF Post
  <2>4. overlap' \in BOOLEAN
    BY <1>19 DEF Post
  <2>3. /\ hpc' = "interval"
        /\ UNCHANGED <<port, pc, caller, timeUpdated, resets, solenoid, clock,
                       loop, locals, vault, slots>>
    BY <1>19 DEF Post
  <2> QED BY <2>1, <2>2, <2>3, <2>4
<1>20. CASE SetInterval
  <2>1. port' \in Port
    BY <1>20 DEF SetInterval, SetField, Port
  <2> QED BY <1>20, <2>1 DEF SetInterval, SetField
<1>21. CASE SetQuantity
  <2>1. port' \in Port
    BY <1>21 DEF SetQuantity, SetField, Port
  <2> QED BY <1>21, <2>1 DEF SetQuantity, SetField
<1>22. CASE SntpSet
  BY <1>22, InputAssumption DEF InputAssumption, SntpSet
<1>23. CASE timeUpdateNotif
  <2>1. notify' = FALSE /\ timeUpdated' = TRUE
    BY <1>23 DEF timeUpdateNotif
  <2>2. UNCHANGED <<port, pc, caller, resets, solenoid, now, syncs, loop, locals, vault,
                    http, slots>>
    BY <1>23 DEF timeUpdateNotif
  <2>3. notify' \in BOOLEAN /\ timeUpdated' \in BOOLEAN
    BY <2>1
  <2> QED BY <2>2, <2>3
<1>24. CASE Tick
  BY <1>24 DEF Tick
<1>25. CASE Reset
  <2>1. pc' \in Pcs
    BY <1>25 DEF Reset, Pcs
  <2> QED BY <1>25, <2>1 DEF Reset
<1>26. CASE UNCHANGED vars
  BY <1>26 DEF vars
<1> QED
  BY <1>1, <1>2, <1>3, <1>4, <1>5, <1>6, <1>7, <1>8, <1>9, <1>10, <1>11, <1>12,
     <1>13, <1>14, <1>15, <1>16, <1>17, <1>18, <1>19, <1>20, <1>21, <1>22, <1>23,
     <1>24, <1>25, <1>26
     DEF Next, app_main, Update, runPortCheck, httpd, Tasks

(* Every variable keeps its type; sleepInterval never wraps.               *)
THEOREM TypeInvariant == Spec => []TypeOK
BY TypeInit, TypeStep, PTL DEF Spec
-----------------------------------------------------------------------------
(* The record of the port and the solenoid.                                *)

(* StateMirrorsValve is not inductive: a pulse makes the record right only if
   portState_e already says what the pulse is about to do.                 *)
PulsesFollowState ==
  /\ pc = "openPulse" => port.state = OPEN
  /\ pc \in {"updatePulse", "closePulse"} => port.state = CLOSED

MirrorInv == StateMirrorsValve /\ PulsesFollowState

(* It holds while the device is off ...                                    *)
LEMMA MirrorInit == Init => MirrorInv
BY DEF Init, MirrorInv, StateMirrorsValve, PulsesFollowState, Running

(* ... and through every step of every task.                               *)
LEMMA MirrorStep == TypeOK /\ MirrorInv /\ [Next]_vars => MirrorInv'
<1> SUFFICES ASSUME TypeOK, MirrorInv, [Next]_vars PROVE MirrorInv'
  OBVIOUS
<1>types. port \in Port /\ nvs \in Port
  BY DEF TypeOK
<1> USE <1>types DEF MirrorInv, StateMirrorsValve, PulsesFollowState, Recorded,
        Running, Port, PortState, OPEN, CLOSED, solenoid
<1>1. CASE Boot
  BY <1>1 DEF Boot, Restart, getVaultData
<1>2. CASE Wake
  BY <1>2 DEF Wake
<1>3. CASE CheckFlag
  BY <1>3 DEF CheckFlag
<1>4. CASE UpdateBegin
  BY <1>4 DEF UpdateBegin, Closed
<1>5. CASE UpdatePulse
  BY <1>5 DEF UpdatePulse, NextSlot
<1>6. CASE CatchUp
  BY <1>6 DEF CatchUp
<1>7. CASE UpdateReturn
  BY <1>7 DEF UpdateReturn
<1>8. CASE ClearFlag
  BY <1>8 DEF ClearFlag
<1>9. CASE Flow
  BY <1>9 DEF Flow
<1>10. CASE CheckWifi
  BY <1>10 DEF CheckWifi
<1>11. CASE CheckDue
  BY <1>11 DEF CheckDue, IsDue, Opened
<1>12. CASE OpenPulse
  BY <1>12 DEF OpenPulse
<1>13. CASE CheckQuantity
  BY <1>13 DEF CheckQuantity, QuantityMet, Closed
<1>14. CASE ClosePulse
  BY <1>14 DEF ClosePulse, NextSlot
<1>15. CASE Delay
  BY <1>15 DEF Delay
<1>16. CASE Sleep
  BY <1>16 DEF Sleep, DeepSleep
<1>17. ASSUME NEW w \in Tasks, CopyField(w) PROVE MirrorInv'
  BY <1>17 DEF CopyField, Saving
<1>18. ASSUME NEW w \in Tasks, WriteChunk(w) PROVE MirrorInv'
  BY <1>18 DEF WriteChunk, Saving
<1>19. CASE Post
  BY <1>19 DEF Post
<1>20. CASE SetInterval
  BY <1>20 DEF SetInterval, SetField
<1>21. CASE SetQuantity
  BY <1>21 DEF SetQuantity, SetField
<1>22. CASE SntpSet
  BY <1>22 DEF SntpSet
<1>23. CASE timeUpdateNotif
  BY <1>23 DEF timeUpdateNotif
<1>24. CASE Tick
  BY <1>24 DEF Tick
<1>25. CASE Reset
  BY <1>25 DEF Reset
<1>26. CASE UNCHANGED vars
  BY <1>26 DEF vars
<1> QED
  BY <1>1, <1>2, <1>3, <1>4, <1>5, <1>6, <1>7, <1>8, <1>9, <1>10, <1>11, <1>12,
     <1>13, <1>14, <1>15, <1>16, <1>17, <1>18, <1>19, <1>20, <1>21, <1>22, <1>23,
     <1>24, <1>25, <1>26
     DEF Next, app_main, Update, runPortCheck, httpd, Tasks

(* What the record says of the solenoid is right in every behaviour, from the
   first pulse on, or from a restart whose record is right.                *)
THEOREM StateMirrorsValveHolds == Spec => []StateMirrorsValve
<1>1. TypeOK /\ MirrorInv /\ [Next]_vars => MirrorInv'
  BY MirrorStep
<1> QED
  BY <1>1, MirrorInit, TypeInvariant, PTL DEF Spec, MirrorInv

-----------------------------------------------------------------------------
(* The vault while nobody posts.                                           *)

(* VaultHoldsClosed with what makes it inductive: httpd stays idle, a save of
   the main loop finds the port closed, and so does what it has copied.    *)
ClosedInv ==
  /\ nvs.state = CLOSED
  /\ hpc = "idle"
  /\ pc \in {"updatePulse", "catchUp", "clearFlag", "closePulse", "save"} =>
       port.state = CLOSED
  /\ copied["main"] > 0 => config["main"].state = CLOSED

(* The vault is provisioned with a closed port ...                         *)
LEMMA ClosedInit == Init => ClosedInv
BY InputAssumption DEF InputAssumption, Init, ClosedInv, Tasks

(* ... and no save of the main loop writes another.                        *)
LEMMA ClosedStep ==
  ASSUME MaxPosts = 0
  PROVE  TypeOK /\ ClosedInv /\ [Next]_vars => ClosedInv'
<1> SUFFICES ASSUME TypeOK, ClosedInv, [Next]_vars PROVE ClosedInv'
  OBVIOUS
<1>types. /\ port \in Port /\ nvs \in Port /\ posts = 0
          /\ config \in [Tasks -> Port] /\ copied \in [Tasks -> 0 .. Len(Fields)]
  BY DEF TypeOK
<1> USE <1>types DEF ClosedInv, Port, PortState, OPEN, CLOSED, Tasks, vault, http
<1>1. CASE Boot
  BY <1>1 DEF Boot, Restart
<1>2. CASE Wake
  BY <1>2 DEF Wake
<1>3. CASE CheckFlag
  BY <1>3 DEF CheckFlag
<1>4. CASE UpdateBegin
  BY <1>4 DEF UpdateBegin, Closed
<1>5. CASE UpdatePulse
  BY <1>5 DEF UpdatePulse, NextSlot
<1>6. CASE CatchUp
  BY <1>6 DEF CatchUp
<1>7. CASE UpdateReturn
  BY <1>7 DEF UpdateReturn
<1>8. CASE ClearFlag
  BY <1>8 DEF ClearFlag
<1>9. CASE Flow
  BY <1>9 DEF Flow
<1>10. CASE CheckWifi
  BY <1>10 DEF CheckWifi
<1>11. CASE CheckDue
  BY <1>11 DEF CheckDue, IsDue, Opened
<1>12. CASE OpenPulse
  BY <1>12 DEF OpenPulse
<1>13. CASE CheckQuantity
  BY <1>13 DEF CheckQuantity, QuantityMet, Closed
<1>14. CASE ClosePulse
  BY <1>14 DEF ClosePulse, NextSlot
<1>15. CASE Delay
  BY <1>15 DEF Delay
<1>16. CASE Sleep
  BY <1>16 DEF Sleep, DeepSleep
<1>17. ASSUME NEW w \in Tasks, CopyField(w) PROVE ClosedInv'
  <2>1. w = "main" /\ port.state = CLOSED /\ UNCHANGED <<nvs, port, pc, hpc>>
    BY <1>17 DEF CopyField, Saving
  <2>2. CASE copied["main"] = 0
    <3>1. config'["main"] = [config["main"] EXCEPT !["state"] = port["state"]]
      BY <1>17, <2>1, <2>2 DEF CopyField, Fields
    <3> QED BY <2>1, <3>1
  <2>3. CASE copied["main"] > 0
    <3>1. copied["main"] \in 1 .. 4
      BY <1>17, <2>1, <2>3 DEF CopyField, Fields
    <3>2. Fields[copied["main"] + 1] # "state"
      BY <3>1 DEF Fields
    <3>3. config'["main"].state = config["main"].state
      BY <1>17, <2>1, <3>2 DEF CopyField
    <3> QED BY <2>1, <2>3, <3>3
  <2> QED BY <2>2, <2>3
<1>18. ASSUME NEW w \in Tasks, WriteChunk(w) PROVE ClosedInv'
  <2>1. w = "main" /\ nvs' \in {nvs, config["main"]} /\ copied["main"] = 5
    BY <1>18 DEF WriteChunk, Saving, Fields
  <2>2. config' = [config EXCEPT !["main"] = InitPort]
        /\ copied' = [copied EXCEPT !["main"] = 0] /\ hpc' = hpc /\ pc' \in {"flow", "delay"}
    BY <1>18, <2>1 DEF WriteChunk
  <2> QED BY <2>1, <2>2
<1>19. CASE Post
  BY <1>19 DEF Post
<1>20. CASE SetInterval
  BY <1>20 DEF SetInterval, SetField
<1>21. CASE SetQuantity
  BY <1>21 DEF SetQuantity, SetField
<1>22. CASE SntpSet
  BY <1>22 DEF SntpSet
<1>23. CASE timeUpdateNotif
  BY <1>23 DEF timeUpdateNotif
<1>24. CASE Tick
  BY <1>24 DEF Tick
<1>25. CASE Reset
  BY <1>25 DEF Reset
<1>26. CASE UNCHANGED vars
  BY <1>26 DEF vars
<1> QED
  BY <1>1, <1>2, <1>3, <1>4, <1>5, <1>6, <1>7, <1>8, <1>9, <1>10, <1>11, <1>12,
     <1>13, <1>14, <1>15, <1>16, <1>17, <1>18, <1>19, <1>20, <1>21, <1>22, <1>23,
     <1>24, <1>25, <1>26
     DEF Next, app_main, Update, runPortCheck, httpd, Tasks

(* While nobody posts, flash never says that the port is open.             *)
THEOREM VaultHoldsClosedHolds ==
  ASSUME MaxPosts = 0
  PROVE  Spec => []VaultHoldsClosed
<1>1. ClosedInv => VaultHoldsClosed
  BY DEF ClosedInv, VaultHoldsClosed
<1> QED
  BY <1>1, ClosedInit, ClosedStep, TypeInvariant, PTL DEF Spec

-----------------------------------------------------------------------------
(* What the controller goes to sleep with.                                 *)

(* An open port's slot has begun.                                          *)
DueInv == Running /\ port.state = OPEN => port.switch <= now

(* No port is open before the first restart ...                            *)
LEMMA DueInit == Init => DueInv
BY DEF Init, DueInv, Running

(* ... and the clock only moves away from an open port's slot.             *)
LEMMA DueStep ==
  ASSUME ~ClockStepsBack
  PROVE  TypeOK /\ ClosedInv /\ hpc' = "idle" /\ DueInv /\ [Next]_vars => DueInv'
<1> SUFFICES ASSUME TypeOK, ClosedInv, hpc' = "idle", DueInv, [Next]_vars
             PROVE  DueInv'
  OBVIOUS
<1>types. /\ port \in Port /\ nvs \in Port /\ now \in Nat
          /\ nvs.state = CLOSED /\ hpc = "idle"
          /\ pc \in {"updatePulse", "catchUp", "closePulse"} => port.state = CLOSED
  BY BoundAssumption DEF BoundAssumption, TypeOK, ClosedInv
<1> USE <1>types DEF DueInv, Running, Port, PortState, OPEN, CLOSED, clock
<1>1. CASE Boot
  BY <1>1 DEF Boot, Restart, getVaultData
<1>2. CASE Wake
  BY <1>2 DEF Wake
<1>3. CASE CheckFlag
  BY <1>3 DEF CheckFlag
<1>4. CASE UpdateBegin
  BY <1>4 DEF UpdateBegin, Closed
<1>5. CASE UpdatePulse
  BY <1>5 DEF UpdatePulse, NextSlot
<1>6. CASE CatchUp
  BY <1>6 DEF CatchUp
<1>7. CASE UpdateReturn
  BY <1>7 DEF UpdateReturn
<1>8. CASE ClearFlag
  BY <1>8 DEF ClearFlag
<1>9. CASE Flow
  BY <1>9 DEF Flow
<1>10. CASE CheckWifi
  BY <1>10 DEF CheckWifi
<1>11. CASE CheckDue
  BY <1>11 DEF CheckDue, IsDue, Opened
<1>12. CASE OpenPulse
  BY <1>12 DEF OpenPulse
<1>13. CASE CheckQuantity
  BY <1>13 DEF CheckQuantity, QuantityMet, Closed
<1>14. CASE ClosePulse
  BY <1>14 DEF ClosePulse, NextSlot
<1>15. CASE Delay
  BY <1>15 DEF Delay
<1>16. CASE Sleep
  BY <1>16 DEF Sleep, DeepSleep
<1>17. ASSUME NEW w \in Tasks, CopyField(w) PROVE DueInv'
  BY <1>17 DEF CopyField, Saving
<1>18. ASSUME NEW w \in Tasks, WriteChunk(w) PROVE DueInv'
  BY <1>18 DEF WriteChunk, Saving
<1>19. CASE Post
  BY <1>19 DEF Post
<1>20. CASE SetInterval
  BY <1>20 DEF SetInterval, SetField
<1>21. CASE SetQuantity
  BY <1>21 DEF SetQuantity, SetField
<1>22. CASE SntpSet
  <2>1. now' >= now /\ UNCHANGED <<port, pc>>
    BY <1>22 DEF SntpSet
  <2>2. now' \in Nat
    BY <1>22, InputAssumption, BoundAssumption
       DEF InputAssumption, BoundAssumption, SntpSet
  <2>3. port.switch \in Nat
    BY PortClosure, Wraps
  <2> QED BY <2>1, <2>2, <2>3
<1>23. CASE timeUpdateNotif
  BY <1>23 DEF timeUpdateNotif
<1>24. CASE Tick
  <2>1. port.switch \in Nat
    BY PortClosure, Wraps
  <2> QED BY <1>24, <2>1 DEF Tick
<1>25. CASE Reset
  BY <1>25 DEF Reset
<1>26. CASE UNCHANGED vars
  BY <1>26 DEF vars
<1> QED
  BY <1>1, <1>2, <1>3, <1>4, <1>5, <1>6, <1>7, <1>8, <1>9, <1>10, <1>11, <1>12,
     <1>13, <1>14, <1>15, <1>16, <1>17, <1>18, <1>19, <1>20, <1>21, <1>22, <1>23,
     <1>24, <1>25, <1>26
     DEF Next, app_main, Update, runPortCheck, httpd, Tasks

(* Only a restart makes the record doubtful, and an opening settles it.     *)
DoubtInv == Running => known \/ restarted \/ pc = "openPulse"

LEMMA DoubtInit == Init => DoubtInv
BY DEF Init, DoubtInv, Running

LEMMA DoubtStep == DoubtInv /\ [Next]_vars => DoubtInv'
<1> SUFFICES ASSUME DoubtInv, [Next]_vars PROVE DoubtInv'
  OBVIOUS
<1> USE DEF DoubtInv, Running, solenoid, slots
<1>1. CASE Boot
  BY <1>1 DEF Boot, Restart
<1>2. CASE CheckDue
  BY <1>2 DEF CheckDue
<1>3. CASE OpenPulse \/ UpdatePulse \/ ClosePulse
  BY <1>3 DEF OpenPulse, UpdatePulse, ClosePulse
<1>4. CASE Reset
  BY <1>4 DEF Reset
<1>5. CASE ~(Boot \/ CheckDue \/ OpenPulse \/ UpdatePulse \/ ClosePulse \/ Reset)
  <2>1. UNCHANGED <<known, restarted>> /\ (pc = "openPulse" => pc' = "openPulse")
        /\ (Running' => Running)
    BY <1>5
       DEF Next, vars, Wake, app_main, CheckFlag, Update, UpdateBegin, CatchUp,
           UpdateReturn, ClearFlag, Flow, CheckWifi, runPortCheck, CheckQuantity,
           Delay, Sleep, DeepSleep, CopyField, WriteChunk, Saving, Post, httpd,
           SetInterval, SetQuantity, SetField, SntpSet, timeUpdateNotif, Tick
  <2> QED BY <2>1
<1> QED BY <1>1, <1>2, <1>3, <1>4, <1>5

(* Nobody posting and the clock never stepping back, a deep sleep with the
   valve open begins in the second of the open port's slot, or after a restart
   in mid-watering with a record that says CLOSED, and in no other case.   *)
THEOREM SleepsOpenInTwoCasesHolds ==
  ASSUME MaxPosts = 0, ~ClockStepsBack
  PROVE  Spec => SleepsOpenInTwoCases
<1>1. TypeOK /\ ClosedInv /\ ClosedInv' /\ DueInv /\ [Next]_vars => DueInv'
  BY DueStep DEF ClosedInv
<1>2. ASSUME TypeOK, ClosedInv, MirrorInv, DueInv, DoubtInv, Sleep, pc' = "asleep",
             valve = OPEN
      PROVE  IF port.state = OPEN THEN port.switch = now ELSE restarted
  <2>0. port \in Port /\ now \in Nat /\ MaxSleep \in Nat
    BY <1>2, BoundAssumption DEF BoundAssumption, TypeOK
  <2>1. port.switch \in Nat
    BY <2>0, PortClosure, Wraps
  <2>2. pc = "sleep" /\ (known => valve = port.state)
    BY <1>2 DEF Sleep, MirrorInv, StateMirrorsValve, Recorded, Running
  <2>3. port.switch >= now
    BY <1>2, <2>0, <2>1 DEF Sleep, DeepSleep, getNextPortTriggerTime
  <2>4. CASE port.state = OPEN
    BY <2>0, <2>1, <2>2, <2>3, <2>4, <1>2 DEF DueInv, Running
  <2>5. CASE port.state # OPEN
    BY <1>2, <2>2, <2>5 DEF DoubtInv, Running
  <2> QED BY <2>4, <2>5
<1>3. ASSUME TypeOK, [Next]_vars, pc' = "asleep"
      PROVE  Sleep \/ UNCHANGED vars
  BY <1>3 DEF Next, Boot, Wake, Restart, app_main, CheckFlag, Update, UpdateBegin,
     UpdatePulse, CatchUp, UpdateReturn, ClearFlag, Flow, CheckWifi, runPortCheck,
     CheckDue, OpenPulse, CheckQuantity, ClosePulse, Delay, CopyField, WriteChunk,
     Saving, Post, httpd, SetInterval, SetQuantity, SetField, SntpSet,
     timeUpdateNotif, Tick, Reset, Running
<1>4. TypeOK /\ ClosedInv /\ MirrorInv /\ DueInv /\ DoubtInv /\ [Next]_vars =>
        [pc' = "asleep" /\ valve = OPEN =>
           IF port.state = OPEN THEN port.switch = now ELSE restarted]_vars
  BY <1>2, <1>3
<1> QED
  BY <1>1, <1>4, ClosedInit, ClosedStep, MirrorInit, MirrorStep, DueInit, DoubtInit,
     DoubtStep, TypeInvariant, PTL DEF Spec, SleepsOpenInTwoCases

-----------------------------------------------------------------------------
(* The flow meter as the OFF condition.                                    *)

(* The bound, and the quantity every restart gives the port.               *)
OverrunInv == OverrunBounded /\ (Running => port.required = BootQuantity)

(* No port is open before the first restart ...                            *)
LEMMA OverrunInit == Init => OverrunInv
BY DEF Init, OverrunInv, OverrunBounded, Running

(* ... and the check follows each window that could meet the quantity.     *)
LEMMA OverrunStep ==
  ASSUME BootQuantity > 0
  PROVE  TypeOK /\ ClosedInv /\ hpc' = "idle" /\ OverrunInv /\ [Next]_vars => OverrunInv'
<1> SUFFICES ASSUME TypeOK, ClosedInv, hpc' = "idle", OverrunInv, [Next]_vars
             PROVE  OverrunInv'
  OBVIOUS
<1>types. /\ port \in Port /\ nvs \in Port /\ nvs.state = CLOSED /\ hpc = "idle"
          /\ pc \in {"updatePulse", "catchUp", "closePulse"} => port.state = CLOSED
  BY DEF TypeOK, ClosedInv
<1>words. port.current \in Nat /\ BootQuantity \in Nat /\ U16 \in Nat \ {0}
  BY <1>types, PortClosure, Wraps, WidthAssumption DEF WidthAssumption
<1>litres. \A litres \in Litres : litres \in Nat
  BY Wraps, InputAssumption DEF InputAssumption
<1> USE <1>types, <1>words, <1>litres DEF OverrunInv, OverrunBounded, Running, Port, PortState, OPEN, CLOSED
<1>1. CASE Boot
  BY <1>1 DEF Boot, Restart, getVaultData
<1>2. CASE Wake
  BY <1>2 DEF Wake
<1>3. CASE CheckFlag
  BY <1>3 DEF CheckFlag
<1>4. CASE UpdateBegin
  BY <1>4 DEF UpdateBegin, Closed
<1>5. CASE UpdatePulse
  BY <1>5 DEF UpdatePulse, NextSlot
<1>6. CASE CatchUp
  BY <1>6 DEF CatchUp
<1>7. CASE UpdateReturn
  BY <1>7 DEF UpdateReturn
<1>8. CASE ClearFlag
  BY <1>8 DEF ClearFlag
<1>9. CASE Flow
  <2>1. pc = "flow" /\ pc' = "wifi" /\ port'.required = port.required
    BY <1>9 DEF Flow
  <2>2. CASE port' = port
    BY <1>9, <2>1, <2>2
  <2>3. ASSUME NEW litres \in Litres,
               port' = [port EXCEPT !.current = (@ + litres) % U16]
        PROVE  OverrunInv'
    <3>1. port'.current = (port.current + litres) % U16 /\ port'.state = port.state
      BY <2>3
    <3>2. (port.current + litres) % U16 <= port.current + litres
      <4> DEFINE n == port.current + litres
      <4>1. n \in Nat
        OBVIOUS
      <4>2. n % U16 <= n
        <5> HIDE DEF n
        <5> QED BY <4>1
      <4> QED BY <4>2
    <3>3. port'.current \in Int
      BY <3>1
    <3>4. port.state = OPEN => port.current < port.required
      BY <2>1
    <3>5. port.state = OPEN => port'.current < port'.required + litres
      BY <3>1, <3>2, <3>3, <3>4, <2>1
    <3> QED BY <2>1, <3>1, <3>5
  <2> QED BY <1>9, <2>2, <2>3 DEF Flow
<1>10. CASE CheckWifi
  BY <1>10 DEF CheckWifi
<1>11. CASE CheckDue
  <2>1. CASE IsDue(port, now)
    <3>1. /\ port' = Opened(port) /\ pc' = "openPulse" /\ pc = "check"
      BY <1>11, <2>1 DEF CheckDue
    <3>2. port'.current = 0 /\ port'.required = BootQuantity
      BY <3>1 DEF Opened
    <3>3. 1 \in Litres \cup {1} /\ port'.current < port'.required + 1
      BY <3>2
    <3> QED BY <3>1, <3>2, <3>3
  <2>2. CASE ~IsDue(port, now)
    BY <1>11, <2>2 DEF CheckDue, IsDue
  <2> QED BY <2>1, <2>2
<1>12. CASE OpenPulse
  BY <1>12 DEF OpenPulse
<1>13. CASE CheckQuantity
  BY <1>13 DEF CheckQuantity, QuantityMet, Closed
<1>14. CASE ClosePulse
  BY <1>14 DEF ClosePulse, NextSlot
<1>15. CASE Delay
  BY <1>15 DEF Delay
<1>16. CASE Sleep
  BY <1>16 DEF Sleep, DeepSleep
<1>17. ASSUME NEW w \in Tasks, CopyField(w) PROVE OverrunInv'
  BY <1>17 DEF CopyField, Saving
<1>18. ASSUME NEW w \in Tasks, WriteChunk(w) PROVE OverrunInv'
  BY <1>18 DEF WriteChunk, Saving
<1>19. CASE Post
  BY <1>19 DEF Post
<1>20. CASE SetInterval
  BY <1>20 DEF SetInterval, SetField
<1>21. CASE SetQuantity
  BY <1>21 DEF SetQuantity, SetField
<1>22. CASE SntpSet
  BY <1>22 DEF SntpSet
<1>23. CASE timeUpdateNotif
  BY <1>23 DEF timeUpdateNotif
<1>24. CASE Tick
  BY <1>24 DEF Tick
<1>25. CASE Reset
  BY <1>25 DEF Reset
<1>26. CASE UNCHANGED vars
  BY <1>26 DEF vars
<1> QED
  BY <1>1, <1>2, <1>3, <1>4, <1>5, <1>6, <1>7, <1>8, <1>9, <1>10, <1>11, <1>12,
     <1>13, <1>14, <1>15, <1>16, <1>17, <1>18, <1>19, <1>20, <1>21, <1>22, <1>23,
     <1>24, <1>25, <1>26
     DEF Next, app_main, Update, runPortCheck, httpd, Tasks

(* While nobody posts, an open port never counts more than the required
   quantity and one flow window, whatever a window can bring.              *)
THEOREM OverrunBoundedHolds ==
  ASSUME MaxPosts = 0, BootQuantity > 0
  PROVE  Spec => []OverrunBounded
<1>1. TypeOK /\ ClosedInv /\ ClosedInv' /\ OverrunInv /\ [Next]_vars => OverrunInv'
  BY OverrunStep DEF ClosedInv
<1> QED
  BY <1>1, ClosedInit, ClosedStep, OverrunInit, TypeInvariant, PTL
     DEF Spec, OverrunInv

-----------------------------------------------------------------------------
(* One opening per slot.                                                   *)

(* Intervals that keep every switch time the clock can reach from wrapping. *)
Intervals == 1 .. U32 - 1 - MaxNow

IntervalInv ==
  /\ port.interval \in Intervals /\ nvs.interval \in Intervals
  /\ post.interval \in Intervals
  /\ \A w \in Tasks : config[w].interval \in Intervals

(* The provisioned interval ...                                            *)
LEMMA IntervalInit == ASSUME InitPort.interval \in Intervals
                      PROVE  Init => IntervalInv
BY DEF Init, IntervalInv, Configured

(* ... and the posted ones are all that any copy ever holds.               *)
LEMMA IntervalStep ==
  ASSUME InitPort.interval \in Intervals, PostIntervals \subseteq Intervals
  PROVE  TypeOK /\ IntervalInv /\ [Next]_vars => IntervalInv'
<1> SUFFICES ASSUME TypeOK, IntervalInv, [Next]_vars PROVE IntervalInv'
  OBVIOUS
<1>types. /\ port \in Port /\ nvs \in Port /\ config \in [Tasks -> Port]
          /\ copied \in [Tasks -> 0 .. Len(Fields)]
          /\ post \in [interval : Word32, required : Word16]
  BY DEF TypeOK
<1> USE <1>types DEF IntervalInv, Port, vault, http
<1>1. CASE Boot
  BY <1>1 DEF Boot, Restart, getVaultData, Configured
<1>2. CASE Wake
  BY <1>2 DEF Wake
<1>3. CASE CheckFlag
  BY <1>3 DEF CheckFlag
<1>4. CASE UpdateBegin
  BY <1>4 DEF UpdateBegin, Closed
<1>5. CASE UpdatePulse
  BY <1>5 DEF UpdatePulse, NextSlot
<1>6. CASE CatchUp
  BY <1>6 DEF CatchUp
<1>7. CASE UpdateReturn
  BY <1>7 DEF UpdateReturn
<1>8. CASE ClearFlag
  BY <1>8 DEF ClearFlag
<1>9. CASE Flow
  BY <1>9 DEF Flow
<1>10. CASE CheckWifi
  BY <1>10 DEF CheckWifi
<1>11. CASE CheckDue
  BY <1>11 DEF CheckDue, IsDue, Opened
<1>12. CASE OpenPulse
  BY <1>12 DEF OpenPulse
<1>13. CASE CheckQuantity
  BY <1>13 DEF CheckQuantity, QuantityMet, Closed
<1>14. CASE ClosePulse
  BY <1>14 DEF ClosePulse, NextSlot
<1>15. CASE Delay
  BY <1>15 DEF Delay
<1>16. CASE Sleep
  BY <1>16 DEF Sleep, DeepSleep
<1>17. ASSUME NEW w \in Tasks, CopyField(w) PROVE IntervalInv'
  BY <1>17 DEF CopyField, Saving
<1>18. ASSUME NEW w \in Tasks, WriteChunk(w) PROVE IntervalInv'
  BY <1>18 DEF WriteChunk, Saving
<1>19. CASE Post
  BY <1>19 DEF Post, Posted
<1>20. CASE SetInterval
  BY <1>20 DEF SetInterval, SetField
<1>21. CASE SetQuantity
  BY <1>21 DEF SetQuantity, SetField
<1>22. CASE SntpSet
  BY <1>22 DEF SntpSet
<1>23. CASE timeUpdateNotif
  BY <1>23 DEF timeUpdateNotif
<1>24. CASE Tick
  BY <1>24 DEF Tick
<1>25. CASE Reset
  BY <1>25 DEF Reset
<1>26. CASE UNCHANGED vars
  BY <1>26 DEF vars
<1> QED
  BY <1>1, <1>2, <1>3, <1>4, <1>5, <1>6, <1>7, <1>8, <1>9, <1>10, <1>11, <1>12,
     <1>13, <1>14, <1>15, <1>16, <1>17, <1>18, <1>19, <1>20, <1>21, <1>22, <1>23,
     <1>24, <1>25, <1>26
     DEF Next, app_main, Update, runPortCheck, httpd, Tasks

(* What is known of the latest opening, if no restart followed it.         *)
SlotInv ==
  /\ pc \in {"updatePulse", "catchUp", "closePulse"} => port.state = CLOSED
  /\ Running /\ ~restarted =>
       /\ lastSlot <= MaxNow
       /\ IF port.state = OPEN \/ pc \in {"updatePulse", "closePulse"}
          THEN lastSlot = port.switch
          ELSE lastSlot < port.switch
       /\ pc = "catchUp" => lastSlot < portSwitchTime

(* There is no opening yet ...                                             *)
LEMMA SlotInit == Init => SlotInv
BY DEF Init, SlotInv, Running

(* ... and after one the switch time only grows.                           *)
LEMMA SlotStep == TypeOK /\ IntervalInv /\ SlotInv /\ [Next]_vars => SlotInv'
<1> SUFFICES ASSUME TypeOK, IntervalInv, SlotInv, [Next]_vars PROVE SlotInv'
  OBVIOUS
<1>types. /\ port \in Port /\ nvs \in Port /\ port.switch \in Nat
          /\ portSwitchTime \in Nat /\ timeNow \in 0 .. MaxNow /\ now \in 0 .. MaxNow
          /\ port.interval \in Intervals
  BY PortClosure, Wraps DEF TypeOK, IntervalInv
<1>words. lastSlot \in Int /\ U32 \in Nat \ {0} /\ MaxNow \in Nat
  BY WidthAssumption, BoundAssumption, Wraps
     DEF WidthAssumption, BoundAssumption, TypeOK, NoSlot
<1> USE <1>types, <1>words DEF SlotInv, Running, Port, PortState, OPEN, CLOSED, slots, locals
<1>1. CASE Boot
  BY <1>1 DEF Boot, Restart, getVaultData
<1>2. CASE Wake
  BY <1>2 DEF Wake
<1>3. CASE CheckFlag
  BY <1>3 DEF CheckFlag
<1>4. CASE UpdateBegin
  BY <1>4 DEF UpdateBegin, Closed
<1>5. CASE UpdatePulse
  <2>1. ~restarted => port.switch + port.interval < U32
    BY <1>5 DEF UpdatePulse, Intervals
  <2>2. ~restarted => NextSlot(port).switch = port.switch + port.interval
    BY <2>1 DEF NextSlot, Intervals
  <2>3. NextSlot(port).state = port.state
    BY DEF NextSlot
  <2> QED BY <1>5, <2>2, <2>3 DEF UpdatePulse, Intervals
<1>6. CASE CatchUp
  <2>1. portSwitchTime + port.interval < U32
    BY <1>6 DEF CatchUp, Intervals
  <2>2. portSwitchTime' = portSwitchTime + port.interval
    BY <1>6, <2>1 DEF CatchUp, Intervals
  <2> QED BY <1>6, <2>2 DEF CatchUp, Intervals
<1>7. CASE UpdateReturn
  BY <1>7 DEF UpdateReturn
<1>8. CASE ClearFlag
  BY <1>8 DEF ClearFlag
<1>9. CASE Flow
  BY <1>9 DEF Flow
<1>10. CASE CheckWifi
  BY <1>10 DEF CheckWifi
<1>11. CASE CheckDue
  <2>1. CASE IsDue(port, now)
    <3>1. /\ port' = Opened(port) /\ lastSlot' = port.switch /\ pc' = "openPulse"
          /\ port.switch <= now
      BY <1>11, <2>1 DEF CheckDue, IsDue
    <3>2. port'.switch = port.switch /\ port'.state = OPEN
      BY <3>1 DEF Opened
    <3> QED BY <3>1, <3>2
  <2>2. CASE ~IsDue(port, now)
    BY <1>11, <2>2 DEF CheckDue
  <2> QED BY <2>1, <2>2
<1>12. CASE OpenPulse
  BY <1>12 DEF OpenPulse
<1>13. CASE CheckQuantity
  BY <1>13 DEF CheckQuantity, QuantityMet, Closed
<1>14. CASE ClosePulse
  <2>1. ~restarted => port.switch + port.interval < U32
    BY <1>14 DEF ClosePulse, Intervals
  <2>2. ~restarted => NextSlot(port).switch = port.switch + port.interval
    BY <2>1 DEF NextSlot, Intervals
  <2>3. NextSlot(port).state = port.state
    BY DEF NextSlot
  <2> QED BY <1>14, <2>2, <2>3 DEF ClosePulse, Intervals
<1>15. CASE Delay
  BY <1>15 DEF Delay
<1>16. CASE Sleep
  BY <1>16 DEF Sleep, DeepSleep
<1>17. ASSUME NEW w \in Tasks, CopyField(w) PROVE SlotInv'
  BY <1>17 DEF CopyField, Saving
<1>18. ASSUME NEW w \in Tasks, WriteChunk(w) PROVE SlotInv'
  BY <1>18 DEF WriteChunk, Saving
<1>19. CASE Post
  BY <1>19 DEF Post
<1>20. CASE SetInterval
  BY <1>20 DEF SetInterval, SetField
<1>21. CASE SetQuantity
  BY <1>21 DEF SetQuantity, SetField
<1>22. CASE SntpSet
  BY <1>22 DEF SntpSet
<1>23. CASE timeUpdateNotif
  BY <1>23 DEF timeUpdateNotif
<1>24. CASE Tick
  BY <1>24 DEF Tick
<1>25. CASE Reset
  BY <1>25 DEF Reset
<1>26. CASE UNCHANGED vars
  BY <1>26 DEF vars
<1> QED
  BY <1>1, <1>2, <1>3, <1>4, <1>5, <1>6, <1>7, <1>8, <1>9, <1>10, <1>11, <1>12,
     <1>13, <1>14, <1>15, <1>16, <1>17, <1>18, <1>19, <1>20, <1>21, <1>22, <1>23,
     <1>24, <1>25, <1>26
     DEF Next, app_main, Update, runPortCheck, httpd, Tasks

(* As long as intervals are positive and keep switch times from wrapping, the
   same slot is never opened twice without a restart in between, whatever is
   posted, synchronised or closed by the sleep branch.                     *)
THEOREM SlotServedOnceHolds ==
  ASSUME InitPort.interval \in Intervals, PostIntervals \subseteq Intervals
  PROVE  Spec => SlotServedOnce
<1>1. TypeOK /\ SlotInv =>
        [port.state = CLOSED /\ port'.state = OPEN /\ pc = "check" =>
           restarted \/ lastSlot < port.switch]_vars
  BY DEF SlotInv, Running, TypeOK, OPEN, CLOSED
<1> QED
  BY <1>1, IntervalInit, IntervalStep, SlotInit, SlotStep, TypeInvariant, PTL
     DEF Spec, SlotServedOnce

-----------------------------------------------------------------------------
(* What httpd has answered for.                                            *)

(* Where the posted interval is while the two tasks keep out of each other's
   saves: in the port from SetInterval on, in httpd's copy once the field was
   copied, and in flash and in what app_main copied when httpd is idle.    *)
PostedInv ==
  Running =>
    /\ pc # "save" => copied["main"] = 0
    /\ hpc # "save" => copied["httpd"] = 0
    /\ ~overlap =>
         /\ hpc # "interval" => port.interval = post.interval
         /\ hpc = "idle" =>
              /\ nvs.interval = post.interval
              /\ copied["main"] >= 3 => config["main"].interval = post.interval
         /\ copied["httpd"] > 0 => copied["main"] = 0
         /\ copied["httpd"] >= 3 => config["httpd"].interval = post.interval

(* What a copied field does to a copy's interval.                          *)
LEMMA CopiedInterval ==
  ASSUME TypeOK, NEW w \in Tasks, CopyField(w)
  PROVE  /\ copied' = [copied EXCEPT ![w] = copied[w] + 1]
         /\ copied[w] \in 0 .. 4
         /\ copied[w] = 2 => config'[w].interval = port.interval
         /\ copied[w] # 2 => config'[w].interval = config[w].interval
         /\ \A v \in Tasks \ {w} : config'[v] = config[v]
<1>1. /\ copied' = [copied EXCEPT ![w] = copied[w] + 1] /\ copied[w] \in 0 .. 4
      /\ config \in [Tasks -> Port] /\ port \in Port
      /\ config' = [config EXCEPT ![w][Fields[copied[w] + 1]] = port[Fields[copied[w] + 1]]]
  BY DEF TypeOK, CopyField, Fields
<1>2. CASE copied[w] = 2
  <2>1. Fields[copied[w] + 1] = "interval"
    BY <1>2 DEF Fields
  <2> QED BY <1>1, <1>2, <2>1 DEF Port
<1>3. CASE copied[w] # 2
  <2>1. Fields[copied[w] + 1] # "interval"
    BY <1>1, <1>3 DEF Fields
  <2> QED BY <1>1, <1>3, <2>1 DEF Port
<1> QED BY <1>1, <1>2, <1>3

(* Nothing runs before the first start ...                                 *)
LEMMA PostedInit == Init => PostedInv
BY DEF Init, PostedInv, Running

(* ... and each step keeps the interval where it is, if writes do not fail. *)
LEMMA PostedStep ==
  ASSUME FlashErrors = FALSE
  PROVE  TypeOK /\ PostedInv /\ [Next]_vars => PostedInv'
<1> SUFFICES ASSUME TypeOK, PostedInv, [Next]_vars PROVE PostedInv'
  OBVIOUS
<1>types. /\ port \in Port /\ nvs \in Port /\ overlap \in BOOLEAN
          /\ config \in [Tasks -> Port] /\ copied \in [Tasks -> 0 .. Len(Fields)]
          /\ copied \in [Tasks -> Nat]
          /\ post \in [interval : Word32, required : Word16]
          /\ hpc \in {"idle", "interval", "quantity", "save"}
  BY DEF TypeOK, Fields
<1> USE <1>types DEF PostedInv, Running, Tasks, Port
<1>1. CASE Boot
  <2>1. /\ port' = getVaultData(nvs) /\ hpc' = "idle" /\ nvs' = nvs
        /\ post' = Configured(nvs) /\ copied' = [w \in Tasks |-> 0]
    BY <1>1 DEF Boot, Restart
  <2> QED BY <2>1 DEF getVaultData, Configured
<1>2. CASE Wake \/ Reset
  BY <1>2 DEF Wake, Reset
<1>3. CASE CheckFlag \/ Update \/ ClearFlag \/ Flow \/ CheckWifi \/ runPortCheck
           \/ Delay \/ Sleep \/ SntpSet \/ timeUpdateNotif \/ Tick
  <2>1. UNCHANGED <<vault, http>> /\ Running /\ (pc = "save" => pc' = "save")
    BY <1>3 DEF CheckFlag, Update, UpdateBegin, UpdatePulse, CatchUp, UpdateReturn,
       ClearFlag, Flow, CheckWifi, runPortCheck, CheckDue, OpenPulse, CheckQuantity,
       ClosePulse, Delay, Sleep, SntpSet, timeUpdateNotif, Tick
  <2>2. port'.interval = port.interval
    BY <1>3 DEF CheckFlag, Update, UpdateBegin, UpdatePulse, CatchUp, UpdateReturn,
       ClearFlag, Flow, CheckWifi, runPortCheck, CheckDue, OpenPulse, CheckQuantity,
       ClosePulse, Delay, Sleep, SntpSet, timeUpdateNotif, Tick, Opened, Closed,
       NextSlot
  <2> QED BY <2>1, <2>2 DEF vault, http
<1>4. CASE CopyField("main")
  <2>1. /\ pc = "save" /\ overlap' = (overlap \/ hpc # "idle")
        /\ UNCHANGED <<nvs, port, pc, hpc, post>>
    BY <1>4 DEF CopyField, Saving
  <2>2. copied'["httpd"] = copied["httpd"] /\ config'["httpd"] = config["httpd"]
    BY <1>4, CopiedInterval
  <2>3. /\ copied'["main"] = copied["main"] + 1
        /\ copied["main"] = 2 => config'["main"].interval = port.interval
        /\ copied["main"] # 2 => config'["main"].interval = config["main"].interval
    BY <1>4, CopiedInterval
  <2>4. CASE overlap'
    BY <2>1, <2>2, <2>4
  <2>5. CASE ~overlap'
    <3>1. Running /\ ~overlap /\ hpc = "idle" /\ port.interval = post.interval
      BY <2>1, <2>5
    <3>2. copied'["main"] >= 3 => config'["main"].interval = post.interval
      BY <2>1, <2>3, <3>1
    <3> QED BY <2>1, <2>2, <2>3, <3>1, <3>2
  <2> QED BY <2>4, <2>5
<1>5. CASE CopyField("httpd")
  <2>1. /\ hpc = "save" /\ Running /\ overlap' = (overlap \/ pc = "save")
        /\ UNCHANGED <<nvs, port, pc, hpc, post>>
    BY <1>5 DEF CopyField, Saving
  <2>2. copied'["main"] = copied["main"] /\ config'["main"] = config["main"]
    BY <1>5, CopiedInterval
  <2>3. /\ copied'["httpd"] = copied["httpd"] + 1
        /\ copied["httpd"] = 2 => config'["httpd"].interval = port.interval
        /\ copied["httpd"] # 2 => config'["httpd"].interval = config["httpd"].interval
    BY <1>5, CopiedInterval
  <2>4. CASE overlap'
    BY <2>1, <2>2, <2>4
  <2>5. CASE ~overlap'
    <3>1. Running /\ ~overlap /\ pc # "save" /\ port.interval = post.interval
      BY <2>1, <2>5
    <3>2. copied'["httpd"] >= 3 => config'["httpd"].interval = post.interval
      BY <2>1, <2>3, <3>1
    <3> QED BY <2>1, <2>2, <2>3, <3>1, <3>2
  <2> QED BY <2>4, <2>5
<1>6. CASE WriteChunk("main")
  <2>1. /\ pc = "save" /\ copied["main"] = 5 /\ nvs' = config["main"]
        /\ config' = [config EXCEPT !["main"] = InitPort]
        /\ copied' = [copied EXCEPT !["main"] = 0]
        /\ UNCHANGED <<port, hpc, post, overlap>>
    BY <1>6 DEF WriteChunk, Saving, Fields
  <2> QED BY <2>1
<1>7. CASE WriteChunk("httpd")
  <2>1. /\ hpc = "save" /\ Running /\ copied["httpd"] = 5 /\ nvs' = config["httpd"]
        /\ config' = [config EXCEPT !["httpd"] = InitPort]
        /\ copied' = [copied EXCEPT !["httpd"] = 0]
        /\ hpc' = "idle" /\ UNCHANGED <<pc, port, post, overlap>>
    BY <1>7 DEF WriteChunk, Saving, Fields
  <2> QED BY <2>1
<1>8. CASE Post
  <2>1. /\ Running /\ hpc = "idle" /\ hpc' = "interval"
        /\ UNCHANGED <<port, pc, vault>>
    BY <1>8 DEF Post
  <2> QED BY <2>1 DEF vault
<1>9. CASE SetInterval
  <2>1. /\ Running /\ hpc = "interval" /\ hpc' = "quantity"
        /\ port' = [port EXCEPT !["interval"] = post["interval"]]
        /\ UNCHANGED <<pc, vault, post, overlap>>
    BY <1>9 DEF SetInterval, SetField
  <2> QED BY <2>1 DEF vault
<1>10. CASE SetQuantity
  <2>1. /\ Running /\ hpc = "quantity" /\ hpc' = "save"
        /\ port' = [port EXCEPT !["required"] = post["required"]]
        /\ UNCHANGED <<pc, vault, post, overlap>>
    BY <1>10 DEF SetQuantity, SetField
  <2> QED BY <2>1 DEF vault
<1>11. CASE UNCHANGED vars
  BY <1>11 DEF vars, vault, http
<1> QED
  BY <1>1, <1>2, <1>3, <1>4, <1>5, <1>6, <1>7, <1>8, <1>9, <1>10, <1>11
     DEF Next, app_main, httpd

(* If writes do not fail, a posted interval that httpd has answered for is in
   flash, unless the two tasks were saving at the same time since.         *)
THEOREM SettingsLostOnlyByOverlapHolds ==
  ASSUME FlashErrors = FALSE
  PROVE  Spec => []SettingsLostOnlyByOverlap
<1>1. PostedInv => SettingsLostOnlyByOverlap
  BY DEF PostedInv, SettingsLostOnlyByOverlap
<1> QED
  BY <1>1, PostedInit, PostedStep, TypeInvariant, PTL DEF Spec

-----------------------------------------------------------------------------
(* Irrigator implements Irrigation.                                        *)

(* Nobody posts, no answer sets the clock back, and the interval is positive
   and keeps switch times from wrapping.                                   *)
Undisturbed ==
  MaxPosts = 0 /\ ~ClockStepsBack /\ InitPort.interval \in Intervals

(* One more interval.                                                      *)
LEMMA Multiples ==
  \A k \in Nat, i \in Nat \ {0} :
    /\ (k + 1) * i = k * i + i
    /\ k * i \in Nat /\ k <= k * i
<1> SUFFICES ASSUME NEW k \in Nat, NEW i \in Nat \ {0}
             PROVE  /\ (k + 1) * i = k * i + i
                    /\ k * i \in Nat /\ k <= k * i
  OBVIOUS
<1>1. (k + 1) * i = k * i + i
  OBVIOUS
<1>2. k * i = k * (i - 1) + k /\ k * (i - 1) \in Nat
  OBVIOUS
<1> QED BY <1>1, <1>2

(* The copies of the interval agree, a slot that is being served has begun,
   what a save has copied is the slot, and the catch-up loop is at most an
   interval ahead of the time it looked at.                                *)
Ahead ==
  \E k \in 0 .. timeNow :
    /\ portSwitchTime = port.switch + k * InitPort.interval
    /\ k # 0 => /\ port.switch < timeNow
                /\ portSwitchTime < timeNow + InitPort.interval

ScheduleInv ==
  /\ port.interval = InitPort.interval /\ nvs.interval = InitPort.interval
  /\ config["main"].interval = InitPort.interval
  /\ Running /\ pc \in {"updatePulse", "closePulse"} => port.switch <= now
  /\ Running /\ copied["main"] > 0 => pc = "save"
  /\ Running /\ copied["main"] > 1 => config["main"].switch = port.switch
  /\ pc \in {"updatePulse", "catchUp"} => timeNow <= now
  /\ pc = "catchUp" => Ahead

(* So it is before the first start ...                                     *)
LEMMA ScheduleInit == Init => ScheduleInv
BY DEF Init, ScheduleInv, Tasks, Running

(* What UpdatePulse and ClosePulse make of the switch time does not wrap.  *)
LEMMA NextSlotAdds ==
  ASSUME NEW p \in Port, p.interval \in Intervals, p.switch <= MaxNow
  PROVE  /\ NextSlot(p).switch = p.switch + p.interval
         /\ NextSlot(p).state = p.state /\ NextSlot(p).interval = p.interval
<1>1. p.switch \in Nat /\ p.interval \in Nat /\ U32 \in Nat \ {0} /\ MaxNow \in Nat
  BY PortClosure, Wraps, WidthAssumption, BoundAssumption
     DEF WidthAssumption, BoundAssumption
<1>2. p.switch + p.interval < U32
  BY <1>1 DEF Intervals
<1>3. (p.switch + p.interval) % U32 = p.switch + p.interval
  <2> DEFINE n == p.switch + p.interval
  <2>1. n \in Nat /\ n < U32
    BY <1>1, <1>2
  <2>2. n % U32 = n
    <3> HIDE DEF n
    <3> QED BY <1>1, <2>1
  <2> QED BY <2>2
<1> QED BY <1>3 DEF NextSlot, Port

(* ... and so it stays.                                                    *)
LEMMA ScheduleStep ==
  ASSUME Undisturbed
  PROVE  TypeOK /\ ClosedInv /\ ScheduleInv /\ DueInv /\ [Next]_vars => ScheduleInv'
<1> SUFFICES ASSUME TypeOK, ClosedInv, ScheduleInv, DueInv, [Next]_vars
             PROVE  ScheduleInv'
  OBVIOUS
<1>types. /\ port \in Port /\ nvs \in Port /\ port.switch \in Nat
          /\ config \in [Tasks -> Port] /\ copied \in [Tasks -> 0 .. Len(Fields)]
          /\ timeNow \in 0 .. MaxNow /\ now \in 0 .. MaxNow /\ portSwitchTime \in Nat
          /\ hpc = "idle"
  BY PortClosure, Wraps DEF TypeOK, ClosedInv
<1>posts. posts = 0
  BY DEF TypeOK, Undisturbed
<1>words. /\ InitPort \in Port /\ InitPort.interval \in Intervals
          /\ InitPort.interval \in Nat \ {0}
          /\ U32 \in Nat \ {0} /\ MaxNow \in Nat /\ ~ClockStepsBack
  BY WidthAssumption, BoundAssumption, InputAssumption
     DEF WidthAssumption, BoundAssumption, InputAssumption, Undisturbed, Intervals
<1> USE <1>types, <1>posts, <1>words DEF ScheduleInv, Running, Tasks, vault, http, locals
<1>1. CASE Boot
  BY <1>1 DEF Boot, Restart, getVaultData, Port
<1>2. CASE Wake
  BY <1>2 DEF Wake
<1>3. CASE CheckFlag
  BY <1>3 DEF CheckFlag
<1>4. CASE UpdateBegin
  <2>1. timeNow' = now /\ now' = now
    BY <1>4 DEF UpdateBegin, clock
  <2>2. CASE pc' = "updatePulse"
    BY <1>4, <2>1, <2>2 DEF UpdateBegin, Closed, Port, DueInv, OPEN, clock
  <2>3. CASE pc' = "catchUp"
    <3>1. UNCHANGED port /\ portSwitchTime' = port.switch
      BY <1>4, <2>3 DEF UpdateBegin
    <3>2. Ahead'
      BY <3>1, <2>1 DEF Ahead
    <3> QED BY <1>4, <2>1, <2>3, <3>1, <3>2 DEF UpdateBegin, clock
  <2> QED BY <1>4, <2>2, <2>3 DEF UpdateBegin
<1>5. CASE UpdatePulse
  <2>1. port.switch <= MaxNow /\ timeNow <= now
    BY <1>5 DEF UpdatePulse
  <2>2. /\ port' = NextSlot(port) /\ port'.interval = port.interval
        /\ portSwitchTime' = port'.switch /\ port'.switch \in Nat
    BY <1>5, <2>1, NextSlotAdds DEF UpdatePulse
  <2>3. Ahead'
    BY <1>5, <2>2 DEF UpdatePulse, Ahead
  <2> QED BY <1>5, <2>1, <2>2, <2>3 DEF UpdatePulse, clock
<1>6. CASE CatchUp
  <2>1. PICK k \in 0 .. timeNow :
          /\ portSwitchTime = port.switch + k * InitPort.interval
          /\ k # 0 => /\ port.switch < timeNow
                      /\ portSwitchTime < timeNow + InitPort.interval
    BY <1>6 DEF CatchUp, Ahead
  <2> DEFINE i == InitPort.interval
             m == k * i
             n == (k + 1) * i
  <2>2. n = m + i /\ m \in Nat /\ k <= m
    BY Multiples
  <2>3. portSwitchTime = port.switch + m /\ portSwitchTime < timeNow
    BY <1>6, <2>1 DEF CatchUp
  <2>4. portSwitchTime' = portSwitchTime + i
    <3>1. portSwitchTime + i < U32 /\ portSwitchTime + i \in Nat
      BY <2>3 DEF Intervals
    <3>2. portSwitchTime' = (portSwitchTime + i) % U32
      BY <1>6 DEF CatchUp
    <3> DEFINE a == portSwitchTime + i
    <3>3. a % U32 = a
      <4>1. a \in Nat /\ a < U32
        BY <3>1
      <4> HIDE DEF a
      <4> QED BY <4>1
    <3> QED BY <3>2, <3>3
  <2>5. k + 1 \in 0 .. timeNow /\ portSwitchTime + i = port.switch + n
    <3> HIDE DEF m, n
    <3> QED BY <2>2, <2>3
  <2>6. port.switch < timeNow
    <3> HIDE DEF m, n
    <3> QED BY <2>2, <2>3
  <2>7. /\ portSwitchTime' = port'.switch + n
        /\ port'.switch < timeNow' /\ portSwitchTime' < timeNow' + i
        /\ k + 1 \in 0 .. timeNow'
    <3>1. UNCHANGED <<port, timeNow>>
      BY <1>6 DEF CatchUp
    <3> HIDE DEF m, n
    <3> QED BY <2>3, <2>4, <2>5, <2>6, <3>1
  <2>8. Ahead'
    BY <2>7 DEF Ahead
  <2> HIDE DEF m, n, i
  <2> QED BY <1>6, <2>8 DEF CatchUp, clock
<1>7. CASE UpdateReturn
  BY <1>7 DEF UpdateReturn, Port
<1>8. CASE ClearFlag
  BY <1>8 DEF ClearFlag
<1>9. CASE Flow
  BY <1>9 DEF Flow, Port
<1>10. CASE CheckWifi
  BY <1>10 DEF CheckWifi
<1>11. CASE CheckDue
  BY <1>11 DEF CheckDue, IsDue, Opened, Port
<1>12. CASE OpenPulse
  BY <1>12 DEF OpenPulse
<1>13. CASE CheckQuantity
  BY <1>13 DEF CheckQuantity, QuantityMet, Closed, Port, DueInv, OPEN, clock
<1>14. CASE ClosePulse
  <2>1. port.switch <= MaxNow
    BY <1>14 DEF ClosePulse
  <2>2. port' = NextSlot(port) /\ port'.interval = port.interval
    BY <1>14, <2>1, NextSlotAdds DEF ClosePulse
  <2>3. ~(copied["main"] > 0)
    BY <1>14 DEF ClosePulse
  <2> QED BY <1>14, <2>2, <2>3 DEF ClosePulse
<1>15. CASE Delay
  BY <1>15 DEF Delay
<1>16. CASE Sleep
  BY <1>16 DEF Sleep, DeepSleep
<1>17. ASSUME NEW w \in Tasks, CopyField(w) PROVE ScheduleInv'
  <2> DEFINE f == Fields[copied["main"] + 1]
  <2>1. w = "main" /\ pc = "save" /\ UNCHANGED <<nvs, port, pc, now>>
    BY <1>17 DEF CopyField, Saving, clock
  <2>2. copied["main"] \in 0 .. 4 /\ copied'["main"] = copied["main"] + 1
    BY <1>17, <2>1 DEF CopyField, Fields
  <2>3. config'["main"] = [config["main"] EXCEPT ![f] = port[f]]
    BY <1>17, <2>1 DEF CopyField
  <2>4. f \in {"state", "switch", "interval", "required", "current"}
    BY <2>2 DEF Fields
  <2>5. config'["main"].interval = InitPort.interval
    <3> HIDE DEF f
    <3> QED BY <2>3, <2>4 DEF Port
  <2>6. copied'["main"] > 1 => config'["main"].switch = port.switch
    <3>1. CASE copied["main"] = 0
      BY <2>2, <3>1
    <3>2. CASE copied["main"] = 1
      BY <2>3, <3>2 DEF Fields, Port
    <3>3. CASE copied["main"] > 1
      <4>1. f # "switch"
        BY <2>2, <3>3 DEF Fields
      <4> HIDE DEF f
      <4> QED BY <2>1, <2>3, <3>3, <4>1 DEF Port
    <3> QED BY <2>2, <3>1, <3>2, <3>3
  <2> HIDE DEF f
  <2> QED BY <2>1, <2>2, <2>5, <2>6
<1>18. ASSUME NEW w \in Tasks, WriteChunk(w) PROVE ScheduleInv'
  <2>1. w = "main" /\ nvs' \in {nvs, config["main"]}
    BY <1>18 DEF WriteChunk, Saving
  <2>2. /\ config' = [config EXCEPT !["main"] = InitPort]
        /\ copied' = [copied EXCEPT !["main"] = 0] /\ pc' \in {"flow", "delay"}
        /\ UNCHANGED port
    BY <1>18, <2>1 DEF WriteChunk
  <2> QED BY <2>1, <2>2
<1>19. CASE Post
  BY <1>19 DEF Post, Undisturbed
<1>20. CASE SetInterval
  BY <1>20 DEF SetInterval, SetField
<1>21. CASE SetQuantity
  BY <1>21 DEF SetQuantity, SetField
<1>22. CASE SntpSet
  <2>1. now' >= now /\ now' \in Nat
    BY <1>22, InputAssumption DEF InputAssumption, SntpSet
  <2>2. pc = "catchUp" => Ahead'
    BY <1>22 DEF SntpSet, Ahead
  <2>3. UNCHANGED <<nvs, port, pc, config, copied, timeNow>>
    BY <1>22 DEF SntpSet
  <2>4. port.switch <= now => port'.switch <= now'
    BY <2>1, <2>3
  <2>5. timeNow <= now => timeNow' <= now'
    BY <2>1, <2>3
  <2> QED BY <2>2, <2>3, <2>4, <2>5
<1>23. CASE timeUpdateNotif
  BY <1>23 DEF timeUpdateNotif, Ahead
<1>24. CASE Tick
  <2>1. pc = "catchUp" => Ahead'
    BY <1>24 DEF Tick, Ahead
  <2> QED BY <1>24, <2>1 DEF Tick
<1>25. CASE Reset
  BY <1>25 DEF Reset
<1>26. CASE UNCHANGED vars
  BY <1>26 DEF vars, clock, Ahead
<1> QED
  BY <1>1, <1>2, <1>3, <1>4, <1>5, <1>6, <1>7, <1>8, <1>9, <1>10, <1>11, <1>12,
     <1>13, <1>14, <1>15, <1>16, <1>17, <1>18, <1>19, <1>20, <1>21, <1>22, <1>23,
     <1>24, <1>25, <1>26
     DEF Next, app_main, Update, runPortCheck, httpd, Tasks

-----------------------------------------------------------------------------
(* The refinement.                                                         *)

(* The device is off and its valve closed ...                              *)
LEMMA PromiseInit == Init => Promise!Init
BY DEF Init, Promise!Init, Mode, Watering, Running, OPEN, CLOSED

(* ... and each step of a task is one step of the promise or none: a slot is
   being served from the pulse that opens the valve to the one that closes it. *)
LEMMA PromiseStep ==
  ASSUME Undisturbed
  PROVE  /\ TypeOK /\ ClosedInv /\ ScheduleInv /\ DueInv /\ PulsesFollowState
         /\ [Next]_vars
         => [Promise!Next]_(Promise!vars)
<1> SUFFICES ASSUME TypeOK, ClosedInv, ScheduleInv, DueInv, PulsesFollowState,
                    [Next]_vars
             PROVE  [Promise!Next]_(Promise!vars)
  OBVIOUS
<1> DEFINE Stutter == UNCHANGED <<Mode, now, Watering, valve, port.switch, nvs.switch, wakeAt>>
<1>types. /\ port \in Port /\ nvs \in Port /\ port.switch \in Nat
          /\ timeNow \in 0 .. MaxNow /\ now \in 0 .. MaxNow /\ now \in Nat
          /\ posts = 0 /\ hpc = "idle" /\ MaxSleep \in Nat /\ MaxNow \in Nat
  <2>1. port.switch \in Nat
    BY PortClosure, Wraps DEF TypeOK
  <2> QED BY <2>1, BoundAssumption DEF BoundAssumption, TypeOK, ClosedInv, Undisturbed
<1>bound. InitPort.interval \in Nat \ {0} /\ ~ClockStepsBack
  BY WidthAssumption, BoundAssumption
     DEF WidthAssumption, BoundAssumption, Undisturbed, Intervals
<1>stutter. Stutter => [Promise!Next]_(Promise!vars)
  BY DEF Promise!vars
<1> HIDE DEF Stutter
<1>step. Promise!Next => [Promise!Next]_(Promise!vars)
  OBVIOUS
<1> USE <1>types, <1>stutter, <1>step
        DEF Mode, Watering, Running, Recorded, Port, PortState, OPEN, CLOSED,
            solenoid, clock, loop, vault, http
<1>1. CASE Boot
  <2>1. Promise!Start
    BY <1>1 DEF Boot, Restart, getVaultData, ClosedInv, Promise!Start
  <2> QED BY <2>1 DEF Promise!Next
<1>2. CASE Wake
  <2>1. Promise!Wake
    BY <1>2 DEF Wake, Promise!Wake
  <2> QED BY <2>1 DEF Promise!Next
<1>3. CASE CheckFlag
  <2>1. Stutter
    BY <1>3 DEF CheckFlag, Stutter
  <2> QED BY <2>1
<1>4. CASE UpdateBegin
  <2>1. Stutter
    BY <1>4 DEF UpdateBegin, Closed, Stutter
  <2> QED BY <2>1
<1>5. CASE UpdatePulse
  <2>1. port.switch <= MaxNow /\ port.state = CLOSED
    BY <1>5 DEF UpdatePulse, ScheduleInv, PulsesFollowState
  <2>2. /\ NextSlot(port).switch = port.switch + InitPort.interval
        /\ NextSlot(port).state = CLOSED
    BY <2>1, NextSlotAdds DEF ScheduleInv, Undisturbed
  <2>3. Promise!Close
    BY <1>5, <2>2 DEF UpdatePulse, Promise!Close, Promise!Up
  <2> QED BY <2>3 DEF Promise!Next
<1>6. CASE CatchUp
  <2>1. Stutter
    BY <1>6 DEF CatchUp, Stutter
  <2> QED BY <2>1
<1>7. CASE UpdateReturn
  <2>1. PICK k \in 0 .. timeNow :
          /\ portSwitchTime = port.switch + k * InitPort.interval
          /\ k # 0 => /\ port.switch < timeNow
                      /\ portSwitchTime < timeNow + InitPort.interval
    BY <1>7 DEF UpdateReturn, ScheduleInv, Ahead
  <2>2. /\ port'.switch = portSwitchTime /\ port'.state = CLOSED /\ port.state = CLOSED
        /\ timeNow <= now
    BY <1>7 DEF UpdateReturn, ClosedInv, ScheduleInv
  <2>3. /\ Mode = "up" /\ Mode' = "up" /\ Watering = FALSE /\ Watering' = FALSE
        /\ UNCHANGED <<now, valve, nvs, wakeAt>>
    BY <1>7, <2>2 DEF UpdateReturn
  <2>4. CASE k = 0
    <3>1. port'.switch = port.switch
      BY <2>1, <2>2, <2>4, <1>bound
    <3>2. Stutter
      BY <2>3, <3>1 DEF Stutter
    <3> QED BY <3>2
  <2>5. CASE k # 0
    <3>1. k \in 1 .. now /\ port.switch < now
      BY <2>1, <2>2, <2>5
    <3>2. port'.switch \in {port.switch + j * InitPort.interval : j \in 1 .. now}
      BY <2>1, <2>2, <3>1
    <3>3. port'.switch < now + InitPort.interval
      <4>1. portSwitchTime \in Nat
        BY Wraps DEF TypeOK
      <4>2. portSwitchTime < timeNow + InitPort.interval
        BY <2>1, <2>5
      <4> QED BY <2>2, <4>1, <4>2, <1>bound
    <3> HIDE DEF Mode, Watering
    <3>4. Promise!Skip
      BY <2>3, <3>1, <3>2, <3>3 DEF Promise!Skip, Promise!Up
    <3> QED BY <3>4 DEF Promise!Next
  <2> QED BY <2>4, <2>5
<1>8. CASE ClearFlag
  <2>1. Stutter
    BY <1>8 DEF ClearFlag, Stutter
  <2> QED BY <2>1
<1>9. CASE Flow
  <2>1. Stutter
    BY <1>9 DEF Flow, Stutter
  <2> QED BY <2>1
<1>10. CASE CheckWifi
  <2>1. Stutter
    BY <1>10 DEF CheckWifi, Stutter
  <2> QED BY <2>1
<1>11. CASE CheckDue
  <2>1. Stutter
    BY <1>11 DEF CheckDue, IsDue, Opened, Stutter
  <2> QED BY <2>1
<1>12. CASE OpenPulse
  <2>1. port.state = OPEN /\ port.switch <= now
    BY <1>12 DEF OpenPulse, PulsesFollowState, DueInv
  <2>2. Promise!Open
    BY <1>12, <2>1 DEF OpenPulse, Promise!Open, Promise!Up
  <2> QED BY <2>2 DEF Promise!Next
<1>13. CASE CheckQuantity
  <2>1. Stutter
    BY <1>13 DEF CheckQuantity, QuantityMet, Closed, Stutter
  <2> QED BY <2>1
<1>14. CASE ClosePulse
  <2>1. port.switch <= MaxNow /\ port.state = CLOSED
    BY <1>14 DEF ClosePulse, ScheduleInv, PulsesFollowState
  <2>2. /\ NextSlot(port).switch = port.switch + InitPort.interval
        /\ NextSlot(port).state = CLOSED
    BY <2>1, NextSlotAdds DEF ScheduleInv, Undisturbed
  <2>3. Promise!Close
    BY <1>14, <2>2 DEF ClosePulse, Promise!Close, Promise!Up
  <2> QED BY <2>3 DEF Promise!Next
<1>15. CASE Delay
  <2>1. Stutter
    BY <1>15 DEF Delay, Stutter
  <2> QED BY <2>1
<1>16. CASE Sleep
  <2>1. CASE pc' = "asleep"
    <3>1. /\ wakeAt' >= now /\ port.switch >= now
          /\ port.switch > now => wakeAt' <= port.switch
      BY <1>16, <2>1 DEF Sleep, DeepSleep, getNextPortTriggerTime
    <3>2. Watering => port.switch = now
      BY <1>16, <3>1 DEF Sleep, DueInv
    <3>3. /\ Mode = "up" /\ Mode' = "asleep" /\ Watering' = FALSE
          /\ UNCHANGED <<now, valve, port, nvs>>
      BY <1>16, <2>1 DEF Sleep
    <3> HIDE DEF Mode, Watering
    <3>4. Promise!Sleep
      BY <3>1, <3>2, <3>3 DEF Promise!Sleep, Promise!Up
    <3> QED BY <3>4 DEF Promise!Next
  <2>2. CASE pc' # "asleep"
    <3>1. Stutter
      BY <1>16, <2>2 DEF Sleep, DeepSleep, Stutter
    <3> QED BY <3>1
  <2> QED BY <2>1, <2>2
<1>17. ASSUME NEW w \in Tasks, CopyField(w) PROVE Stutter
  BY <1>17 DEF CopyField, Stutter
<1>18. ASSUME NEW w \in Tasks, WriteChunk(w) PROVE [Promise!Next]_(Promise!vars)
  <2>1. w = "main" /\ pc = "save" /\ copied["main"] = 5
    BY <1>18 DEF WriteChunk, Saving, Tasks, Fields
  <2>2. /\ pc' \in {"flow", "delay"} /\ UNCHANGED <<port, now, valve, wakeAt>>
        /\ nvs' = config["main"] \/ nvs' = nvs
    BY <1>18, <2>1 DEF WriteChunk
  <2>3. config["main"].switch = port.switch /\ port.state = CLOSED
    BY <2>1 DEF ScheduleInv, ClosedInv
  <2>4. /\ Mode = "up" /\ Mode' = "up" /\ Watering = FALSE /\ Watering' = FALSE
    BY <2>1, <2>2, <2>3
  <2> HIDE DEF Mode, Watering
  <2>5. CASE nvs' = config["main"]
    <3>1. Promise!Save
      BY <2>2, <2>3, <2>4, <2>5 DEF Promise!Save, Promise!Up
    <3> QED BY <3>1 DEF Promise!Next
  <2>6. CASE nvs' = nvs
    <3>1. Stutter
      BY <2>2, <2>4, <2>6 DEF Stutter
    <3> QED BY <3>1
  <2> QED BY <2>2, <2>5, <2>6
<1>19. ~Post
  BY DEF Post, Undisturbed
<1>20. ~SetInterval /\ ~SetQuantity
  BY DEF SetInterval, SetQuantity, SetField
<1>22. CASE SntpSet
  <2>1. /\ now' >= now /\ now' \in 0 .. MaxNow /\ Mode = "up" /\ Mode' = "up"
        /\ Watering' = Watering /\ UNCHANGED <<port, valve, nvs, wakeAt>>
    BY <1>22, <1>bound, InputAssumption DEF InputAssumption, SntpSet
  <2>2. CASE now' = now
    <3>1. Stutter
      BY <2>1, <2>2 DEF Stutter
    <3> QED BY <3>1
  <2>3. CASE now' > now
    <3> HIDE DEF Mode, Watering
    <3>1. Promise!Pass
      BY <2>1, <2>3 DEF Promise!Pass, Promise!Up
    <3> QED BY <3>1 DEF Promise!Next
  <2> QED BY <2>1, <2>2, <2>3
<1>23. CASE timeUpdateNotif
  <2>1. Stutter
    BY <1>23 DEF timeUpdateNotif, Stutter
  <2> QED BY <2>1
<1>24. CASE Tick
  <2>1. Promise!Pass
    BY <1>24 DEF Tick, Promise!Pass, Promise!Up
  <2> QED BY <2>1 DEF Promise!Next
<1>25. CASE Reset
  <2>1. Promise!Crash
    BY <1>25 DEF Reset, Promise!Crash, Promise!Up
  <2> QED BY <2>1 DEF Promise!Next
<1>26. CASE UNCHANGED vars
  <2>1. Stutter
    BY <1>26 DEF vars, Stutter
  <2> QED BY <2>1
<1> QED
  BY <1>1, <1>2, <1>3, <1>4, <1>5, <1>6, <1>7, <1>8, <1>9, <1>10, <1>11, <1>12,
     <1>13, <1>14, <1>15, <1>16, <1>17, <1>18, <1>19, <1>20, <1>22, <1>23,
     <1>24, <1>25, <1>26
     DEF Next, app_main, Update, runPortCheck, httpd, Tasks

(* So every behaviour is one of the promise.                               *)
LEMMA PromiseSteps ==
  ASSUME Undisturbed
  PROVE  Spec => [][Promise!Next]_(Promise!vars)
<1>1. /\ TypeOK /\ ClosedInv /\ ScheduleInv /\ DueInv /\ [Next]_vars => ScheduleInv'
      /\ TypeOK /\ ClosedInv /\ ScheduleInv /\ DueInv /\ PulsesFollowState
           /\ [Next]_vars => [Promise!Next]_(Promise!vars)
  BY ScheduleStep, PromiseStep
<1>2. TypeOK /\ ClosedInv /\ ClosedInv' /\ DueInv /\ [Next]_vars => DueInv'
  BY DueStep DEF ClosedInv, Undisturbed
<1>3. TypeOK /\ ClosedInv /\ [Next]_vars => ClosedInv'
  BY ClosedStep DEF Undisturbed
<1>4. MirrorInv => PulsesFollowState
  BY DEF MirrorInv
<1> QED
  BY <1>1, <1>2, <1>3, <1>4, ClosedInit, DueInit, MirrorInit, MirrorStep,
     ScheduleInit, TypeInvariant, PTL DEF Spec

(* With an interval that keeps switch times from wrapping, nobody posting and
   no answer that sets the clock back, the tasks, whatever their order, and
   resets, losses of power and failed writes at any moment, never do to the
   garden what the promise does not allow.                                 *)
THEOREM KeepsScheduleHolds ==
  ASSUME Undisturbed
  PROVE  Spec => KeepsSchedule
BY PromiseInit, PromiseSteps, PTL DEF Spec, KeepsSchedule, Promise!Spec

-----------------------------------------------------------------------------
(* What follows for the schedule.                                          *)

(* A whole number of intervals after the provisioned time, and flash not
   ahead of the schedule.                                                  *)
OnTheGrid(s) == \E k \in Nat : s = InitPort.switch + k * InitPort.interval

GridInv ==
  /\ OnTheGrid(port.switch) /\ OnTheGrid(nvs.switch)
  /\ Mode = "up" => nvs.switch <= port.switch

(* Switch times begin there ...                                            *)
LEMMA GridInit == Init => GridInv
<1>1. InitPort.switch = InitPort.switch + 0 * InitPort.interval
  BY InputAssumption, WidthAssumption DEF InputAssumption, WidthAssumption, Port, Word32
<1> QED BY <1>1 DEF Init, GridInv, OnTheGrid, Mode, Running

(* ... and no step the promise allows leaves the grid, or lets flash get ahead
   or go back.                                                             *)
LEMMA GridStep ==
  ASSUME Undisturbed, TypeOK, TypeOK', GridInv, [Promise!Next]_(Promise!vars)
  PROVE  GridInv' /\ nvs'.switch >= nvs.switch
<1> DEFINE i == InitPort.interval
<1>types. /\ port.switch \in Nat /\ nvs.switch \in Nat /\ now \in Nat
          /\ port'.switch \in Nat /\ nvs'.switch \in Nat
          /\ InitPort.switch \in Nat
  <2>1. \A p \in Port : p.switch \in Nat
    BY PortClosure, Wraps
  <2>2. now \in Nat /\ InitPort \in Port
    BY BoundAssumption, InputAssumption DEF TypeOK, BoundAssumption, InputAssumption
  <2>3. port \in Port /\ nvs \in Port /\ port' \in Port /\ nvs' \in Port
    BY DEF TypeOK
  <2> QED BY <2>1, <2>2, <2>3
<1>i. i \in Nat \ {0}
  BY WidthAssumption, BoundAssumption
     DEF WidthAssumption, BoundAssumption, Undisturbed, Intervals
<1>later. ASSUME NEW k \in Nat, OnTheGrid(port.switch), port'.switch = port.switch + k * i
          PROVE  OnTheGrid(port'.switch) /\ port'.switch >= port.switch
  <2>1. PICK n \in Nat : port.switch = InitPort.switch + n * i
    BY <1>later DEF OnTheGrid
  <2>2. (n + k) * i = n * i + k * i /\ k * i \in Nat /\ n * i \in Nat
    BY <1>i
  <2>3. port'.switch = InitPort.switch + (n + k) * i
    <3> DEFINE a == n * i
               b == k * i
               c == (n + k) * i
    <3> HIDE DEF a, b, c
    <3>1. port.switch = InitPort.switch + a /\ port'.switch = port.switch + b /\ c = a + b
          /\ a \in Nat /\ b \in Nat
      BY <1>later, <2>1, <2>2 DEF a, b, c
    <3>2. port'.switch = InitPort.switch + c
      BY <3>1, <1>types
    <3> QED BY <3>2 DEF c
  <2>4. port'.switch >= port.switch
    <3> DEFINE b == k * i
    <3> HIDE DEF b
    <3> QED BY <1>later, <2>2, <1>types DEF b
  <2> QED BY <2>3, <2>4 DEF OnTheGrid
<1> HIDE DEF i
<1> USE <1>types DEF GridInv
<1>1. CASE Promise!Open
  BY <1>1 DEF Promise!Open
<1>2. CASE Promise!Close
  <2>1. port'.switch = port.switch + 1 * i
    BY <1>2, <1>i DEF Promise!Close, i
  <2> QED BY <1>2, <2>1, <1>later DEF Promise!Close
<1>3. CASE Promise!Skip
  <2>1. PICK k \in 1 .. now : port'.switch = port.switch + k * i
    BY <1>3 DEF Promise!Skip, i
  <2> QED BY <1>3, <2>1, <1>later DEF Promise!Skip
<1>4. CASE Promise!Save
  BY <1>4 DEF Promise!Save, Promise!Up
<1>5. CASE Promise!Sleep
  BY <1>5 DEF Promise!Sleep
<1>6. CASE Promise!Wake
  BY <1>6 DEF Promise!Wake
<1>7. CASE Promise!Crash
  BY <1>7 DEF Promise!Crash
<1>8. CASE Promise!Start
  BY <1>8 DEF Promise!Start
<1>9. CASE Promise!Pass
  BY <1>9 DEF Promise!Pass
<1>10. CASE UNCHANGED Promise!vars
  BY <1>10 DEF Promise!vars
<1> QED
  BY <1>1, <1>2, <1>3, <1>4, <1>5, <1>6, <1>7, <1>8, <1>9, <1>10 DEF Promise!Next

(* What a quotient leaves of a multiple.                                   *)
LEMMA NoRemainder ==
  ASSUME NEW k \in Nat, NEW i \in Nat \ {0}
  PROVE  (k * i) % i = 0
<1> DEFINE a == k * i
           q == a \div i
           r == a % i
           d == k - q
<1>1. a \in Nat
  OBVIOUS
<1>2. q \in Int /\ r \in Nat /\ r < i /\ a = i * q + r
  <2> HIDE DEF a
  <2> QED BY <1>1
<1>3. d \in Int /\ r = i * d
  <2> HIDE DEF q, r
  <2> QED BY <1>2
<1>4. d >= 1 => i * d >= i
  <2> HIDE DEF d
  <2>1. SUFFICES ASSUME d >= 1 PROVE i * d >= i
    OBVIOUS
  <2>2. i * d = i + i * (d - 1) /\ i * (d - 1) \in Nat
    BY <1>3, <2>1
  <2> QED BY <2>2
<1>5. d <= -1 => i * d <= -i
  <2> HIDE DEF d
  <2>1. SUFFICES ASSUME d <= -1 PROVE i * d <= -i
    OBVIOUS
  <2> DEFINE e == (-1) - d
  <2>2. e \in Nat /\ d = (-1) - e
    BY <1>3, <2>1
  <2> HIDE DEF e
  <2>3. i * d = -i - i * e /\ i * e \in Nat
    BY <2>2
  <2> QED BY <2>3
<1>6. d = 0
  <2> HIDE DEF d, r
  <2> QED BY <1>2, <1>3, <1>4, <1>5
<1>7. r = 0
  <2> HIDE DEF d, r
  <2> QED BY <1>3, <1>6
<1> QED BY <1>7

(* A controller left alone never leaves the grid of its schedule, however late
   ports are opened, closed or caught up, and wherever it crashes.         *)
THEOREM NoDriftHolds ==
  ASSUME Undisturbed
  PROVE  Spec => []NoDrift
<1>1. Spec => []GridInv
  BY GridInit, GridStep, PromiseSteps, TypeInvariant, PTL DEF Spec
<1>2. TypeOK /\ GridInv => NoDrift
  <2> SUFFICES ASSUME TypeOK, GridInv, NEW p \in {port, nvs}
               PROVE  (p.switch - InitPort.switch) % InitPort.interval = 0
    BY DEF NoDrift
  <2>1. InitPort.interval \in Nat \ {0} /\ InitPort.switch \in Nat
    BY WidthAssumption, BoundAssumption, InputAssumption, PortClosure, Wraps
       DEF WidthAssumption, BoundAssumption, InputAssumption, Undisturbed, Intervals
  <2>2. PICK k \in Nat : p.switch = InitPort.switch + k * InitPort.interval
    BY DEF GridInv, OnTheGrid
  <2>3. p.switch - InitPort.switch = k * InitPort.interval
    <3> DEFINE m == k * InitPort.interval
    <3>1. m \in Nat
      BY <2>1
    <3> HIDE DEF m
    <3> QED BY <2>1, <2>2, <3>1 DEF m
  <2> QED BY <2>1, <2>3, NoRemainder
<1> QED BY <1>1, <1>2, TypeInvariant, PTL

(* Nor does flash ever go back to a slot it was past.                      *)
THEOREM SavedScheduleAdvancesHolds ==
  ASSUME Undisturbed
  PROVE  Spec => SavedScheduleAdvances
<1>1. Spec => []GridInv
  BY GridInit, GridStep, PromiseSteps, TypeInvariant, PTL DEF Spec
<1>2. TypeOK /\ TypeOK' /\ GridInv /\ [Promise!Next]_(Promise!vars) =>
        [nvs'.switch >= nvs.switch]_vars
  BY GridStep
<1> QED
  BY <1>1, <1>2, PromiseSteps, TypeInvariant, PTL DEF SavedScheduleAdvances

(* And every slot still to come is there when its time comes: sleep does not
   outlast it ...                                                          *)
THEOREM NoSlotSleptThroughHolds ==
  ASSUME Undisturbed
  PROVE  Spec => NoSlotSleptThrough
<1>1. ASSUME TypeOK, Promise!Sleep, port.switch > now
      PROVE  wakeAt' <= port.switch
  BY <1>1 DEF Promise!Sleep
<1>2. TypeOK /\ [Next]_vars /\ [Promise!Next]_(Promise!vars) =>
        [pc' = "asleep" /\ port.switch > now => wakeAt' <= port.switch]_vars
  <2> SUFFICES ASSUME TypeOK, [Next]_vars, [Promise!Next]_(Promise!vars),
                      ~UNCHANGED vars, pc' = "asleep", port.switch > now
               PROVE  wakeAt' <= port.switch
    OBVIOUS
  <2>1. Mode' = "asleep" /\ Mode # "asleep"
    <3>1. Sleep
      BY DEF Next, Boot, Wake, Restart, app_main, CheckFlag, Update, UpdateBegin,
         UpdatePulse, CatchUp, UpdateReturn, ClearFlag, Flow, CheckWifi, runPortCheck,
         CheckDue, OpenPulse, CheckQuantity, ClosePulse, Delay, CopyField, WriteChunk,
         Saving, Post, httpd, SetInterval, SetQuantity, SetField, SntpSet,
         timeUpdateNotif, Tick, Reset, Running
    <3> QED BY <3>1 DEF Sleep, Mode, Running
  <2>2. Promise!Sleep
    BY <2>1 DEF Promise!Next, Promise!Open, Promise!Close, Promise!Skip, Promise!Save,
       Promise!Wake, Promise!Crash, Promise!Start, Promise!Pass, Promise!vars
  <2> QED BY <1>1, <2>2
<1> QED
  BY <1>2, PromiseSteps, TypeInvariant, PTL DEF Spec, NoSlotSleptThrough

(* ... and only an overdue one is passed over.                             *)
THEOREM OnlyOverdueSlotsDroppedHolds ==
  ASSUME Undisturbed
  PROVE  Spec => OnlyOverdueSlotsDropped
<1>1. /\ TypeOK /\ ClosedInv /\ ScheduleInv /\ DueInv /\ [Next]_vars => ScheduleInv'
  BY ScheduleStep
<1>2. TypeOK /\ ClosedInv /\ ClosedInv' /\ DueInv /\ [Next]_vars => DueInv'
  BY DueStep DEF ClosedInv, Undisturbed
<1>3. TypeOK /\ ClosedInv /\ [Next]_vars => ClosedInv'
  BY ClosedStep DEF Undisturbed
<1>4. TypeOK /\ ClosedInv /\ ScheduleInv /\ [Next]_vars =>
        [Running /\ pc # "closePulse" /\ pc # "updatePulse"
           /\ port'.switch # port.switch => port'.switch < now + port.interval]_vars
  <2> SUFFICES ASSUME TypeOK, ClosedInv, ScheduleInv, [Next]_vars,
                      Running, pc # "closePulse", pc # "updatePulse",
                      port'.switch # port.switch
               PROVE  port'.switch < now + port.interval
    OBVIOUS
  <2>types. /\ port \in Port /\ nvs \in Port /\ hpc = "idle"
            /\ timeNow \in Nat /\ now \in Nat /\ portSwitchTime \in Nat
    BY Wraps, BoundAssumption DEF BoundAssumption, TypeOK, ClosedInv
  <2>1. UpdateReturn
    BY <2>types
       DEF Next, vars, Boot, Wake, app_main, CheckFlag, Update, UpdateBegin, Closed,
           UpdatePulse, CatchUp, ClearFlag, Flow, CheckWifi, runPortCheck,
           CheckDue, Opened, OpenPulse, CheckQuantity, ClosePulse, Delay, Sleep,
           CopyField, WriteChunk, Post, httpd, SetInterval, SetQuantity, SetField,
           SntpSet, timeUpdateNotif, Tick, Reset, Running, Port
  <2>2. PICK k \in 0 .. timeNow :
          /\ portSwitchTime = port.switch + k * InitPort.interval
          /\ k # 0 => /\ port.switch < timeNow
                      /\ portSwitchTime < timeNow + InitPort.interval
    BY <2>1 DEF UpdateReturn, ScheduleInv, Ahead
  <2>3. port'.switch = portSwitchTime
    BY <2>1, <2>types DEF UpdateReturn, Port
  <2>4. k # 0
    BY <2>2, <2>3, <2>types, PortClosure, Wraps, WidthAssumption, InputAssumption
       DEF InputAssumption, WidthAssumption, Undisturbed, Intervals
  <2>5. portSwitchTime < timeNow + port.interval /\ timeNow <= now
    BY <2>1, <2>2, <2>4 DEF UpdateReturn, ScheduleInv
  <2>6. port.interval \in Nat
    BY <2>types, PortClosure, Wraps
  <2> QED BY <2>3, <2>5, <2>6, <2>types
<1> QED
  BY <1>1, <1>2, <1>3, <1>4, ClosedInit, DueInit, ScheduleInit,
     TypeInvariant, PTL DEF Spec, OnlyOverdueSlotsDropped

-----------------------------------------------------------------------------
(* A pass comes to its end.                                                *)

(* What catchUp has left: its last iteration, and one a second behind.     *)
Window == MaxNow + 1
Behind == IF portSwitchTime < timeNow THEN timeNow - portSwitchTime ELSE 0

(* The steps of app_main from the place at to the end of its pass, at most;
   by is the caller, n the number of fields copied ...                     *)
EndOfPass(at, n, behind) ==
  CASE at = "catchUp"           -> 1 + behind
    [] at = "updatePulse"       -> Window + 1
    [] at = "updateSwitchTimes" -> Window + 2
    [] at = "sleep"             -> Window + 3
    [] at = "delay"             -> Window + 4
    [] at = "save"              -> Window + 10 - n
    [] at = "closePulse"        -> Window + 11
    [] at = "checkQuantity"     -> Window + 12
    [] at = "openPulse"         -> Window + 13
    [] at = "check"             -> Window + 14
    [] at = "wifi"              -> Window + 15
    [] at = "flow"              -> Window + 16
    [] at = "clearFlag"         -> Window + 23
    [] at = "top"               -> 2 * Window + 27
    [] OTHER                    -> 0

(* ... and with the whole pass still to come after the block that answers a
   synchronisation.                                                        *)
Left(at, by, n, behind) ==
  IF by = "sync"
  THEN CASE at = "save"              -> Window + 22 - n
         [] at = "catchUp"           -> Window + 24 + behind
         [] at = "updatePulse"       -> 2 * Window + 25
         [] at = "updateSwitchTimes" -> 2 * Window + 26
         [] OTHER                    -> EndOfPass(at, n, behind)
  ELSE EndOfPass(at, n, behind)

PassLeft == Left(pc, caller, copied["main"], Behind)

(* updateSwitchTimes knows where to return to.                             *)
CallerInv ==
  pc \in {"updateSwitchTimes", "updatePulse", "catchUp"} => caller \in {"sync", "sleep"}

(* catchUp is never further behind than the clock can be.                  *)
LEMMA PassParts ==
  TypeOK => Window \in Nat /\ Behind \in 0 .. Window - 1 /\ copied["main"] \in 0 .. 5
BY BoundAssumption, WidthAssumption DEF TypeOK, Window, Behind, Word32, Tasks, Fields

(* What is left of a pass is a number.                                     *)
LEMMA PassIsNat == TypeOK => PassLeft \in Nat
<1> SUFFICES ASSUME TypeOK PROVE Left(pc, caller, copied["main"], Behind) \in Nat
  BY DEF PassLeft
<1>1. pc \in Pcs
  BY DEF TypeOK
<1> QED BY <1>1, PassParts DEF Pcs, Left, EndOfPass


(* Whoever calls updateSwitchTimes says so ...                             *)
LEMMA CallerInit == Init => CallerInv
BY DEF Init, CallerInv

(* ... and nobody else writes to caller before it returns.                 *)
LEMMA CallerStep == CallerInv /\ [Next]_vars => CallerInv'
<1> SUFFICES ASSUME CallerInv, [Next]_vars PROVE CallerInv'
  OBVIOUS
<1>1. CASE app_main
  <2>1. CASE CheckFlag \/ Update \/ Sleep
    BY <2>1 DEF CheckFlag, Update, UpdateBegin, UpdatePulse, CatchUp, UpdateReturn,
                Sleep, DeepSleep, CallerInv
  <2>2. CASE ClearFlag \/ Flow \/ CheckWifi \/ runPortCheck \/ Delay
    BY <2>2 DEF ClearFlag, Flow, CheckWifi, runPortCheck, CheckDue, OpenPulse,
                CheckQuantity, ClosePulse, Delay, CallerInv
  <2>3. CASE CopyField("main") \/ WriteChunk("main")
    BY <2>3 DEF CopyField, WriteChunk, CallerInv
  <2> QED BY <1>1, <2>1, <2>2, <2>3 DEF app_main
<1>2. CASE UNCHANGED <<pc, caller>> \/ pc' \in {"off", "top"}
  BY <1>2 DEF CallerInv
<1> QED
  BY <1>1, <1>2 DEF Next, vars, httpd, Boot, Restart, Wake, Post, SetInterval, SetQuantity,
     SetField, CopyField, WriteChunk, SntpSet, timeUpdateNotif, Tick, Reset

(* The places in between save and httpd's copies do not meet.              *)
LEMMA OthersStep ==
  TypeOK /\ [Next]_vars =>
    \/ app_main
    \/ pc' = "off"
    \/ pc' = "top" /\ sleepInterval' = SleepLoops
    \/ /\ UNCHANGED <<pc, caller, timeNow, portSwitchTime, sleepInterval>>
       /\ copied'["main"] = copied["main"]
<1> SUFFICES ASSUME TypeOK, [Next]_vars, ~app_main
             PROVE  \/ pc' = "off"
                    \/ pc' = "top" /\ sleepInterval' = SleepLoops
                    \/ /\ UNCHANGED <<pc, caller, timeNow, portSwitchTime, sleepInterval>>
                       /\ copied'["main"] = copied["main"]
  OBVIOUS
<1>1. CASE CopyField("httpd") \/ WriteChunk("httpd")
  BY <1>1 DEF TypeOK, CopyField, WriteChunk, Saving, locals, loop, Tasks
<1>2. CASE Boot \/ Wake \/ Reset
  BY <1>2 DEF Boot, Restart, Wake, Reset
<1>3. CASE Post \/ SetInterval \/ SetQuantity \/ SntpSet \/ timeUpdateNotif \/ Tick
  BY <1>3 DEF Post, SetInterval, SetQuantity, SetField, SntpSet, timeUpdateNotif, Tick,
     locals, loop, vault
<1>4. CASE UNCHANGED vars
  BY <1>4 DEF vars, locals, loop, vault
<1> QED BY <1>1, <1>2, <1>3, <1>4 DEF Next, httpd

(* An iteration of catchUp gets nearer, as the interval is positive and its
   sum does not wrap.                                                      *)
LEMMA CatchUpGains == TypeOK /\ IntervalInv /\ CatchUp => Behind' < Behind
<1> SUFFICES ASSUME TypeOK, IntervalInv, CatchUp PROVE Behind' < Behind
  OBVIOUS
<1>1. /\ portSwitchTime \in Nat /\ timeNow \in 0 .. MaxNow /\ portSwitchTime < timeNow
      /\ port.interval \in Nat /\ port.interval > 0
      /\ port.interval <= U32 - 1 - MaxNow /\ U32 \in Nat /\ MaxNow \in Nat
  BY BoundAssumption, WidthAssumption
     DEF TypeOK, IntervalInv, Intervals, CatchUp, Word32
<1>2. portSwitchTime' = portSwitchTime + port.interval
  <2>1. portSwitchTime + port.interval \in 0 .. U32 - 1
    BY <1>1
  <2>2. portSwitchTime' = (portSwitchTime + port.interval) % U32
    BY DEF CatchUp
  <2>3. ASSUME NEW n \in 0 .. U32 - 1 PROVE n % U32 = n
    BY <1>1
  <2> QED BY <2>1, <2>2, <2>3
<1>3. timeNow' = timeNow
  BY DEF CatchUp
<1> QED BY <1>1, <1>2, <1>3 DEF Behind


(* Every step of app_main that does not begin a pass brings its end nearer. *)
LEMMA PassStep ==
  TypeOK /\ TypeOK' /\ IntervalInv /\ CallerInv /\ app_main /\ pc' # "top" =>
    PassLeft' < PassLeft
<1> SUFFICES ASSUME TypeOK, TypeOK', IntervalInv, CallerInv, app_main, pc' # "top"
             PROVE  PassLeft' < PassLeft
  OBVIOUS
<1> DEFINE c  == copied["main"]
           c2 == copied'["main"]
           b  == Behind
           b2 == Behind'
           P  == Left(pc', caller', c2, b2) < Left(pc, caller, c, b)
<1>parts. /\ Window \in Nat /\ b \in 0 .. Window - 1 /\ b2 \in 0 .. Window - 1
          /\ c \in 0 .. 5 /\ c2 \in 0 .. 5
  <2>1. (TypeOK => Window \in Nat /\ Behind \in 0 .. Window - 1 /\ copied["main"] \in 0 .. 5)'
    BY PassParts, PTL
  <2>2. Window' = Window
    BY DEF Window
  <2> QED BY <2>1, <2>2, PassParts
<1>goal. SUFFICES P
  BY DEF PassLeft
<1> HIDE DEF c, c2, b, b2
<1>1. CASE CheckFlag
  BY <1>1, <1>parts DEF CheckFlag, Left, EndOfPass
<1>2. CASE UpdateBegin
  BY <1>2, <1>parts DEF UpdateBegin, Left, EndOfPass
<1>3. CASE UpdatePulse
  BY <1>3, <1>parts DEF UpdatePulse, Left, EndOfPass
<1>4. CASE CatchUp
  <2>1. b2 < b
    BY <1>4, CatchUpGains DEF b, b2
  <2>2. pc = "catchUp" /\ pc' = "catchUp" /\ caller' = caller
    BY <1>4 DEF CatchUp
  <2> QED BY <2>1, <2>2, <1>parts DEF Left, EndOfPass
<1>5. CASE UpdateReturn
  BY <1>5, <1>parts DEF UpdateReturn, Left, EndOfPass
<1>6. CASE ClearFlag
  BY <1>6, <1>parts DEF ClearFlag, Left, EndOfPass
<1>7. CASE Flow
  BY <1>7, <1>parts DEF Flow, Left, EndOfPass
<1>8. CASE CheckWifi
  BY <1>8, <1>parts DEF CheckWifi, Left, EndOfPass
<1>9. CASE runPortCheck
  BY <1>9, <1>parts
     DEF runPortCheck, CheckDue, OpenPulse, CheckQuantity, ClosePulse, Left, EndOfPass
<1>10. CASE Delay
  BY <1>10, <1>parts DEF Delay, Left, EndOfPass
<1>11. CASE Sleep
  BY <1>11, <1>parts DEF Sleep, DeepSleep, Left, EndOfPass
<1>12. CASE CopyField("main")
  <2>1. pc = "save" /\ pc' = "save" /\ caller' = caller
    BY <1>12 DEF CopyField, Saving
  <2>2. c2 = c + 1
    BY <1>12 DEF CopyField, TypeOK, Tasks, c, c2
  <2> QED BY <2>1, <2>2, <1>parts DEF Left, EndOfPass
<1>13. CASE WriteChunk("main")
  <2>1. pc = "save" /\ c = 5 /\ pc' = (IF caller = "sync" THEN "flow" ELSE "delay")
    BY <1>13 DEF WriteChunk, Saving, Fields, c
  <2> QED BY <2>1, <1>parts DEF Left, EndOfPass
<1> QED
  BY <1>1, <1>2, <1>3, <1>4, <1>5, <1>6, <1>7, <1>8, <1>9, <1>10, <1>11, <1>12, <1>13
     DEF app_main, Update

(* A pass of app_main goes through, to the next one or to deep sleep, in at
   most 2 * Window + 27 steps of its own: posts, clock settings and resets in
   between never leave it more to do.  This is what positive intervals are
   needed for: with an interval of 0 the while loop of portSupervisor.cpp:155
   does not end once a slot is overdue.                                    *)
THEOREM PassGetsOn ==
  ASSUME InitPort.interval \in Intervals, PostIntervals \subseteq Intervals
  PROVE  Spec => /\ [](PassLeft \in Nat /\ CallerInv)
                 /\ [][pc' # "top" =>
                          /\ PassLeft' <= PassLeft
                          /\ app_main => PassLeft' < PassLeft]_vars
<1>1. TypeOK => PassLeft \in Nat
  BY PassIsNat
<1>2. TypeOK /\ TypeOK' /\ IntervalInv /\ CallerInv /\ [Next]_vars =>
        [pc' # "top" =>
           /\ PassLeft' <= PassLeft
           /\ app_main => PassLeft' < PassLeft]_vars
  <2> SUFFICES ASSUME TypeOK, TypeOK', IntervalInv, CallerInv, [Next]_vars, pc' # "top"
               PROVE  PassLeft' <= PassLeft /\ (app_main => PassLeft' < PassLeft)
    OBVIOUS
  <2>1. PassLeft \in Nat
    BY PassIsNat
  <2>2. (PassLeft \in Nat)'
    BY PassIsNat, PTL
  <2>3. app_main => PassLeft' < PassLeft
    BY PassStep
  <2>4. ASSUME pc' = "off" PROVE PassLeft' = 0
    BY <2>4 DEF PassLeft, Left, EndOfPass
  <2>5. ASSUME UNCHANGED <<pc, caller, timeNow, portSwitchTime>>,
               copied'["main"] = copied["main"]
        PROVE  PassLeft' = PassLeft
    BY <2>5 DEF PassLeft, Left, EndOfPass, Behind
  <2> DEFINE left == PassLeft
             then == PassLeft'
  <2>6. left \in Nat /\ then \in Nat /\ (app_main => then < left)
    BY <2>1, <2>2, <2>3
  <2>7. app_main \/ then = 0 \/ then = left
    BY <2>4, <2>5, OthersStep
  <2> HIDE DEF left, then
  <2>8. then <= left /\ (app_main => then < left)
    BY <2>6, <2>7
  <2> QED BY <2>8 DEF left, then
<1> QED
  BY <1>1, <1>2, IntervalInit, IntervalStep, CallerInit, CallerStep, TypeInvariant, PTL
     DEF Spec


(* What is left until the controller decides whether to sleep: the passes it
   still makes, and the rest of this one.                                  *)
PassLength == 2 * Window + 28
SleepLeft  == IF Running THEN sleepInterval * PassLength + PassLeft ELSE 0

(* One pass less outweighs the whole of the next one.                      *)
LEMMA Passes ==
  ASSUME NEW s \in Nat, NEW t \in Nat, NEW k \in Nat
  PROVE  /\ s * k \in Nat
         /\ s = t + 1 => s * k = t * k + k
OBVIOUS

(* app_main counts a pass less at its end, and afresh in the sleep branch.  *)
LEMMA CountStep ==
  ASSUME Stations = {FALSE}, TypeOK, app_main
  PROVE  /\ Running /\ pc' # "off" /\ sleepInterval \in Nat
         /\ \/ pc' = "top" /\ sleepInterval' = SleepLoops
            \/ pc' # "top" /\ sleepInterval' = sleepInterval
            \/ /\ pc' \in {"top", "sleep"}
               /\ sleepInterval' \in Nat /\ sleepInterval = sleepInterval' + 1
<1>1. sleepInterval \in Nat
  BY BoundAssumption DEF TypeOK
<1>2. CASE CheckFlag \/ ClearFlag \/ Flow \/ CheckWifi \/ runPortCheck
  BY <1>1, <1>2 DEF CheckFlag, ClearFlag, Flow, CheckWifi, runPortCheck, CheckDue, OpenPulse,
                    CheckQuantity, ClosePulse, Running, loop
<1>3. CASE Update
  BY <1>1, <1>3 DEF Update, UpdateBegin, UpdatePulse, CatchUp, UpdateReturn, Running, loop
<1>4. CASE Delay
  <2>1. pc = "delay" /\ sleepInterval' = sleepInterval - 1 /\ pc' \in {"top", "sleep"}
    BY <1>4 DEF Delay
  <2>2. sleepInterval # 0
    BY <2>1 DEF TypeOK, Running
  <2> QED BY <1>1, <2>1, <2>2 DEF Running
<1>5. CASE Sleep
  BY <1>1, <1>5 DEF Sleep, DeepSleep, Running
<1>6. CASE CopyField("main") \/ WriteChunk("main")
  BY <1>1, <1>6 DEF CopyField, WriteChunk, Saving, Running, loop
<1> QED BY <1>2, <1>3, <1>4, <1>5, <1>6 DEF app_main

(* While no station is connected, every step of app_main brings the decision
   nearer, and no other step puts it off.                                  *)
LEMMA SleepStep ==
  ASSUME Stations = {FALSE}, TypeOK, TypeOK', IntervalInv, CallerInv, [Next]_vars,
         ~(pc' = "top" /\ sleepInterval' = SleepLoops)
  PROVE  /\ SleepLeft' <= SleepLeft
         /\ app_main => SleepLeft' < SleepLeft
<1> DEFINE s     == sleepInterval
           s2    == sleepInterval'
           left  == PassLeft
           left2 == PassLeft'
           k     == PassLength
           sk    == s * k
           s2k   == s2 * k
<1>1. left \in Nat /\ left2 \in Nat
  <2>1. (PassLeft \in Nat)'
    BY PassIsNat, PTL
  <2> QED BY <2>1, PassIsNat
<1>2. s \in Nat /\ s2 \in Nat /\ k \in Nat
  BY BoundAssumption DEF TypeOK, PassLength, Window
<1>3. sk \in Nat /\ s2k \in Nat /\ (s = s2 + 1 => sk = s2k + k)
  BY <1>2, Passes
<1>4. /\ SleepLeft = IF Running THEN sk + left ELSE 0
      /\ SleepLeft' = IF Running' THEN s2k + left2 ELSE 0
  BY DEF SleepLeft, PassLength, Window
<1>5. CASE app_main
  <2>1. Running
    BY <1>5, CountStep
  <2>2. CASE pc' # "top" /\ s2 = s
    <3>1. left2 < left /\ s2k = sk
      BY <1>5, <2>2, PassStep
    <3> HIDE DEF left, left2, sk, s2k
    <3> QED BY <1>1, <1>3, <1>4, <2>1, <3>1
  <2>3. CASE pc' = "top" /\ s = s2 + 1
    <3>1. left2 = k - 1
      BY <2>3, BoundAssumption DEF PassLeft, Left, EndOfPass, PassLength, Window
    <3> HIDE DEF left, left2, sk, s2k, s, s2, k
    <3> QED BY <1>1, <1>2, <1>3, <1>4, <2>1, <2>3, <3>1
  <2>4. CASE pc' = "sleep" /\ s = s2 + 1
    <3>1. left2 < left
      BY <1>5, <2>4, PassStep
    <3> HIDE DEF left, left2, sk, s2k, s, s2, k
    <3> QED BY <1>1, <1>2, <1>3, <1>4, <2>1, <2>4, <3>1
  <2>5. SleepLeft' < SleepLeft /\ SleepLeft \in Nat /\ SleepLeft' \in Nat
    <3>1. SleepLeft \in Nat /\ SleepLeft' \in Nat
      <4> HIDE DEF left, left2, sk, s2k
      <4> QED BY <1>1, <1>3, <1>4
    <3> QED BY <1>5, <2>2, <2>3, <2>4, <3>1, CountStep
  <2> QED BY <2>5
<1>6. CASE ~app_main
  <2>1. pc' = "off" \/ UNCHANGED <<pc, sleepInterval, PassLeft>>
    BY <1>6, OthersStep DEF PassLeft, Left, Behind
  <2>2. CASE pc' = "off"
    <3>1. ~Running'
      BY <2>2 DEF Running
    <3> HIDE DEF left, left2, sk, s2k
    <3> QED BY <1>1, <1>3, <1>4, <1>6, <3>1
  <2>3. CASE UNCHANGED <<pc, sleepInterval, PassLeft>>
    <3>1. Running' = Running /\ s2k = sk /\ left2 = left
      BY <2>3 DEF Running
    <3> HIDE DEF left, left2, sk, s2k
    <3> QED BY <1>1, <1>3, <1>4, <1>6, <3>1
  <2> QED BY <2>1, <2>2, <2>3
<1> QED BY <1>5, <1>6

(* With no station connected the controller comes to its decision to sleep
   (main.cpp:429) after SleepLoops passes at the latest, whatever is posted or
   synchronised and however often that makes updateSwitchTimes catch up; a
   start and the sleep branch, which takes that decision, begin the count
   again.  It is there that a port nobody shuts is found overdue.          *)
THEOREM SleepGetsOn ==
  ASSUME InitPort.interval \in Intervals, PostIntervals \subseteq Intervals,
         Stations = {FALSE}
  PROVE  Spec => /\ [](SleepLeft \in Nat)
                 /\ [][~(pc' = "top" /\ sleepInterval' = SleepLoops) =>
                          /\ SleepLeft' <= SleepLeft
                          /\ app_main => SleepLeft' < SleepLeft]_vars
<1>1. TypeOK => SleepLeft \in Nat
  <2> SUFFICES ASSUME TypeOK PROVE SleepLeft \in Nat
    OBVIOUS
  <2> DEFINE sk   == sleepInterval * PassLength
             left == PassLeft
  <2>1. sk \in Nat
    BY BoundAssumption, Passes DEF TypeOK, PassLength, Window
  <2>2. left \in Nat
    BY PassIsNat
  <2>3. SleepLeft = IF Running THEN sk + left ELSE 0
    BY DEF SleepLeft
  <2> HIDE DEF sk, left
  <2> QED BY <2>1, <2>2, <2>3
<1>2. TypeOK /\ TypeOK' /\ IntervalInv /\ CallerInv /\ [Next]_vars =>
        [~(pc' = "top" /\ sleepInterval' = SleepLoops) =>
           /\ SleepLeft' <= SleepLeft
           /\ app_main => SleepLeft' < SleepLeft]_vars
  BY SleepStep
<1> QED
  BY <1>1, <1>2, IntervalInit, IntervalStep, CallerInit, CallerStep, TypeInvariant, PTL
     DEF Spec

=============================================================================
