------------------------------ MODULE Irrigator ------------------------------
(***************************************************************************)
(* The irrigation controller: app_main's loop, the supervisor and vault    *)
(* functions it calls, and what runs beside it: the httpd task that stores *)
(* a posted configuration, the SNTP client that steps the clock and then   *)
(* calls timeUpdateNotif, resets, and deep sleep.                          *)
(*                                                                         *)
(* app_main is the variable pc; each action is a stretch of one pass that  *)
(* touches shared state once.  A bistable solenoid turns the water on and  *)
(* off: it moves when it is pulsed and keeps its position without power,   *)
(* which is why valve is not a field of the port.                          *)
(*                                                                         *)
(* Bounds (the code has none of them): MaxNow, MaxResets, MaxSyncs and     *)
(* MaxPosts.  The clock stops at MaxNow.                                   *)
(***************************************************************************)
EXTENDS PortSupervisor, Sequences

CONSTANTS
  FlowPeriod,     \* seconds of a flow window (60)
  SleepLoops,     \* passes before a sleep decision (3000)
  StationLoops,   \* passes left when a station is connected (1200)
  MaxSleep,       \* longest deep sleep, in seconds (3600)
  Litres,         \* what one flow window can add to flowLitresCurrent_u16
  Stations,       \* what isStationConnected can answer
  InitPort,       \* the port as provisioned in the vault
  PostIntervals,  \* what a POST can carry
  PostQuantities,
  SyncTimes,      \* what the time server can answer
  ClockStepsBack, \* can an answer be earlier than the clock?
  FlashErrors,    \* can a write to flash fail?
  MaxNow, MaxResets, MaxSyncs, MaxPosts

ASSUME BoundAssumption ==
  /\ FlowPeriod \in Nat /\ MaxSleep \in Nat /\ MaxNow \in Nat
  /\ MaxNow + MaxSleep < U32
  /\ SleepLoops \in Nat \ {0} /\ StationLoops \in 1 .. SleepLoops
  /\ MaxResets \in Nat /\ MaxSyncs \in Nat /\ MaxPosts \in Nat

ASSUME InputAssumption ==
  /\ Litres \subseteq Word16
  /\ Stations \subseteq BOOLEAN /\ Stations # {}
  /\ InitPort \in Port /\ InitPort.state = CLOSED
  /\ PostIntervals \subseteq Word32 /\ PostQuantities \subseteq Word16
  /\ SyncTimes \subseteq 0 .. MaxNow
  /\ ClockStepsBack \in BOOLEAN /\ FlashErrors \in BOOLEAN

VARIABLES
  now,           \* the system clock, in seconds
  valve,         \* where the solenoid really stands
  nvs,           \* the configuration in flash
  port,          \* portList[0]
  pc,            \* where app_main is; "off" and "asleep": no task runs
  caller,        \* who called updateSwitchTimes or setVaultData
  timeUpdated,   \* f_systemTimeUpdated
  sleepInterval,
  prevTicks,
  timeNow,       \* locals of updateSwitchTimes
  portSwitchTime,
  wifi,          \* what checkWifiState has done so far
  notify,        \* the clock was set and timeUpdateNotif is still to run
  wakeAt,        \* when the deep sleep timer fires
  hpc,           \* where the httpd task is
  post,          \* the configuration last posted, or restored at the restart
  config,        \* setVaultData's config[0], of each task
  copied,        \* the number of fields each task has copied into it
  resets, syncs, posts,   \* counted against the bounds
  known,         \* history: nothing made port.state wrong about the valve
  lastSlot,      \* history: switch time of the latest opening, if any
  restarted,     \* history: there was a restart since that opening
  overlap        \* history: main and httpd saved at once since the last post


solenoid == <<valve, known>>
clock    == <<now, notify, syncs>>
loop     == <<sleepInterval, prevTicks, wifi, wakeAt>>
locals   == <<timeNow, portSwitchTime>>
vault    == <<nvs, config, copied>>
http     == <<hpc, post, posts, overlap>>
slots    == <<lastSlot, restarted>>
vars     == <<port, pc, caller, timeUpdated, resets, solenoid, clock, loop,
              locals, vault, http, slots>>

-----------------------------------------------------------------------------
Running == pc \notin {"off", "asleep"}

Tasks   == {"main", "httpd"}
NoSlot  == -1
Posted  == [interval : PostIntervals, required : PostQuantities]
Configured(p) == [interval |-> p.interval, required |-> p.required]

(* The device is provisioned, and about to be switched on.                 *)
Init ==
  /\ now = 0 /\ notify = FALSE /\ syncs = 0
  /\ valve = CLOSED /\ known = TRUE
  /\ nvs = InitPort
  /\ config = [w \in Tasks |-> InitPort] /\ copied = [w \in Tasks |-> 0]
  /\ port = InitPort /\ pc = "off" /\ caller = "none" /\ timeUpdated = FALSE
  /\ sleepInterval = SleepLoops /\ prevTicks = 0 /\ wifi = "begin" /\ wakeAt = 0
  /\ timeNow = 0 /\ portSwitchTime = 0
  /\ hpc = "idle" /\ post = Configured(InitPort) /\ posts = 0 /\ resets = 0
  /\ lastSlot = NoSlot /\ restarted = FALSE /\ overlap = FALSE

(* Everything before app_main's loop.  RAM starts afresh: the port is what
   the vault holds, and nothing reads back where the solenoid stands.      *)
Restart ==
  /\ pc' = "top" /\ caller' = "none" /\ timeUpdated' = FALSE
  /\ port' = getVaultData(nvs)
  /\ sleepInterval' = SleepLoops /\ prevTicks' = 0 /\ wifi' = "begin" /\ wakeAt' = 0
  /\ timeNow' = 0 /\ portSwitchTime' = 0
  /\ config' = [w \in Tasks |-> InitPort] /\ copied' = [w \in Tasks |-> 0]
  /\ hpc' = "idle" /\ post' = Configured(nvs) /\ notify' = FALSE
  /\ known' = (nvs.state = valve) /\ restarted' = TRUE
  /\ overlap' = FALSE
  /\ UNCHANGED <<valve, nvs, syncs, posts, resets, lastSlot>>

Boot == pc = "off" /\ Restart /\ UNCHANGED now

(* The deep sleep timer fires and the chip starts; the clock kept running.  *)
Wake ==
  /\ pc = "asleep" /\ pc' = "off"
  /\ now' = (IF wakeAt < MaxNow THEN wakeAt ELSE MaxNow)
  /\ UNCHANGED <<port, caller, timeUpdated, resets, solenoid, notify, syncs, loop,
                 locals, vault, http, slots>>

-----------------------------------------------------------------------------
(* app_main                                                                *)

(* if (true == f_systemTimeUpdated)                                        *)
CheckFlag ==
  /\ pc = "top"
  /\ IF timeUpdated
     THEN pc' = "updateSwitchTimes" /\ caller' = "sync"
     ELSE pc' = "flow" /\ UNCHANGED caller
  /\ UNCHANGED <<port, timeUpdated, resets, solenoid, clock, loop, locals,
                 vault, http, slots>>

BugClosesWithoutPulse ==
  /\ pc = "updateSwitchTimes"
  /\ timeNow' = now /\ port' = Closed(port)
  /\ pc' = "catchUp" /\ portSwitchTime' = port.switch
  /\ UNCHANGED <<caller, timeUpdated, resets, solenoid, clock, loop, vault,
                 http, slots>>

BugLeavesOpen ==
  /\ pc = "updateSwitchTimes"
  /\ timeNow' = now /\ pc' = "catchUp" /\ portSwitchTime' = port.switch
  /\ UNCHANGED <<port, caller, timeUpdated, resets, solenoid, clock, loop, vault,
                 http, slots>>

(* updateSwitchTimes, up to the pulse that closes an open port.            *)
UpdateBegin ==
  /\ pc = "updateSwitchTimes"
  /\ timeNow' = now
  /\ \/ /\ port.state = OPEN
        /\ port' = Closed(port)
        /\ pc' = "updatePulse" /\ UNCHANGED portSwitchTime
     \/ /\ port.state = CLOSED
        /\ pc' = "catchUp" /\ portSwitchTime' = port.switch
        /\ UNCHANGED port
  /\ UNCHANGED <<caller, timeUpdated, resets, solenoid, clock, loop, vault,
                 http, slots>>

(* Bug: the slot just served is left to the catch-up loop.                 *)
BugKeepsTheSlot ==
  /\ pc = "updatePulse"
  /\ valve' = CLOSED /\ known' = TRUE
  /\ pc' = "catchUp" /\ portSwitchTime' = port.switch
  /\ UNCHANGED <<port, caller, timeUpdated, resets, clock, loop, timeNow, vault,
                 http, slots>>

(* ... closePort, then the switch time moves to the next slot.             *)
UpdatePulse ==
  /\ pc = "updatePulse"
  /\ valve' = CLOSED /\ known' = TRUE
  /\ port' = NextSlot(port)
  /\ pc' = "catchUp" /\ portSwitchTime' = NextSlot(port).switch
  /\ UNCHANGED <<caller, timeUpdated, resets, clock, loop, timeNow, vault,
                 http, slots>>

(* One iteration of the while loop; interval is read afresh each time.     *)
CatchUp ==
  /\ pc = "catchUp" /\ portSwitchTime < timeNow
  /\ portSwitchTime' = (portSwitchTime + port.interval) % U32
  /\ UNCHANGED <<port, pc, caller, timeUpdated, resets, solenoid, clock, loop,
                 timeNow, vault, http, slots>>

BugKeepsSleepInterval ==
  /\ pc = "catchUp" /\ portSwitchTime >= timeNow
  /\ port' = [port EXCEPT !.switch = portSwitchTime]
  /\ timeNow' = 0 /\ portSwitchTime' = 0
  /\ \/ caller = "sync" /\ pc' = "clearFlag" /\ UNCHANGED caller
     \/ caller = "sleep" /\ pc' = "top" /\ caller' = "none"
  /\ UNCHANGED <<timeUpdated, resets, solenoid, clock, loop, vault, http, slots>>

(* setSwitchTime and the return: to "f_systemTimeUpdated = false" or to the
   sleep branch's "sleepInterval = 3000".                                  *)
UpdateReturn ==
  /\ pc = "catchUp" /\ portSwitchTime >= timeNow
  /\ port' = [port EXCEPT !.switch = portSwitchTime]
  /\ timeNow' = 0 /\ portSwitchTime' = 0
  /\ \/ /\ caller = "sync"
        /\ pc' = "clearFlag" /\ UNCHANGED <<caller, sleepInterval>>
     \/ /\ caller = "sleep"
        /\ pc' = "top" /\ caller' = "none" /\ sleepInterval' = SleepLoops
  /\ UNCHANGED <<timeUpdated, resets, solenoid, clock, prevTicks, wifi, wakeAt,
                 vault, http, slots>>

(* The flag is cleared whether or not it was set again meanwhile.          *)
ClearFlag ==
  /\ pc = "clearFlag"
  /\ timeUpdated' = FALSE /\ pc' = "save"
  /\ UNCHANGED <<port, caller, resets, solenoid, clock, loop, locals, vault,
                 http, slots>>

(* The flow window; what it adds is FlowMeter's business.                  *)
Flow ==
  /\ pc = "flow" /\ pc' = "wifi"
  /\ IF (now - prevTicks) % U32 > FlowPeriod
     THEN \E litres \in Litres :
            /\ prevTicks' = now
            /\ port' = [port EXCEPT !.current = (@ + litres) % U16]
     ELSE UNCHANGED <<prevTicks, port>>
  /\ UNCHANGED <<caller, timeUpdated, resets, solenoid, clock, sleepInterval,
                 wifi, wakeAt, locals, vault, http, slots>>

(* checkWifiState: Begin on the first passes, obtain_time once connected.  *)
CheckWifi ==
  /\ pc = "wifi" /\ pc' = "check"
  /\ \/ wifi = "begin" /\ wifi' = "connecting"
     \/ wifi = "connecting" /\ wifi' = "connected"
     \/ UNCHANGED wifi
  /\ UNCHANGED <<port, caller, timeUpdated, resets, solenoid, clock,
                 sleepInterval, prevTicks, wakeAt, locals, vault, http, slots>>

(* runPortCheck's first condition, up to openPort.                         *)
CheckDue ==
  /\ pc = "check"
  /\ IF IsDue(port, now)
     THEN /\ port' = Opened(port) /\ pc' = "openPulse"
          /\ lastSlot' = port.switch /\ restarted' = FALSE
     ELSE pc' = "checkQuantity" /\ UNCHANGED <<port, slots>>
  /\ UNCHANGED <<caller, timeUpdated, resets, solenoid, clock, loop, locals,
                 vault, http>>

(* enableSolenoid                                                          *)
OpenPulse ==
  /\ pc = "openPulse" /\ pc' = "checkQuantity"
  /\ valve' = OPEN /\ known' = TRUE
  /\ UNCHANGED <<port, caller, timeUpdated, resets, clock, loop, locals, vault,
                 http, slots>>

(* runPortCheck's second condition, up to closePort.                       *)
CheckQuantity ==
  /\ pc = "checkQuantity"
  /\ IF QuantityMet(port)
     THEN port' = Closed(port) /\ pc' = "closePulse"
     ELSE pc' = "delay" /\ UNCHANGED port
  /\ UNCHANGED <<caller, timeUpdated, resets, solenoid, clock, loop, locals,
                 vault, http, slots>>

(* disableSolenoid and the next slot; app_main then saves the port.        *)
ClosePulse ==
  /\ pc = "closePulse"
  /\ valve' = CLOSED /\ known' = TRUE
  /\ port' = NextSlot(port)
  /\ pc' = "save" /\ caller' = "close"
  /\ UNCHANGED <<timeUpdated, resets, clock, loop, locals, vault, http, slots>>

(* The end of the pass: sleepInterval--, vTaskDelay, isStationConnected.   *)
Delay ==
  /\ pc = "delay"
  /\ \E connected \in Stations :
       sleepInterval' = IF connected THEN StationLoops ELSE sleepInterval - 1
  /\ pc' = (IF sleepInterval' = 0 THEN "sleep" ELSE "top")
  /\ UNCHANGED <<port, caller, timeUpdated, resets, solenoid, clock, prevTicks,
                 wifi, wakeAt, locals, vault, http, slots>>

(* if (0 == sleepInterval)                                                 *)
DeepSleep(duration) ==
  /\ pc' = "asleep" /\ wakeAt' = now + duration
  /\ UNCHANGED caller

BugIgnoresOverdue ==
  /\ pc = "sleep"
  /\ LET triggerTime == getNextPortTriggerTime(port) IN
       DeepSleep(IF triggerTime > now /\ triggerTime - now < MaxSleep
                 THEN triggerTime - now ELSE MaxSleep)
  /\ UNCHANGED <<port, timeUpdated, resets, solenoid, clock, sleepInterval,
                 prevTicks, wifi, locals, vault, http, slots>>

Sleep ==
  /\ pc = "sleep"
  /\ LET triggerTime == getNextPortTriggerTime(port) IN
       \/ /\ triggerTime > now /\ triggerTime - now < MaxSleep
          /\ DeepSleep(triggerTime - now)
       \/ /\ triggerTime < now
          /\ pc' = "updateSwitchTimes" /\ caller' = "sleep" /\ UNCHANGED wakeAt
       \/ /\ triggerTime = now \/ triggerTime - now >= MaxSleep
          /\ DeepSleep(MaxSleep)
  /\ UNCHANGED <<port, timeUpdated, resets, solenoid, clock, sleepInterval,
                 prevTicks, wifi, locals, vault, http, slots>>

-----------------------------------------------------------------------------
(* Vault::setVaultData, run by either task on the shared port list: the
   fields are read one at a time and nothing keeps the other task away.    *)

Fields == <<"state", "switch", "interval", "required", "current">>

Saving(w) == \/ w = "main"  /\ pc = "save"
             \/ w = "httpd" /\ hpc = "save" /\ Running

CopyField(w) ==
  /\ Saving(w) /\ copied[w] < Len(Fields)
  /\ LET f == Fields[copied[w] + 1] IN config' = [config EXCEPT ![w][f] = port[f]]
  /\ copied' = [copied EXCEPT ![w] = @ + 1]
  /\ overlap' = (overlap \/ (pc = "save" /\ hpc # "idle"))
  /\ UNCHANGED <<nvs, port, pc, caller, timeUpdated, resets, solenoid, clock,
                 loop, locals, hpc, post, posts, slots>>

(* nvs_write_chunk, whose errors nobody sees, and the return.  The sync block
   goes on to the flow window, the closing of a port to the end of the pass,
   updatePortConfig to httpd's answer.                                     *)
WriteChunk(w) ==
  /\ Saving(w) /\ copied[w] = Len(Fields)
  /\ nvs' = config[w] \/ (FlashErrors /\ nvs' = nvs)
  /\ config' = [config EXCEPT ![w] = InitPort] /\ copied' = [copied EXCEPT ![w] = 0]
  /\ \/ /\ w = "main" /\ caller' = "none" /\ UNCHANGED hpc
        /\ pc' = (IF caller = "sync" THEN "flow" ELSE "delay")
     \/ w = "httpd" /\ hpc' = "idle" /\ UNCHANGED <<pc, caller>>
  /\ UNCHANGED <<port, timeUpdated, resets, solenoid, clock, loop, locals,
                 post, posts, overlap, slots>>

-----------------------------------------------------------------------------
(* The httpd task: Supervisor::updatePortConfig, field by field.           *)

Post ==
  /\ Running /\ hpc = "idle" /\ posts < MaxPosts
  /\ post' \in Posted /\ posts' = posts + 1 /\ hpc' = "interval"
  /\ overlap' = FALSE
  /\ UNCHANGED <<port, pc, caller, timeUpdated, resets, solenoid, clock, loop,
                 locals, vault, slots>>

SetField(at, field, next) ==
  /\ Running /\ hpc = at /\ hpc' = next
  /\ port' = [port EXCEPT ![field] = post[field]]
  /\ UNCHANGED <<pc, caller, timeUpdated, resets, solenoid, clock, loop, locals,
                 vault, post, posts, overlap, slots>>

BugDoesNotSave == SetField("quantity", "required", "idle")

(* Bug: the save comes before the quantity.                                *)
BugSavesTooEarly == SetField("interval", "interval", "save")

SetInterval == SetField("interval", "interval", "quantity")
SetQuantity == SetField("quantity", "required", "save")

-----------------------------------------------------------------------------
(* The SNTP client, the clock, and loss of power.                          *)

(* settimeofday, at the first answer or an hour after the last one.        *)
SntpSet ==
  /\ Running /\ wifi = "connected" /\ ~notify /\ syncs < MaxSyncs
  /\ now' \in SyncTimes /\ (now' >= now \/ ClockStepsBack)
  /\ notify' = TRUE /\ syncs' = syncs + 1
  /\ UNCHANGED <<port, pc, caller, timeUpdated, resets, solenoid, loop, locals,
                 vault, http, slots>>

timeUpdateNotif ==
  /\ Running /\ notify /\ notify' = FALSE /\ timeUpdated' = TRUE
  /\ UNCHANGED <<port, pc, caller, resets, solenoid, now, syncs, loop, locals,
                 vault, http, slots>>

Tick ==
  /\ Running /\ now < MaxNow /\ now' = now + 1
  /\ UNCHANGED <<port, pc, caller, timeUpdated, resets, solenoid, notify, syncs,
                 loop, locals, vault, http, slots>>

(* A reset keeps the clock.  A power loss does not; it also ends a sleep.  *)
Reset ==
  /\ resets < MaxResets /\ resets' = resets + 1 /\ pc' = "off"
  /\ \/ Running /\ UNCHANGED now
     \/ pc # "off" /\ now' = 0
  /\ UNCHANGED <<port, caller, timeUpdated, solenoid, notify, syncs, loop,
                 locals, vault, http, slots>>

-----------------------------------------------------------------------------
Update  == UpdateBegin \/ UpdatePulse \/ CatchUp \/ UpdateReturn
runPortCheck == CheckDue \/ OpenPulse \/ CheckQuantity \/ ClosePulse

app_main == \/ CheckFlag \/ Update \/ ClearFlag \/ Flow \/ CheckWifi
            \/ runPortCheck \/ Delay \/ Sleep
            \/ CopyField("main") \/ WriteChunk("main")

httpd == SetInterval \/ SetQuantity \/ CopyField("httpd") \/ WriteChunk("httpd")

Next == \/ Boot \/ Wake \/ app_main \/ Post \/ httpd
        \/ SntpSet \/ timeUpdateNotif \/ Tick \/ Reset

Spec == Init /\ [][Next]_vars

(* The device without a client: the same, but for posts.                   *)
NextAlone == Boot \/ Wake \/ app_main \/ SntpSet \/ timeUpdateNotif \/ Tick \/ Reset
SpecAlone == Init /\ [][NextAlone]_vars

-----------------------------------------------------------------------------
(* Correctness                                                             *)

Pcs == { "off", "asleep", "top", "updateSwitchTimes", "updatePulse", "catchUp",
         "clearFlag", "save", "flow", "wifi", "check", "openPulse",
         "checkQuantity", "closePulse", "delay", "sleep" }

(* Every variable has its type.  In particular sleepInterval, which the loop
   decrements before it tests it for 0, never wraps: it is 0 only where the
   sleep decision is taken or just was, never at the top of a pass.        *)
TypeOK ==
  /\ now \in 0 .. MaxNow /\ notify \in BOOLEAN /\ syncs \in 0 .. MaxSyncs
  /\ valve \in PortState /\ known \in BOOLEAN
  /\ nvs \in Port /\ port \in Port
  /\ config \in [Tasks -> Port] /\ copied \in [Tasks -> 0 .. Len(Fields)]
  /\ pc \in Pcs /\ caller \in {"none", "sync", "sleep", "close"}
  /\ timeUpdated \in BOOLEAN
  /\ sleepInterval \in 0 .. SleepLoops
  /\ Running /\ sleepInterval = 0 =>
       \/ pc = "sleep"
       \/ pc \in {"updateSwitchTimes", "updatePulse", "catchUp"} /\ caller = "sleep"
  /\ prevTicks \in 0 .. MaxNow /\ timeNow \in 0 .. MaxNow
  /\ portSwitchTime \in Word32
  /\ wifi \in {"begin", "connecting", "connected"}
  /\ wakeAt \in 0 .. MaxNow + MaxSleep
  /\ hpc \in {"idle", "interval", "quantity", "save"}
  /\ post \in [interval : Word32, required : Word16]
  /\ posts \in 0 .. MaxPosts /\ resets \in 0 .. MaxResets
  /\ lastSlot \in Word32 \cup {NoSlot} /\ restarted \in BOOLEAN
  /\ overlap \in BOOLEAN

(* Where the solenoid stands according to portState_e: the state is written
   before the pulse that makes it true.                                    *)
Recorded == CASE pc = "openPulse"                     -> CLOSED
              [] pc \in {"updatePulse", "closePulse"} -> OPEN
              [] OTHER                                -> port.state

(* Once the firmware has moved the solenoid, or was restarted with a record
   that is right, the record stays right through synchronisations, sleep
   branches, port checks and posts, in whatever order they come.           *)
StateMirrorsValve == Running /\ known => valve = Recorded

(* While nobody posts, the flow meter shuts an open port: outside the check
   itself the port is short of the required quantity, and what it ever
   counts is less than the quantity plus one flow window.                  *)
OverrunBounded ==
  Running /\ port.state = OPEN =>
    /\ pc \notin {"wifi", "check", "checkQuantity"} => port.current < port.required
    /\ \E litres \in Litres \cup {1} : port.current < port.required + litres

(* While nobody posts, the vault never holds an OPEN port: every save of the
   main loop follows a closing.  Hence a restart believes the port closed,
   whatever the solenoid does.                                             *)
VaultHoldsClosed == nvs.state = CLOSED

(* A slot, named by its switch time, is opened once: as long as there was no
   restart, the next opening belongs to a later slot.  (An interval of 0
   leaves no later slot.)                                                  *)
SlotServedOnce ==
  [][port.state = CLOSED /\ port'.state = OPEN /\ pc = "check" =>
       restarted \/ lastSlot < port.switch]_vars

(* The schedule does not drift: every switch time, in RAM and in flash, is a
   whole number of intervals from the provisioned one, however late ports
   are opened or closed.                                                   *)
NoDrift ==
  \A p \in {port, nvs} : (p.switch - InitPort.switch) % InitPort.interval = 0

(* A slot nobody opened is passed over only when it is overdue: with a clock
   that does not step back, no slot still to come is lost.                 *)
OnlyOverdueSlotsDropped ==
  [][Running /\ pc # "closePulse" /\ pc # "updatePulse"
       /\ port'.switch # port.switch => port'.switch < now + port.interval]_vars

(* Deep sleep never oversleeps a slot that is still to come.               *)
NoSlotSleptThrough ==
  [][pc' = "asleep" /\ port.switch > now => wakeAt' <= port.switch]_vars

(* While nobody posts and the clock is not set back, the controller goes to
   sleep with the valve open in two cases only.  A port it opened itself has
   its slot in this very second (main.cpp:447-450).  Else the record says
   CLOSED over running water: there was a restart in mid-watering, and the
   port has not been opened for a slot since.                              *)
SleepsOpenInTwoCases ==
  [][pc' = "asleep" /\ valve = OPEN =>
       IF port.state = OPEN THEN port.switch = now ELSE restarted]_vars

(* What flash says about the schedule only moves forward, so that a restart
   does not bring back a slot whose closing was saved.                     *)
SavedScheduleAdvances == [][nvs'.switch >= nvs.switch]_vars

(* While nobody posts and no answer sets the clock back, the tasks with their
   records, pulses and copies keep the schedule as one valve would that is
   opened, closed and saved in single steps.                               *)
Mode     == IF Running THEN "up" ELSE pc
Watering == Running /\ Recorded = OPEN

Promise ==
  INSTANCE Irrigation WITH
    First <- InitPort.switch, Interval <- InitPort.interval, Horizon <- MaxNow,
    mode <- Mode, time <- now, serving <- Watering, water <- (valve = OPEN),
    slot <- port.switch, saved <- nvs.switch, alarm <- wakeAt

KeepsSchedule == Promise!Spec

(* A posted interval that httpd has answered for is in flash, unless the two
   tasks were saving at the same time since it was posted.                 *)
SettingsLostOnlyByOverlap ==
  Running /\ hpc = "idle" /\ ~overlap => nvs.interval = post.interval

-----------------------------------------------------------------------------
(* What the sources say of the program, and the code does not keep.        *)

(* portSupervisor.cpp:49 and :62, "shifting to using quantity as the OFF
   condition": a port is closed only when its quantity was met.            *)
QuantityIsTheOffCondition ==
  [][port.state = OPEN /\ port'.state = CLOSED /\ Running => QuantityMet(port)]_vars

(* portSupervisor.h:59, interval is the time "between consecutive port open
   events": a valve that was closed is next opened for a later slot.       *)
OneOpeningPerSlot ==
  [][port.state = CLOSED /\ port'.state = OPEN /\ pc = "check" /\ valve = CLOSED =>
       lastSlot < port.switch]_vars

(* http_server.cpp answers "Post control value successfully" once the
   observer returned: what it answered for is in flash.                    *)
AcknowledgedConfigIsSaved ==
  Running /\ hpc = "idle" => nvs.interval = post.interval

=============================================================================
