------------------------------- MODULE AppWifi -------------------------------
(***************************************************************************)
(* components/app_wifi and its one client, checkWifiState in main.cpp.     *)
(*                                                                         *)
(* Wifi::_state is written by the event task, in the order of the event    *)
(* queue, and by app_main in _init and Begin; _mutx orders those writes.   *)
(* GetState reads it without the mutex.  The radio is external: it posts   *)
(* what the ESP-IDF driver posts, to an event queue; so is the time server *)
(* obtain_time of sntp.cpp waits for, which may never answer.              *)
(*                                                                         *)
(* Bounds: MaxFailures failed attempts and lost links, MaxRefusals errors  *)
(* returned by the driver's functions.                                     *)
(***************************************************************************)
EXTENDS Naturals, Sequences

CONSTANTS RetryCount,  \* obtain_time's retry_count (10)
          MaxFailures, MaxRefusals

ASSUME WifiAssumption ==
  RetryCount \in Nat \ {0} /\ MaxFailures \in Nat /\ MaxRefusals \in Nat

VARIABLES
  state,         \* Wifi::_state
  mutx,          \* who holds Wifi::_mutx
  pc,            \* app_main
  prevState,     \* checkWifiState's static
  sntp,          \* obtain_time was called
  retry,         \* its rounds of waiting so far
  synced,        \* SNTP_SYNC_STATUS_COMPLETED
  queue,         \* events posted and not yet dispatched
  handling,      \* the event being dispatched
  radio,
  radioIsSlow,   \* does the loop see every state before the radio moves on?
  lostIpTimer,   \* runs from a disconnection until an address or LOST_IP
  failures, refusals

time == <<sntp, retry, synced>>
vars == <<state, mutx, pc, prevState, time, queue, handling, radio, radioIsSlow,
          lostIpTimer, failures, refusals>>

States == { "NOT_INITIALIZED", "INITIALIZED", "READY_TO_CONNECT", "CONNECTING",
            "WAITING_FOR_IP", "CONNECTED", "DISCONNECTED", "ERROR" }

Events == { "STA_START", "STA_CONNECTED", "STA_DISCONNECTED", "GOT_IP", "LOST_IP" }

Init ==
  /\ state = "NOT_INITIALIZED" /\ prevState = "NOT_INITIALIZED" /\ mutx = "none"
  /\ pc = "init" /\ sntp = FALSE /\ retry = 0 /\ synced = FALSE
  /\ queue = <<>> /\ handling = "none"
  /\ radio = "stopped" /\ radioIsSlow \in BOOLEAN /\ lostIpTimer = FALSE
  /\ failures = 0 /\ refusals = 0

-----------------------------------------------------------------------------
(* app_main: Init, and checkWifiState once in each pass of the loop.       *)

Lock(who) == mutx = "none" /\ mutx' = who
Unlock(who) == mutx = who /\ mutx' = "none"

(* An error of the driver, which every caller ignores.                     *)
Refuse == refusals < MaxRefusals /\ refusals' = refusals + 1

(* _init takes the mutex and starts the driver, which posts STA_START, or
   gives up at the first error ...                                         *)
StartWifi ==
  /\ pc = "init" /\ Lock("app_main")
  /\ \/ /\ pc' = "starting" /\ UNCHANGED refusals
        /\ radio' = "idle" /\ queue' = Append(queue, "STA_START")
     \/ pc' = "release" /\ Refuse /\ UNCHANGED <<radio, queue>>
  /\ UNCHANGED <<state, prevState, time, handling, radioIsSlow, lostIpTimer,
                 failures>>

(* ... and leaves INITIALIZED behind before it releases the mutex.         *)
FinishInit ==
  /\ pc = "starting" /\ pc' = "loop"
  /\ state' = "INITIALIZED"
  /\ Unlock("app_main")
  /\ UNCHANGED <<prevState, time, queue, handling, radio, radioIsSlow,
                 lostIpTimer, failures, refusals>>

(* Bug: a lost link is not taken up again.                                 *)
BugBeginsOnce(s) == CASE s = "READY_TO_CONNECT" -> "begin"
                      [] s = "CONNECTED"        -> "obtain"
                      [] OTHER                  -> "loop"

(* What checkWifiState does about a state: Begin, obtain_time or nothing.  *)
ActOn(s) == CASE s \in {"READY_TO_CONNECT", "DISCONNECTED"} -> "begin"
              [] s = "CONNECTED"                            -> "obtain"
              [] OTHER                                      -> "loop"

(* checkWifiState: something is done only when the state changed since the
   last pass.                                                              *)
CheckState ==
  /\ pc = "loop" /\ state # prevState
  /\ prevState' = state /\ pc' = ActOn(state)
  /\ UNCHANGED <<state, mutx, time, queue, handling, radio, radioIsSlow,
                 lostIpTimer, failures, refusals>>

(* obtain_time starts the client, or starts it again ...                   *)
obtain_time ==
  /\ pc = "obtain" /\ pc' = "waiting"
  /\ sntp' = TRUE /\ retry' = 0
  /\ UNCHANGED <<state, mutx, prevState, synced, queue, handling, radio,
                 radioIsSlow, lostIpTimer, failures, refusals>>

(* Bug: it waits for the answer.                                           *)
BugWaitsForAnswer ==
  /\ pc = "waiting"
  /\ \/ synced /\ synced' = FALSE /\ pc' = "loop"
     \/ ~synced /\ UNCHANGED <<synced, pc>>
  /\ UNCHANGED <<state, mutx, prevState, sntp, retry, queue, handling, radio,
                 radioIsSlow, lostIpTimer, failures, refusals>>

(* ... and keeps app_main for rounds of two seconds until the status, which
   reading clears, says that an answer came or the rounds are used up.      *)
AwaitTime ==
  /\ pc = "waiting" /\ synced' = FALSE
  /\ IF ~synced /\ retry + 1 < RetryCount
     THEN retry' = retry + 1 /\ UNCHANGED pc
     ELSE retry' = 0 /\ pc' = "loop"
  /\ UNCHANGED <<state, mutx, prevState, sntp, queue, handling, radio,
                 radioIsSlow, lostIpTimer, failures, refusals>>

(* Begin takes the mutex and looks at the state again ...                  *)
BeginLock ==
  /\ pc = "begin" /\ Lock("app_main")
  /\ pc' = (IF state \in {"READY_TO_CONNECT", "DISCONNECTED"} THEN "connect"
            ELSE "release")
  /\ UNCHANGED <<state, prevState, time, queue, handling, radio, radioIsSlow,
                 lostIpTimer, failures, refusals>>

(* Bug: the mutex is not released when esp_wifi_connect fails.             *)
BugKeepsMutex ==
  /\ pc = "connect"
  /\ \/ radio = "idle" /\ radio' = "connecting" /\ pc' = "connecting"
        /\ UNCHANGED refusals
     \/ pc' = "loop" /\ Refuse /\ UNCHANGED radio
  /\ UNCHANGED <<state, mutx, prevState, time, queue, handling, radioIsSlow,
                 lostIpTimer, failures>>

(* ... calls esp_wifi_connect ...                                          *)
Connect ==
  /\ pc = "connect"
  /\ \/ radio = "idle" /\ radio' = "connecting" /\ pc' = "connecting"
        /\ UNCHANGED refusals
     \/ pc' = "release" /\ Refuse /\ UNCHANGED radio
  /\ UNCHANGED <<state, mutx, prevState, time, queue, handling, radioIsSlow,
                 lostIpTimer, failures>>

(* ... and records CONNECTING, the mutex still held.                       *)
SetConnecting ==
  /\ pc = "connecting" /\ pc' = "release"
  /\ state' = "CONNECTING"
  /\ UNCHANGED <<mutx, prevState, time, queue, handling, radio, radioIsSlow,
                 lostIpTimer, failures, refusals>>

EndBegin ==
  /\ pc = "release" /\ pc' = "loop"
  /\ Unlock("app_main")
  /\ UNCHANGED <<state, prevState, time, queue, handling, radio, radioIsSlow,
                 lostIpTimer, failures, refusals>>

-----------------------------------------------------------------------------
(* The event task.                                                         *)

Dispatch ==
  /\ handling = "none" /\ queue # <<>>
  /\ handling' = Head(queue) /\ queue' = Tail(queue)
  /\ UNCHANGED <<state, mutx, pc, prevState, time, radio, radioIsSlow,
                 lostIpTimer, failures, refusals>>

(* Bug: every address lost means a link that waits for one.                *)
BugHidesDisconnection(event) ==
  CASE event = "STA_START"        -> "READY_TO_CONNECT"
    [] event = "STA_DISCONNECTED" -> "DISCONNECTED"
    [] event = "GOT_IP"           -> "CONNECTED"
    [] OTHER                      -> "WAITING_FOR_IP"

(* The state an event leaves behind; a LOST_IP does not hide a disconnection. *)
StateAfter(event) ==
  CASE event = "STA_START"        -> "READY_TO_CONNECT"
    [] event = "STA_CONNECTED"    -> "WAITING_FOR_IP"
    [] event = "STA_DISCONNECTED" -> "DISCONNECTED"
    [] event = "GOT_IP"           -> "CONNECTED"
    [] event = "LOST_IP"          ->
         IF state = "DISCONNECTED" THEN state ELSE "WAITING_FOR_IP"

(* Bug: the handlers do not take the mutex.                                *)
BugUnlocked ==
  /\ handling # "none" /\ handling' = "none"
  /\ state' = StateAfter(handling)
  /\ UNCHANGED <<mutx, pc, prevState, time, queue, radio, radioIsSlow,
                 lostIpTimer, failures, refusals>>

(* wifi_event_handler and ip_event_handler, under the mutex.               *)
Handle ==
  /\ handling # "none" /\ handling' = "none"
  /\ mutx = "none"
  /\ state' = StateAfter(handling)
  /\ UNCHANGED <<mutx, pc, prevState, time, queue, radio, radioIsSlow,
                 lostIpTimer, failures, refusals>>

-----------------------------------------------------------------------------
(* The radio.  A slow one lets every state be seen before its next move.   *)

Seen == queue = <<>> /\ handling = "none" /\ prevState = state /\ pc = "loop"

RadioStep(event) ==
  /\ radioIsSlow => Seen
  /\ queue' = Append(queue, event)
  /\ UNCHANGED <<state, mutx, pc, prevState, time, handling, radioIsSlow,
                 refusals>>

Associate ==
  /\ radio = "connecting" /\ radio' = "associated"
  /\ RadioStep("STA_CONNECTED") /\ UNCHANGED <<lostIpTimer, failures>>

GetAddress ==
  /\ radio = "associated" /\ radio' = "online" /\ lostIpTimer' = FALSE
  /\ RadioStep("GOT_IP") /\ UNCHANGED failures

(* A failed attempt or a lost link; the latter starts the LOST_IP timer.   *)
Disconnect ==
  /\ radio \in {"connecting", "associated", "online"} /\ radio' = "idle"
  /\ failures < MaxFailures /\ failures' = failures + 1
  /\ lostIpTimer' = (lostIpTimer \/ radio = "online")
  /\ RadioStep("STA_DISCONNECTED")

LoseAddress ==
  /\ lostIpTimer /\ lostIpTimer' = FALSE
  /\ RadioStep("LOST_IP") /\ UNCHANGED <<radio, failures>>

-----------------------------------------------------------------------------
(* The time server answers, at once, late or never.                        *)
Answer ==
  /\ sntp /\ radio = "online" /\ ~synced /\ synced' = TRUE
  /\ UNCHANGED <<state, mutx, pc, prevState, sntp, retry, queue, handling, radio,
                 radioIsSlow, lostIpTimer, failures, refusals>>

Begin    == BeginLock \/ Connect \/ SetConnecting \/ EndBegin
app_main == \/ StartWifi \/ FinishInit
            \/ CheckState \/ Begin \/ obtain_time \/ AwaitTime
events   == Dispatch \/ Handle
Radio    == Associate \/ GetAddress \/ Disconnect \/ LoseAddress

(* A loop with nothing to do goes round: it is not stuck.                  *)
Idle == pc = "loop" /\ state = prevState /\ UNCHANGED vars

Next == app_main \/ events \/ Radio \/ Answer \/ Idle

Spec == Init /\ [][Next]_vars

(* Both tasks run; the radio answers an attempt and gets an address.       *)
FairSpec == /\ Spec
            /\ WF_vars(app_main) /\ WF_vars(events)
            /\ WF_vars(Associate) /\ WF_vars(GetAddress)

-----------------------------------------------------------------------------
(* Types; ERROR is never entered, and app_main holds the mutex exactly in the
   stretches that _init and Begin guard.                                   *)
TypeOK ==
  /\ state \in States \ {"ERROR"} /\ prevState \in States \ {"ERROR"}
  /\ mutx = IF pc \in {"starting", "connect", "connecting", "release"}
            THEN "app_main" ELSE "none"
  /\ pc \in {"init", "starting", "loop", "begin", "connect", "connecting", "release",
             "obtain", "waiting"}
  /\ sntp \in BOOLEAN /\ synced \in BOOLEAN /\ retry \in 0 .. RetryCount
  /\ queue \in Seq(Events) /\ handling \in Events \cup {"none"}
  /\ radio \in {"stopped", "idle", "connecting", "associated", "online"}
  /\ radioIsSlow \in BOOLEAN /\ lostIpTimer \in BOOLEAN
  /\ failures \in 0 .. MaxFailures /\ refusals \in 0 .. MaxRefusals

Coming == {handling} \cup {queue[i] : i \in DOMAIN queue}

(* A state that waits for an event has that event coming: it was not already
   handled and then overwritten by INITIALIZED, CONNECTING or a late LOST_IP. *)
WaitingIsAnswered ==
  /\ state = "INITIALIZED" => "STA_START" \in Coming
  /\ state = "CONNECTING" =>
       \/ radio = "connecting"
       \/ Coming \cap {"STA_CONNECTED", "STA_DISCONNECTED"} # {}
  /\ state = "WAITING_FOR_IP" =>
       \/ radio \in {"connecting", "associated"}
       \/ Coming \cap {"STA_CONNECTED", "STA_DISCONNECTED", "GOT_IP"} # {}

(* When every event was handled, the state is the radio's: CONNECTED is never
   left over from a link that is gone.                                     *)
StateIsTheRadios ==
  queue = <<>> /\ handling = "none" /\ mutx = "none" =>
    CASE radio = "stopped"    -> state = "NOT_INITIALIZED"
      [] radio = "idle"       -> state \in {"READY_TO_CONNECT", "DISCONNECTED"}
      [] radio = "connecting" -> state \in {"CONNECTING", "WAITING_FOR_IP"}
      [] radio = "associated" -> state = "WAITING_FOR_IP"
      [] radio = "online"     -> state = "CONNECTED"

(* With a radio the loop keeps up with and no refused call the controller gets
   on line and, when links stop failing, stays there.                      *)
EventuallyOnline ==
  radioIsSlow /\ [](refusals = 0) =>
    <>[](state = "CONNECTED" /\ radio = "online" /\ sntp)

(* Neither the mutex nor a time server that never answers keeps app_main, and
   with it an open port, for ever.                                         *)
LoopGoesOn == []<>(pc = "loop")

=============================================================================
