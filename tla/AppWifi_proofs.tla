---------------------------- MODULE AppWifi_proofs ----------------------------
(***************************************************************************)
(* Proofs about AppWifi, for every number of failures and refused calls    *)
(* and for every order of the two tasks and the radio.                     *)
(***************************************************************************)
EXTENDS AppWifi, SequenceTheorems, TLAPS

(* The driver's functions and the handlers keep the types ...              *)
LEMMA WifiTypeInit == Init => TypeOK
<1>1. RetryCount \in Nat /\ MaxFailures \in Nat /\ MaxRefusals \in Nat
  BY WifiAssumption DEF WifiAssumption
<1>2. 0 \in 0 .. RetryCount /\ 0 \in 0 .. MaxFailures /\ 0 \in 0 .. MaxRefusals
  BY <1>1
<1> SUFFICES ASSUME Init PROVE TypeOK
  OBVIOUS
<1>3. queue \in Seq(Events)
  BY DEF Init
<1> QED BY <1>2, <1>3, Zenon DEF Init, TypeOK, States, Events

(* ... and app_main takes and gives back the mutex where _init and Begin do. *)
LEMMA WifiTypeStep == TypeOK /\ [Next]_vars => TypeOK'
<1> SUFFICES ASSUME TypeOK, [Next]_vars PROVE TypeOK'
  OBVIOUS
<1> USE WifiAssumption DEF TypeOK, States, Events, time, WifiAssumption
<1>1. CASE StartWifi
  BY <1>1 DEF StartWifi, Lock, Refuse
<1>2. CASE FinishInit
  BY <1>2 DEF FinishInit, Unlock
<1>3. CASE CheckState
  BY <1>3 DEF CheckState, ActOn
<1>4. CASE obtain_time
  BY <1>4 DEF obtain_time
<1>5. CASE AwaitTime
  <2>1. retry' \in 0 .. RetryCount
    <3>1. RetryCount \in Nat /\ retry \in Nat /\ retry <= RetryCount
      OBVIOUS
    <3>2. retry' = 0 \/ (retry + 1 < RetryCount /\ retry' = retry + 1)
      BY <1>5 DEF AwaitTime
    <3> QED BY <3>1, <3>2
  <2>2. mutx = "none" /\ pc' \in {"waiting", "loop"} /\ synced' = FALSE
    BY <1>5 DEF AwaitTime
  <2>3. UNCHANGED <<state, mutx, prevState, sntp, queue, handling, radio,
                    radioIsSlow, lostIpTimer, failures, refusals>>
    BY <1>5 DEF AwaitTime
  <2>4. sntp' \in BOOLEAN /\ synced' \in BOOLEAN
    BY <2>2, <2>3
  <2>5. radioIsSlow' \in BOOLEAN /\ lostIpTimer' \in BOOLEAN
    BY <2>3
  <2>6. UNCHANGED <<state, mutx, prevState, queue, handling, radio, failures, refusals>>
    BY <2>3
  <2> QED BY <2>1, <2>2, <2>4, <2>5, <2>6
<1>6. CASE BeginLock
  BY <1>6 DEF BeginLock, Lock
<1>7. CASE Connect
  BY <1>7 DEF Connect, Refuse
<1>8. CASE SetConnecting
  BY <1>8 DEF SetConnecting
<1>9. CASE EndBegin
  BY <1>9 DEF EndBegin, Unlock
<1>10. CASE Dispatch
  <2>1. Head(queue) \in Events /\ Tail(queue) \in Seq(Events)
    BY <1>10 DEF Dispatch
  <2> QED BY <1>10, <2>1 DEF Dispatch
<1>11. CASE Handle
  BY <1>11 DEF Handle, StateAfter
<1>12. ASSUME NEW event \in Events, RadioStep(event),
              lostIpTimer' \in BOOLEAN, failures' \in 0 .. MaxFailures,
              radio' \in {"idle", "associated", "online"} \cup {radio}
       PROVE  TypeOK'
  <2>1. queue' \in Seq(Events)
    BY <1>12 DEF RadioStep
  <2> QED BY <1>12, <2>1 DEF RadioStep
<1>13. CASE Associate
  BY <1>12, <1>13 DEF Associate
<1>14. CASE GetAddress
  BY <1>12, <1>14 DEF GetAddress
<1>15. CASE Disconnect
  BY <1>12, <1>15 DEF Disconnect
<1>16. CASE LoseAddress
  BY <1>12, <1>16 DEF LoseAddress
<1>17. CASE Answer
  BY <1>17 DEF Answer
<1>18. CASE Idle \/ UNCHANGED vars
  BY <1>18 DEF Idle, vars
<1> QED
  BY <1>1, <1>2, <1>3, <1>4, <1>5, <1>6, <1>7, <1>8, <1>9, <1>10, <1>11, <1>13,
     <1>14, <1>15, <1>16, <1>17, <1>18
     DEF Next, app_main, Begin, events, Radio

(* Every variable keeps its type; in particular no state of _init, Begin or a
   handler is ERROR, and each path of Begin, errors of the driver included,
   gives the mutex back (app_wifi.cpp:97-126).                             *)
THEOREM WifiTypeInvariant == Spec => []TypeOK
BY WifiTypeInit, WifiTypeStep, PTL DEF Spec

-----------------------------------------------------------------------------
(* The events on their way, by place; the one being handled is the first.  *)

Places == 0 .. Len(queue)
At(i)  == IF i = 0 THEN handling ELSE queue[i]

(* What can be on its way behind an event: no attempt of Begin is made before
   the last event of the one before it was handled, while a LOST_IP can come
   from a link of any time ago.                                            *)
Behind(event) ==
  CASE event = "STA_START"        -> {}
    [] event = "STA_CONNECTED"    -> {"GOT_IP", "STA_DISCONNECTED", "LOST_IP"}
    [] event = "GOT_IP"           -> {"STA_DISCONNECTED", "LOST_IP"}
    [] event = "STA_DISCONNECTED" -> {"LOST_IP"}
    [] event = "LOST_IP"          -> Events \ {"STA_START"}
    [] OTHER                      -> Events

InOrder == \A i, j \in Places : i < j => At(j) \in Behind(At(i))

AddressLast == \A i \in Places : At(i) = "GOT_IP" => i = Len(queue)

CanBegin == {"READY_TO_CONNECT", "DISCONNECTED"}

(* Where app_main can be, and what is still to come then.                  *)
LoopInv ==
  /\ pc = "init" => radio = "stopped"
  /\ pc = "starting" => "STA_START" \in Coming
  /\ pc = "connect" => state \in CanBegin
  /\ pc = "connecting" =>
       radio = "connecting" \/ Coming \cap {"STA_CONNECTED", "STA_DISCONNECTED"} # {}

(* What is still to come, for each state of the radio, and what was handled. *)
RadioInv ==
  /\ radio = "stopped" =>
       /\ pc \in {"init", "release", "loop"} /\ state = "NOT_INITIALIZED"
       /\ Coming = {"none"} /\ ~lostIpTimer
  /\ radio = "idle" =>
       \/ {"STA_START", "STA_DISCONNECTED"} \cap Coming # {}
       \/ state = "DISCONNECTED" /\ Coming \subseteq {"LOST_IP", "none"}
       \/ state = "READY_TO_CONNECT" /\ Coming = {"none"} /\ ~lostIpTimer
  /\ radio = "connecting" =>
       /\ Coming \subseteq {"LOST_IP", "none"}
       /\ pc = "connecting" \/ state \in {"CONNECTING", "WAITING_FOR_IP"}
  /\ radio = "associated" =>
       /\ Coming \subseteq {"STA_CONNECTED", "LOST_IP", "none"}
       /\ \/ "STA_CONNECTED" \in Coming
          \/ state = "WAITING_FOR_IP" /\ pc # "connecting"
  /\ radio = "online" =>
       /\ Coming \subseteq {"STA_CONNECTED", "GOT_IP", "LOST_IP", "none"}
       /\ \/ "GOT_IP" \in Coming
          \/ Coming = {"none"} /\ state = "CONNECTED"
       /\ AddressLast /\ ~lostIpTimer
  /\ radio \in {"associated", "online"} => pc = "connecting" \/ state \notin CanBegin

(* A start or a disconnection that is still to come is the radio's last word. *)
LastWord ==
  /\ "STA_START" \in Coming =>
       /\ radio = "idle" /\ ~lostIpTimer /\ Coming \subseteq {"STA_START", "none"}
       /\ state \in {"NOT_INITIALIZED", "INITIALIZED"}
  /\ "STA_DISCONNECTED" \in Coming =>
       radio = "idle" /\ (pc = "connecting" \/ state \notin CanBegin)

WifiInv == InOrder /\ LoopInv /\ RadioInv /\ LastWord /\ WaitingIsAnswered

(* What is to come is what is in the places.                               *)
LEMMA ComingIsThere ==
  ASSUME TypeOK
  PROVE  /\ Len(queue) \in Nat /\ queue \in [1 .. Len(queue) -> Events]
         /\ Coming = {At(i) : i \in Places}
         /\ \A i \in Places : At(i) \in Events \cup {"none"}
<1>1. Len(queue) \in Nat /\ queue \in [1 .. Len(queue) -> Events]
      /\ DOMAIN queue = 1 .. Len(queue)
  BY LenProperties DEF TypeOK
<1>2. \A i \in Places : At(i) \in Events \cup {"none"}
  BY <1>1 DEF Places, At, TypeOK
<1>3. Coming = {At(i) : i \in Places}
  BY <1>1 DEF Places, At, Coming
<1> QED BY <1>1, <1>2, <1>3

(* A step that leaves the events alone.                                    *)
LEMMA NothingMoves ==
  ASSUME UNCHANGED <<queue, handling>>
  PROVE  /\ Coming' = Coming /\ InOrder' = InOrder /\ AddressLast' = AddressLast
<1>1. Coming' = Coming
  BY DEF Coming
<1>2. InOrder' = InOrder
  BY DEF InOrder, Places, At, Behind, Events
<1>3. AddressLast' = AddressLast
  BY DEF AddressLast, Places, At
<1> QED BY <1>1, <1>2, <1>3

(* An event goes from the queue to its handler.                            *)
LEMMA Dispatches ==
  ASSUME TypeOK, Dispatch
  PROVE  /\ \A e \in Events : e \in Coming' <=> e \in Coming
         /\ Coming' \subseteq Events \cup {"none"} /\ Coming # {"none"}
         /\ InOrder => InOrder'
         /\ AddressLast => AddressLast'
<1>1. /\ handling = "none" /\ queue # <<>> /\ queue \in Seq(Events)
      /\ handling' = Head(queue) /\ queue' = Tail(queue)
  BY DEF Dispatch, TypeOK
<1>2. Len(queue) \in Nat \ {0} /\ queue' \in Seq(Events)
  BY <1>1
<1>3. Len(queue') = Len(queue) - 1 /\ handling' = queue[1]
      /\ \A i \in 1 .. Len(queue) - 1 : queue'[i] = queue[i + 1]
  BY <1>1, <1>2
<1>4. \A i \in Places' : i + 1 \in Places /\ At(i)' = At(i + 1)
  BY <1>2, <1>3 DEF Places, At
<1>5. At(0) = "none" /\ 0 \in Places
  BY <1>1, <1>2 DEF At, Places
<1>6. \A i \in Places : i # 0 => i - 1 \in Places' /\ At(i - 1)' = At(i)
  BY <1>2, <1>3, <1>4 DEF Places
<1>7. Coming = {At(i) : i \in Places}
  BY ComingIsThere
<1>8. Coming' = {At(i)' : i \in Places'}
  <2>1. DOMAIN queue' = 1 .. Len(queue')
    BY <1>2, LenProperties
  <2> QED BY <1>2, <1>3, <2>1 DEF Coming, Places, At
<1>9. \A e \in Events : e \in Coming' <=> e \in Coming
  BY <1>4, <1>5, <1>6, <1>7, <1>8 DEF Events
<1>10. Coming' \subseteq Events \cup {"none"}
  BY <1>4, <1>8, ComingIsThere
<1>11. Coming # {"none"}
  <2>1. queue[1] \in Events /\ 1 \in Places /\ At(1) = queue[1]
    BY <1>1, <1>2, ElementOfSeq DEF At, Places
  <2> QED BY <1>7, <2>1 DEF Events
<1>12. InOrder => InOrder'
  <2> SUFFICES ASSUME InOrder, NEW i \in Places', NEW j \in Places', i < j
               PROVE  At(j)' \in Behind(At(i)')
    BY DEF InOrder, Behind, Events
  <2>1. i + 1 \in Places /\ j + 1 \in Places /\ i + 1 < j + 1
    BY <1>4, <1>2, <1>3 DEF Places
  <2> QED BY <1>4, <2>1 DEF InOrder
<1>13. AddressLast => AddressLast'
  <2> SUFFICES ASSUME AddressLast, NEW i \in Places', At(i)' = "GOT_IP"
               PROVE  i = Len(queue')
    BY DEF AddressLast
  <2>1. i + 1 = Len(queue)
    BY <1>4 DEF AddressLast
  <2> QED BY <1>2, <1>3, <2>1 DEF Places
<1> QED BY <1>9, <1>10, <1>11, <1>12, <1>13

(* An event is handled; what remains came behind it.                       *)
LEMMA Handles ==
  ASSUME TypeOK, InOrder, Handle
  PROVE  /\ handling \in Events /\ handling \in Coming
         /\ "none" \in Coming' /\ Coming \subseteq Coming' \cup {handling}
         /\ Coming' \subseteq (Coming \cap Behind(handling)) \cup {"none"}
         /\ InOrder' /\ (AddressLast => AddressLast')
         /\ (AddressLast /\ handling = "GOT_IP" => Coming' = {"none"})
<1>1. handling \in Events /\ handling' = "none" /\ queue' = queue
  BY DEF Handle, TypeOK
<1>2. Len(queue) \in Nat /\ Places' = Places /\ 0 \in Places
  BY <1>1, ComingIsThere DEF Places
<1>3. At(0) = handling /\ At(0)' = "none"
      /\ \A i \in Places : i # 0 => At(i)' = At(i)
  BY <1>1, <1>2 DEF At, Places
<1>4. Coming = {At(i) : i \in Places}
  BY ComingIsThere
<1>5. Coming' = {At(i)' : i \in Places}
  <2>1. DOMAIN queue' = 1 .. Len(queue')
    BY <1>1, ComingIsThere
  <2> QED BY <1>1, <1>2, <2>1 DEF Coming, Places, At
<1>6. \A i \in Places : i # 0 => At(i) \in Behind(handling)
  BY <1>2, <1>3 DEF InOrder, Places
<1>7. handling \in Coming /\ "none" \in Coming'
  BY <1>2, <1>3, <1>4, <1>5
<1>8. Coming \subseteq Coming' \cup {handling}
  BY <1>2, <1>3, <1>4, <1>5
<1>9. Coming' \subseteq (Coming \cap Behind(handling)) \cup {"none"}
  BY <1>2, <1>3, <1>4, <1>5, <1>6
<1>10. InOrder'
  <2> SUFFICES ASSUME NEW i \in Places, NEW j \in Places, i < j
               PROVE  At(j)' \in Behind(At(i)')
    BY <1>2 DEF InOrder, Behind, Events
  <2>1. j # 0 /\ At(j)' = At(j) /\ At(j) \in Behind(At(i))
    BY <1>2, <1>3 DEF Places, InOrder
  <2>2. CASE i = 0
    BY <1>3, <1>6, <2>1, <2>2 DEF Behind, Events
  <2>3. CASE i # 0
    BY <1>3, <2>1, <2>3
  <2> QED BY <2>2, <2>3
<1>11. AddressLast => AddressLast'
  BY <1>1, <1>2, <1>3 DEF AddressLast
<1>12. AddressLast /\ handling = "GOT_IP" => Coming' = {"none"}
  <2> SUFFICES ASSUME AddressLast, handling = "GOT_IP" PROVE Coming' = {"none"}
    OBVIOUS
  <2>1. Len(queue) = 0
    BY <1>2, <1>3 DEF AddressLast
  <2>2. Places = {0}
    BY <2>1 DEF Places
  <2> QED BY <1>3, <1>5, <2>2
<1> QED BY <1>1, <1>7, <1>8, <1>9, <1>10, <1>11, <1>12

(* An event is posted behind all the others.                               *)
LEMMA Posts ==
  ASSUME TypeOK, NEW event \in Events, queue' = Append(queue, event),
         handling' = handling
  PROVE  /\ Coming' = Coming \cup {event}
         /\ InOrder /\ (\A e \in Coming : event \in Behind(e)) => InOrder'
         /\ "GOT_IP" \notin Coming => AddressLast'
<1>1. Len(queue) \in Nat /\ queue \in Seq(Events)
  BY ComingIsThere DEF TypeOK
<1>last. PICK last \in Nat : last = Len(queue) + 1
  BY <1>1
<1>2. /\ queue' \in Seq(Events) /\ Len(queue') = last
      /\ \A i \in 1 .. Len(queue) : queue'[i] = queue[i]
      /\ queue'[last] = event
  BY <1>1, <1>last
<1>3. Places' = Places \cup {last}
  BY <1>1, <1>last, <1>2 DEF Places
<1>4. (\A i \in Places : At(i)' = At(i)) /\ At(last)' = event
  BY <1>1, <1>last, <1>2 DEF Places, At
<1>5. Coming = {At(i) : i \in Places}
  BY ComingIsThere
<1>6. Coming' = {At(i)' : i \in Places'}
  <2>1. DOMAIN queue' = 1 .. last
    BY <1>2, LenProperties
  <2> QED BY <1>1, <1>last, <1>2, <2>1 DEF Coming, Places, At
<1>7. Coming' = Coming \cup {event}
  BY <1>3, <1>4, <1>5, <1>6
<1>8. ASSUME InOrder, \A e \in Coming : event \in Behind(e) PROVE InOrder'
  <2> SUFFICES ASSUME NEW i \in Places', NEW j \in Places', i < j
               PROVE  At(j)' \in Behind(At(i)')
    BY DEF InOrder, Behind, Events
  <2>1. i \in Places
    BY <1>1, <1>last, <1>2 DEF Places
  <2>2. CASE j = last
    <3>1. At(j)' = event /\ At(i)' = At(i) /\ At(i) \in Coming
      BY <1>4, <1>5, <2>1, <2>2
    <3> QED BY <1>8, <3>1
  <2>3. CASE j # last
    BY <1>3, <1>4, <1>8, <2>1, <2>3 DEF InOrder
  <2> QED BY <2>2, <2>3
<1>9. ASSUME "GOT_IP" \notin Coming PROVE AddressLast'
  BY <1>2, <1>3, <1>4, <1>5, <1>9 DEF AddressLast
<1> QED BY <1>7, <1>8, <1>9

-----------------------------------------------------------------------------
(* Nothing is to come before _init ...                                     *)
LEMMA WifiInvInit == Init => WifiInv
<1> SUFFICES ASSUME Init PROVE WifiInv
  OBVIOUS
<1>1. queue = <<>> /\ handling = "none" /\ state = "NOT_INITIALIZED" /\ pc = "init"
      /\ radio = "stopped" /\ lostIpTimer = FALSE
  BY DEF Init
<1>2. Coming = {"none"} /\ Places = {0}
  BY <1>1 DEF Coming, Places
<1> QED
  BY <1>1, <1>2 DEF WifiInv, InOrder, LoopInv, RadioInv, LastWord, WaitingIsAnswered

(* ... and both tasks and the radio keep to what there is.                 *)
LEMMA WifiInvStep == TypeOK /\ WifiInv /\ [Next]_vars => WifiInv'
<1> SUFFICES ASSUME TypeOK, WifiInv, [Next]_vars PROVE WifiInv'
  OBVIOUS
<1>free. mutx = "none" => pc \notin {"starting", "connect", "connecting", "release"}
  BY DEF TypeOK
<1>there. Coming \subseteq Events \cup {"none"}
  BY ComingIsThere
<1> USE DEF WifiInv, CanBegin
<1>1. CASE StartWifi
  <2>1. pc = "init" /\ state' = state /\ state = "NOT_INITIALIZED" /\ Coming = {"none"}
        /\ ~lostIpTimer /\ lostIpTimer' = lostIpTimer /\ handling' = handling
    BY <1>1 DEF StartWifi, LoopInv, RadioInv
  <2>2. CASE pc' = "starting" /\ radio' = "idle" /\ queue' = Append(queue, "STA_START")
    <3>1. Coming' = {"none", "STA_START"} /\ InOrder'
      BY <2>1, <2>2, Posts DEF Events, Behind
    <3> QED
      BY <2>1, <2>2, <3>1 DEF LoopInv, RadioInv, LastWord, WaitingIsAnswered
  <2>3. CASE pc' = "release" /\ UNCHANGED <<radio, queue>>
    <3>1. Coming' = Coming /\ InOrder' /\ radio' = "stopped"
      BY <2>1, <2>3, NothingMoves DEF LoopInv
    <3> QED
      BY <2>1, <2>3, <3>1 DEF LoopInv, RadioInv, LastWord, WaitingIsAnswered
  <2> QED BY <1>1, <2>2, <2>3 DEF StartWifi
<1>2. CASE FinishInit
  <2>1. UNCHANGED <<queue, handling, radio, lostIpTimer>> /\ "STA_START" \in Coming
        /\ pc' = "loop" /\ state' = "INITIALIZED"
    BY <1>2 DEF FinishInit, LoopInv
  <2>2. Coming' = Coming /\ InOrder'
    BY <2>1, NothingMoves
  <2> QED
    BY <2>1, <2>2 DEF LoopInv, RadioInv, LastWord, WaitingIsAnswered
<1>3. ASSUME UNCHANGED <<queue, handling, radio, lostIpTimer, state>>,
             pc # "connecting", pc' \notin {"init", "starting", "connecting"},
             pc' = "connect" => state \in CanBegin,
             radio = "stopped" => pc' \in {"release", "loop"}
      PROVE  WifiInv'
  <2>1. Coming' = Coming /\ InOrder' /\ AddressLast' = AddressLast
    BY <1>3, NothingMoves
  <2> QED
    BY <1>3, <2>1 DEF LoopInv, RadioInv, LastWord, WaitingIsAnswered
<1>4. CASE CheckState
  BY <1>3, <1>4 DEF CheckState, ActOn, RadioInv
<1>5. CASE obtain_time
  BY <1>3, <1>5 DEF obtain_time, RadioInv
<1>6. CASE AwaitTime
  BY <1>3, <1>6 DEF AwaitTime, RadioInv
<1>7. CASE BeginLock
  BY <1>3, <1>7 DEF BeginLock, RadioInv
<1>8. CASE EndBegin
  BY <1>3, <1>8 DEF EndBegin, RadioInv
<1>9. CASE Connect
  <2>1. CASE radio = "idle" /\ radio' = "connecting" /\ pc' = "connecting"
    <3>1. UNCHANGED <<queue, handling, lostIpTimer, state>> /\ pc = "connect"
          /\ state \in CanBegin
      BY <1>9 DEF Connect, LoopInv
    <3>2. Coming' = Coming /\ InOrder'
      BY <3>1, NothingMoves
    <3>3. Coming \subseteq {"LOST_IP", "none"}
      BY <2>1, <3>1 DEF RadioInv, LastWord
    <3> QED
      BY <2>1, <3>1, <3>2, <3>3 DEF LoopInv, RadioInv, LastWord, WaitingIsAnswered
  <2> QED BY <1>3, <1>9, <2>1 DEF Connect, RadioInv
<1>10. CASE SetConnecting
  <2>1. UNCHANGED <<queue, handling, radio, lostIpTimer>> /\ pc = "connecting"
        /\ pc' = "release" /\ state' = "CONNECTING"
    BY <1>10 DEF SetConnecting
  <2>2. Coming' = Coming /\ InOrder' /\ AddressLast' = AddressLast
    BY <2>1, NothingMoves
  <2> QED
    BY <2>1, <2>2 DEF LoopInv, RadioInv, LastWord, WaitingIsAnswered
<1>11. CASE Dispatch
  <2>1. UNCHANGED <<state, pc, radio, lostIpTimer>>
    BY <1>11 DEF Dispatch
  <2>2. /\ \A e \in Events : e \in Coming' <=> e \in Coming
        /\ Coming' \subseteq Events \cup {"none"} /\ Coming # {"none"}
        /\ InOrder' /\ (AddressLast => AddressLast')
    BY <1>11, Dispatches
  <2> QED
    BY <2>1, <2>2 DEF LoopInv, RadioInv, LastWord, WaitingIsAnswered, Events
<1>12. CASE Handle
  <2>1. UNCHANGED <<pc, radio, lostIpTimer>> /\ state' = StateAfter(handling)
        /\ pc \notin {"starting", "connect", "connecting", "release"}
    BY <1>12, <1>free DEF Handle
  <2>2. /\ handling \in Events /\ handling \in Coming
        /\ "none" \in Coming' /\ Coming \subseteq Coming' \cup {handling}
        /\ Coming' \subseteq (Coming \cap Behind(handling)) \cup {"none"}
        /\ InOrder' /\ (AddressLast => AddressLast')
        /\ (AddressLast /\ handling = "GOT_IP" => Coming' = {"none"})
    BY <1>12, Handles
  <2>3. CASE handling = "STA_START"
    BY <2>1, <2>2, <2>3
       DEF StateAfter, Behind, LoopInv, RadioInv, LastWord, WaitingIsAnswered
  <2>4. CASE handling = "STA_CONNECTED"
    <3>1. state' = "WAITING_FOR_IP"
      BY <2>1, <2>4 DEF StateAfter
    <3>2. Coming' \subseteq {"GOT_IP", "STA_DISCONNECTED", "LOST_IP", "none"}
      BY <2>2, <2>4 DEF Behind
    <3>3. radio \in {"idle", "associated", "online"} /\ "STA_START" \notin Coming
      BY <2>2, <2>4 DEF RadioInv, LastWord, TypeOK
    <3>4. \/ radio = "idle" /\ "STA_DISCONNECTED" \in Coming'
          \/ radio = "associated" /\ Coming' \subseteq {"LOST_IP", "none"}
          \/ radio = "online" /\ "GOT_IP" \in Coming'
      BY <2>2, <2>4, <3>2, <3>3 DEF RadioInv, LastWord
    <3> QED
      BY <2>1, <2>2, <3>1, <3>2, <3>3, <3>4
         DEF LoopInv, RadioInv, LastWord, WaitingIsAnswered
  <2>5. CASE handling = "STA_DISCONNECTED"
    BY <2>1, <2>2, <2>5
       DEF StateAfter, Behind, LoopInv, RadioInv, LastWord, WaitingIsAnswered
  <2>6. CASE handling = "GOT_IP"
    BY <2>1, <2>2, <2>6
       DEF StateAfter, Behind, LoopInv, RadioInv, LastWord, WaitingIsAnswered
  <2>7. CASE handling = "LOST_IP"
    <3>1. state' = IF state = "DISCONNECTED" THEN state ELSE "WAITING_FOR_IP"
      BY <2>1, <2>7 DEF StateAfter
    <3>2. \A e \in Events \ {"LOST_IP"} : e \in Coming' <=> e \in Coming
      BY <2>2, <2>7 DEF Events
    <3>3. "STA_START" \notin Coming /\ radio # "stopped"
      BY <2>2, <2>7 DEF RadioInv, LastWord
    <3>4. radio = "idle" => \/ "STA_DISCONNECTED" \in Coming'
                            \/ state' = "DISCONNECTED"
      BY <2>2, <2>7, <3>1, <3>2, <3>3 DEF RadioInv, Events
    <3>5. "STA_DISCONNECTED" \in Coming' \/ radio # "idle" => state' = "WAITING_FOR_IP"
      BY <2>1, <3>1, <3>2, <3>3 DEF RadioInv, LastWord, TypeOK, Events
    <3>6. /\ radio = "associated" => Coming \subseteq {"STA_CONNECTED", "LOST_IP", "none"}
          /\ radio = "online" => "GOT_IP" \in Coming'
      BY <2>2, <2>7, <3>2 DEF RadioInv, Events
    <3>7. Coming' \subseteq Coming \cup {"none"}
      BY <2>2
    <3>8. RadioInv'
      BY <2>1, <2>2, <3>2, <3>3, <3>4, <3>5, <3>6, <3>7 DEF RadioInv, Events
    <3>9. LoopInv' /\ LastWord' /\ WaitingIsAnswered'
      BY <2>1, <3>1, <3>2, <3>3, <3>4, <3>5, <3>6, <3>7
         DEF LoopInv, RadioInv, LastWord, WaitingIsAnswered, TypeOK, Events
    <3> QED BY <2>2, <3>8, <3>9
  <2> QED BY <2>2, <2>3, <2>4, <2>5, <2>6, <2>7 DEF Events
<1>13. CASE Associate
  <2>1. radio = "connecting" /\ radio' = "associated" /\ UNCHANGED <<state, pc, lostIpTimer>>
        /\ queue' = Append(queue, "STA_CONNECTED") /\ handling' = handling
    BY <1>13 DEF Associate, RadioStep
  <2>2. Coming' = Coming \cup {"STA_CONNECTED"} /\ Coming \subseteq {"LOST_IP", "none"}
        /\ InOrder'
    BY <2>1, Posts DEF RadioInv, Behind, Events
  <2> QED
    BY <2>1, <2>2 DEF LoopInv, RadioInv, LastWord, WaitingIsAnswered
<1>14. CASE GetAddress
  <2>1. radio = "associated" /\ radio' = "online" /\ lostIpTimer' = FALSE
        /\ UNCHANGED <<state, pc>>
        /\ queue' = Append(queue, "GOT_IP") /\ handling' = handling
    BY <1>14 DEF GetAddress, RadioStep
  <2>2. Coming' = Coming \cup {"GOT_IP"} /\ InOrder' /\ AddressLast'
        /\ Coming \subseteq {"STA_CONNECTED", "LOST_IP", "none"}
    BY <2>1, Posts DEF RadioInv, Behind, Events
  <2> QED
    BY <2>1, <2>2 DEF LoopInv, RadioInv, LastWord, WaitingIsAnswered
<1>15. CASE Disconnect
  <2>1. radio \in {"connecting", "associated", "online"} /\ radio' = "idle"
        /\ UNCHANGED <<state, pc>>
        /\ queue' = Append(queue, "STA_DISCONNECTED") /\ handling' = handling
    BY <1>15 DEF Disconnect, RadioStep
  <2>2. Coming \subseteq {"STA_CONNECTED", "GOT_IP", "LOST_IP", "none"}
    BY <2>1 DEF RadioInv
  <2>3. Coming' = Coming \cup {"STA_DISCONNECTED"} /\ InOrder'
    BY <2>1, <2>2, Posts DEF Behind, Events
  <2>4. pc = "connecting" \/ state \notin CanBegin
    BY <2>1 DEF RadioInv
  <2> QED
    BY <2>1, <2>2, <2>3, <2>4 DEF LoopInv, RadioInv, LastWord, WaitingIsAnswered
<1>16. CASE LoseAddress
  <2>1. lostIpTimer /\ lostIpTimer' = FALSE /\ UNCHANGED <<state, pc, radio>>
        /\ queue' = Append(queue, "LOST_IP") /\ handling' = handling
    BY <1>16 DEF LoseAddress, RadioStep
  <2>2. radio \in {"idle", "connecting", "associated"} /\ "STA_START" \notin Coming
    BY <2>1 DEF RadioInv, LastWord, TypeOK
  <2>3. Coming' = Coming \cup {"LOST_IP"} /\ InOrder'
    BY <1>there, <2>1, <2>2, Posts DEF Behind, Events
  <2> QED
    BY <2>1, <2>2, <2>3 DEF LoopInv, RadioInv, LastWord, WaitingIsAnswered
<1>17. CASE Answer \/ Idle \/ UNCHANGED vars
  <2>1. UNCHANGED <<queue, handling, radio, lostIpTimer, state, pc>>
    BY <1>17 DEF Answer, Idle, vars
  <2>2. Coming' = Coming /\ InOrder' /\ AddressLast' = AddressLast
    BY <2>1, NothingMoves
  <2> QED
    BY <2>1, <2>2 DEF LoopInv, RadioInv, LastWord, WaitingIsAnswered
<1> QED
  BY <1>1, <1>2, <1>4, <1>5, <1>6, <1>7, <1>8, <1>9, <1>10, <1>11, <1>12, <1>13,
     <1>14, <1>15, <1>16, <1>17 DEF Next, app_main, Begin, events, Radio

(* A state that waits for an event has that event coming, however the event
   task comes between esp_wifi_connect and CONNECTING, or the driver's start
   and INITIALIZED, and however late a LOST_IP is (app_wifi.cpp:60-126).   *)
THEOREM WaitingIsAnsweredHolds == Spec => []WaitingIsAnswered
<1>1. WifiInv => WaitingIsAnswered
  BY DEF WifiInv
<1> QED
  BY <1>1, WifiTypeInvariant, WifiInvInit, WifiInvStep, PTL DEF Spec

(* When nothing is to come any more, the state is the radio's.             *)
LEMMA NothingToCome ==
  ASSUME TypeOK, WifiInv
  PROVE  StateIsTheRadios
<1> SUFFICES ASSUME queue = <<>>, handling = "none", mutx = "none"
             PROVE  CASE radio = "stopped"    -> state = "NOT_INITIALIZED"
                      [] radio = "idle"       -> state \in CanBegin
                      [] radio = "connecting" -> state \in {"CONNECTING", "WAITING_FOR_IP"}
                      [] radio = "associated" -> state = "WAITING_FOR_IP"
                      [] radio = "online"     -> state = "CONNECTED"
  BY DEF StateIsTheRadios, CanBegin
<1>1. Coming = {"none"}
  BY DEF Coming
<1>2. pc # "connecting"
  BY DEF TypeOK
<1> QED
  BY <1>1, <1>2 DEF TypeOK, WifiInv, RadioInv, CanBegin

(* Once every event was handled, CONNECTED means a link, and every other state
   what the radio is at: nothing is left over from a link that is gone.    *)
THEOREM StateIsTheRadiosHolds == Spec => []StateIsTheRadios
BY WifiTypeInvariant, WifiInvInit, WifiInvStep, NothingToCome, PTL DEF Spec

-----------------------------------------------------------------------------
(* Why the controller gets on line, and app_main round: what there is left to
   do.                                                                     *)

(* What a new state can cost checkWifiState: the rounds of obtain_time.    *)
Change == RetryCount + 4

(* The steps until app_main is back in its loop; STA_START and what the radio
   can do after it are owed from the beginning.                            *)
CallerWork ==
  CASE pc = "loop"       -> 0
    [] pc = "release"    -> 1
    [] pc = "connect"    -> 2
    [] pc = "begin"      -> 3
    [] pc = "connecting" -> Change + 2
    [] pc = "waiting"    -> RetryCount - retry + 2
    [] pc = "obtain"     -> RetryCount + 3
    [] pc = "starting"   -> Change + 1
    [] pc = "init"       -> 5 * Change + 14

UnseenWork == IF state = prevState THEN 0 ELSE Change

(* An event is dispatched, handled, and then seen by the loop.             *)
EventWork == (Change + 2) * Len(queue) + (IF handling = "none" THEN 0 ELSE Change + 1)

(* An idle radio may be told to connect, a connecting one to get on line.  *)
RadioWork ==
  CASE radio \in {"online", "stopped"} -> 0
    [] radio = "associated"            -> Change + 3
    [] radio = "connecting"            -> 2 * Change + 6
    [] radio = "idle"                  -> 3 * Change + 7

TimerWork  == IF lostIpTimer THEN Change + 3 ELSE 0
AnswerWork == IF synced THEN 0 ELSE 1

(* Each failure still to come makes the radio idle once more, with an event
   of its own and perhaps a LOST_IP after it.                              *)
FailureWork == (5 * Change + 13) * (MaxFailures - failures)

Work == CallerWork + UnseenWork + EventWork + RadioWork + TimerWork + AnswerWork
        + FailureWork

LEMMA CallerWorkIsNat == TypeOK => CallerWork \in Nat
<1> SUFFICES ASSUME TypeOK PROVE CallerWork \in Nat
  OBVIOUS
<1>1. RetryCount \in Nat /\ Change \in Nat /\ retry \in 0 .. RetryCount
  BY WifiAssumption DEF WifiAssumption, Change, TypeOK
<1>2. RetryCount - retry + 2 \in Nat
  BY <1>1
<1>3. pc \in {"init", "starting", "loop", "begin", "connect", "connecting", "release",
              "obtain", "waiting"}
  BY DEF TypeOK
<1> QED BY <1>1, <1>2, <1>3 DEF CallerWork

LEMMA OtherWorkIsNat ==
  ASSUME TypeOK
  PROVE  /\ Change \in Nat /\ UnseenWork \in Nat /\ UnseenWork <= Change
         /\ EventWork \in Nat /\ RadioWork \in Nat /\ TimerWork \in Nat
         /\ AnswerWork \in 0 .. 1 /\ FailureWork \in Nat
<1>1. Change \in Nat /\ MaxFailures \in Nat /\ failures \in 0 .. MaxFailures
  BY WifiAssumption DEF WifiAssumption, Change, TypeOK
<1>2. \A a, b \in Nat : a * b \in Nat
  OBVIOUS
<1>3. EventWork \in Nat
  <2>1. Len(queue) \in Nat
    BY LenProperties DEF TypeOK
  <2>2. (Change + 2) * Len(queue) \in Nat
    BY <1>1, <1>2, <2>1
  <2> DEFINE n == (Change + 2) * Len(queue)
  <2>3. n + (IF handling = "none" THEN 0 ELSE Change + 1) \in Nat
    <3> HIDE DEF n
    <3> QED BY <1>1, <2>2 DEF n
  <2> QED BY <2>3 DEF EventWork
<1>4. FailureWork \in Nat
  <2>1. MaxFailures - failures \in Nat /\ 5 * Change + 13 \in Nat
    BY <1>1
  <2> QED BY <1>2, <2>1 DEF FailureWork
<1>5. RadioWork \in Nat
  <2>1. radio \in {"stopped", "idle", "connecting", "associated", "online"}
    BY DEF TypeOK
  <2> QED BY <1>1, <2>1 DEF RadioWork
<1> QED
  BY <1>1, <1>3, <1>4, <1>5 DEF UnseenWork, TimerWork, AnswerWork

LEMMA WorkIsNat == TypeOK => Work \in Nat
BY CallerWorkIsNat, OtherWorkIsNat DEF Work

(* An event more, one dispatched, one handled, a failure less to come.     *)
LEMMA OneEventMore ==
  ASSUME TypeOK, NEW event \in Events, queue' = Append(queue, event), handling' = handling
  PROVE  EventWork' = EventWork + Change + 2
<1>1. Len(queue) \in Nat /\ Len(queue') = Len(queue) + 1 /\ Change \in Nat
  BY LenProperties, AppendProperties, WifiAssumption DEF WifiAssumption, Change, TypeOK
<1>2. \A k, n \in Nat : k * (n + 1) = k * n + k
  OBVIOUS
<1>3. (Change + 2) * (Len(queue) + 1) = (Change + 2) * Len(queue) + (Change + 2)
  BY <1>1, <1>2
<1> DEFINE old == (Change + 2) * Len(queue)
<1> DEFINE hold == IF handling = "none" THEN 0 ELSE Change + 1
<1>4. EventWork = old + hold /\ EventWork' = old + (Change + 2) + hold
  BY <1>1, <1>3 DEF EventWork, Change
<1>5. old \in Int /\ hold \in Int
  BY <1>1
<1> HIDE DEF old, hold
<1> QED BY <1>1, <1>4, <1>5

LEMMA OneEventDispatched ==
  ASSUME TypeOK, Dispatch
  PROVE  EventWork' = EventWork - 1
<1>1. Len(queue) \in Nat \ {0} /\ Len(queue') = Len(queue) - 1 /\ Change \in Nat
      /\ handling = "none" /\ handling' # "none"
  <2>1. queue \in Seq(Events) /\ queue # <<>> /\ queue' = Tail(queue)
        /\ handling = "none" /\ handling' = Head(queue)
    BY DEF TypeOK, Dispatch
  <2>2. Head(queue) \in Events /\ Len(Tail(queue)) = Len(queue) - 1
        /\ Len(queue) \in Nat \ {0}
    BY <2>1, HeadTailProperties, EmptySeq, LenProperties
  <2>3. Change \in Nat
    BY WifiAssumption DEF WifiAssumption, Change
  <2> QED BY <2>1, <2>2, <2>3 DEF Events
<1>2. \A k \in Nat, n \in Nat \ {0} : k * (n - 1) = k * n - k
  OBVIOUS
<1>3. (Change + 2) * (Len(queue) - 1) = (Change + 2) * Len(queue) - (Change + 2)
  BY <1>1, <1>2
<1> DEFINE old == (Change + 2) * Len(queue)
<1>4. EventWork = old /\ EventWork' = old - (Change + 2) + (Change + 1) /\ old \in Int
  BY <1>1, <1>3 DEF EventWork, Change
<1> HIDE DEF old
<1> QED BY <1>1, <1>4

LEMMA OneFailureLess ==
  ASSUME TypeOK, failures < MaxFailures, failures' = failures + 1
  PROVE  FailureWork' = FailureWork - (5 * Change + 13)
<1>1. MaxFailures - failures \in Nat \ {0} /\ 5 * Change + 13 \in Nat
      /\ MaxFailures - failures' = (MaxFailures - failures) - 1
  BY WifiAssumption DEF WifiAssumption, Change, TypeOK
<1>2. \A k \in Nat, n \in Nat \ {0} : k * (n - 1) = k * n - k
  OBVIOUS
<1> DEFINE n == MaxFailures - failures
<1> DEFINE k == 5 * Change + 13
<1>3. FailureWork = k * n /\ FailureWork' = k * (n - 1)
  BY <1>1 DEF FailureWork, Change
<1> HIDE DEF n, k
<1>4. FailureWork' = FailureWork - k
  BY <1>1, <1>2, <1>3 DEF n, k
<1> QED BY <1>4 DEF k

(* Whatever anyone does lowers what there is left to do.                   *)
LEMMA WorkStep == TypeOK /\ TypeOK' /\ Next => Work' < Work \/ UNCHANGED vars
<1> SUFFICES ASSUME TypeOK, TypeOK', Next PROVE Work' < Work \/ UNCHANGED vars
  OBVIOUS
<1>now. /\ Change \in Nat /\ CallerWork \in Nat /\ UnseenWork \in Nat /\ UnseenWork <= Change
        /\ EventWork \in Nat /\ RadioWork \in Nat /\ TimerWork \in Nat
        /\ AnswerWork \in 0 .. 1 /\ FailureWork \in Nat
  BY CallerWorkIsNat, OtherWorkIsNat
<1>1. (TypeOK => CallerWork \in Nat)'
  BY CallerWorkIsNat, PTL
<1>2. (TypeOK => /\ Change \in Nat /\ UnseenWork \in Nat /\ UnseenWork <= Change
                 /\ EventWork \in Nat /\ RadioWork \in Nat /\ TimerWork \in Nat
                 /\ AnswerWork \in 0 .. 1 /\ FailureWork \in Nat)'
  BY OtherWorkIsNat, PTL
<1> DEFINE caller2 == CallerWork'
<1> DEFINE unseen2 == UnseenWork'
<1> DEFINE event2 == EventWork'
<1> DEFINE radio2 == RadioWork'
<1> DEFINE timer2 == TimerWork'
<1> DEFINE answer2 == AnswerWork'
<1> DEFINE failure2 == FailureWork'
<1>then. /\ Change' = Change /\ caller2 \in Nat /\ unseen2 \in Nat
         /\ unseen2 <= Change
         /\ event2 \in Nat /\ radio2 \in Nat /\ timer2 \in Nat
         /\ answer2 \in 0 .. 1 /\ failure2 \in Nat
  <2>1. Change' = Change
    BY DEF Change
  <2> QED BY <1>1, <1>2, <2>1
<1>fits. RetryCount \in Nat /\ Change = RetryCount + 4 /\ retry \in 0 .. RetryCount
  BY WifiAssumption DEF WifiAssumption, Change, TypeOK
(* What a step leaves alone it owes as before.                             *)
<1>pc. UNCHANGED <<pc, retry>> => caller2 = CallerWork
  BY <1>then DEF CallerWork
<1>seen. UNCHANGED <<state, prevState>> => unseen2 = UnseenWork
  BY <1>then DEF UnseenWork
<1>events. UNCHANGED <<queue, handling>> => event2 = EventWork
  BY <1>then DEF EventWork
<1>radio. radio' = radio => radio2 = RadioWork
  BY <1>then DEF RadioWork
<1>timer. lostIpTimer' = lostIpTimer => timer2 = TimerWork
  BY <1>then DEF TimerWork
<1>answer. synced' = synced => answer2 = AnswerWork
  BY DEF AnswerWork
<1>failures. failures' = failures => failure2 = FailureWork
  BY <1>then DEF FailureWork
<1>sum. /\ Work = CallerWork + UnseenWork + EventWork + RadioWork + TimerWork + AnswerWork
                  + FailureWork
        /\ Work' = caller2 + unseen2 + event2 + radio2 + timer2 + answer2 + failure2
  BY DEF Work
<1> HIDE DEF caller2, unseen2, event2, radio2, timer2, answer2, failure2
<1>3. CASE StartWifi
  <2>1. /\ pc = "init"
        /\ UNCHANGED <<state, prevState, retry, synced, handling, lostIpTimer, failures>>
        /\ \/ pc' = "starting" /\ radio' = "idle" /\ queue' = Append(queue, "STA_START")
           \/ pc' = "release" /\ UNCHANGED <<queue, radio>>
    BY <1>3 DEF StartWifi, time
  <2>2. CASE pc' = "starting" /\ radio' = "idle" /\ queue' = Append(queue, "STA_START")
    <3>1. event2 = EventWork + Change + 2
      BY <2>1, <2>2, OneEventMore DEF Events, event2
    <3>2. CallerWork = 5 * Change + 14 /\ caller2 = Change + 1
          /\ radio2 = 3 * Change + 7
      BY <2>1, <2>2, <1>then DEF CallerWork, caller2, RadioWork, radio2
    <3>others. /\ unseen2 = UnseenWork /\ timer2 = TimerWork
               /\ answer2 = AnswerWork /\ failure2 = FailureWork
      BY <1>seen, <1>timer, <1>answer, <1>failures, <2>1
    <3> QED BY <1>sum, <1>now, <1>then, <3>others, <3>1, <3>2
  <2>3. CASE pc' = "release" /\ UNCHANGED <<queue, radio>>
    <3>1. CallerWork = 5 * Change + 14 /\ caller2 = 1
      BY <2>1, <2>3 DEF CallerWork, caller2
    <3>others. /\ unseen2 = UnseenWork /\ event2 = EventWork
               /\ radio2 = RadioWork /\ timer2 = TimerWork
               /\ answer2 = AnswerWork /\ failure2 = FailureWork
      BY <1>seen, <1>events, <1>radio, <1>timer, <1>answer, <1>failures, <2>1, <2>3
    <3> QED BY <1>sum, <1>now, <1>then, <3>others, <2>3, <3>1
  <2> QED BY <2>1, <2>2, <2>3
<1>4. CASE FinishInit \/ SetConnecting
  <2>1. /\ \/ pc = "starting" /\ pc' = "loop"
           \/ pc = "connecting" /\ pc' = "release"
        /\ UNCHANGED <<synced, queue, handling, radio, lostIpTimer, failures>>
    BY <1>4 DEF FinishInit, SetConnecting, time
  <2>2. caller2 + Change + 1 = CallerWork
    BY <2>1, <1>then, <1>now DEF CallerWork, caller2
  <2>others. /\ event2 = EventWork /\ radio2 = RadioWork
             /\ timer2 = TimerWork /\ answer2 = AnswerWork
             /\ failure2 = FailureWork
    BY <1>events, <1>radio, <1>timer, <1>answer, <1>failures, <2>1
  <2> QED BY <1>sum, <1>now, <1>then, <2>others, <2>2
<1>5. CASE CheckState
  <2>1. /\ pc = "loop" /\ state # prevState /\ state' = prevState'
        /\ pc' \in {"begin", "obtain", "loop"}
        /\ UNCHANGED <<synced, queue, handling, radio, lostIpTimer, failures>>
    BY <1>5 DEF CheckState, ActOn, time
  <2>2. CallerWork = 0 /\ caller2 < Change /\ UnseenWork = Change /\ unseen2 = 0
    BY <2>1, <1>fits, <1>then DEF CallerWork, caller2, UnseenWork, unseen2
  <2>others. /\ event2 = EventWork /\ radio2 = RadioWork
             /\ timer2 = TimerWork /\ answer2 = AnswerWork
             /\ failure2 = FailureWork
    BY <1>events, <1>radio, <1>timer, <1>answer, <1>failures, <2>1
  <2> QED BY <1>sum, <1>now, <1>then, <2>others, <2>2
<1>6. CASE obtain_time
  <2>1. /\ pc = "obtain" /\ pc' = "waiting" /\ retry' = 0
        /\ UNCHANGED <<state, prevState, synced, queue, handling, radio, lostIpTimer, failures>>
    BY <1>6 DEF obtain_time
  <2>2. caller2 < CallerWork
    BY <2>1, <1>fits DEF CallerWork, caller2
  <2>others. /\ unseen2 = UnseenWork /\ event2 = EventWork
             /\ radio2 = RadioWork /\ timer2 = TimerWork
             /\ answer2 = AnswerWork /\ failure2 = FailureWork
    BY <1>seen, <1>events, <1>radio, <1>timer, <1>answer, <1>failures, <2>1
  <2> QED BY <1>sum, <1>now, <1>then, <2>others, <2>2
<1>7. CASE AwaitTime
  <2>1. /\ pc = "waiting"
        /\ \/ ~synced /\ ~synced' /\ retry' = retry + 1 /\ pc' = pc
           \/ pc' = "loop"
        /\ UNCHANGED <<state, prevState, queue, handling, radio, lostIpTimer, failures>>
    BY <1>7 DEF AwaitTime
  <2>2. caller2 + answer2 < CallerWork + AnswerWork
    <3>1. CASE pc' = "loop"
      <4>1. caller2 = 0 /\ CallerWork >= 2
        BY <2>1, <3>1, <1>fits DEF CallerWork, caller2
      <4> QED BY <4>1, <1>now, <1>then
    <3>2. CASE ~synced /\ ~synced' /\ retry' = retry + 1 /\ pc' = pc
      <4>1. caller2 = CallerWork - 1
        BY <2>1, <3>2, <1>fits DEF CallerWork, caller2
      <4>2. answer2 = AnswerWork
        BY <3>2 DEF AnswerWork, answer2
      <4> QED BY <4>1, <4>2, <1>now, <1>then
    <3> QED BY <2>1, <3>1, <3>2
  <2>others. /\ unseen2 = UnseenWork /\ event2 = EventWork
             /\ radio2 = RadioWork /\ timer2 = TimerWork
             /\ failure2 = FailureWork
    BY <1>seen, <1>events, <1>radio, <1>timer, <1>failures, <2>1
  <2> QED BY <1>sum, <1>now, <1>then, <2>others, <2>2
<1>8. CASE BeginLock \/ EndBegin
  <2>1. /\ \/ pc = "begin" /\ pc' \in {"connect", "release"}
           \/ pc = "release" /\ pc' = "loop"
        /\ UNCHANGED <<state, prevState, synced, queue, handling, radio, lostIpTimer, failures>>
    BY <1>8 DEF BeginLock, EndBegin, time
  <2>2. caller2 < CallerWork
    BY <2>1 DEF CallerWork, caller2
  <2>others. /\ unseen2 = UnseenWork /\ event2 = EventWork
             /\ radio2 = RadioWork /\ timer2 = TimerWork
             /\ answer2 = AnswerWork /\ failure2 = FailureWork
    BY <1>seen, <1>events, <1>radio, <1>timer, <1>answer, <1>failures, <2>1
  <2> QED BY <1>sum, <1>now, <1>then, <2>others, <2>2
<1>9. CASE Connect
  <2>1. /\ pc = "connect"
        /\ UNCHANGED <<state, prevState, synced, queue, handling, lostIpTimer, failures>>
        /\ \/ radio = "idle" /\ radio' = "connecting" /\ pc' = "connecting"
           \/ pc' = "release" /\ radio' = radio
    BY <1>9 DEF Connect, time
  <2>2. caller2 + radio2 < CallerWork + RadioWork
    <3>1. CASE radio = "idle" /\ radio' = "connecting" /\ pc' = "connecting"
      <4>1. /\ CallerWork = 2 /\ caller2 = Change + 2
            /\ RadioWork = 3 * Change + 7 /\ radio2 = 2 * Change + 6
        BY <2>1, <3>1, <1>then DEF CallerWork, caller2, RadioWork, radio2
      <4> QED BY <4>1, <1>now
    <3>2. CASE pc' = "release" /\ radio' = radio
      <4>1. CallerWork = 2 /\ caller2 = 1
        BY <2>1, <3>2 DEF CallerWork, caller2
      <4> QED BY <3>2, <4>1, <1>now, <1>radio
    <3> QED BY <2>1, <3>1, <3>2
  <2>others. /\ unseen2 = UnseenWork /\ event2 = EventWork
             /\ timer2 = TimerWork /\ answer2 = AnswerWork
             /\ failure2 = FailureWork
    BY <1>seen, <1>events, <1>timer, <1>answer, <1>failures, <2>1
  <2> QED BY <1>sum, <1>now, <1>then, <2>others, <2>2
<1>10. CASE Dispatch
  <2>1. UNCHANGED <<state, pc, prevState, retry, synced, radio, lostIpTimer, failures>>
    BY <1>10 DEF Dispatch, time
  <2>2. event2 = EventWork - 1
    BY <1>10, OneEventDispatched DEF event2
  <2>others. /\ caller2 = CallerWork /\ unseen2 = UnseenWork
             /\ radio2 = RadioWork /\ timer2 = TimerWork
             /\ answer2 = AnswerWork /\ failure2 = FailureWork
    BY <1>pc, <1>seen, <1>radio, <1>timer, <1>answer, <1>failures, <2>1
  <2> QED BY <1>sum, <1>now, <1>then, <2>others, <2>2
<1>11. CASE Handle
  <2>1. /\ UNCHANGED <<pc, retry, synced, queue, radio, lostIpTimer, failures>>
        /\ handling # "none" /\ handling' = "none"
    BY <1>11 DEF Handle, time
  <2>2. event2 = EventWork - (Change + 1)
    <3> DEFINE old == (Change + 2) * Len(queue)
    <3>1. EventWork = old + (Change + 1) /\ event2 = old + 0
      BY <2>1, <1>then DEF EventWork, event2
    <3>2. old \in Int
      BY <1>now, LenProperties DEF TypeOK
    <3> HIDE DEF old
    <3> QED BY <3>1, <3>2, <1>now
  <2>others. /\ caller2 = CallerWork /\ radio2 = RadioWork
             /\ timer2 = TimerWork /\ answer2 = AnswerWork
             /\ failure2 = FailureWork
    BY <1>pc, <1>radio, <1>timer, <1>answer, <1>failures, <2>1
  <2> QED BY <1>sum, <1>now, <1>then, <2>others, <2>2
<1>12. ASSUME NEW event \in Events, RadioStep(event),
              radio2 + timer2 + failure2 + Change + 2
                < RadioWork + TimerWork + FailureWork
       PROVE  Work' < Work
  <2>1. /\ UNCHANGED <<state, pc, prevState, retry, synced, handling>>
        /\ queue' = Append(queue, event)
    BY <1>12 DEF RadioStep, time
  <2>2. event2 = EventWork + Change + 2
    BY <2>1, OneEventMore DEF event2
  <2>others. /\ caller2 = CallerWork /\ unseen2 = UnseenWork
             /\ answer2 = AnswerWork
    BY <1>pc, <1>seen, <1>answer, <1>12, <2>1
  <2> QED BY <1>sum, <1>now, <1>then, <2>others, <1>12, <2>2
<1>13. CASE Associate
  <2>1. /\ radio = "connecting" /\ radio' = "associated" /\ RadioStep("STA_CONNECTED")
        /\ UNCHANGED <<lostIpTimer, failures>>
    BY <1>13 DEF Associate
  <2>2. RadioWork = 2 * Change + 6 /\ radio2 = Change + 3
    BY <2>1, <1>then DEF RadioWork, radio2
  <2>3. "STA_CONNECTED" \in Events
    BY DEF Events
  <2> QED BY <1>12, <1>now, <1>timer, <1>failures, <2>1, <2>2, <2>3
<1>14. CASE GetAddress
  <2>1. /\ radio = "associated" /\ radio' = "online" /\ RadioStep("GOT_IP")
        /\ ~lostIpTimer' /\ failures' = failures
    BY <1>14 DEF GetAddress
  <2>2. RadioWork = Change + 3 /\ radio2 = 0 /\ timer2 = 0
    BY <2>1 DEF RadioWork, radio2, TimerWork, timer2
  <2>3. "GOT_IP" \in Events
    BY DEF Events
  <2> QED BY <1>12, <1>now, <1>failures, <2>1, <2>2, <2>3
<1>15. CASE Disconnect
  <2>1. /\ radio' = "idle" /\ RadioStep("STA_DISCONNECTED")
        /\ failures < MaxFailures /\ failures' = failures + 1
    BY <1>15 DEF Disconnect
  <2>2. radio2 = 3 * Change + 7 /\ timer2 <= Change + 3
    BY <2>1, <1>now, <1>then DEF RadioWork, radio2, TimerWork, timer2
  <2>3. failure2 = FailureWork - (5 * Change + 13)
    BY <2>1, OneFailureLess DEF failure2
  <2>4. "STA_DISCONNECTED" \in Events
    BY DEF Events
  <2> QED BY <1>12, <1>now, <1>then, <2>1, <2>2, <2>3, <2>4
<1>16. CASE LoseAddress
  <2>1. /\ lostIpTimer /\ ~lostIpTimer' /\ RadioStep("LOST_IP") /\ UNCHANGED <<radio, failures>>
    BY <1>16 DEF LoseAddress
  <2>2. TimerWork = Change + 3 /\ timer2 = 0
    BY <2>1 DEF TimerWork, timer2
  <2>3. "LOST_IP" \in Events
    BY DEF Events
  <2> QED BY <1>12, <1>now, <1>radio, <1>failures, <2>1, <2>2, <2>3
<1>17. CASE Answer
  <2>1. /\ ~synced /\ synced'
        /\ UNCHANGED <<state, pc, prevState, retry, queue, handling, radio, lostIpTimer,
                       failures>>
    BY <1>17 DEF Answer
  <2>2. AnswerWork = 1 /\ answer2 = 0
    BY <2>1 DEF AnswerWork, answer2
  <2>others. /\ caller2 = CallerWork /\ unseen2 = UnseenWork
             /\ event2 = EventWork /\ radio2 = RadioWork
             /\ timer2 = TimerWork /\ failure2 = FailureWork
    BY <1>pc, <1>seen, <1>events, <1>radio, <1>timer, <1>failures, <2>1
  <2> QED BY <1>sum, <1>now, <1>then, <2>others, <2>2
<1>18. CASE Idle
  BY <1>18 DEF Idle
<1> QED
  BY <1>3, <1>4, <1>5, <1>6, <1>7, <1>8, <1>9, <1>10, <1>11, <1>13, <1>14, <1>15, <1>16,
     <1>17, <1>18 DEF Next, app_main, Begin, events, Radio

(* Links that fail, addresses lost, calls refused, times that come late or not
   at all: each is the start of a bounded number of steps, and no order of the
   tasks makes them more.  So app_main, the events and the radio come to rest,
   at the latest when links stop failing.                                  *)
THEOREM WorkRunsOut == Spec => [](Work \in Nat) /\ [][Work' < Work]_vars
<1>1. TypeOK /\ TypeOK' /\ [Next]_vars => [Work' < Work]_vars
  BY WorkStep
<1> QED BY <1>1, WorkIsNat, WifiTypeInvariant, PTL DEF Spec

(* The guards of what the fairness of FairSpec is about, refusals and failures
   apart, neither of which it makes happen.                                *)
CanMove ==
  \/ pc \in {"init", "begin"} /\ mutx = "none"
  \/ pc \in {"starting", "release"} /\ mutx = "app_main"
  \/ pc = "loop" /\ state # prevState
  \/ pc = "connect" /\ radio = "idle"
  \/ pc \in {"connecting", "obtain", "waiting"}
  \/ handling = "none" /\ queue # <<>>
  \/ handling # "none" /\ mutx = "none"
  \/ radio \in {"connecting", "associated"} /\ (radioIsSlow => Seen)

(* What the loop saw last, and what it has done about it.                  *)
LoopHasActed ==
  /\ pc \in {"init", "starting"} => prevState = "NOT_INITIALIZED"
  /\ pc \in {"obtain", "waiting"} => prevState = "CONNECTED"
  /\ prevState = "CONNECTED" => sntp \/ pc = "obtain"
  /\ refusals = 0 /\ radio = "stopped" => pc = "init"

(* With a slow radio at most one event is on its way, and the loop has nothing
   to do until it was handled.                                             *)
OneAtATime ==
  /\ handling = "none" \/ queue = <<>>
  /\ Len(queue) <= 1
  /\ Coming # {"none"} => "STA_START" \in Coming \/ (pc = "loop" /\ state = prevState)

(* With such a radio, and no call refused, an attempt that is due is made.  *)
BeginHolds ==
  /\ pc = "begin" => state \in CanBegin
  /\ pc = "release" => state = "CONNECTING"
  /\ pc = "loop" /\ prevState \in CanBegin => state = "CONNECTING"

SlowInv ==
  LoopHasActed /\ (radioIsSlow => OneAtATime /\ (refusals = 0 => BeginHolds))

LEMMA SlowInvInit == Init => SlowInv
<1> SUFFICES ASSUME Init PROVE SlowInv
  OBVIOUS
<1>1. Coming = {"none"} /\ Len(queue) = 0
  BY DEF Init, Coming
<1> QED BY <1>1 DEF Init, SlowInv, LoopHasActed, OneAtATime, BeginHolds, CanBegin

(* Nothing comes while there is nothing in the queue or in hand.           *)
LEMMA NothingComing ==
  ASSUME TypeOK
  PROVE  Coming = {"none"} <=> handling = "none" /\ queue = <<>>
<1>1. Len(queue) \in Nat /\ queue \in [1 .. Len(queue) -> Events]
      /\ DOMAIN queue = 1 .. Len(queue) /\ (queue = <<>> <=> Len(queue) = 0)
  BY LenProperties, EmptySeq DEF TypeOK
<1>2. ASSUME queue # <<>> PROVE Coming # {"none"}
  <2>1. queue[1] \in Events /\ 1 \in DOMAIN queue
    BY <1>1, <1>2
  <2>2. queue[1] \in Coming
    BY <2>1 DEF Coming
  <2> QED BY <2>1, <2>2 DEF Events
<1>3. handling \in Coming
  BY DEF Coming
<1>4. handling = "none" /\ queue = <<>> => Coming = {"none"}
  BY DEF Coming
<1> QED BY <1>2, <1>3, <1>4

(* An attempt that may be made may still be made when the mutex is taken.  *)
LEMMA AttemptIsDue ==
  ASSUME TypeOK, WifiInv, state \in CanBegin, pc # "connecting"
  PROVE  /\ radio = "idle" /\ "STA_START" \notin Coming
         /\ (handling # "none" => StateAfter(handling) = state)
<1>1. radio \notin {"stopped", "connecting", "associated"}
  BY DEF WifiInv, RadioInv, CanBegin
<1>2. radio # "online"
  BY DEF WifiInv, RadioInv, CanBegin
<1>3. radio = "idle"
  BY <1>1, <1>2 DEF TypeOK
<1>4. "STA_START" \notin Coming /\ "STA_DISCONNECTED" \notin Coming
  BY DEF WifiInv, LastWord, CanBegin
<1>5. /\ Coming \subseteq {"LOST_IP", "none"}
      /\ state # "DISCONNECTED" => Coming = {"none"}
  BY <1>3, <1>4 DEF WifiInv, RadioInv
<1>6. handling \in Coming
  BY DEF Coming
<1> QED BY <1>3, <1>4, <1>5, <1>6 DEF StateAfter


LEMMA LoopHasActedStep ==
  TypeOK /\ WifiInv /\ LoopHasActed /\ [Next]_vars => LoopHasActed'
<1> SUFFICES ASSUME TypeOK, WifiInv, LoopHasActed, [Next]_vars PROVE LoopHasActed'
  OBVIOUS
<1> USE DEF LoopHasActed, time
<1>1. CASE StartWifi
  <2>1. pc = "init" /\ UNCHANGED <<prevState, sntp>>
        /\ \/ pc' = "starting" /\ radio' = "idle"
           \/ pc' = "release" /\ refusals' = refusals + 1
    BY <1>1 DEF StartWifi, Refuse
  <2>2. prevState = "NOT_INITIALIZED" /\ refusals \in Nat
    BY <2>1, WifiAssumption DEF TypeOK, WifiAssumption
  <2> QED BY <2>1, <2>2
<1>2. CASE FinishInit
  BY <1>2 DEF FinishInit
<1>3. CASE CheckState
  BY <1>3 DEF CheckState, ActOn
<1>4. CASE obtain_time \/ AwaitTime
  BY <1>4 DEF obtain_time, AwaitTime
<1>5. CASE BeginLock \/ SetConnecting \/ EndBegin
  BY <1>5 DEF BeginLock, SetConnecting, EndBegin
<1>6. CASE Connect
  <2>1. /\ pc = "connect" /\ pc' \in {"connecting", "release"}
        /\ UNCHANGED <<prevState, sntp>>
        /\ radio' \in {radio, "connecting"} /\ refusals' \in {refusals, refusals + 1}
    BY <1>6 DEF Connect, Refuse
  <2>2. radio # "stopped"
    BY <2>1 DEF WifiInv, RadioInv
  <2> QED BY <2>1, <2>2
<1>7. CASE Dispatch \/ Handle \/ Answer
  BY <1>7 DEF Dispatch, Handle, Answer
<1>8. CASE Radio
  <2>1. UNCHANGED <<pc, prevState, sntp, refusals>> /\ (radio' = "stopped" => radio = "stopped")
    BY <1>8 DEF Radio, Associate, GetAddress, Disconnect, LoseAddress, RadioStep
  <2> QED BY <2>1
<1>9. CASE Idle \/ UNCHANGED vars
  BY <1>9 DEF Idle, vars
<1> QED
  BY <1>1, <1>2, <1>3, <1>4, <1>5, <1>6, <1>7, <1>8, <1>9 DEF Next, app_main, Begin, events

LEMMA OneAtATimeStep ==
  ASSUME TypeOK, TypeOK', WifiInv, OneAtATime, radioIsSlow, [Next]_vars
  PROVE  OneAtATime'
<1>none. Coming = {"none"} <=> handling = "none" /\ queue = <<>>
  BY NothingComing
<1>then. Coming' = {"none"} <=> handling' = "none" /\ queue' = <<>>
  <2>1. (TypeOK => (Coming = {"none"} <=> handling = "none" /\ queue = <<>>))'
    BY NothingComing, PTL
  <2> QED BY <2>1
<1>len. Len(queue) \in Nat /\ queue \in Seq(Events) /\ Len(<<>>) = 0
  BY LenProperties, EmptySeq DEF TypeOK
<1>1. CASE StartWifi
  <2>1. /\ pc = "init" /\ handling' = handling
        /\ \/ queue' = Append(queue, "STA_START")
           \/ queue' = queue
    BY <1>1 DEF StartWifi
  <2>2. Coming = {"none"}
    BY <2>1 DEF WifiInv, LoopInv, RadioInv
  <2>3. CASE queue' = Append(queue, "STA_START")
    <3>1. "STA_START" \in Events
      BY DEF Events
    <3>2. Coming' = Coming \cup {"STA_START"}
      BY <2>1, <2>3, <3>1, Posts
    <3>3. Len(queue') = Len(queue) + 1
      BY <1>len, <2>3, <3>1, AppendProperties
    <3> QED BY <1>none, <1>len, <2>1, <2>2, <3>2, <3>3 DEF OneAtATime
  <2>4. CASE queue' = queue
    BY <1>none, <1>then, <1>len, <2>1, <2>2, <2>4 DEF OneAtATime
  <2> QED BY <2>1, <2>3, <2>4
<1>2. ASSUME UNCHANGED <<queue, handling>>,
             Coming = {"none"} \/ "STA_START" \in Coming \/ UNCHANGED <<pc, state, prevState>>
      PROVE  OneAtATime'
  <2>1. Coming' = Coming
    BY <1>2, NothingMoves
  <2> QED BY <1>2, <2>1 DEF OneAtATime
<1>3. ASSUME UNCHANGED <<queue, handling>>, pc # "loop" \/ state # prevState
      PROVE  OneAtATime'
  BY <1>2, <1>3 DEF OneAtATime
<1>4. CASE FinishInit \/ CheckState \/ obtain_time \/ AwaitTime \/ Begin
  <2>1. pc # "loop" \/ state # prevState
    BY <1>4 DEF FinishInit, CheckState, obtain_time, AwaitTime, Begin, BeginLock, Connect,
       SetConnecting, EndBegin
  <2>2. UNCHANGED <<queue, handling>>
    BY <1>4 DEF FinishInit, CheckState, obtain_time, AwaitTime, Begin, BeginLock, Connect,
       SetConnecting, EndBegin
  <2> QED BY <1>3, <2>1, <2>2
<1>5. CASE Dispatch
  <2>1. /\ queue # <<>> /\ handling' = Head(queue) /\ queue' = Tail(queue)
        /\ handling = "none" /\ UNCHANGED <<pc, state, prevState>>
    BY <1>5 DEF Dispatch
  <2>2. Len(queue') = Len(queue) - 1 /\ queue' \in Seq(Events) /\ Len(queue) \in Nat \ {0}
    BY <1>len, <2>1, HeadTailProperties, EmptySeq
  <2>3. Len(queue') = 0 /\ queue' = <<>>
    BY <2>2, EmptySeq DEF OneAtATime
  <2>4. Coming # {"none"} /\ ("STA_START" \in Coming' <=> "STA_START" \in Coming)
    BY <1>5, Dispatches DEF Events
  <2> QED BY <1>none, <1>len, <2>1, <2>3, <2>4 DEF OneAtATime
<1>6. CASE Handle
  <2>1. handling # "none" /\ handling' = "none" /\ queue' = queue
    BY <1>6 DEF Handle
  <2> QED BY <1>then, <1>len, <2>1 DEF OneAtATime
<1>7. ASSUME NEW event \in Events, RadioStep(event)
      PROVE  OneAtATime'
  <2>1. /\ Seen /\ UNCHANGED <<pc, state, prevState, handling>>
        /\ queue' = Append(queue, event)
    BY <1>7 DEF RadioStep
  <2>2. Len(queue') = Len(queue) + 1
    BY <1>len, <1>7, <2>1, AppendProperties
  <2> QED BY <1>len, <2>1, <2>2 DEF OneAtATime, Seen
<1>8. CASE Radio
  <2>1. {"STA_CONNECTED", "GOT_IP", "STA_DISCONNECTED", "LOST_IP"} \subseteq Events
    BY DEF Events
  <2> QED
    BY <1>7, <1>8, <2>1 DEF Radio, Associate, GetAddress, Disconnect, LoseAddress
<1>9. CASE Answer \/ Idle \/ UNCHANGED vars
  BY <1>2, <1>9 DEF Answer, Idle, vars
<1> QED
  BY <1>1, <1>4, <1>5, <1>6, <1>8, <1>9 DEF Next, app_main, events


LEMMA BeginHoldsStep ==
  ASSUME TypeOK, WifiInv, LoopHasActed, OneAtATime, BeginHolds, radioIsSlow,
         refusals = 0, refusals' = 0, [Next]_vars
  PROVE  BeginHolds'
<1>start. "STA_START" \in Coming => state \in {"NOT_INITIALIZED", "INITIALIZED"}
  BY DEF WifiInv, LastWord
<1>1. CASE StartWifi
  <2>1. pc = "init" /\ pc' = "starting"
    BY <1>1 DEF StartWifi, Refuse
  <2> QED BY <2>1 DEF BeginHolds
<1>2. CASE FinishInit
  <2>1. pc' = "loop" /\ prevState' = "NOT_INITIALIZED"
    BY <1>2 DEF FinishInit, LoopHasActed
  <2> QED BY <2>1 DEF BeginHolds, CanBegin
<1>3. CASE CheckState
  <2>1. prevState' = state /\ state' = state /\ pc' = ActOn(state)
    BY <1>3 DEF CheckState
  <2> QED BY <2>1 DEF BeginHolds, CanBegin, ActOn
<1>4. CASE obtain_time \/ AwaitTime
  <2>1. prevState' = "CONNECTED" /\ pc' \in {"waiting", "loop"}
    BY <1>4 DEF obtain_time, AwaitTime, LoopHasActed
  <2> QED BY <2>1 DEF BeginHolds, CanBegin
<1>5. CASE BeginLock
  <2>1. pc' = "connect"
    BY <1>5 DEF BeginLock, BeginHolds, CanBegin
  <2> QED BY <2>1 DEF BeginHolds
<1>6. CASE Connect
  <2>1. pc' = "connecting"
    BY <1>6 DEF Connect, Refuse
  <2> QED BY <2>1 DEF BeginHolds
<1>7. CASE SetConnecting
  BY <1>7 DEF SetConnecting, BeginHolds
<1>8. CASE EndBegin
  BY <1>8 DEF EndBegin, BeginHolds
<1>9. CASE Handle
  <2>1. /\ handling # "none" /\ mutx = "none" /\ state' = StateAfter(handling)
        /\ UNCHANGED <<pc, prevState>>
    BY <1>9 DEF Handle
  <2>2. Coming # {"none"}
    BY <2>1, NothingComing
  <2>3. pc # "release"
    BY <2>1 DEF TypeOK
  <2>4. pc = "begin" => state' \in CanBegin
    BY <2>1, AttemptIsDue DEF BeginHolds
  <2>5. ~(pc = "loop" /\ prevState \in CanBegin)
    BY <1>start, <2>2 DEF OneAtATime, BeginHolds, CanBegin
  <2> QED BY <2>1, <2>3, <2>4, <2>5 DEF BeginHolds
<1>10. CASE Dispatch \/ Radio \/ Answer \/ Idle \/ UNCHANGED vars
  <2>1. UNCHANGED <<pc, state, prevState>>
    BY <1>10 DEF Dispatch, Radio, Associate, GetAddress, Disconnect, LoseAddress, RadioStep,
       Answer, Idle, vars
  <2> QED BY <2>1 DEF BeginHolds
<1> QED
  BY <1>1, <1>2, <1>3, <1>4, <1>5, <1>6, <1>7, <1>8, <1>9, <1>10
     DEF Next, app_main, Begin, events

LEMMA RefusalsCount ==
  TypeOK /\ [Next]_vars => radioIsSlow' = radioIsSlow /\ (refusals' = 0 => refusals = 0)
<1> SUFFICES ASSUME TypeOK, [Next]_vars
             PROVE  radioIsSlow' = radioIsSlow /\ (refusals' = 0 => refusals = 0)
  OBVIOUS
<1>1. refusals \in Nat
  BY WifiAssumption DEF WifiAssumption, TypeOK
<1>2. refusals' = refusals \/ refusals' = refusals + 1
  BY DEF Next, app_main, StartWifi, Refuse, FinishInit, CheckState, obtain_time, AwaitTime,
     Begin, BeginLock, Connect, SetConnecting, EndBegin, events, Dispatch, Handle, Radio,
     Associate, GetAddress, Disconnect, LoseAddress, RadioStep, Answer, Idle, vars
<1>3. radioIsSlow' = radioIsSlow
  BY DEF Next, app_main, StartWifi, FinishInit, CheckState, obtain_time, AwaitTime,
     Begin, BeginLock, Connect, SetConnecting, EndBegin, events, Dispatch, Handle, Radio,
     Associate, GetAddress, Disconnect, LoseAddress, RadioStep, Answer, Idle, vars
<1> QED BY <1>1, <1>2, <1>3

LEMMA SlowInvStep == TypeOK /\ TypeOK' /\ WifiInv /\ SlowInv /\ [Next]_vars => SlowInv'
<1> SUFFICES ASSUME TypeOK, TypeOK', WifiInv, SlowInv, [Next]_vars PROVE SlowInv'
  OBVIOUS
<1>1. LoopHasActed'
  BY LoopHasActedStep DEF SlowInv
<1>2. ASSUME radioIsSlow' PROVE OneAtATime'
  BY <1>2, RefusalsCount, OneAtATimeStep DEF SlowInv
<1>3. ASSUME radioIsSlow', refusals' = 0 PROVE BeginHolds'
  BY <1>3, RefusalsCount, BeginHoldsStep DEF SlowInv
<1> QED BY <1>1, <1>2, <1>3 DEF SlowInv

(* Where nothing can move, nobody is kept.                                 *)
LEMMA AtRest ==
  ASSUME TypeOK, WifiInv, ~CanMove
  PROVE  pc = "loop" /\ state = prevState /\ queue = <<>> /\ handling = "none"
<1>1. pc \notin {"init", "begin", "starting", "release", "connecting", "obtain", "waiting"}
  BY DEF CanMove, TypeOK
<1>2. pc # "connect"
  <2>1. pc = "connect" => radio = "idle"
    BY AttemptIsDue DEF WifiInv, LoopInv
  <2> QED BY <2>1 DEF CanMove
<1>3. pc = "loop" /\ state = prevState /\ mutx = "none"
  BY <1>1, <1>2 DEF CanMove, TypeOK
<1> QED BY <1>3 DEF CanMove

LEMMA AtRestOnline ==
  ASSUME TypeOK, WifiInv, SlowInv, ~CanMove, radioIsSlow, refusals = 0
  PROVE  state = "CONNECTED" /\ radio = "online" /\ sntp
<1>1. /\ pc = "loop" /\ state = prevState /\ queue = <<>> /\ handling = "none"
      /\ mutx = "none"
  BY AtRest DEF TypeOK
<1>2. Seen
  BY <1>1 DEF Seen
<1>3. radio \notin {"connecting", "associated", "stopped"}
  BY <1>1, <1>2 DEF CanMove, SlowInv, LoopHasActed
<1>4. radio # "idle"
  <2>1. radio = "idle" => state \in CanBegin
    BY <1>1, NothingToCome DEF StateIsTheRadios, CanBegin
  <2>2. state \notin CanBegin
    BY <1>1 DEF SlowInv, BeginHolds, CanBegin
  <2> QED BY <2>1, <2>2
<1>5. radio = "online"
  BY <1>3, <1>4 DEF TypeOK
<1>6. state = "CONNECTED"
  BY <1>1, <1>5, NothingToCome DEF StateIsTheRadios
<1> QED BY <1>1, <1>5, <1>6 DEF SlowInv, LoopHasActed

(* Neither task waits for the other for ever, whatever the order of events and
   however many calls were refused: once nothing can move, app_main is in its
   loop.  And when the loop saw each state of the radio and no call was
   refused, it is on line then, with the time asked for (app_wifi.cpp:27-122,
   main.cpp:95-136).                                                       *)
THEOREM RestIsOnline ==
  Spec => [](~CanMove =>
               /\ pc = "loop"
               /\ radioIsSlow /\ refusals = 0 =>
                    state = "CONNECTED" /\ radio = "online" /\ sntp)
<1>1. TypeOK /\ WifiInv /\ SlowInv =>
        (~CanMove => /\ pc = "loop"
                     /\ radioIsSlow /\ refusals = 0 =>
                          state = "CONNECTED" /\ radio = "online" /\ sntp)
  BY AtRest, AtRestOnline
<1> QED
  BY <1>1, WifiTypeInvariant, WifiInvInit, WifiInvStep, SlowInvInit, SlowInvStep, PTL
     DEF Spec

=============================================================================
