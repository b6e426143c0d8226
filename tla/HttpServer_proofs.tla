-------------------------- MODULE HttpServer_proofs --------------------------
(***************************************************************************)
(* Proofs about HttpServer, for every value of its constants.              *)
(***************************************************************************)
EXTENDS HttpServer, Irrigator_proofs

(* The port's own variables, whichever of the server's actions is taken.   *)
LEMMA HttpStepRefines == [HttpNext]_allVars => [Next]_vars
<1> SUFFICES ASSUME [HttpNext]_allVars PROVE [Next]_vars
  OBVIOUS
<1>1. CASE Start
  BY <1>1 DEF Start, Next
<1>2. CASE registerObserver \/ Accept \/ Receive
  BY <1>2 DEF registerObserver, Accept, Receive
<1>3. CASE ReceiveFails \/ NotParsed
  BY <1>3 DEF ReceiveFails, NotParsed
<1>4. CASE NotifyNobody \/ NullMember
  BY <1>4 DEF NotifyNobody, NullMember, Panic, Next
<1>5. CASE Parsed
  BY <1>5 DEF Parsed, Next
<1>6. CASE StoreInterval \/ StoreOthers
  BY <1>6 DEF StoreInterval, StoreOthers, Next, httpd
<1>7. CASE SaveConfig
  BY <1>7 DEF SaveConfig, Next, httpd
<1>8. CASE MainLoop
  BY <1>8 DEF MainLoop, Next
<1>9. CASE WakeUp \/ Around
  BY <1>9 DEF WakeUp, Around, Next
<1>10. CASE UNCHANGED allVars
  BY <1>10 DEF allVars
<1> QED
  BY <1>1, <1>2, <1>3, <1>4, <1>5, <1>6, <1>7, <1>8, <1>9, <1>10
     DEF HttpNext, handler

(* HttpServer is built from Irrigator's actions, so the invariants of Irrigator
   are its own.                                                            *)
LEMMA HttpImplementsIrrigator == HttpSpec => Spec
<1>1. HttpInit => Init
  BY DEF HttpInit
<1> QED
  BY <1>1, HttpStepRefines, PTL DEF HttpSpec, Spec

(* In particular every variable of the port has its type.                  *)
LEMMA HttpPortTypes == HttpSpec => []TypeOK
BY HttpImplementsIrrigator, TypeInvariant, PTL

-----------------------------------------------------------------------------
(* The scratch buffer.                                                     *)

(* The server has no request when it is started ...                        *)
LEMMA HttpTypeInit == HttpInit => HttpTypeOK
<1>1. None.len = 0
  BY DEF None
<1>2. ScratchSize \in Nat \ {0} /\ HeapDocs \in Nat
  BY HttpAssumption DEF HttpAssumption
<1>3. HttpInit => hpc = "idle" /\ registered \in BOOLEAN /\ torn \in BOOLEAN
  BY DEF HttpInit, Init
<1>4. HttpInit => /\ request \in Bodies \cup {None} /\ request.len = 0
                  /\ cur_len = 0 /\ heapDocs = HeapDocs /\ answer = "none"
  BY <1>1 DEF HttpInit
<1>5. 0 < ScratchSize /\ 0 \in 0 .. 0 /\ HeapDocs \in 0 .. HeapDocs
  BY <1>2
<1> QED BY <1>3, <1>4, <1>5 DEF HttpTypeOK

(* ... takes none that does not fit, and works on none it did not take.    *)
LEMMA HttpTypeStep == HttpTypeOK /\ [HttpNext]_allVars => HttpTypeOK'
<1> SUFFICES ASSUME HttpTypeOK, [HttpNext]_allVars PROVE HttpTypeOK'
  OBVIOUS
<1>types. /\ None.len = 0 /\ request.len \in Nat /\ cur_len \in Nat
          /\ ScratchSize \in Nat \ {0} /\ HeapDocs \in Nat
          /\ \A b \in Bodies : b.len \in Nat
  BY HttpAssumption DEF HttpAssumption, HttpTypeOK, None
<1> USE <1>types DEF HttpTypeOK, httpVars, vars, http, Answer, Requested
<1>1. CASE Start
  <2>1. /\ request' = None /\ cur_len' = 0 /\ answer' = "none"
        /\ registered' = FALSE /\ heapDocs' = HeapDocs /\ UNCHANGED torn
    BY <1>1 DEF Start
  <2>2. hpc' = "idle"
    BY <1>1 DEF Start, Boot, Restart
  <2>3. /\ request' \in Bodies \cup {None} /\ request'.len = 0
        /\ registered' \in BOOLEAN /\ torn' \in BOOLEAN
    BY <2>1
  <2>4. 0 < ScratchSize /\ 0 \in 0 .. 0 /\ HeapDocs \in 0 .. HeapDocs
    OBVIOUS
  <2> QED BY <2>1, <2>2, <2>3, <2>4
<1>2. CASE registerObserver
  BY <1>2 DEF registerObserver
<1>3. CASE Accept
  BY <1>3 DEF Accept, Fits
<1>4. CASE Receive
  BY <1>4 DEF Receive, Receiving
<1>5. CASE ReceiveFails
  BY <1>5 DEF ReceiveFails, Receiving
<1>6. CASE NotifyNobody
  BY <1>6 DEF NotifyNobody, Panic, Reset
<1>7. CASE NotParsed
  BY <1>7 DEF NotParsed, Received
<1>8. CASE Parsed
  BY <1>8 DEF Parsed, Received
<1>9. CASE StoreInterval
  BY <1>9 DEF StoreInterval, SetInterval, SetField
<1>10. CASE StoreOthers
  BY <1>10 DEF StoreOthers, SetQuantity, SetField
<1>11. CASE NullMember
  BY <1>11 DEF NullMember, Panic, Reset
<1>12. CASE CopyField("httpd") /\ UNCHANGED httpVars
  BY <1>12 DEF CopyField
<1>13. CASE WriteChunk("httpd") /\ Answer("success")
            /\ UNCHANGED <<registered, heapDocs, torn>>
  BY <1>13 DEF WriteChunk
<1>14. CASE MainLoop
  <2>1. hpc' = hpc
    BY <1>14 DEF MainLoop, app_main, CheckFlag, Update, UpdateBegin, UpdatePulse,
       CatchUp, UpdateReturn, ClearFlag, Flow, CheckWifi, runPortCheck, CheckDue,
       OpenPulse, CheckQuantity, ClosePulse, Delay, Sleep, CopyField, WriteChunk
  <2> QED BY <1>14, <2>1 DEF MainLoop
<1>15. CASE WakeUp \/ Around
  BY <1>15 DEF Around, WakeUp, Wake, SntpSet, timeUpdateNotif, Tick
<1>16. CASE UNCHANGED allVars
  BY <1>16 DEF allVars
<1> QED
  BY <1>1, <1>2, <1>3, <1>4, <1>5, <1>6, <1>7, <1>8, <1>9, <1>10, <1>11, <1>12,
     <1>13, <1>14, <1>15, <1>16 DEF HttpNext, handler, SaveConfig

(* Whatever clients send, a body in work leaves room in the scratch buffer for
   the 0 behind it.                                                        *)
THEOREM HttpTypeInvariant == HttpSpec => []HttpTypeOK
BY HttpTypeInit, HttpTypeStep, PTL DEF HttpSpec

-----------------------------------------------------------------------------
(* Half a post is not stored.                                              *)

(* Where the interval of half a post may be: in the port, while httpd is
   between its members, and in a port that the panic is about to forget.   *)
HalfInv ==
  torn \/ /\ nvs.interval \in WholeIntervals
          /\ \A w \in Tasks : config[w].interval \in WholeIntervals
          /\ Running /\ hpc \in {"idle", "interval", "save"} =>
               port.interval \in WholeIntervals
          /\ Running /\ hpc # "idle" =>
               request \in Bodies /\ request.json /\ post = Converted(request)
          /\ Running /\ hpc = "quantity" =>
               HasInterval /\ port.interval = post.interval

(* Everything holds the provisioned interval ...                           *)
LEMMA HalfInit == HttpInit => HalfInv
BY DEF HttpInit, Init, HalfInv, WholeIntervals, Running

(* ... or one that was posted whole.                                       *)
LEMMA HalfStep ==
  TypeOK /\ HttpTypeOK /\ HalfInv /\ [HttpNext]_allVars => HalfInv'
<1> SUFFICES ASSUME TypeOK, HttpTypeOK, HalfInv, [HttpNext]_allVars, ~torn'
             PROVE  HalfInv'
  BY DEF HalfInv
<1>types. /\ port \in Port /\ nvs \in Port /\ config \in [Tasks -> Port]
          /\ copied \in [Tasks -> 0 .. Len(Fields)]
          /\ hpc \in {"idle", "interval", "quantity", "save"}
          /\ post \in [interval : Word32, required : Word16]
          /\ request \in Bodies \cup {None}
          /\ InitPort.interval \in WholeIntervals
  BY DEF TypeOK, HttpTypeOK, WholeIntervals
<1> USE <1>types DEF HalfInv, Running, Port, vault, http, httpVars, Answer
<1>1. CASE Start
  <2>1. ~torn
    BY <1>1 DEF Start
  <2>2. /\ port' = getVaultData(nvs) /\ hpc' = "idle" /\ UNCHANGED nvs
        /\ config' = [w \in Tasks |-> InitPort]
    BY <1>1 DEF Start, Boot, Restart
  <2> QED BY <2>1, <2>2 DEF getVaultData
<1>2. CASE registerObserver \/ Accept \/ Receive \/ ReceiveFails \/ NotParsed
  <2>1. /\ UNCHANGED <<vars, torn>>
        /\ hpc # "idle" => UNCHANGED request
    BY <1>2 DEF registerObserver, Accept, Receive, Receiving, ReceiveFails,
       NotParsed, Received
  <2> QED BY <2>1 DEF vars, HasInterval
<1>3. CASE NotifyNobody \/ NullMember
  BY <1>3 DEF NotifyNobody, NullMember, Panic, Reset
<1>4. CASE Parsed
  BY <1>4 DEF Parsed, Received, Requested, Post
<1>5. CASE StoreInterval
  BY <1>5 DEF StoreInterval, HasInterval, SetInterval, SetField
<1>6. CASE StoreOthers
  <2>1. /\ ~torn /\ pc' = pc /\ hpc = "quantity" /\ hpc' = "save" /\ Running
        /\ port' = [port EXCEPT !["required"] = post["required"]]
        /\ UNCHANGED <<vault, post, request>>
    BY <1>6 DEF StoreOthers, SetQuantity, SetField
  <2>2. request \in Bodies /\ request.json /\ request.members = Members
    BY <1>6, <2>1, HttpAssumption
       DEF StoreOthers, HasInterval, HasOthers, Members, HttpAssumption
  <2>3. post.interval \in WholeIntervals
    BY <2>1, <2>2 DEF WholeIntervals
  <2> QED BY <2>1, <2>2, <2>3
<1>7. CASE CopyField("httpd") /\ UNCHANGED httpVars
  BY <1>7 DEF CopyField, Saving, HasInterval
<1>8. CASE WriteChunk("httpd") /\ Answer("success")
           /\ UNCHANGED <<registered, heapDocs, torn>>
  BY <1>8 DEF WriteChunk, Saving, Tasks
<1>9. CASE MainLoop
  <2>1. /\ ~torn /\ UNCHANGED request
        /\ hpc = "idle" \/ copied'["main"] = copied["main"]
    BY <1>9 DEF MainLoop
  <2>2. app_main
    BY <1>9 DEF MainLoop
  <2>3. CASE CopyField("main")
    <3>1. copied'["main"] # copied["main"]
      BY <2>3 DEF CopyField, Tasks
    <3> QED BY <2>1, <2>3, <3>1 DEF CopyField, Saving
  <2>4. CASE WriteChunk("main")
    BY <2>1, <2>4 DEF WriteChunk, Saving, Tasks, HasInterval
  <2>5. CASE CheckFlag \/ Update \/ ClearFlag \/ Flow \/ CheckWifi
             \/ runPortCheck \/ Delay \/ Sleep
    <3>1. UNCHANGED <<vault, http>> /\ Running
      BY <2>5 DEF CheckFlag, Update, UpdateBegin, UpdatePulse, CatchUp,
         UpdateReturn, ClearFlag, Flow, CheckWifi, runPortCheck, CheckDue,
         OpenPulse, CheckQuantity, ClosePulse, Delay, Sleep
    <3>2. port'.interval = port.interval
      BY <2>5 DEF CheckFlag, Update, UpdateBegin, UpdatePulse, CatchUp,
         UpdateReturn, ClearFlag, Flow, CheckWifi, runPortCheck, CheckDue,
         OpenPulse, CheckQuantity, ClosePulse, Delay, Sleep, Opened, Closed,
         NextSlot
    <3> QED BY <2>1, <3>1, <3>2 DEF HasInterval
  <2> QED BY <2>2, <2>3, <2>4, <2>5 DEF app_main
<1>10. CASE WakeUp \/ Around
  BY <1>10 DEF Around, WakeUp, Wake, SntpSet, timeUpdateNotif, Tick, HasInterval
<1>11. CASE UNCHANGED allVars
  BY <1>11 DEF allVars, vars, HasInterval
<1> QED
  BY <1>1, <1>2, <1>3, <1>4, <1>5, <1>6, <1>7, <1>8, <1>9, <1>10, <1>11
     DEF HttpNext, handler, SaveConfig

(* A post that ends in a panic halfway leaves nothing behind in flash, unless
   app_main was saving while httpd was at it.                              *)
THEOREM HalfPostNeverStoredHolds == HttpSpec => []HalfPostNeverStored
<1>1. HalfInv => HalfPostNeverStored
  BY DEF HalfInv, HalfPostNeverStored
<1> QED
  BY <1>1, HalfInit, HalfStep, HttpPortTypes, HttpTypeInvariant, PTL DEF HttpSpec

-----------------------------------------------------------------------------
(* What was parsed is stored.                                              *)

(* Where what was asked for is while httpd works on it: in post, then member
   by member in the port, then field by field in its copy.                 *)
StoredInv ==
  Running =>
    /\ hpc # "idle" => post = Converted(request)
    /\ hpc \in {"quantity", "save"} => port.interval = post.interval
    /\ hpc = "save" =>
         /\ port.required = post.required
         /\ copied["httpd"] >= 3 => config["httpd"].interval = post.interval
         /\ copied["httpd"] >= 4 => config["httpd"].required = post.required
    /\ hpc # "save" => copied["httpd"] = 0

LEMMA StoredInit == HttpInit => StoredInv
BY DEF HttpInit, Init, StoredInv, Running

(* What one more field does to httpd's copy.                               *)
LEMMA CopiedMembers ==
  ASSUME TypeOK, CopyField("httpd")
  PROVE  /\ copied'["httpd"] = copied["httpd"] + 1 /\ copied["httpd"] \in 0 .. 4
         /\ config'["httpd"].interval =
              IF copied["httpd"] = 2 THEN port.interval ELSE config["httpd"].interval
         /\ config'["httpd"].required =
              IF copied["httpd"] = 3 THEN port.required ELSE config["httpd"].required
<1> DEFINE n == copied["httpd"]
<1>1. /\ copied' = [copied EXCEPT !["httpd"] = n + 1] /\ n \in 0 .. 4
      /\ config \in [Tasks -> Port] /\ port \in Port
      /\ config' = [config EXCEPT !["httpd"][Fields[n + 1]] = port[Fields[n + 1]]]
      /\ copied \in [Tasks -> 0 .. 5]
  BY DEF TypeOK, CopyField, Fields, Tasks
<1>2. n = 2 => Fields[n + 1] = "interval"
  BY DEF Fields
<1>3. n = 3 => Fields[n + 1] = "required"
  BY DEF Fields
<1>4. /\ n # 2 => Fields[n + 1] # "interval"
      /\ n # 3 => Fields[n + 1] # "required"
  BY <1>1 DEF Fields
<1>5. copied'["httpd"] = n + 1
  BY <1>1 DEF Tasks
<1> DEFINE g == Fields[n + 1]
<1>6. config'["httpd"] = [config["httpd"] EXCEPT ![g] = port[g]]
  BY <1>1 DEF Tasks
<1>7. config["httpd"] \in Port
  BY <1>1 DEF Tasks
<1>8. /\ config'["httpd"].interval = IF g = "interval" THEN port.interval
                                     ELSE config["httpd"].interval
      /\ config'["httpd"].required = IF g = "required" THEN port.required
                                     ELSE config["httpd"].required
  <2> HIDE DEF g
  <2> QED BY <1>6, <1>7 DEF Port
<1> QED BY <1>1, <1>2, <1>3, <1>4, <1>5, <1>8

(* The other task writes neither member of the port, nor httpd's copy.     *)
LEMMA OthersLeaveMembers ==
  ASSUME TypeOK, MainLoop \/ Around
  PROVE  /\ UNCHANGED <<hpc, post, request>> /\ Running
         /\ port'.interval = port.interval /\ port'.required = port.required
         /\ copied'["httpd"] = copied["httpd"] /\ config'["httpd"] = config["httpd"]
<1>types. port \in Port /\ copied \in [Tasks -> 0 .. Len(Fields)] /\ config \in [Tasks -> Port]
  BY DEF TypeOK
<1>0. UNCHANGED request
  BY DEF MainLoop, Around, httpVars
<1>1. CASE CopyField("main") \/ WriteChunk("main")
  BY <1>0, <1>1, <1>types DEF CopyField, WriteChunk, Saving, Running, Tasks
<1>2. CASE CheckFlag \/ Update \/ ClearFlag \/ Flow \/ CheckWifi \/ runPortCheck
           \/ Delay \/ Sleep \/ SntpSet \/ timeUpdateNotif \/ Tick
  <2>1. UNCHANGED <<vault, http>> /\ Running
    BY <1>2 DEF CheckFlag, Update, UpdateBegin, UpdatePulse, CatchUp, UpdateReturn,
       ClearFlag, Flow, CheckWifi, runPortCheck, CheckDue, OpenPulse, CheckQuantity,
       ClosePulse, Delay, Sleep, SntpSet, timeUpdateNotif, Tick, Running
  <2>2. port'.interval = port.interval /\ port'.required = port.required
    BY <1>2, <1>types DEF CheckFlag, Update, UpdateBegin, UpdatePulse, CatchUp, UpdateReturn,
       ClearFlag, Flow, CheckWifi, runPortCheck, CheckDue, OpenPulse, CheckQuantity,
       ClosePulse, Delay, Sleep, SntpSet, timeUpdateNotif, Tick, Opened, Closed,
       NextSlot, Port
  <2> QED BY <1>0, <2>1, <2>2 DEF vault, http
<1> QED BY <1>1, <1>2 DEF MainLoop, Around, app_main

LEMMA StoredStep ==
  TypeOK /\ HttpTypeOK /\ StoredInv /\ [HttpNext]_allVars => StoredInv'
<1> SUFFICES ASSUME TypeOK, HttpTypeOK, StoredInv, [HttpNext]_allVars PROVE StoredInv'
  OBVIOUS
<1>types. port \in Port /\ copied["httpd"] \in 0 .. 5 /\ Len(Fields) = 5
          /\ post \in [interval : Word32, required : Word16]
          /\ copied \in [Tasks -> 0 .. 5] /\ "httpd" \in Tasks
          /\ hpc \in {"idle", "interval", "quantity", "save"}
  BY DEF TypeOK, Tasks, Fields
<1> USE <1>types DEF StoredInv, Running
<1>1. CASE Start
  <2>1. hpc' = "idle" /\ copied' = [v \in Tasks |-> 0]
    BY <1>1 DEF Start, Boot, Restart
  <2> QED BY <2>1
<1>2. CASE registerObserver \/ Accept \/ Receive \/ ReceiveFails \/ NotParsed
  <2>1. UNCHANGED vars /\ (hpc # "idle" => UNCHANGED request)
    BY <1>2 DEF registerObserver, Accept, Receive, Receiving, ReceiveFails, NotParsed,
       Received
  <2> QED BY <2>1 DEF vars, vault, http
<1>3. CASE NotifyNobody \/ NullMember
  BY <1>3 DEF NotifyNobody, NullMember, Panic, Reset
<1>4. CASE Parsed
  <2>1. /\ hpc = "idle" /\ hpc' = "interval" /\ post' = Converted(request)
        /\ Running /\ UNCHANGED <<request, copied, pc>>
    BY <1>4 DEF Parsed, Post, vault
  <2> QED BY <2>1
<1>5. CASE StoreInterval
  <2>1. /\ hpc = "interval" /\ hpc' = "quantity" /\ Running
        /\ port'.interval = post.interval /\ UNCHANGED <<pc, post, request, vault>>
    BY <1>5 DEF StoreInterval, SetInterval, SetField, httpVars, Port
  <2> QED BY <2>1 DEF vault
<1>6. CASE StoreOthers
  <2>1. /\ hpc = "quantity" /\ hpc' = "save" /\ Running
        /\ port'.required = post.required /\ port'.interval = port.interval
        /\ UNCHANGED <<pc, post, request, vault>>
    BY <1>6 DEF StoreOthers, SetQuantity, SetField, httpVars, Port
  <2> QED BY <2>1 DEF vault
<1>7. CASE CopyField("httpd") /\ UNCHANGED httpVars
  <2>1. UNCHANGED <<port, pc, hpc, post, request>> /\ hpc = "save" /\ Running
    BY <1>7 DEF CopyField, Saving, httpVars
  <2> QED BY <1>7, <2>1, CopiedMembers
<1>8. CASE WriteChunk("httpd") /\ Answer("success")
           /\ UNCHANGED <<registered, heapDocs, torn>>
  <2>1. hpc' = "idle" /\ copied' = [copied EXCEPT !["httpd"] = 0]
    BY <1>8 DEF WriteChunk
  <2> QED BY <2>1
<1>9. CASE MainLoop \/ Around
  BY <1>9, OthersLeaveMembers
<1>10. CASE WakeUp
  BY <1>10 DEF WakeUp, Wake
<1>11. CASE UNCHANGED allVars
  BY <1>11 DEF allVars, vars, vault, http, httpVars
<1> QED
  BY <1>1, <1>2, <1>3, <1>4, <1>5, <1>6, <1>7, <1>8, <1>9, <1>10, <1>11
     DEF HttpNext, handler, SaveConfig

(* If writes do not fail, a configuration httpd parsed and answers for is in
   flash and in the port, all of it, whatever app_main did meanwhile.      *)
THEOREM StoredAsAskedHolds ==
  ASSUME FlashErrors = FALSE
  PROVE  HttpSpec => StoredAsAsked
<1>1. ASSUME TypeOK, HttpTypeOK, StoredInv, [HttpNext]_allVars,
             Running, hpc = "save", Requested, ~Requested'
      PROVE  /\ Configured(nvs') = Converted(request)
             /\ Configured(port') = Converted(request)
  <2>1. WriteChunk("httpd")
    <3>1. ~MainLoop /\ ~Around
      BY <1>1, OthersLeaveMembers DEF Requested
    <3>2. ~Start
      BY <1>1 DEF Start, Boot, Running
    <3> QED
      BY <1>1, <3>1, <3>2
         DEF HttpNext, handler, registerObserver, Accept, Receive, Receiving,
             ReceiveFails, NotifyNobody, NotParsed, Received, Parsed, StoreInterval,
             StoreOthers, NullMember, Panic, SaveConfig, WakeUp, Requested, httpVars,
             allVars
  <2>2. /\ nvs' = config["httpd"] /\ port' = port /\ copied["httpd"] = 5
    BY <2>1 DEF WriteChunk, Fields
  <2>3. /\ post = Converted(request)
        /\ port.interval = post.interval /\ port.required = post.required
        /\ config["httpd"].interval = post.interval
        /\ config["httpd"].required = post.required
    BY <1>1, <2>2 DEF StoredInv
  <2> QED BY <2>2, <2>3 DEF Configured, Converted
<1>2. TypeOK /\ HttpTypeOK /\ StoredInv /\ [HttpNext]_allVars =>
        [Running /\ hpc = "save" /\ Requested /\ ~Requested' =>
           /\ Configured(nvs') = Converted(request)
           /\ Configured(port') = Converted(request)]_allVars
  BY <1>1
<1> QED
  BY <1>2, StoredInit, StoredStep, HttpPortTypes, HttpTypeInvariant, PTL
     DEF HttpSpec, StoredAsAsked

-----------------------------------------------------------------------------
(* Why a request ends: what is left of it.                                 *)

(* httpd works on a request, and is at a place.                            *)
Working(at) == Requested /\ Running /\ hpc = at

(* Bytes to receive, members to store, fields to copy; and the two steps until
   a chip that slept or panicked over it has started without it.           *)
RequestLeft ==
  CASE ~Requested                          -> 0
    [] Requested /\ pc = "off"             -> 1
    [] Requested /\ pc = "asleep"          -> 2
    [] Working("save")                     -> 8 - copied["httpd"]
    [] Working("quantity")                 -> 9
    [] Working("interval")                 -> 10
    [] Working("idle")                     -> 11 + request.len - cur_len

LEMMA RequestLeftIsNat ==
  TypeOK /\ HttpTypeOK => RequestLeft \in Nat /\ (RequestLeft = 0 <=> ~Requested)
<1> SUFFICES ASSUME TypeOK, HttpTypeOK
             PROVE  RequestLeft \in Nat /\ (RequestLeft = 0 <=> ~Requested)
  OBVIOUS
<1>1. /\ hpc \in {"idle", "interval", "quantity", "save"} /\ copied["httpd"] \in 0 .. 5
  BY DEF TypeOK, Tasks, Fields
<1>2. /\ request.len \in Nat /\ cur_len \in 0 .. request.len
  BY HttpAssumption DEF HttpTypeOK, HttpAssumption, None
<1> QED BY <1>1, <1>2 DEF RequestLeft, Working, Running

(* No step of the main loop takes part in a request, unless it goes to sleep. *)
LEMMA MainLoopApart ==
  ASSUME TypeOK, MainLoop
  PROVE  /\ UNCHANGED <<request, cur_len, hpc>> /\ copied'["httpd"] = copied["httpd"]
         /\ Running /\ pc' # "off"
<1>1. app_main /\ UNCHANGED <<request, cur_len>>
  BY DEF MainLoop
<1>2. CASE CopyField("main") \/ WriteChunk("main")
  BY <1>1, <1>2 DEF CopyField, WriteChunk, Saving, Running, TypeOK, Tasks
<1>3. CASE CheckFlag \/ Update \/ ClearFlag \/ Flow \/ CheckWifi \/ runPortCheck
           \/ Delay \/ Sleep
  <2>1. UNCHANGED <<hpc, copied>>
    BY <1>3 DEF CheckFlag, Update, UpdateBegin, UpdatePulse, CatchUp,
       UpdateReturn, ClearFlag, Flow, CheckWifi, runPortCheck, CheckDue,
       OpenPulse, CheckQuantity, ClosePulse, Delay, Sleep, vault, http
  <2>2. Running /\ pc' # "off"
    BY <1>3 DEF CheckFlag, Update, UpdateBegin, UpdatePulse, CatchUp,
       UpdateReturn, ClearFlag, Flow, CheckWifi, runPortCheck, CheckDue,
       OpenPulse, CheckQuantity, ClosePulse, Delay, Sleep, DeepSleep, Running
  <2> QED BY <1>1, <2>1, <2>2
<1> QED BY <1>1, <1>2, <1>3 DEF app_main

LEMMA RequestLeftStep ==
  ASSUME TypeOK, HttpTypeOK, TypeOK', HttpTypeOK', HttpNext
  PROVE  /\ Receive \/ handler => RequestLeft' < RequestLeft
         /\ ~Accept => RequestLeft' <= RequestLeft
<1>left. /\ RequestLeft \in Nat /\ (RequestLeft = 0 <=> ~Requested)
         /\ RequestLeft' \in Nat /\ (RequestLeft' = 0 <=> ~Requested')
  <2>1. RequestLeft \in Nat /\ (RequestLeft = 0 <=> ~Requested)
    BY RequestLeftIsNat
  <2>2. (TypeOK /\ HttpTypeOK => RequestLeft \in Nat /\ (RequestLeft = 0 <=> ~Requested))'
    BY RequestLeftIsNat, PTL
  <2> QED BY <2>1, <2>2
<1>types. /\ copied["httpd"] \in 0 .. 5 /\ request.len \in Nat /\ cur_len \in 0 .. request.len
          /\ copied \in [Tasks -> 0 .. 5] /\ Len(Fields) = 5
  BY HttpAssumption DEF TypeOK, Tasks, Fields, HttpTypeOK, HttpAssumption, None
<1>busy. hpc # "idle" => Requested
  BY DEF HttpTypeOK
<1>1. CASE ReceiveFails \/ NotParsed \/ (WriteChunk("httpd") /\ Answer("success"))
  <2>1. Requested /\ ~Requested'
    BY <1>1, <1>busy DEF ReceiveFails, NotParsed, Received, Receiving, Answer, Requested,
       WriteChunk, Saving
  <2> QED BY <1>left, <2>1
<1>2. CASE Receive
  <2>1. /\ Working("idle") /\ UNCHANGED <<pc, hpc, request>> /\ cur_len' > cur_len
        /\ cur_len' \in Nat
    BY <1>2, <1>types DEF Receive, Receiving, Working, vars, http
  <2>2. Working("idle")'
    BY <2>1 DEF Working, Requested, Running
  <2> QED BY <1>types, <2>1, <2>2 DEF RequestLeft, Working, Running, Requested
<1>3. CASE NotifyNobody \/ NullMember
  <2>1. Running /\ Requested /\ pc' = "off" /\ Requested'
    BY <1>3, <1>busy DEF NotifyNobody, NullMember, Received, Panic, Reset, httpVars, Requested
  <2>2. RequestLeft' = 1
    BY <2>1 DEF RequestLeft, Working, Running
  <2>3. RequestLeft > 1
    BY <1>types, <1>left, <2>1 DEF RequestLeft, Working, Running, TypeOK
  <2> QED BY <1>left, <2>2, <2>3
<1>4. CASE Parsed \/ StoreInterval \/ StoreOthers
  <2>1. /\ \/ hpc = "idle" /\ hpc' = "interval" /\ cur_len = request.len
           \/ hpc = "interval" /\ hpc' = "quantity"
           \/ hpc = "quantity" /\ hpc' = "save"
        /\ Running /\ UNCHANGED <<pc, request, copied>> /\ Requested
    BY <1>4, <1>busy DEF Parsed, Received, Post, StoreInterval, StoreOthers, SetInterval,
       SetQuantity, SetField, httpVars, vault
  <2>2. RequestLeft' < RequestLeft
    BY <1>types, <2>1 DEF RequestLeft, Working, Running, Requested
  <2> QED BY <1>left, <2>2
<1>5. CASE CopyField("httpd") /\ UNCHANGED httpVars
  <2>1. /\ Working("save") /\ UNCHANGED <<pc, hpc, request>>
        /\ copied'["httpd"] = copied["httpd"] + 1
    BY <1>5, <1>busy, <1>types DEF CopyField, Saving, httpVars, Working, Tasks
  <2>2. RequestLeft' < RequestLeft
    BY <1>types, <2>1 DEF RequestLeft, Working, Running, Requested
  <2> QED BY <1>left, <2>2
<1>6. CASE handler
  BY <1>1, <1>3, <1>4, <1>5, <1>6 DEF handler, SaveConfig
<1>7. ASSUME ~Receive, ~handler, ~Accept
      PROVE  RequestLeft' <= RequestLeft
  <2>1. CASE Start
    <3>1. ~Requested'
      BY <2>1 DEF Start, Requested
    <3> QED BY <1>left, <3>1
  <2>2. CASE registerObserver
    <3>1. UNCHANGED <<request, cur_len, pc, hpc, copied>>
      BY <2>2 DEF registerObserver, vars, vault, http
    <3>2. RequestLeft' = RequestLeft
      BY <3>1 DEF RequestLeft, Working, Running, Requested
    <3> QED BY <1>left, <3>2
  <2>3. CASE MainLoop
    <3>1. /\ UNCHANGED <<request, cur_len, hpc>> /\ copied'["httpd"] = copied["httpd"]
          /\ Running /\ pc' # "off"
      BY <2>3, MainLoopApart
    <3>2. CASE pc' = "asleep" /\ Requested
      <4>1. RequestLeft' = 2
        BY <3>1, <3>2 DEF RequestLeft, Working, Running, Requested
      <4>2. RequestLeft > 2
        BY <1>types, <1>left, <3>1, <3>2 DEF RequestLeft, Working, Running, TypeOK
      <4> QED BY <1>left, <4>1, <4>2
    <3>3. CASE ~(pc' = "asleep" /\ Requested)
      <4>1. RequestLeft' = RequestLeft
        BY <3>1, <3>3 DEF RequestLeft, Working, Running, Requested
      <4> QED BY <1>left, <4>1
    <3> QED BY <3>2, <3>3
  <2>4. CASE WakeUp
    <3>1. pc = "asleep" /\ pc' = "off" /\ UNCHANGED request
      BY <2>4 DEF WakeUp, Wake, httpVars
    <3> QED BY <3>1 DEF RequestLeft, Working, Running, Requested
  <2>5. CASE Around
    <3>1. UNCHANGED <<request, cur_len, pc, hpc, copied>>
      BY <2>5 DEF Around, SntpSet, timeUpdateNotif, Tick, httpVars, vault, http
    <3>2. RequestLeft' = RequestLeft
      BY <3>1 DEF RequestLeft, Working, Running, Requested
    <3> QED BY <1>left, <3>2
  <2> QED BY <1>7, <2>1, <2>2, <2>3, <2>4, <2>5 DEF HttpNext
<1> QED BY <1>left, <1>2, <1>6, <1>7

(* Every step of the server, byte by byte of a body and field by field of a
   save, brings a request nearer to its end; nothing app_main, the clock or a
   reset does in between takes it back.  So a request ends with its answer or
   with the chip, if httpd has its turns.                                  *)
THEOREM RequestGetsOn ==
  HttpSpec => [](RequestLeft \in Nat /\ (RequestLeft = 0 <=> ~Requested))
              /\ [][/\ Receive \/ handler => RequestLeft' < RequestLeft
                    /\ ~Accept => RequestLeft' <= RequestLeft]_allVars
<1>1. TypeOK /\ HttpTypeOK /\ TypeOK' /\ HttpTypeOK' /\ [HttpNext]_allVars =>
        [/\ Receive \/ handler => RequestLeft' < RequestLeft
         /\ ~Accept => RequestLeft' <= RequestLeft]_allVars
  BY RequestLeftStep
<1> QED
  BY <1>1, RequestLeftIsNat, HttpPortTypes, HttpTypeInvariant, PTL DEF HttpSpec

=============================================================================
