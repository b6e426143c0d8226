---------------------------- MODULE Display_proofs ----------------------------
(***************************************************************************)
(* Proofs about Display, for every value of its constants.                 *)
(***************************************************************************)
EXTENDS Display, Irrigator_proofs

(* Drawing is no business of the port's.                                   *)
LEMMA DisplayStepRefines == [DisplayNext]_<<vars, displayVars>> => [Next]_vars
<1> SUFFICES ASSUME [DisplayNext]_<<vars, displayVars>> PROVE [Next]_vars
  OBVIOUS
<1>1. CASE SetUpDisplay \/ ShowSync \/ ShowFlow
  BY <1>1 DEF SetUpDisplay, ShowSync, ShowFlow, Next, app_main
<1>2. CASE ReadEnv
  BY <1>2 DEF ReadEnv
<1>3. CASE ShowWifi \/ Opening \/ HasOpened \/ ShowOpening \/ ShowClosing \/ Refresh
  BY <1>3 DEF ShowWifi, Opening, HasOpened, ShowOpening, ShowClosing, Refresh, Next,
     app_main, runPortCheck
<1>4. CASE NotShown \/ Elsewhere
  BY <1>4 DEF NotShown, Elsewhere, Next, app_main
<1>5. CASE UNCHANGED <<vars, displayVars>>
  BY <1>5
<1> QED BY <1>1, <1>2, <1>3, <1>4, <1>5 DEF DisplayNext

(* The display only reads the controller, by construction of DisplayNext: so
   every theorem on Irrigator is one on the controller with its display.   *)
LEMMA DisplayImplementsIrrigator == DisplaySpec => Spec
<1>1. DisplayInit => Init
  BY DEF DisplayInit
<1> QED BY <1>1, DisplayStepRefines, PTL DEF DisplaySpec, Spec

-----------------------------------------------------------------------------
(* What the drawing calls make of a display object.                        *)

Picture == [output : PortState, wifi : BOOLEAN, time : SUBSET Nat, date : SUBSET Nat,
            desired : SUBSET Nat, flow : SUBSET Nat, env : SUBSET Nat]

Object == [frame : Picture, dispNeedRefresh : BOOLEAN, prevFlow : Word16,
           flowText : Nat \cup {NoText}, envText : Nat \cup {NoText}]

(* A text redrawn, and a text alone.                                       *)
Replaced(texts, old, new) == (texts \ {old}) \cup {new}
Alone(text) == {text}

(* The fields of the picture that are not drawn.                           *)
Same(d, e, fields) == \A f \in fields : e.frame[f] = d.frame[f]

Parts == {"output", "wifi", "time", "date", "desired", "flow", "env"}

(* A call asks for a refresh if it draws, and remembers no flow or reading
   unless that is what it draws.                                           *)
Asks(d, e)  == e = d \/ e.dispNeedRefresh
Keeps(d, e) == /\ e.prevFlow = d.prevFlow /\ e.flowText = d.flowText
               /\ e.envText = d.envText

LEMMA Blank == Outline \in Picture /\ NewDisplay \in Object
<1>1. Outline \in Picture
  BY DEF Outline, Picture, PortState, CLOSED
<1> QED BY <1>1, Wraps DEF NewDisplay, Object

LEMMA OutputDrawn ==
  ASSUME NEW d \in Object, NEW s \in PortState, NEW e, e = updateOutputState(d, s)
  PROVE  /\ e \in Object /\ Asks(d, e) /\ Keeps(d, e)
         /\ e.frame.output = s /\ Same(d, e, Parts \ {"output"})
BY DEF Object, Picture, Asks, Keeps, Same, Parts, updateOutputState, Drawn

LEMMA WifiDrawn ==
  ASSUME NEW d \in Object, NEW s \in BOOLEAN, NEW e, e = updateWifiState(d, s)
  PROVE  /\ e \in Object /\ Asks(d, e) /\ Keeps(d, e)
         /\ Same(d, e, Parts \ {"wifi"})
BY DEF Object, Picture, Asks, Keeps, Same, Parts, updateWifiState, Drawn

(* A time's texts are numbers of minutes and of days.                      *)
LEMMA Texts ==
  /\ \A t \in Nat : TimeText(t) \in Nat /\ DateText(t) \in Nat /\ Whole(t) \in Nat
  /\ Whole(0) = 0
BY DisplayAssumption DEF DisplayAssumption, TimeText, DateText, Whole

LEMMA TimeDrawn ==
  ASSUME NEW d \in Object, NEW t \in Nat, NEW e, e = drawSwitchTime(d, t)
  PROVE  /\ e \in Object /\ Asks(d, e) /\ Keeps(d, e)
         /\ e.frame.time = Alone(TimeText(t)) /\ Same(d, e, Parts \ {"time", "date"})
<1>1. {TimeText(t)} \in SUBSET Nat /\ d.frame.date \cup {DateText(t)} \in SUBSET Nat
  BY Texts DEF Object, Picture
<1> QED
  BY <1>1 DEF Object, Picture, Asks, Keeps, Same, Parts, Alone, drawSwitchTime, Drawn

LEMMA DesiredDrawn ==
  ASSUME NEW d \in Object, NEW n \in Word16, NEW e, e = updateDesiredFlow(d, n)
  PROVE  /\ e \in Object /\ Asks(d, e) /\ Keeps(d, e)
         /\ e.frame.desired = d.frame.desired \cup {n}
         /\ Same(d, e, Parts \ {"desired"})
<1>1. d.frame.desired \cup {n} \in SUBSET Nat
  BY Wraps DEF Object, Picture
<1> QED
  BY <1>1 DEF Object, Picture, Asks, Keeps, Same, Parts, updateDesiredFlow, Drawn

LEMMA FlowDrawn ==
  ASSUME NEW d \in Object, NEW n \in Word16, NEW e, e = updateFlow(d, n)
  PROVE  /\ e \in Object /\ Asks(d, e) /\ e.envText = d.envText /\ e.prevFlow = n
         /\ d.prevFlow = n => e = d
         /\ d.prevFlow # n =>
              /\ e.flowText = n
              /\ e.frame.flow = Replaced(d.frame.flow, d.flowText, n)
              /\ Same(d, e, Parts \ {"flow"})
<1>1. n \in Nat /\ (d.frame.flow \ {d.flowText}) \cup {n} \in SUBSET Nat
  BY Wraps DEF Object, Picture
<1> QED
  BY <1>1 DEF Object, Picture, Asks, Same, Parts, Replaced, updateFlow, Drawn

LEMMA EnvDrawn ==
  ASSUME NEW d \in Object, NEW n \in Nat, NEW e, e = updateEnvData(d, n)
  PROVE  /\ e \in Object /\ e.dispNeedRefresh
         /\ e.prevFlow = d.prevFlow /\ e.flowText = d.flowText /\ e.envText = n
         /\ e.frame.env = Replaced(d.frame.env, d.envText, n)
         /\ Same(d, e, Parts \ {"env"})
<1>1. (d.frame.env \ {d.envText}) \cup {n} \in SUBSET Nat
  BY DEF Object, Picture
<1> QED
  BY <1>1 DEF Object, Picture, Same, Parts, Replaced, updateEnvData, Drawn

(* What app_main draws when the port was closed.                           *)
LEMMA ClosingDrawn ==
  ASSUME NEW d \in Object, NEW t \in Nat, NEW e,
         e = drawSwitchTime(updateOutputState(d, CLOSED), t)
  PROVE  /\ e \in Object /\ Asks(d, e) /\ Keeps(d, e)
         /\ e.frame.output = CLOSED /\ e.frame.time = Alone(TimeText(t))
         /\ Same(d, e, Parts \ {"output", "time", "date"})
<1> DEFINE o == updateOutputState(d, CLOSED)
<1>1. /\ o \in Object /\ Asks(d, o) /\ Keeps(d, o) /\ o.frame.output = CLOSED
      /\ Same(d, o, Parts \ {"output"})
  BY OutputDrawn DEF PortState
<1>2. e = drawSwitchTime(o, t)
  OBVIOUS
<1> HIDE DEF o
<1>3. /\ e \in Object /\ Asks(o, e) /\ Keeps(o, e) /\ e.frame.time = Alone(TimeText(t))
      /\ Same(o, e, Parts \ {"time", "date"})
  BY <1>1, <1>2, TimeDrawn
<1> QED BY <1>1, <1>3 DEF Asks, Keeps, Same, Parts

LEMMA RefreshDrawn ==
  ASSUME NEW d \in Object, NEW e, e = Refreshed(d)
  PROVE  e \in Object /\ Keeps(d, e) /\ e.frame = d.frame /\ ~e.dispNeedRefresh
BY DEF Object, Keeps, Refreshed

-----------------------------------------------------------------------------
(* The object, the panel, and what stands in the text regions.             *)

(* Where app_main is from its look at loopCounter on until it counts down. *)
Counted == {"check", "openPulse", "checkQuantity", "closePulse", "delay"}

ObjectInv ==
  /\ disp \in Object /\ panel \in Picture
  /\ ~disp.dispNeedRefresh => panel = disp.frame
  /\ sensor \in Nat /\ envOld \in Nat /\ loopCounter \in 0 .. EnvLoops
  /\ pc \in Counted \/ (pc = "save" /\ caller # "sync") => loopCounter # 0
  /\ pc = "clearFlag" => caller = "sync"
  /\ result \in {"ERROR", OPEN}
  /\ behind \subseteq {"icon", "time"} /\ measured \in BOOLEAN

(* Two texts in a region are one.                                          *)
Single(texts) == \A a, b \in texts : a = b
Readable(p)   == /\ Single(p.time) /\ Single(p.desired) /\ Single(p.flow)
                 /\ Single(p.env)

(* The text that is drawn in the background next is the one that is there,
   and it is that of the value remembered.                                 *)
TextsInv ==
  /\ Readable(disp.frame) /\ Readable(panel)
  /\ \/ disp.frame.flow = {} /\ disp.prevFlow = 0
     \/ disp.frame.flow = {disp.flowText} /\ disp.flowText = disp.prevFlow
  /\ measured => disp.prevFlow = port.current
  /\ envOld = Whole(sensor)
  /\ \/ disp.frame.env = {} /\ envOld = 0
     \/ disp.frame.env = {disp.envText} /\ Whole(disp.envText) = envOld

(* A cleared panel and a new object, before the loop's first pass.         *)
LEMMA DisplayInitInv == DisplayInit => ObjectInv /\ TextsInv
<1> SUFFICES ASSUME DisplayInit PROVE ObjectInv /\ TextsInv
  OBVIOUS
<1>1. 0 \in 0 .. EnvLoops /\ Whole(0) = 0
  BY Texts, DisplayAssumption DEF DisplayAssumption
<1>2. ObjectInv
  BY <1>1, Blank DEF DisplayInit, Init, ObjectInv, Counted, NewDisplay
<1>3. TextsInv
  BY <1>1 DEF DisplayInit, TextsInv, NewDisplay, Outline, Readable, Single
<1> QED BY <1>2, <1>3

(* The actions in which nothing is drawn.                                  *)
LEMMA QuietSteps ==
  ASSUME ObjectInv, TextsInv, UNCHANGED <<shown, env>>,
         result' \in {"ERROR", OPEN}, behind' \subseteq {"icon", "time"},
         measured' = FALSE \/ (measured' = measured /\ port'.current = port.current),
         pc' \in Counted \/ (pc' = "save" /\ caller' # "sync") => loopCounter # 0,
         pc' = "clearFlag" => caller' = "sync"
  PROVE  ObjectInv' /\ TextsInv'
<1>1. /\ disp' = disp /\ panel' = panel /\ sensor' = sensor /\ envOld' = envOld
      /\ loopCounter' = loopCounter
  BY DEF shown, env
<1>2. measured' \in BOOLEAN
  BY DEF ObjectInv
<1>3. ObjectInv'
  BY <1>1, <1>2 DEF ObjectInv
<1>4. TextsInv'
  BY <1>1 DEF TextsInv
<1> QED BY <1>3, <1>4

(* A drawing call that the panel does not show yet.                        *)
LEMMA DrawSteps ==
  ASSUME ObjectInv, TextsInv, UNCHANGED <<panel, env>>, disp' \in Object,
         Asks(disp, disp'), Keeps(disp, disp'),
         disp'.frame.flow = disp.frame.flow, disp'.frame.env = disp.frame.env,
         Single(disp'.frame.time), Single(disp'.frame.desired),
         result' \in {"ERROR", OPEN}, behind' \subseteq {"icon", "time"},
         measured' = measured, port'.current = port.current,
         pc' \in Counted \/ (pc' = "save" /\ caller' # "sync") => loopCounter # 0,
         pc' = "clearFlag" => caller' = "sync"
  PROVE  ObjectInv' /\ TextsInv'
<1>1. /\ panel' = panel /\ sensor' = sensor /\ envOld' = envOld
      /\ loopCounter' = loopCounter
  BY DEF env
<1>2. ObjectInv'
  BY <1>1 DEF ObjectInv, Asks
<1>3. Readable(disp'.frame) /\ Readable(panel')
  BY <1>1 DEF TextsInv, Readable
<1>4. TextsInv'
  BY <1>1, <1>3 DEF TextsInv, Keeps
<1> QED BY <1>2, <1>4

LEMMA DisplayStep ==
  TypeOK /\ ObjectInv /\ TextsInv /\ [DisplayNext]_<<vars, displayVars>>
    => ObjectInv' /\ TextsInv'
<1> SUFFICES ASSUME TypeOK, ObjectInv, TextsInv, [DisplayNext]_<<vars, displayVars>>
             PROVE  ObjectInv' /\ TextsInv'
  OBVIOUS
<1>types. /\ port \in Port /\ nvs \in Port /\ disp \in Object /\ panel \in Picture
          /\ sensor \in Nat /\ envOld \in Nat /\ loopCounter \in 0 .. EnvLoops
          /\ behind \subseteq {"icon", "time"} /\ result \in {"ERROR", OPEN}
          /\ measured \in BOOLEAN
  BY DEF TypeOK, ObjectInv
<1>fields. ASSUME NEW p \in Port
           PROVE  p.switch \in Nat /\ p.required \in Word16 /\ p.current \in Word16
  BY Wraps DEF Port
<1>empty. \A a : Single(Alone(a)) /\ Single({a}) /\ Single({})
  BY DEF Single, Alone
<1>after. port' \in Port
  BY DisplayStepRefines, TypeStep DEF TypeOK
<1> USE <1>types, <1>after
<1>1. CASE SetUpDisplay
  <2>1. /\ Boot /\ panel' = Outline /\ sensor' = 0 /\ envOld' = 0 /\ loopCounter' = 0
        /\ disp' = updateDesiredFlow(drawSwitchTime(NewDisplay, port'.switch),
                                     port'.required)
        /\ result' = "ERROR" /\ behind' = {} /\ measured' = FALSE
    BY <1>1 DEF SetUpDisplay
  <2>2. port' \in Port /\ pc' = "top"
    BY <2>1, PortClosure DEF Boot, Restart
  <2> DEFINE d == drawSwitchTime(NewDisplay, port'.switch)
  <2>3. /\ d \in Object /\ Asks(NewDisplay, d) /\ Keeps(NewDisplay, d)
        /\ d.frame.time = Alone(TimeText(port'.switch))
        /\ Same(NewDisplay, d, Parts \ {"time", "date"})
    <3>1. port'.switch \in Nat /\ NewDisplay \in Object
      BY <2>2, <1>fields, Blank
    <3> QED BY <3>1, TimeDrawn
  <2>asked. d.dispNeedRefresh
    <3>1. NewDisplay \in Object
      BY Blank
    <3> QED BY <3>1 DEF drawSwitchTime, Drawn, Object
  <2>4. disp' = updateDesiredFlow(d, port'.required)
    BY <2>1
  <2> HIDE DEF d
  <2>5. /\ disp' \in Object /\ Asks(d, disp') /\ Keeps(d, disp')
        /\ disp'.frame.desired = d.frame.desired \cup {port'.required}
        /\ Same(d, disp', Parts \ {"desired"})
    BY <2>2, <2>3, <2>4, <1>fields, DesiredDrawn
  <2>6. /\ disp'.frame.time = Alone(TimeText(port'.switch))
        /\ disp'.frame.desired = {port'.required}
        /\ disp'.frame.flow = {} /\ disp'.frame.env = {} /\ disp'.prevFlow = 0
        /\ disp'.dispNeedRefresh
    BY <2>3, <2>asked, <2>5 DEF Same, Parts, Keeps, Asks, NewDisplay, Outline
  <2>7. /\ Readable(disp'.frame) /\ Readable(panel')
    BY <2>1, <2>6, <1>empty DEF Readable, Outline
  <2>8. 0 \in 0 .. EnvLoops /\ Whole(0) = 0
    BY Texts, DisplayAssumption DEF DisplayAssumption
  <2>9. ObjectInv'
    BY <2>1, <2>2, <2>5, <2>6, <2>8, Blank DEF ObjectInv, Counted
  <2>10. TextsInv'
    BY <2>1, <2>6, <2>7, <2>8 DEF TextsInv
  <2> QED BY <2>9, <2>10
<1>2. CASE ShowSync
  <2>1. /\ ClearFlag /\ UNCHANGED <<panel, env, result, measured>> /\ behind' = {}
        /\ disp' = drawSwitchTime(updateOutputState(disp, CLOSED), port.switch)
    BY <1>2 DEF ShowSync
  <2>2. /\ disp' \in Object /\ Asks(disp, disp') /\ Keeps(disp, disp')
        /\ disp'.frame.time = Alone(TimeText(port.switch))
        /\ Same(disp, disp', Parts \ {"output", "time", "date"})
    <3>1. port.switch \in Nat
      BY <1>fields
    <3>2. disp' \in Object /\ Asks(disp, disp') /\ Keeps(disp, disp')
      BY <2>1, <3>1, ClosingDrawn
    <3>3. disp'.frame.time = Alone(TimeText(port.switch))
      BY <2>1, <3>1, ClosingDrawn
    <3>4. Same(disp, disp', Parts \ {"output", "time", "date"})
      BY <2>1, <3>1, ClosingDrawn
    <3> QED BY <3>2, <3>3, <3>4
  <2>3. /\ disp'.frame.flow = disp.frame.flow /\ disp'.frame.env = disp.frame.env
        /\ disp'.frame.desired = disp.frame.desired /\ Single(disp'.frame.time)
    BY <2>2, <1>empty DEF Same, Parts
  <2>4. /\ pc = "clearFlag" /\ pc' = "save" /\ caller' = caller /\ port' = port
    BY <2>1 DEF ClearFlag
  <2>5. Single(disp'.frame.desired) /\ caller = "sync"
    BY <2>3, <2>4 DEF TextsInv, Readable, ObjectInv
  <2> QED BY <2>1, <2>2, <2>3, <2>4, <2>5, DrawSteps DEF Counted
<1>3. CASE ShowFlow
  <2>1. /\ Flow /\ UNCHANGED <<panel, env, result, behind>>
        /\ IF prevTicks' # prevTicks
           THEN disp' = updateFlow(disp, port'.current) /\ measured' = TRUE
           ELSE UNCHANGED <<disp, measured>>
    BY <1>3 DEF ShowFlow
  <2>2. pc' = "wifi" /\ port'.current \in Word16
    BY <2>1, <1>fields DEF Flow
  <2>3. CASE prevTicks' = prevTicks
    <3>1. UNCHANGED port
      <4>1. prevTicks \in Nat /\ now \in Nat /\ (now = prevTicks => now - prevTicks = 0)
        BY BoundAssumption DEF TypeOK, BoundAssumption
      <4>2. 0 % U32 = 0 /\ FlowPeriod \in Nat
        BY WidthAssumption, BoundAssumption DEF WidthAssumption, BoundAssumption
      <4>3. now = prevTicks => ~((now - prevTicks) % U32 > FlowPeriod)
        BY <4>1, <4>2
      <4> QED BY <2>1, <2>3, <4>3 DEF Flow
    <3> QED BY <2>1, <2>2, <2>3, <3>1, QuietSteps DEF shown, Counted
  <2>4. CASE prevTicks' # prevTicks
    <3>1. /\ disp' = updateFlow(disp, port'.current) /\ measured' = TRUE
          /\ UNCHANGED <<panel, env, result, behind>>
      BY <2>1, <2>4
    <3>2. /\ disp' \in Object /\ Asks(disp, disp') /\ disp'.envText = disp.envText
          /\ disp'.prevFlow = port'.current
          /\ disp.prevFlow = port'.current => disp' = disp
          /\ disp.prevFlow # port'.current =>
               /\ disp'.flowText = port'.current
               /\ disp'.frame.flow = Replaced(disp.frame.flow, disp.flowText, port'.current)
               /\ Same(disp, disp', Parts \ {"flow"})
      <4>1. disp \in Object /\ port'.current \in Word16 /\ disp' = updateFlow(disp, port'.current)
        BY <2>2, <3>1
      <4>2. disp' \in Object /\ Asks(disp, disp')
        BY <4>1, FlowDrawn
      <4>3. disp'.envText = disp.envText /\ disp'.prevFlow = port'.current
        BY <4>1, FlowDrawn
      <4>4. disp.prevFlow = port'.current => disp' = disp
        BY <4>1, FlowDrawn
      <4>5. disp.prevFlow # port'.current => disp'.flowText = port'.current
        BY <4>1, FlowDrawn
      <4>6. disp.prevFlow # port'.current =>
              disp'.frame.flow = Replaced(disp.frame.flow, disp.flowText, port'.current)
        BY <4>1, FlowDrawn
      <4>7. disp.prevFlow # port'.current => Same(disp, disp', Parts \ {"flow"})
        BY <4>1, FlowDrawn
      <4> QED BY <4>2, <4>3, <4>4, <4>5, <4>6, <4>7
    <3>3. /\ Single(disp.frame.time) /\ Single(disp.frame.desired) /\ Single(disp.frame.flow)
          /\ Single(disp.frame.env) /\ Readable(panel)
      BY DEF TextsInv, Readable
    <3>4. \/ disp'.frame.flow = {} /\ disp'.prevFlow = 0
          \/ disp'.frame.flow = {disp'.flowText} /\ disp'.flowText = disp'.prevFlow
      BY <3>2 DEF TextsInv, Replaced
    <3>5. /\ disp'.frame.time = disp.frame.time /\ disp'.frame.desired = disp.frame.desired
          /\ disp'.frame.env = disp.frame.env
      BY <3>2 DEF Same, Parts
    <3>6. Single(disp'.frame.flow)
      BY <3>4, <1>empty
    <3>7. Readable(disp'.frame) /\ Readable(panel')
      BY <3>1, <3>3, <3>5, <3>6 DEF Readable
    <3>8. sensor' = sensor /\ envOld' = envOld /\ loopCounter' = loopCounter
      BY <3>1 DEF env
    <3>9. ObjectInv'
      BY <2>2, <3>1, <3>2, <3>8 DEF ObjectInv, Asks, Counted
    <3>10. TextsInv'
      BY <3>1, <3>2, <3>4, <3>5, <3>7, <3>8 DEF TextsInv
    <3> QED BY <3>9, <3>10
  <2> QED BY <2>3, <2>4
<1>4. CASE ReadEnv
  <2>1. /\ sensor' \in Nat /\ loopCounter' = EnvLoops /\ envOld' = Whole(sensor')
        /\ UNCHANGED <<vars, result, behind, measured>> /\ pc = "wifi"
        /\ IF Whole(sensor') # envOld
           THEN /\ disp' = Refreshed(updateEnvData(disp, sensor'))
                /\ panel' = Visible(updateEnvData(disp, sensor'))
           ELSE UNCHANGED shown
    BY <1>4, DisplayAssumption DEF DisplayAssumption, ReadEnv, ShowEnv, readSensor
  <2>2. pc' = "wifi" /\ port' = port /\ EnvLoops \in 0 .. EnvLoops /\ Whole(sensor') \in Nat
    BY <2>1, Texts, DisplayAssumption DEF DisplayAssumption, vars
  <2>3. CASE Whole(sensor') = envOld
    <3>1. disp' = disp /\ panel' = panel
      BY <2>1, <2>3 DEF shown
    <3>2. ObjectInv'
      BY <2>1, <2>2, <3>1 DEF ObjectInv, Counted
    <3>3. TextsInv'
      BY <2>1, <2>2, <2>3, <3>1 DEF TextsInv
    <3> QED BY <3>2, <3>3
  <2>4. CASE Whole(sensor') # envOld
    <3> DEFINE d == updateEnvData(disp, sensor')
    <3>1. /\ d \in Object /\ d.dispNeedRefresh
          /\ d.prevFlow = disp.prevFlow /\ d.flowText = disp.flowText
          /\ d.envText = sensor'
          /\ d.frame.env = Replaced(disp.frame.env, disp.envText, sensor')
          /\ Same(disp, d, Parts \ {"env"})
      <4>1. disp \in Object /\ sensor' \in Nat
        BY <2>1
      <4>2. d \in Object /\ d.dispNeedRefresh
        BY <4>1, EnvDrawn
      <4>3. d.prevFlow = disp.prevFlow /\ d.flowText = disp.flowText /\ d.envText = sensor'
        BY <4>1, EnvDrawn
      <4>4. d.frame.env = Replaced(disp.frame.env, disp.envText, sensor')
        BY <4>1, EnvDrawn
      <4>5. Same(disp, d, Parts \ {"env"})
        BY <4>1, EnvDrawn
      <4> QED BY <4>2, <4>3, <4>4, <4>5
    <3>2. disp' = Refreshed(d) /\ panel' = Visible(d)
      BY <2>1, <2>4
    <3> HIDE DEF d
    <3>3. /\ disp' \in Object /\ Keeps(d, disp') /\ disp'.frame = d.frame
          /\ ~disp'.dispNeedRefresh
      BY <3>1, <3>2, RefreshDrawn
    <3>4. panel' = d.frame /\ panel' \in Picture
      BY <3>1, <3>2 DEF Visible, Object
    <3>5. disp'.frame.env = {sensor'} /\ disp'.envText = sensor'
      BY <3>1, <3>3 DEF TextsInv, Keeps, Replaced
    <3>6. /\ disp'.frame.time = disp.frame.time /\ disp'.frame.desired = disp.frame.desired
          /\ disp'.frame.flow = disp.frame.flow /\ disp'.flowText = disp.flowText
          /\ disp'.prevFlow = disp.prevFlow
      BY <3>1, <3>3 DEF Same, Parts, Keeps
    <3>7. Readable(disp'.frame) /\ Readable(panel')
      <4>1. /\ Single(disp.frame.time) /\ Single(disp.frame.desired)
            /\ Single(disp.frame.flow)
        BY DEF TextsInv, Readable
      <4>2. Single(disp'.frame.env)
        BY <3>5, <1>empty
      <4> QED BY <3>3, <3>4, <3>6, <4>1, <4>2 DEF Readable
    <3>8. ObjectInv'
      BY <2>1, <2>2, <3>3, <3>4 DEF ObjectInv, Counted
    <3>9. TextsInv'
      BY <2>1, <2>2, <3>5, <3>6, <3>7 DEF TextsInv
    <3> QED BY <3>8, <3>9
  <2> QED BY <2>3, <2>4
<1>5. CASE ShowWifi
  <2>1. PICK connected \in {FALSE, wifi' = "connected"} :
          disp' = updateWifiState(disp, connected)
    BY <1>5 DEF ShowWifi
  <2>2. connected \in BOOLEAN
    OBVIOUS
  <2>3. /\ disp' \in Object /\ Asks(disp, disp') /\ Keeps(disp, disp')
        /\ Same(disp, disp', Parts \ {"wifi"})
    BY <2>1, <2>2, WifiDrawn
  <2>4. /\ UNCHANGED <<panel, env, result, behind, measured, port>> /\ loopCounter # 0
        /\ pc' = "check"
    BY <1>5 DEF ShowWifi, CheckWifi
  <2>5. /\ disp'.frame.flow = disp.frame.flow /\ disp'.frame.env = disp.frame.env
        /\ Single(disp'.frame.time) /\ Single(disp'.frame.desired)
    BY <2>3 DEF Same, Parts, TextsInv, Readable
  <2> QED BY <2>3, <2>4, <2>5, DrawSteps
<1>6. CASE Opening
  <2>1. /\ UNCHANGED <<shown, env, result, behind>> /\ pc = "check"
        /\ pc' \in {"openPulse", "checkQuantity"}
        /\ port'.current = port.current \/ port'.state # port.state
        /\ measured' = (measured /\ port'.state = port.state)
    BY <1>6 DEF Opening, CheckDue, Opened, IsDue, Port, OPEN, CLOSED
  <2>2. measured' = FALSE \/ (measured' = measured /\ port'.current = port.current)
    BY <2>1
  <2>3. loopCounter # 0
    BY <2>1 DEF ObjectInv, Counted
  <2> QED BY <2>1, <2>2, <2>3, QuietSteps
<1>7. CASE HasOpened
  <2>1. /\ UNCHANGED <<shown, env, behind, measured, port>> /\ result' = OPEN
        /\ pc = "openPulse" /\ pc' = "checkQuantity"
    BY <1>7 DEF HasOpened, OpenPulse
  <2>2. loopCounter # 0
    BY <2>1 DEF ObjectInv, Counted
  <2> QED BY <2>1, <2>2, QuietSteps
<1>8. CASE ShowOpening
  <2>1. /\ UNCHANGED <<panel, env, measured>> /\ result' = "ERROR"
        /\ pc = "checkQuantity" /\ pc' \in {"delay", "closePulse"}
        /\ port'.current = port.current
        /\ \/ disp' = updateOutputState(disp, OPEN) /\ behind' = behind \ {"icon"}
           \/ UNCHANGED <<disp, behind>>
    BY <1>8 DEF ShowOpening, CheckQuantity, Closed, Port
  <2>2. loopCounter # 0
    BY <2>1 DEF ObjectInv, Counted
  <2>3. CASE UNCHANGED <<disp, behind>>
    BY <2>1, <2>2, <2>3, QuietSteps DEF shown
  <2>4. CASE disp' = updateOutputState(disp, OPEN) /\ behind' = behind \ {"icon"}
    <3>1. /\ disp' \in Object /\ Asks(disp, disp') /\ Keeps(disp, disp')
          /\ Same(disp, disp', Parts \ {"output"})
      BY <2>4, OutputDrawn DEF PortState
    <3>2. /\ disp'.frame.flow = disp.frame.flow /\ disp'.frame.env = disp.frame.env
          /\ Single(disp'.frame.time) /\ Single(disp'.frame.desired)
      BY <3>1 DEF Same, Parts, TextsInv, Readable
    <3> QED BY <2>1, <2>2, <2>4, <3>1, <3>2, DrawSteps
  <2> QED BY <2>1, <2>3, <2>4
<1>9. CASE ShowClosing
  <2>1. /\ UNCHANGED <<panel, env, result, measured>> /\ behind' = {}
        /\ disp' = drawSwitchTime(updateOutputState(disp, CLOSED), port'.switch)
        /\ pc = "closePulse" /\ pc' = "save" /\ port' = NextSlot(port)
    BY <1>9 DEF ShowClosing, ClosePulse
  <2>2. port' \in Port /\ port'.current = port.current
    <3>1. port' \in Port
      BY <2>1, PortClosure
    <3> QED BY <2>1, <3>1 DEF NextSlot, Port
  <2>3. /\ disp' \in Object /\ Asks(disp, disp') /\ Keeps(disp, disp')
        /\ disp'.frame.time = Alone(TimeText(port'.switch))
        /\ Same(disp, disp', Parts \ {"output", "time", "date"})
    <3>1. port'.switch \in Nat
      BY <2>2, <1>fields
    <3>2. disp' \in Object /\ Asks(disp, disp') /\ Keeps(disp, disp')
      BY <2>1, <3>1, ClosingDrawn
    <3>3. disp'.frame.time = Alone(TimeText(port'.switch))
      BY <2>1, <3>1, ClosingDrawn
    <3>4. Same(disp, disp', Parts \ {"output", "time", "date"})
      BY <2>1, <3>1, ClosingDrawn
    <3> QED BY <3>2, <3>3, <3>4
  <2>4. /\ disp'.frame.flow = disp.frame.flow /\ disp'.frame.env = disp.frame.env
        /\ disp'.frame.desired = disp.frame.desired /\ Single(disp'.frame.time)
    BY <2>3, <1>empty DEF Same, Parts
  <2>5. Single(disp'.frame.desired) /\ loopCounter # 0
    BY <2>1, <2>4 DEF TextsInv, Readable, ObjectInv, Counted
  <2> QED BY <2>1, <2>2, <2>3, <2>4, <2>5, DrawSteps DEF Counted
<1>10. CASE Refresh
  <2>1. /\ disp' = Refreshed(disp) /\ panel' = Visible(disp)
        /\ loopCounter' = loopCounter - 1 /\ pc = "delay" /\ pc' \in {"sleep", "top"}
        /\ UNCHANGED <<sensor, envOld, result, behind, measured, port>>
    BY <1>10 DEF Refresh, Delay
  <2>2. loopCounter' \in 0 .. EnvLoops
    BY <2>1, DisplayAssumption DEF ObjectInv, Counted, DisplayAssumption
  <2>3. /\ disp' \in Object /\ Keeps(disp, disp') /\ disp'.frame = disp.frame
        /\ ~disp'.dispNeedRefresh
    BY <2>1, RefreshDrawn
  <2>4. panel' = disp.frame /\ panel' \in Picture
    BY <2>1 DEF Visible, ObjectInv, Object
  <2>5. ObjectInv'
    BY <2>1, <2>2, <2>3, <2>4 DEF ObjectInv, Counted
  <2>6. TextsInv'
    BY <2>1, <2>3, <2>4 DEF TextsInv, Keeps
  <2> QED BY <2>5, <2>6
<1>11. CASE NotShown
  <2>1. /\ UNCHANGED <<shown, env, result, measured>>
        /\ behind' \in {behind \cup {"icon"}, behind \cup {"time"}, behind}
    BY <1>11 DEF NotShown
  <2>2. /\ pc' \in {"updatePulse", "catchUp", "clearFlag", "top"}
        /\ pc' = "clearFlag" => caller' = "sync"
        /\ port'.current = port.current
    BY <1>11 DEF NotShown, Update, UpdateBegin, UpdatePulse, CatchUp, UpdateReturn,
       Closed, NextSlot, Port
  <2>3. behind' \subseteq {"icon", "time"}
    BY <2>1
  <2> QED BY <2>1, <2>2, <2>3, QuietSteps DEF Counted
<1>12. CASE Elsewhere
  <2>1. UNCHANGED <<shown, env, result, behind, measured>>
    BY <1>12 DEF Elsewhere, displayVars
  <2>2. port' = port
    BY <1>12 DEF Elsewhere, CheckFlag, Sleep, CopyField, WriteChunk, Wake, SntpSet,
       timeUpdateNotif, Tick, Reset
  <2>3. /\ pc' \in Counted \/ (pc' = "save" /\ caller' # "sync") =>
             pc \in Counted \/ (pc = "save" /\ caller # "sync")
        /\ pc' = "clearFlag" => pc = "clearFlag" /\ caller' = caller
    BY <1>12 DEF Elsewhere, CheckFlag, Sleep, DeepSleep, CopyField, WriteChunk, Saving,
       Wake, SntpSet, timeUpdateNotif, Tick, Reset, Counted
  <2>4. /\ pc' \in Counted \/ (pc' = "save" /\ caller' # "sync") => loopCounter # 0
        /\ pc' = "clearFlag" => caller' = "sync"
    BY <2>3 DEF ObjectInv
  <2> QED BY <2>1, <2>2, <2>4, QuietSteps
<1>13. CASE UNCHANGED <<vars, displayVars>>
  BY <1>13 DEF vars, displayVars, shown, env, ObjectInv, TextsInv
<1> QED
  BY <1>1, <1>2, <1>3, <1>4, <1>5, <1>6, <1>7, <1>8, <1>9, <1>10, <1>11, <1>12, <1>13
     DEF DisplayNext

LEMMA DisplayInvariant == DisplaySpec => [](TypeOK /\ ObjectInv /\ TextsInv)
<1>1. DisplaySpec => []TypeOK
  BY DisplayImplementsIrrigator, TypeInvariant, PTL
<1> QED
  BY <1>1, DisplayInitInv, DisplayStep, PTL DEF DisplaySpec

(* Every variable of the display has its type, and loopCounter, tested at 0 and
   decremented further down in the same pass, never wraps.                 *)
THEOREM DisplayTypeInvariant == DisplaySpec => []DisplayTypeOK
<1>1. ObjectInv => DisplayTypeOK
  BY DEF ObjectInv, DisplayTypeOK, Object, Picture, TextRegions
<1> QED BY <1>1, DisplayInvariant, PTL

(* No text but the date is printed over an older one, whatever is drawn in
   which order.                                                            *)
THEOREM NoOverprintHolds == DisplaySpec => []NoOverprint
<1>1. TextsInv => NoOverprint
  BY DEF TextsInv, Readable, Single, NoOverprint, TextRegions
<1> QED BY <1>1, DisplayInvariant, PTL

(* From the first flow window after an opening on, the panel tells at the end
   of every pass the litres that were counted.                             *)
THEOREM LitresAreCurrentHolds == DisplaySpec => []LitresAreCurrent
<1>1. ObjectInv /\ TextsInv => LitresAreCurrent
  BY DEF ObjectInv, TextsInv, LitresAreCurrent, PassShown
<1> QED BY <1>1, DisplayInvariant, PTL

(* At the end of every pass the panel tells the last complete reading of the
   sensor, its whole part at least.                                        *)
THEOREM EnvIsTheReadingHolds == DisplaySpec => []EnvIsTheReading
<1>1. ObjectInv /\ TextsInv => EnvIsTheReading
  BY DEF ObjectInv, TextsInv, EnvIsTheReading, PassShown
<1> QED BY <1>1, DisplayInvariant, PTL

-----------------------------------------------------------------------------
(* What the picture tells of the port.                                     *)

IconTells == IF "icon" \in behind
             THEN disp.frame.output = OPEN /\ port.state = CLOSED
             ELSE disp.frame.output = port.state

TimeTells == "time" \in behind \/ disp.frame.time = {TimeText(port.switch)}

(* The picture lags behind the port between a pulse and the drawing call that
   follows it, and only there.                                             *)
ShownInv ==
  Running =>
    /\ pc \in {"top", "updateSwitchTimes", "save", "flow", "wifi", "check", "delay",
               "sleep"} => IconTells
    /\ pc = "catchUp" /\ caller = "sleep" => IconTells
    /\ pc = "checkQuantity" => IF result = OPEN THEN port.state = OPEN ELSE IconTells
    /\ pc = "openPulse" => port.state = OPEN
    /\ pc = "updatePulse" => disp.frame.output = OPEN /\ "icon" \notin behind
    /\ pc # "checkQuantity" => result = "ERROR"
    /\ pc \notin {"catchUp", "clearFlag"} => TimeTells

(* Nothing runs before the first start ...                                 *)
LEMMA ShownInit == DisplayInit => ShownInv
BY DEF DisplayInit, Init, ShownInv, Running

(* ... and each step of app_main draws what it changed, or is followed by one
   that does.                                                              *)
LEMMA ShownStep ==
  TypeOK /\ ClosedInv /\ ObjectInv /\ ShownInv /\ [DisplayNext]_<<vars, displayVars>>
    => ShownInv'
<1> SUFFICES ASSUME TypeOK, ClosedInv, ObjectInv, ShownInv,
                    [DisplayNext]_<<vars, displayVars>>
             PROVE  ShownInv'
  OBVIOUS
<1>types. /\ port \in Port /\ nvs \in Port /\ disp \in Object /\ panel \in Picture
          /\ behind \subseteq {"icon", "time"} /\ result \in {"ERROR", OPEN}
  BY DEF TypeOK, ObjectInv
<1>after. port' \in Port
  BY DisplayStepRefines, TypeStep DEF TypeOK
<1>fields. ASSUME NEW p \in Port
           PROVE  p.switch \in Nat /\ p.required \in Word16 /\ p.current \in Word16
  BY Wraps DEF Port
<1> USE <1>types, <1>after DEF ShownInv, Running, IconTells, TimeTells
<1>1. CASE SetUpDisplay
  <2>1. /\ disp' = updateDesiredFlow(drawSwitchTime(NewDisplay, port'.switch),
                                     port'.required)
        /\ result' = "ERROR" /\ behind' = {} /\ pc' = "top"
        /\ port' = getVaultData(nvs)
    BY <1>1 DEF SetUpDisplay, Boot, Restart
  <2>2. port'.switch \in Nat /\ port'.required \in Word16 /\ port'.state = CLOSED
    BY <2>1, <1>fields DEF ClosedInv, getVaultData, Port
  <2> DEFINE d == drawSwitchTime(NewDisplay, port'.switch)
  <2>3. /\ d \in Object /\ d.frame.time = Alone(TimeText(port'.switch))
        /\ Same(NewDisplay, d, Parts \ {"time", "date"})
    <3>1. NewDisplay \in Object /\ d = drawSwitchTime(NewDisplay, port'.switch)
      BY Blank
    <3> HIDE DEF d
    <3>2. d \in Object
      BY <2>2, <3>1, TimeDrawn
    <3>3. d.frame.time = Alone(TimeText(port'.switch))
      BY <2>2, <3>1, TimeDrawn
    <3>4. Same(NewDisplay, d, Parts \ {"time", "date"})
      BY <2>2, <3>1, TimeDrawn
    <3> QED BY <3>2, <3>3, <3>4
  <2>4. disp' = updateDesiredFlow(d, port'.required)
    BY <2>1
  <2> HIDE DEF d
  <2>5. Same(d, disp', Parts \ {"desired"})
    BY <2>2, <2>3, <2>4, DesiredDrawn
  <2>6. disp'.frame.output = CLOSED /\ disp'.frame.time = {TimeText(port'.switch)}
    BY <2>3, <2>5 DEF Same, Parts, NewDisplay, Outline, Alone
  <2> QED BY <2>1, <2>2, <2>6
<1>2. CASE ShowSync
  <2>1. /\ disp' = drawSwitchTime(updateOutputState(disp, CLOSED), port.switch)
        /\ behind' = {} /\ result' = result /\ pc = "clearFlag" /\ pc' = "save"
        /\ port' = port
    BY <1>2 DEF ShowSync, ClearFlag
  <2>2. port.switch \in Nat /\ port.state = CLOSED
    BY <2>1, <1>fields DEF ClosedInv
  <2>3. disp'.frame.output = CLOSED /\ disp'.frame.time = Alone(TimeText(port.switch))
    BY <2>1, <2>2, ClosingDrawn
  <2> QED BY <2>1, <2>2, <2>3 DEF Alone
<1>3. CASE ShowFlow
  <2>1. /\ disp' \in {disp, updateFlow(disp, port'.current)} /\ pc = "flow"
        /\ pc' = "wifi" /\ UNCHANGED <<result, behind>>
    BY <1>3 DEF ShowFlow, Flow
  <2>2. port'.state = port.state /\ port'.switch = port.switch
    BY <1>3 DEF ShowFlow, Flow, Port
  <2>3. disp'.frame.output = disp.frame.output /\ disp'.frame.time = disp.frame.time
    <3>1. CASE disp' = updateFlow(disp, port'.current)
      <4>1. port'.current \in Word16
        BY <1>fields
      <4>2. CASE disp.prevFlow = port'.current
        <5>1. disp' = disp
          BY <3>1, <4>1, <4>2, FlowDrawn
        <5> QED BY <5>1
      <4>3. CASE disp.prevFlow # port'.current
        <5>1. Same(disp, disp', Parts \ {"flow"})
          BY <3>1, <4>1, <4>3, FlowDrawn
        <5> QED BY <5>1 DEF Same, Parts
      <4> QED BY <4>2, <4>3
    <3> QED BY <2>1, <3>1
  <2> QED BY <2>1, <2>2, <2>3
<1>4. CASE ReadEnv
  <2>1. /\ UNCHANGED <<result, behind, port, pc>> /\ pc = "wifi" /\ sensor' \in Nat
        /\ disp' = Refreshed(updateEnvData(disp, sensor')) \/ disp' = disp
    BY <1>4, DisplayAssumption
       DEF DisplayAssumption, ReadEnv, ShowEnv, readSensor, vars, shown, ObjectInv
  <2>2. disp'.frame.output = disp.frame.output /\ disp'.frame.time = disp.frame.time
    <3>1. CASE disp' = Refreshed(updateEnvData(disp, sensor'))
      <4> DEFINE d == updateEnvData(disp, sensor')
      <4>1. d \in Object
        BY <2>1, EnvDrawn
      <4>2. Same(disp, d, Parts \ {"env"})
        BY <2>1, EnvDrawn
      <4>3. disp' = Refreshed(d)
        BY <3>1
      <4> HIDE DEF d
      <4>4. disp'.frame = d.frame
        BY <4>1, <4>3, RefreshDrawn
      <4> QED BY <4>2, <4>4 DEF Same, Parts
    <3> QED BY <2>1, <3>1
  <2> QED BY <2>1, <2>2
<1>5. CASE ShowWifi
  <2>1. PICK connected \in {FALSE, wifi' = "connected"} :
          disp' = updateWifiState(disp, connected)
    BY <1>5 DEF ShowWifi
  <2>2. connected \in BOOLEAN
    OBVIOUS
  <2>3. Same(disp, disp', Parts \ {"wifi"})
    BY <2>1, <2>2, WifiDrawn
  <2>4. UNCHANGED <<result, behind, port>> /\ pc = "wifi" /\ pc' = "check"
    BY <1>5 DEF ShowWifi, CheckWifi
  <2> QED BY <2>3, <2>4 DEF Same, Parts
<1>6. CASE Opening
  BY <1>6 DEF Opening, CheckDue, IsDue, Opened, Port, shown, OPEN, CLOSED
<1>7. CASE HasOpened
  BY <1>7 DEF HasOpened, OpenPulse, shown
<1>8. CASE ShowOpening
  <2>1. pc = "checkQuantity" /\ result' = "ERROR" /\ port'.switch = port.switch
    BY <1>8 DEF ShowOpening, CheckQuantity, Closed, Port
  <2>2. CASE result = OPEN /\ pc' = "delay"
    <3>1. /\ disp' = updateOutputState(disp, OPEN) /\ behind' = behind \ {"icon"}
          /\ port' = port
      BY <1>8, <2>2 DEF ShowOpening, CheckQuantity
    <3>2. disp'.frame.output = OPEN
      BY <3>1, OutputDrawn DEF PortState
    <3>3. Same(disp, disp', Parts \ {"output"})
      BY <3>1, OutputDrawn DEF PortState
    <3> QED BY <2>1, <2>2, <3>1, <3>2, <3>3 DEF Same, Parts
  <2>3. CASE ~(result = OPEN /\ pc' = "delay")
    <3>1. /\ UNCHANGED <<disp, behind>>
          /\ \/ pc' = "closePulse"
             \/ pc' = "delay" /\ port' = port /\ result # OPEN
      BY <1>8, <2>3 DEF ShowOpening, CheckQuantity
    <3> QED BY <2>1, <3>1
  <2> QED BY <2>2, <2>3
<1>9. CASE ShowClosing
  <2>1. /\ disp' = drawSwitchTime(updateOutputState(disp, CLOSED), port'.switch)
        /\ behind' = {} /\ result' = result /\ pc = "closePulse" /\ pc' = "save"
        /\ port' = NextSlot(port)
    BY <1>9 DEF ShowClosing, ClosePulse
  <2>2. port'.switch \in Nat /\ port'.state = CLOSED
    BY <2>1, <1>fields DEF ClosedInv, NextSlot, Port
  <2>3. disp'.frame.output = CLOSED /\ disp'.frame.time = Alone(TimeText(port'.switch))
    BY <2>1, <2>2, ClosingDrawn
  <2> QED BY <2>1, <2>2, <2>3 DEF Alone
<1>10. CASE Refresh
  <2>1. /\ disp' = Refreshed(disp) /\ pc = "delay" /\ pc' \in {"sleep", "top"}
        /\ UNCHANGED <<result, behind, port>>
    BY <1>10 DEF Refresh, Delay
  <2>2. disp'.frame = disp.frame
    BY <2>1, RefreshDrawn
  <2> QED BY <2>1, <2>2
<1>11. CASE NotShown
  <2>1. UNCHANGED <<disp, result>>
    BY <1>11 DEF NotShown, shown
  <2>2. CASE UpdateBegin
    <3>1. behind' = behind
      BY <1>11, <2>2 DEF NotShown, UpdateBegin
    <3> QED BY <2>1, <2>2, <3>1 DEF UpdateBegin, Closed, Port, OPEN, CLOSED
  <2>3. CASE UpdatePulse
    <3>1. behind' = IF caller = "sleep" THEN behind \cup {"icon"} ELSE behind
      BY <1>11, <2>3 DEF NotShown, UpdatePulse
    <3>2. port'.state = CLOSED
      BY <2>3 DEF UpdatePulse, NextSlot, ClosedInv, Port
    <3> QED BY <2>1, <2>3, <3>1, <3>2 DEF UpdatePulse
  <2>4. CASE CatchUp
    <3>1. behind' = behind
      BY <1>11, <2>4 DEF NotShown, CatchUp
    <3> QED BY <2>1, <2>4, <3>1 DEF CatchUp
  <2>5. CASE UpdateReturn
    <3>1. /\ pc = "catchUp" /\ port'.state = port.state
          /\ \/ pc' = "clearFlag"
             \/ caller = "sleep" /\ pc' = "top"
      BY <2>5 DEF UpdateReturn, Port
    <3>2. pc' = "top" => behind' = behind \cup {"time"}
      BY <1>11, <3>1 DEF NotShown
    <3> QED BY <2>1, <3>1, <3>2
  <2> QED BY <1>11, <2>2, <2>3, <2>4, <2>5 DEF NotShown, Update
<1>12. CASE Elsewhere
  <2>1. UNCHANGED <<disp, result, behind>>
    BY <1>12 DEF Elsewhere, displayVars, shown
  <2>2. CASE CheckFlag \/ Sleep
    BY <2>1, <2>2 DEF CheckFlag, Sleep, DeepSleep
  <2>3. CASE CopyField("main") \/ SntpSet \/ timeUpdateNotif \/ Tick
    BY <2>1, <2>3 DEF CopyField, SntpSet, timeUpdateNotif, Tick
  <2>4. CASE WriteChunk("main")
    BY <2>1, <2>4 DEF WriteChunk, Saving
  <2>5. CASE Wake \/ Reset
    BY <2>5 DEF Wake, Reset
  <2> QED BY <1>12, <2>2, <2>3, <2>4, <2>5 DEF Elsewhere
<1>13. CASE UNCHANGED <<vars, displayVars>>
  BY <1>13 DEF vars, displayVars, shown
<1> QED
  BY <1>1, <1>2, <1>3, <1>4, <1>5, <1>6, <1>7, <1>8, <1>9, <1>10, <1>11, <1>12, <1>13
     DEF DisplayNext

(* While nobody posts, the output icon on the panel is the port's state at the
   end of every pass, unless the sleep branch closed the port since.       *)
THEOREM IconIsThePortHolds ==
  ASSUME MaxPosts = 0
  PROVE  DisplaySpec => []IconIsThePort
<1>1. ObjectInv /\ ShownInv => IconIsThePort
  BY DEF ObjectInv, ShownInv, IconIsThePort, PassShown, Running, IconTells
<1>2. DisplaySpec => []ClosedInv
  BY DisplayImplementsIrrigator, ClosedInit, ClosedStep, TypeInvariant, PTL DEF Spec
<1> QED
  BY <1>1, <1>2, DisplayInvariant, ShownInit, ShownStep, PTL DEF DisplaySpec

(* While nobody posts, the time on the panel is that of the next slot at the
   end of every pass, unless the sleep branch moved the slot since.        *)
THEOREM TimeIsTheNextSlotHolds ==
  ASSUME MaxPosts = 0
  PROVE  DisplaySpec => []TimeIsTheNextSlot
<1>1. ObjectInv /\ ShownInv => TimeIsTheNextSlot
  BY DEF ObjectInv, ShownInv, TimeIsTheNextSlot, PassShown, Running, TimeTells
<1>2. DisplaySpec => []ClosedInv
  BY DisplayImplementsIrrigator, ClosedInit, ClosedStep, TypeInvariant, PTL DEF Spec
<1> QED
  BY <1>1, <1>2, DisplayInvariant, ShownInit, ShownStep, PTL DEF DisplaySpec

=============================================================================
