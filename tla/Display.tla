------------------------------- MODULE Display -------------------------------
(***************************************************************************)
(* The e-paper display (components/display, with what it uses of epdpaint  *)
(* and epd1in54_V2), the DHT22 sensor, and app_main's calls of both, each  *)
(* added to the action of Irrigator it is made in.  They read the port and *)
(* change nothing of it.                                                   *)
(*                                                                         *)
(* A picture is a record of regions.  DrawIcon covers the icon before it;  *)
(* DrawStringAt only sets the pixels of its glyphs, so that a text stays   *)
(* until it is drawn again in the background colour: a text region is the  *)
(* set of the texts that can be read in it.  E-paper keeps its picture     *)
(* through sleep, reset and loss of power.                                 *)
(***************************************************************************)
EXTENDS Irrigator

CONSTANTS
  Minute, Day,  \* in seconds (60, 86400)
  EnvLoops,     \* passes between two readings of the sensor (LOOPS, 60000)
  Readings      \* what the sensor can send, in tenths

ASSUME DisplayAssumption ==
  /\ Minute \in Nat \ {0} /\ Day \in Nat \ {0}
  /\ EnvLoops \in Nat \ {0} /\ Readings \subseteq Nat

VARIABLES
  disp,         \* the Display object and the statics of its functions
  panel,        \* the picture on the e-paper
  sensor,       \* Dht22's humidity and temperature, as one number
  envOld,       \* humidityOld and temperatureOld
  loopCounter,
  result,       \* what runPortCheck has to return so far
  behind,       \* history: what the sleep branch changed and nobody drew since
  measured      \* history: a flow window ended since the last opening

shown == <<disp, panel>>
env   == <<sensor, envOld, loopCounter>>
displayVars == <<shown, env, result, behind, measured>>

-----------------------------------------------------------------------------
(* Display: functions from the object before a call to the object after.   *)

TimeText(t) == t \div Minute
DateText(t) == t \div Day

TextRegions == {"time", "date", "desired", "flow", "env"}
NoText == -1

(* displayOutline on a cleared frame buffer.                               *)
Outline == [output |-> CLOSED, wifi |-> FALSE,
            time |-> {}, date |-> {}, desired |-> {}, flow |-> {}, env |-> {}]

NewDisplay == [frame |-> Outline, dispNeedRefresh |-> FALSE, prevFlow |-> 0,
               flowText |-> NoText, envText |-> NoText]

Drawn(d, region, picture) ==
  [d EXCEPT !.frame[region] = picture, !.dispNeedRefresh = TRUE]

(* The static currState of the next two names the icon in the frame.       *)
updateWifiState(d, state) ==
  IF d.frame.wifi = state THEN d ELSE Drawn(d, "wifi", state)

(* Bug: only openings are drawn.                                           *)
BugNeverBackToClosed(d, state) ==
  IF d.frame.output = OPEN THEN d ELSE Drawn(d, "output", state)

updateOutputState(d, state) ==
  IF d.frame.output = state THEN d ELSE Drawn(d, "output", state)

(* Display::portSwitchTime.  A filled rectangle clears the time.  It ends above
   the date, of which only the new text is drawn in the background first.  *)
drawSwitchTime(d, t) ==
  Drawn(Drawn(d, "time", {TimeText(t)}), "date", d.frame.date \cup {DateText(t)})

updateDesiredFlow(d, litres) ==
  Drawn(d, "desired", d.frame.desired \cup {litres})

(* Bug: the older data is not cleared.                                     *)
BugDoesNotClear(d, reading) ==
  [Drawn(d, "env", d.frame.env \cup {reading}) EXCEPT !.envText = reading]

updateEnvData(d, reading) ==
  [Drawn(d, "env", (d.frame.env \ {d.envText}) \cup {reading})
     EXCEPT !.envText = reading]

(* Bug: every value is compared with the first.                            *)
BugKeepsPrevFlow(d, litres) ==
  IF d.prevFlow = litres THEN d
  ELSE [Drawn(d, "flow", (d.frame.flow \ {d.flowText}) \cup {litres})
          EXCEPT !.flowText = litres]

updateFlow(d, litres) ==
  IF d.prevFlow = litres THEN d
  ELSE [Drawn(d, "flow", (d.frame.flow \ {d.flowText}) \cup {litres})
          EXCEPT !.flowText = litres, !.prevFlow = litres]

Refreshed(d) == [d EXCEPT !.dispNeedRefresh = FALSE]
Visible(d)   == IF d.dispNeedRefresh THEN d.frame ELSE panel

-----------------------------------------------------------------------------
(* readSensor assigns the values once 40 bits have come, before it compares
   the checksum; a timeout leaves them alone.  Nobody looks at its result. *)
readSensor == sensor' \in Readings \cup {sensor}

Whole(reading) == reading \div 10

DisplayInit ==
  /\ Init
  /\ disp = NewDisplay /\ panel = Outline
  /\ sensor = 0 /\ envOld = 0 /\ loopCounter = 0
  /\ result = "ERROR" /\ behind = {} /\ measured = FALSE

(* Boot: a cleared panel, the outline, and what the vault gave.    *)
SetUpDisplay ==
  /\ Boot
  /\ panel' = Outline
  /\ disp' = updateDesiredFlow(drawSwitchTime(NewDisplay, port'.switch),
                               port'.required)
  /\ sensor' = 0 /\ envOld' = 0 /\ loopCounter' = 0
  /\ result' = "ERROR" /\ behind' = {} /\ measured' = FALSE

(* Bug: the switch times are updated and not drawn.                        *)
BugShowsNoTime ==
  /\ ClearFlag
  /\ disp' = updateOutputState(disp, CLOSED)
  /\ behind' = {}
  /\ UNCHANGED <<panel, env, result, measured>>

(* After a synchronisation.                                                *)
ShowSync ==
  /\ ClearFlag
  /\ disp' = drawSwitchTime(updateOutputState(disp, CLOSED), port.switch)
  /\ behind' = {}
  /\ UNCHANGED <<panel, env, result, measured>>

(* After a flow window.                                                    *)
ShowFlow ==
  /\ Flow
  /\ IF prevTicks' # prevTicks
     THEN disp' = updateFlow(disp, port'.current) /\ measured' = TRUE
     ELSE UNCHANGED <<disp, measured>>
  /\ UNCHANGED <<panel, env, result, behind>>

(* Bug: the reading drawn last is not remembered.                          *)
BugForgetsOldReading ==
  /\ readSensor /\ loopCounter' = EnvLoops /\ UNCHANGED envOld
  /\ IF Whole(sensor') # envOld
     THEN LET d == updateEnvData(disp, sensor')
          IN disp' = Refreshed(d) /\ panel' = Visible(d)
     ELSE UNCHANGED shown

(* The reading is drawn, and the panel refreshed, when it differs from the
   one before in its whole part.                                           *)
ShowEnv ==
  /\ readSensor /\ loopCounter' = EnvLoops /\ envOld' = Whole(sensor')
  /\ IF Whole(sensor') # envOld
     THEN LET d == updateEnvData(disp, sensor')
          IN disp' = Refreshed(d) /\ panel' = Visible(d)
     ELSE UNCHANGED shown

ReadEnv ==
  /\ pc = "wifi" /\ loopCounter = 0
  /\ ShowEnv
  /\ UNCHANGED <<vars, result, behind, measured>>

(* The link can be down again when checkWifiState looks.                   *)
ShowWifi ==
  /\ loopCounter # 0
  /\ CheckWifi
  /\ \E connected \in {FALSE, wifi' = "connected"} :
       disp' = updateWifiState(disp, connected)
  /\ UNCHANGED <<panel, env, result, behind, measured>>

(* runPortCheck                                                            *)
Opening == CheckDue /\ measured' = (measured /\ port'.state = port.state)
                    /\ UNCHANGED <<shown, env, result, behind>>

HasOpened == OpenPulse /\ result' = OPEN /\ UNCHANGED <<shown, env, behind, measured>>

ShowOpening ==
  /\ CheckQuantity
  /\ IF result = OPEN /\ pc' = "delay"
     THEN disp' = updateOutputState(disp, OPEN) /\ behind' = behind \ {"icon"}
     ELSE UNCHANGED <<disp, behind>>
  /\ result' = "ERROR"
  /\ UNCHANGED <<panel, env, measured>>

ShowClosing ==
  /\ ClosePulse
  /\ disp' = drawSwitchTime(updateOutputState(disp, CLOSED), port'.switch)
  /\ behind' = {}
  /\ UNCHANGED <<panel, env, result, measured>>

(* Bug: the counter is decremented twice a pass.                           *)
BugDecrementsTwice ==
  /\ Delay
  /\ disp' = Refreshed(disp) /\ panel' = Visible(disp)
  /\ loopCounter' = loopCounter - 2
  /\ UNCHANGED <<sensor, envOld, result, behind, measured>>

(* displayRefresh and loopCounter--, before the delay.                     *)
Refresh ==
  /\ Delay
  /\ disp' = Refreshed(disp) /\ panel' = Visible(disp)
  /\ loopCounter' = loopCounter - 1
  /\ UNCHANGED <<sensor, envOld, result, behind, measured>>

(* What updateSwitchTimes does for the sleep branch is not drawn.          *)
NotShown ==
  /\ Update
  /\ behind' = CASE caller = "sleep" /\ pc = "updatePulse" -> behind \cup {"icon"}
                 [] caller = "sleep" /\ pc' = "top"        -> behind \cup {"time"}
                 [] OTHER -> behind
  /\ UNCHANGED <<shown, env, result, measured>>

Elsewhere ==
  /\ \/ CheckFlag \/ Sleep \/ CopyField("main") \/ WriteChunk("main")
     \/ Wake \/ SntpSet \/ timeUpdateNotif \/ Tick \/ Reset
  /\ UNCHANGED displayVars

DisplayNext ==
  \/ SetUpDisplay \/ ShowSync \/ ShowFlow \/ ReadEnv \/ ShowWifi
  \/ Opening \/ HasOpened \/ ShowOpening \/ ShowClosing \/ Refresh
  \/ NotShown \/ Elsewhere

DisplaySpec == DisplayInit /\ [][DisplayNext]_<<vars, displayVars>>

-----------------------------------------------------------------------------
(* Every variable has its type; loopCounter, tested at 0 and decremented
   further down in the same pass, never goes below 0.                      *)
DisplayTypeOK ==
  /\ DOMAIN disp.frame = DOMAIN panel
  /\ \A p \in {disp.frame, panel} :
       /\ p.output \in PortState /\ p.wifi \in BOOLEAN
       /\ \A r \in TextRegions : p[r] \subseteq Nat
  /\ disp.dispNeedRefresh \in BOOLEAN /\ disp.prevFlow \in Word16
  /\ {disp.flowText, disp.envText} \subseteq Nat \cup {NoText}
  /\ sensor \in Nat /\ envOld \in Nat /\ loopCounter \in 0 .. EnvLoops
  /\ result \in {"ERROR", OPEN}
  /\ behind \subseteq {"icon", "time"} /\ measured \in BOOLEAN

(* A pass is over and everything it drew is on the panel.                  *)
PassShown == pc \in {"top", "sleep"} /\ ~disp.dispNeedRefresh

(* The output icon tells whether the port is open, with one exception: a port
   closed by the sleep branch is shown open until the next port event.     *)
IconIsThePort ==
  PassShown => IF "icon" \in behind
               THEN panel.output = OPEN /\ port.state = CLOSED
               ELSE panel.output = port.state

(* The time on the panel is that of the next slot, unless the sleep branch has
   moved the slot; it stays the only time that can be read.                *)
TimeIsTheNextSlot ==
  PassShown /\ "time" \notin behind => panel.time = {TimeText(port.switch)}

(* From the first flow window after an opening on, the panel tells the litres
   counted, through later openings, wrap-arounds and returns to 0.         *)
LitresAreCurrent ==
  PassShown /\ measured =>
    panel.flow = {port.current} \/ (port.current = 0 /\ panel.flow = {})

(* No text is printed over an older one, but for the date.                 *)
NoOverprint == \A r \in TextRegions \ {"date"} : \A a, b \in panel[r] : a = b

(* The panel tells the sensor's last complete reading, whole numbers at least. *)
EnvIsTheReading ==
  PassShown => \/ \E reading \in panel.env : Whole(reading) = Whole(sensor)
               \/ panel.env = {} /\ Whole(sensor) = 0

=============================================================================
