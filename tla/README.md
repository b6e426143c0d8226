# Formal models of esp_irrigator

TLA+ models of the ESP32 irrigation controller in this repository, the TLC
configurations that check them on small instances, and TLAPS proofs of their main
properties for every value of the constants.

The controller opens a water valve at programmed times, closes it when a flow
meter has counted the wanted quantity, and spends the rest of the time in deep
sleep. The valve is a *bistable* solenoid: a pulse moves it, and it keeps its
position without power. Everything that makes this program hard follows from that
and from four activities that run at once: the main loop, the HTTP server's task,
the event and SNTP callbacks, and the pulse interrupt.

## 1. Inventory

| Component | Sources | State it keeps | Operations | Who it talks to |
|---|---|---|---|---|
| Main loop | `main/main.cpp` | `f_systemTimeUpdated`, `sleepInterval`, `prevTicks`, `loopCounter` | one pass: time-update block, flow window, DHT22, Wi-Fi, port check, display, sleep decision | calls everything below |
| Scheduler | `main/portSupervisor.cpp`, `include/port*.h` | `portList`: state, switch time, interval, required and counted litres | `runPortCheck`, `updateSwitchTimes`, `updatePortConfig`, `getNextPortTriggerTime`, `addPort` | solenoid pulses; main loop and httpd task both write it |
| Vault | `main/vault.cpp` | two keys in NVS: the number of ports, their list | `getVaultData` at boot, `setVaultData` after changes | called by main loop and httpd, no lock |
| Flow meter | `main/main.cpp` | `flowPulseCount`, `flowLitresCurrent_u16` | `gpio_isr_handler`, the measurement every 60 s | interrupt against loop |
| Time | `main/sntp.cpp` | the callback; the system clock | `obtain_time` with its bounded wait, `timeUpdateNotif` | steps the clock under all others; keeps the main loop waiting |
| app_wifi | `components/app_wifi` | `_state` under `_mutx` | `Init`, `Begin`, two event handlers | event task against main loop |
| http_server | `components/http_server`, `commonHeaders` | server handle, one observer | file requests, `updateConfigHandler` | calls the scheduler from the httpd task |
| NVS wrappers | `components/non_volatile_storage` | none | open, set, commit, close per value | ESP-IDF NVS |
| display | `components/display` | icon positions, dirty flag, the texts last drawn | `updateX`, `displayRefresh` | main loop only |
| epaper | `components/epaper` | frame buffer; the panel's memory, address counter and glass | `DrawX`, `LDirInit`, `Clear`, `DisplayPart`, `WaitUntilIdle` | display; a panel that goes on over a reset |
| dht22 | `components/dht22` | last reading | `readSensor` and its four timed loops | main loop only; a line that does not wait for it |
| Unused | `components/dht20`, `i2c_comm`, `clockTime`, `main/mqtt.c` | | | nothing calls them |
| Third party | `managed_components`, `main/include/spdlog` | | | |

What is hard in it:

* *Two tasks, no lock.* `updatePortConfig` runs in the httpd task and changes the
  very port the main loop works on; both tasks run `setVaultData`, which copies the
  port field by field and then writes it.
* *A clock that jumps.* SNTP sets the clock in the middle of anything. The
  notification only sets a flag; the loop looks at it once a pass, and clears it
  after it has acted on it.
* *Restarts.* Deep sleep ends in a reboot, so a sleep is a restart too: RAM is lost,
  flash and the solenoid are not.
* *Order of writes.* `portSwitchState` records a state and then pulses, moves the
  switch time after the pulse, and only some callers save the result.
* *Boundaries.* Equal times, the wrap of 32-bit sums, 16-bit litres, an interval
  of 0.
* *Loops against lines.* The DHT22 is read by counting passes of a loop with the
  scheduler on; the panel is waited for without a time-out; SNTP with one.
* *Something must happen in the end.* An open valve must close; a lost link must
  come back; the main loop must come round.

What makes each component correct:

* Scheduler: the record is where the solenoid is; a slot is served once; a port is
  closed for its quantity and counts little more; switch times do not drift and no
  slot to come is dropped.
* Sleep: never over a slot to come, over running water only where the code says so; in
  the end every open valve closes.
* Vault: flash is never ahead of the schedule and does not go back; what httpd
  answered for is in it; whenever power fails, the next start can read it.
* Flow meter: nothing is counted that did not flow.
* app_wifi: the state never waits for an event that has come already; the
  controller gets on line.
* http_server: every request ends; whatever arrives, and in whatever pieces, the
  port sees a whole configuration or a restart, and half a one never reaches flash.
* display: at the end of a pass the panel tells the port's state, its next slot, the
  litres counted and the last reading, each once.
* epaper: the bytes drawn are the picture meant; the glass shows that picture, never half of
  it.
* dht22: a read ends; one that lost pulses or a bit is not taken for a good one.

## 2. Modules

| Module | Models | Extends |
|---|---|---|
| `PortSupervisor` | the port and the decisions on it, as operators | Integers |
| `Irrigation` | abstract: one valve and its slots, as the garden sees them | Integers |
| `Irrigator` | main loop, supervisor, httpd's post, SNTP, reset, sleep; implements `Irrigation` | `PortSupervisor` |
| `Vault` | `Irrigator`'s flash as keys, with errors and erasure | `Irrigator` |
| `HttpServer` | `updateConfigHandler` and the observer | `Irrigator` |
| `Display` | display, sensor, and the main loop's calls of them | `Irrigator` |
| `Meter` | abstract: what the flow meter promises, one honest step per window | Integers |
| `FlowMeter` | interrupt and measurement, one access at a time; implements `Meter` | Integers |
| `AppWifi` | the Wi-Fi state machine, its mutex, its one client, the wait for the time, a radio | Sequences |
| `Dht22` | `readSensor`, bit by bit, against the line | Integers |
| `Canvas` | abstract: a sheet of black and white pixels and calls that draw on it | Sequences |
| `Paint` | `epdpaint`: bytes, masks, pointers and loops, as operators | Sequences |
| `Panel` | frame buffer, transfer and panel; implements `Canvas` | `Paint` |
| `MCIrrigator`, `MCVault`, `MCHttpServer`, `MCDisplay`, `MCFlowMeter`, `MCAppWifi`, `MCDht22`, `MCPanel` | the constants of the small instances | the module |
| `Irrigator_proofs` (with the refinement of `Irrigation`), `Vault_proofs`, `HttpServer_proofs`, `Display_proofs`, `FlowMeter_proofs`, `AppWifi_proofs`, `Dht22_proofs`, `Panel_proofs` | theorems | the module, TLAPS |

`Irrigator` is the middle of it. Above it stands `Irrigation`; below it `Vault`,
`HttpServer` and `Display` each put one component in the place of one of its steps (a
write, a post, a pass) and leave the others as they are. Each of their actions is built on
one of `Irrigator`'s or leaves its variables alone, so each implements `Irrigator` by
construction (a lemma in its proofs), and what is proved of `Irrigator` holds of all four. What two of
them would do together is not modelled: they share no state but `Irrigator`'s.

### 2.1 Irrigator

`pc` is where `app_main` is; each action is a stretch of a pass that touches shared
state once, so that the httpd task, the clock, the SNTP client and a reset come
between any two of them.

| Code | Actions |
|---|---|
| everything before the loop | `Boot`, `Wake` (both `Restart`) |
| `if (f_systemTimeUpdated)` block | `CheckFlag`, `ClearFlag`, the save |
| `updateSwitchTimes` | `UpdateBegin`, `UpdatePulse`, `CatchUp` (one iteration), `UpdateReturn` |
| flow window | `Flow` (the promise of `Meter`) |
| `checkWifiState` | `CheckWifi` (only how far it is) |
| `runPortCheck`, `portSwitchState` | `CheckDue`, `OpenPulse`, `CheckQuantity`, `ClosePulse` |
| `sleepInterval--`, `vTaskDelay`, `isStationConnected` | `Delay` |
| sleep decision, `deepSleep` | `Sleep` |
| `setVaultData`, either task | `CopyField(w)`, `WriteChunk(w)` |
| `updateConfigHandler` to `updatePortConfig` | `Post`, `SetInterval`, `SetQuantity` |
| `settimeofday`, then the callback | `SntpSet`, `timeUpdateNotif` |
| external | `Tick`, `Reset` (reset, or loss of power, which loses the clock as well) |

One port stands for the list because the firmware wires one and indexes
`portList[0]`. `valve` is the solenoid itself: a variable that no restart touches.
`known`, `lastSlot`, `restarted` and `overlap` are history variables; no guard
reads them.

Flags and words keep their widths (`U32`, `U16`); the sums of `NextSlot`,
`CatchUp` and `Flow` wrap. `FlashErrors` says whether a write to flash can fail; the
code looks at no result.

`Irrigation` is what is left when tasks, pulses, records and copies are taken away: `Open`,
`Close` (with which the next slot comes up), `Skip` (overdue slots, by whole intervals),
`Save`, `Sleep`, `Wake`, `Crash`, `Start` (from `saved`), `Pass` (time). `KeepsSchedule` is the
refinement mapping. It keeps two things apart: `serving`, whether the controller has a slot
open, which is the record from the pulse on and is lost with RAM; and `water`, which is the
solenoid itself. A crash in mid-watering leaves the water running with no slot served, and
nothing but the end of a later slot turns it off.

### 2.2 FlowMeter and Meter

`FlowMeter` takes the four reads and writes of `main.cpp:364-368` one at a time, with
pulses, ticks and clock steps in between. `Litres(count, seconds)` is the conversion:
the quotient cut off, one less when an exact quotient was rounded down on the way,
and any word at all where C++ leaves the cast undefined (division by zero, result too
large). `Meter` is the promise: litres come once a window and each is paid for with
pulses that are then used up. `KeepsPromise` maps the pulses read but not yet
converted to `Meter`'s `unused`, the litres about to be added to its `litres`, and
makes `SetPrev` the moment of the measurement. `Irrigator!Flow` is that same step,
with the set `Litres` for what a window can bring.

### 2.3 AppWifi

`_init`, `Begin` and the handlers take `_mutx`, which is modelled; `GetState` does not,
so `CheckState` reads `_state` at any time. The driver and the lwIP timer behind
`IP_EVENT_STA_LOST_IP` are external: they post events to a queue that the event task
works off in order. `radioIsSlow`, fixed in each
behaviour, says whether the loop (a pass every 100 ms) sees every state before the radio
goes on.

`obtain_time` keeps `app_main` in rounds of two seconds (`AwaitTime`) until the client's
status says that an answer came, a status that reading it clears, or the rounds are
used up. `Answer`, external, comes at once, late or never.

### 2.4 Display

`Display` adds variables to `Irrigator` and a conjunct to each action in which the
main loop draws; `Elsewhere` and `NotShown` are the actions in which it does not.
The `updateX` functions of `display.cpp` are operators from the object to the object
(`portSwitchTime` is `drawSwitchTime`, because a local of `updateSwitchTimes` has its
name). `disp` holds the frame buffer, the dirty flag and the function statics, `panel`
what the e-paper shows, which a restart clears only when app_main gets there.

A text region is the set of texts printed in it, since `DrawStringAt` sets only the
pixels of its glyphs and a text goes away only when the same text is drawn in the
background colour, or a rectangle covers it. The geometry decides which: with the
font's ink in rows 5 to 22 of a line, the rectangle of rows 105 to 125 clears the time
drawn at 100 but not the date drawn at 123. So after a change of day without a restart
two dates are printed over each other, and `NoOverprint` is about the other regions.

`sensor` is Dht22's pair of values as one number of tenths. A reading is complete
or timed out; its checksum makes no difference, as nobody looks at the result.
`behind` and `measured` are history variables. What becomes of the frame buffer is
the matter of `Panel`.

### 2.5 HttpServer

`HttpServer` replaces `Post`, in which a configuration comes as it pleases, by the handler:

| Code | Actions |
|---|---|
| `content_len` against `SCRATCH_BUFSIZE` | `Accept` |
| the loop of `httpd_req_recv` | `Receive` (any piece of what is left), `ReceiveFails` (timeout, client gone) |
| `notifyObserver` | `NotifyNobody` before `registerObserver`, else `NotParsed` or `Parsed` |
| `updatePortConfig`, member by member | `StoreInterval`, `StoreOthers`, `NullMember` |
| `setVaultData` and the answer | `SaveConfig` |

`interval`, `quantity` and `json` of a body are what cJSON finds in it; `Converted` narrows
the ints to the words they are stored in. `duration` is stored and never read, so it
only matters whether it is there. A null pointer, of a missing member or the missing
observer, is a panic, that is, `Irrigator`'s `Reset`. `cJSON_Parse`'s tree is never
deleted: `heapDocs` counts down the room that is left, and with none left a post is
answered with success and dropped (`NotParsed`). `torn` is a history variable.

### 2.6 Vault

What `Irrigator` takes as one value in flash is two keys, each written and committed on its own:

| Code | Actions |
|---|---|
| `setVaultData`, either task | `WriteCount`, `CopyPort` (`Irrigator`'s `CopyField`), `WriteConfig` (its `WriteChunk`) |
| `getVaultData` at boot | `StartUp`, `ReadFails`, `BootLoop` |
| `nvs_flash_erase` in `setup` | `EraseFlash` |

A start that cannot read both keys leaves the port list empty, and `app_main` indexes it: a
panic, and again at the next start. `flash` holds only what `Readable` asks: is each key
there. The count in it always fits the list, which never grows or shrinks after a start. The
third key `vault.cpp:95` writes has
a name longer than NVS allows; that write always fails and is no step.

### 2.7 Dht22

Each of the four calls of `getSignalLevel` is a value of `wait`; the loop counts its passes
and is left when the level changes (`Answer`, `LowOver`, `HighOver`) or the count
is above its limit (`TimesOut`). The line is external. `NextPhase` moves it whether or
not the reader looks, so that between two looks any number of pulses may go by; `counted`
is the most the loop can have counted, and `HighOver` takes any count up to it. `Breaks`
is a sensor that loses power, or a line that is shorted. `early`, `aligned` and `lost` are
history variables. `humidity` and `temperature` are set before the sum is looked at.

### 2.8 Paint, Canvas and Panel

`Paint` translates the drawing functions the display uses: a loop that draws pixels in one
colour is the set of pixels it visits; the byte and bit of each are found as the code
finds them. Fonts and icons are constants. `Canvas` says the same without bytes: what is
black after a call. `DrawsThePicture` shows that `Panel`'s frame buffer implements it.

`Panel` is `Display`'s constructor, its updates and `displayRefresh` down to the bytes sent:
`LDirInit` (`ResetPin`, `SwReset`, `SetWindow`, with their waits), `ClearByte` and `DisplayPart`
(a byte each, `sent` being `i + j * w`), the waits for the busy pin, `displayOutline`, `Update`. The
panel is external: a memory of `RamRows` rows of `RamCols` bytes with an address counter
that goes through it row after row and wraps at its end, and a glass that changes when an
update is finished. It goes on when the chip is reset; only the reset pin stops it. `begun`
and `asked`, where the last transfer began and what it sent, are history variables.

The window `LDirInit` sets has 26 bytes (0 to `200 >> 3`) in each of 201 rows, 5226 in all; a
frame has 25 in each of 201 (`EPD_HEIGHT`), 5025 in all; and the counter is set, to row 199, only
there. A panel that takes the window as it is set therefore begins each frame where the
one before it ended, 201 bytes short of a round, and the picture stands in 26 places in turn,
of which the glass shows what is in its 25 columns and 200 lines. What a panel makes of a
column and a row that its memory does not have is not in the sources, so the window is a
parameter, with no relation to the frame assumed, and the properties are the ones
that hold in any: the glass shows the frame whole from where its transfer began, and that is a
number of whole frames from the start. Only in a window of a frame's bytes the picture
stands still (`StandsStill`). Where the window is the larger one, the bytes a frame does not
reach keep what they had.

## 3. What is checked

Passing runs:

| Run | Question | States |
|---|---|---|
| `schedule` | Without posts: main loop, SNTP, sleep, stations, writes that fail, one reset or power loss; refinement of `Irrigation` | 3.97 million |
| `vault` | A post against every step of the main loop, a clock that may go back, power loss between two keys, failing reads and writes, an erased partition, a flow meter that may stay dry | 2.47 million |
| `http` | Bodies of every kind and in every piece against the main loop | 0.73 million |
| `display` | What the panel tells, at every end of a pass | 1.36 million |
| `flow_meter` | Interrupt and clock against the measurement; refinement of `Meter` | 40 thousand |
| `wifi` | Handlers, `_init`, `Begin` and a time server that may not answer, in every order | 5.1 thousand |
| `dht22` | A reader that is kept away against a line that goes on or breaks | 178 thousand |
| `panel` | Drawing, transfer and resets against a panel that goes on; refinement of `Canvas` | 201 thousand |

What they show:

`schedule` and `vault`: the record mirrors the solenoid through synchronisations, sleep
branches and posts (`StateMirrorsValve`); a slot is opened once between restarts
(`SlotServedOnce`); a port counts at most one window more than its quantity
(`OverrunBounded`); without posts flash never says OPEN (`VaultHoldsClosed`; with one it may: httpd saves
whatever state the port is in), and sleep begins over running water in two cases only
(`SleepsOpenInTwoCases`). In the very second of an open port's switch time the code takes the last branch
and sleeps 3600 s with the valve open. And after a reset in mid-watering the record says CLOSED, so
every branch sleeps over the water until a later slot has been opened and closed. The first case takes
an opening and a decision to sleep in the same second. `KeepsSchedule` says the rest. No slot is
opened early, closing brings up the next one in the same moment, only overdue slots are passed
over and by whole intervals, what is saved is never between two slots, and sleep ends by the
next slot. `NoDrift`, `OnlyOverdueSlotsDropped`, `NoSlotSleptThrough` and
`SavedScheduleAdvances`, the four sentences a reader would ask for first, follow from it;
they are proved (section 4), not run again.

`vault`: whichever task saves, whatever write fails and wherever power does, an open valve is
closed in the end, by the sleep branch or after the next opening, though no pulse ever comes
(`ClosesUnlessErased`); a save that takes a key away before it writes it would leave the valve
open for good. An erased vault is the exception: the chip then starts again and again, and nothing moves
the solenoid.

`http`: a body in work leaves room for the final 0 (`HttpTypeOK`), every request ends
(`EveryRequestEnds`), what was parsed and is answered for is in the port and, if writes do
not fail, in flash as it was asked for, whatever the main loop does between the handler's
steps (`StoredAsAsked`), only two saves at once lose a posted setting
(`SettingsLostOnlyByOverlap`), and a post that panics halfway leaves no trace in flash, unless the
main loop was saving in that moment (`HalfPostNeverStored`; without `torn` it is violated).

`display`: the icon, the time, the litres and the reading are right at the end of every
pass, with one exception. What the sleep branch does (closing a port, moving its switch
time) is not drawn: the panel shows an open port and a slot gone by until the next port
event (`IconIsThePort`, `TimeIsTheNextSlot`; without the exception both are violated).

`flow_meter`: litres are paid for by pulses in every order of interrupt, ticks and reads.
A window is measured early only when a synchronisation moved the clock since the last one
(`WindowIsFull`). It then is, and its pulses are divided by the size of the step, that is, lost.

`wifi`: a state that waits for an event has it coming (`WaitingIsAnswered`), once all are
handled the state is the radio's (`StateIsTheRadios`), the controller gets on line
(`EventuallyOnline`), and neither the mutex nor a silent time server keeps the main loop
(`LoopGoesOn`).

`dht22`: a read that loses whole pulses does not find its 40 bits and times out
(`LostPulsesTimeOut`); one bit misread is never returned as good (`OneMisreadIsReported`); a
reader kept from counting errs towards 0 and past it, never above what was sent
(`NeverMoreThanSent`). A read that looks at the line before the sensor has answered takes the
answer for a bit, and is promised nothing. `main.cpp` looks at no result, so a reading with a
bad sum is shown as well.

`panel`: the glass shows the frame when no refresh is due (`GlassShowsTheFrame`) and never half
of one, whatever is reset in between (`NeverTorn`), from a place that whole frames lead to
(`MovesByFrames`); the bytes drawn are the picture meant
(`DrawsThePicture`); `app_main` comes back (`ComesBack`).

Runs that end in a violation, each a disagreement between the code and what the
sources say of it:

| Run | Said | Done |
|---|---|---|
| `off_condition` | "shifting to using quantity as the OFF condition" (`portSupervisor.cpp:62`) | `updateSwitchTimes` closes an open port whatever has flowed |
| `slot_again` | interval "between consecutive port open events" (`portSupervisor.h:59`) | the sleep branch closes an overdue port and does not save: after the next sleep the same slot is opened again, with a valve that was closed in between |
| `lost_config` | "Post control value successfully" (`http_server.cpp:108`) | the main loop's save, begun earlier, overwrites it |
| `dropped_post` | the same answer | the document of an earlier post is never deleted; with no room left for the next one nothing is stored |

### Bounds

* Time is scaled: a flow window of 1 or 2 s for 60, a longest sleep of 3 s for 3600, 1 to 3
  passes for 3000 before a sleep decision. Only comparisons of such numbers
  matter, and the scaled ones keep their order and every equality that can occur.
* `MaxNow` is the horizon: the clock stops there. With a first slot at 2 and an
  interval of 2 it holds four slots in `schedule`, so that one can be served, one dropped
  and one slept to; two in `vault`. It is odd and the slots even, so that no port
  falls due in the last second, where a stopped clock and not the code would keep a valve
  open; `BeyondTheClock` excepts a slot that a post or a step back put behind it.
* One reset or power loss, two synchronisations (`schedule`), or one of each and a
  post (`vault`): each pair of events in either order. Further ones repeat, since a
  restart leaves no state but flash, valve and clock, all of which are free here.
* `ClockStepsBack` is true in `vault` only; `schedule` is about the promise
  `Irrigation` makes, which is not kept by a clock that goes back.
* `Litres = {0, 1}` or `{0, 2}` against quantities of 2 and 4: nothing flows, the
  quantity is met exactly, or in several windows; `{0, 2}` in `vault`.
* `vault`: one read that fails, one erasure; writes fail any number of times.
* `http`, `dropped_post`: a scratch buffer of 4 bytes, bodies that fill it, are a byte too long, lack a
  member each way or are no JSON; room for one document, so that a second post meets a
  full heap; one panic. Posts that can panic are accepted only while `MaxResets` allows
  it: the bound cuts the run there, not the handler.
* `display`: days of 4 s and minutes of 2 s, so that slots differ in both, in the minute
  only, or in neither; litres that wrap a word of 4 values back to 0; two readings that
  differ in their whole part, one of them the 0 the object starts with.
* `flow_meter`: two measurements that count a litre, a word of 3 values so that the
  sum wraps, and 9 pulses so that a quotient does not fit.
* `wifi`: four failed or lost links, two refused calls, and the code's own ten rounds; the
  states of the machine repeat after one failure, the queue holds old events besides a new one.
* `dht22`: bytes of two bits instead of eight, so that there are two bits to a byte and five
  bytes; all ones, all zeros, and a temperature below zero with a carry in the sum; the code's
  limits and the data sheet's times in microseconds.
* `panel`: a sheet of 16 by 5 pixels, a window of 5 rows of 3 bytes begun at row 3, a glass of 4
  lines of 2, one reset; glyphs narrower than a byte, a byte wide and wider, icons and texts
  over each edge. As with 26 and 25 bytes, 201 rows, row 199 and 200 lines the window
  has a byte more in each row and a row more than the glass, and as many rows as the frame.

### Fairness

`Vault!VaultFairSpec`: each FreeRTOS task is scheduled (`app_main`, `httpd`), the SNTP client
that set the clock calls its callback, time passes, a device that is off or asleep comes
back. No post, synchronisation, reset, failure or erasure is assumed to happen or not to. No
station is connected in that run: one that stays connected puts sleep off for ever, and with a
dry flow meter the valve stays open.

`HttpServer!HttpFairSpec`: the main loop and the httpd task are scheduled, and a body that
stays out is ended by the server's receive timeout, which is part of `handler`. No client
has to send anything, and time need not pass.

`AppWifi!FairSpec`: both tasks run, and an attempt the radio makes is answered and gets an
address unless it fails, which it does at most `MaxFailures` times. The time server need not
answer. `EventuallyOnline` needs two
assumptions that the code does not enforce. The radio must be slow enough: `checkWifiState`
acts on *changes*, so an attempt that fails between two passes looks like no change and
is never repeated. And no call may be refused: after an error of `esp_wifi_connect` the
state stays as it was, and again nothing changes.

`Dht22!Spec`: the reader runs and the sensor keeps its times; neither has to begin.
`Panel!Spec`: `app_main` runs, and the panel finishes what it was given to do. `WaitUntilIdle` has no
time-out: with a panel that stays busy `app_main` never comes back, and no fairness of the code's
own would help.

## 4. What is proved

Irrigator (`Irrigator_proofs`), from the named assumptions on the constants:

| Theorem | For | Argument |
|---|---|---|
| `TypeInvariant` | every behaviour | inductive as it stands; one step per action; the clause on `sleepInterval` carries the loop counter's part |
| `StateMirrorsValveHolds` | every behaviour | `known` implies the record is right, pulse by pulse (`Recorded`) |
| `VaultHoldsClosedHolds` | no posts | strengthened by what each copy of the port under way holds: state CLOSED wherever the main loop is saving |
| `OverrunBoundedHolds` | no posts, `BootQuantity > 0` | what an open port may have counted at each `pc` |
| `SleepsOpenInTwoCasesHolds` | no posts, no step back | `DueInv`: an open port's switch time has come, so the sleep branch, unless it is this second, closes first; `DoubtInv`: a record that says CLOSED over an open valve is a restart's, and the next opening ends that |
| `SlotServedOnceHolds` | intervals positive and small enough that a sum does not wrap | the next switch time is beyond the last slot opened, at each `pc` |
| `SettingsLostOnlyByOverlapHolds` | a flash that writes | without an overlap the port, the copy under way and at last flash have the posted interval, in that order |

`schedule` runs `SpecAlone`, the next-state relation less a client's posts, which `vault` and `http` have; the
theorems are about `Spec`, and so about `SpecAlone` (`AloneIsSpec`).

The refinement of `Irrigation` (in `Irrigator_proofs` as well), `Undisturbed`: no posts, no step back, an interval that
is positive and keeps switch times from wrapping.

| Theorem | Argument |
|---|---|
| `KeepsScheduleHolds` | `ScheduleInv`: the port's, flash's and each copy's switch time are where `Irrigation` may have them; each action maps to one of `Irrigation`'s or a stutter |
| `NoDriftHolds` | every switch time is the first plus a whole number of intervals |
| `SavedScheduleAdvancesHolds`, `NoSlotSleptThroughHolds`, `OnlyOverdueSlotsDroppedHolds` | from the steps of the refinement |

Vault, server and display, each of which implements `Irrigator` by construction (the lemmas
`VaultImplementsIrrigator`, `HttpImplementsIrrigator`, `DisplayImplementsIrrigator`):

| Theorem | For | Argument |
|---|---|---|
| `VaultTypeInvariant` | every behaviour | `CountedInv`: a task that wrote the count is saving until its chunk is written, whatever the other one does and unless the chip goes down (`SavingIsLeftByWritingOnly`); the bounds apart (`ErrorsInv`) |
| `HttpTypeInvariant` | every behaviour | inductive as it stands |
| `HalfPostNeverStoredHolds` | every behaviour | `HalfInv`: the interval of half a post is only in the port, while httpd is between its members or after the panic; the copies and flash hold whole ones |
| `StoredAsAskedHolds` | a flash that writes | `StoredInv`: from member to member the port, the copy under way and flash get what was asked for, and no step of `app_main` writes these fields but from the port's |
| `DisplayTypeInvariant` | every behaviour | `ObjectInv`, inductive |
| `NoOverprintHolds`, `LitresAreCurrentHolds`, `EnvIsTheReadingHolds` | every behaviour | `TextsInv`: in each region stands the text the object remembers and nothing else, so drawing that text in the background colour clears the region; one lemma per drawing call |
| `IconIsThePortHolds`, `TimeIsTheNextSlotHolds` | no posts | `ShownInv`: the picture lags behind the port only between a pulse and the drawing call after it, or since the sleep branch |

Flow meter (`FlowMeter_proofs`):

| Theorem | For | Argument |
|---|---|---|
| `FlowTypeInvariant` | every behaviour | inductive; `CountFits` |
| `NeverOvercountsHolds` | no step back | `Bill`: litres counted or owed, and pulses still to use, are covered by this opening's pulses; `LitresPaid` for the division |
| `WindowIsFullHolds` | every behaviour | as long as nothing moved the clock, its distance from `prevTicks` is the time since the last measurement |
| `KeepsPromiseHolds` | no step back | initial states map to initial states; each step is `Meter`'s step or a stutter, under the same invariant |

Wi-Fi (`AppWifi_proofs`), every behaviour, queues of any length:

| Theorem | Argument |
|---|---|
| `WifiTypeInvariant` | inductive as it stands; the mutex is held exactly in the guarded stretches |
| `WaitingIsAnsweredHolds` | `WifiInv`: which event can be behind which (`InOrder`; only a `LOST_IP` can come from an older link), what is still to come for each state of the radio (`RadioInv`), and that a start or a disconnection still to come is the radio's last word (`LastWord`) |
| `StateIsTheRadiosHolds` | from the same invariant, with nothing to come |

Sensor (`Dht22_proofs`), for bytes of any width above one bit and any times of the line, as long as
the sensor's 0 is no longer than 40 us (`ZeroAssumption`, the data sheet's 26 to 28):

| Theorem | Argument |
|---|---|
| `TypeInvariant` | `ReaderInv`: a byte that is read down to bit `b` is a sum of the powers from `b` up (`Partial`), so that the next bit cannot carry it out of its width, and the indexes stop behind the fifth byte |
| `LostPulsesTimeOutHolds` | `LineInv`: the line is never behind the reader (`Ahead`); a reader that lost step is at least a pulse behind the line, and so has no pulse left for its last bit, which it can only time out on |
| `OneMisreadIsReportedHolds` | `BytesInv`: the bytes are what was sent less the bits misread (`Misread`); one such bit takes less than 2^8 from one byte, so the sum of the first four and the fifth cannot agree (`SumsDiffer`) |
| `NeverMoreThanSentHolds` | the same invariant: a bit is only misread as 0, so each byte is at most what was sent |

They rest on the arithmetic of bits: what a prefix of a byte is (`PrefixNext`, `PrefixPartial`), that quotient and
remainder are unique (`DivUnique`), and that powers of two are positive and ordered.

Panel (`Panel_proofs`), for sheets, windows, first rows, fonts and drawing calls of every size; neither the
window's width nor its height need be the frame's:

| Theorem | Argument |
|---|---|
| `GlassShowsTheFrameHolds` | `PanelInv`: the counter is `sent` bytes on from where the transfer began, modulo the window, and of the bytes sent so far the last window's worth stand there: two of them less than a window apart have different cells (`CellsDiffer`, `OneByteMore`) |
| `NeverTornHolds` | an update is only asked for with a whole frame in memory, and no byte is sent until it is over, or until the reset pin ended it |
| `MovesByFramesHolds` | `PlacesInv`, for any set of places that has the counter's start and is closed under a frame's length; the places of `FramePlaces` are (`NextPlace`: after as many frames as the window has cells the counter is at its start again) |
| `StandsStill` | the same invariant, for the set of that start alone, if `Bytes = Cells` |
| `TypeInvariant` | inductive; that the buffer keeps its bytes is the first half of `CallsDraw` |
| `DrawsThePictureHolds` | `InkOfPixels`: no two pixels share a bit (`Addresses`, `SameAddress`), so drawing a set of pixels changes these and no other; the set each loop visits is the shape (`RectangleVisits`, `StringVisits`, `IconVisits`); the pointer that `DrawCharAt` walks is where the row's and the column's byte are (`PointerMoves`); hence a call (`CallDraws`) and, call after call, an update (`CallsDraw`) |
| `OlderTextIsWiped`, `IconTakesItsPlace` | from `CallDraws`, on sets of pixels. Module `Display` keeps one value per region and takes a text drawn in the background colour to wipe it, an icon to replace the one before; these two say that the driver's bytes bear that out |

`FontAssumption` says that widths, heights and glyph indexes are unsigned, `CallsAssumption` (`IsCall`) that
the texts have glyphs in the font and that the icons are whole bytes wide, as all five are (`icons.c:41-54`). Without the
latter `DrawIcon`, which rounds the width down, would draw less than the icon's box.

Why things end. Behind each liveness property is a measure, a natural number that every step of the tasks in
question lowers and no other step raises, so that what is left to fairness is that the tasks have their turns
(for `ClosesUnlessErased` it covers the first part only, below):

| Theorem | Behind | Measure |
|---|---|---|
| `FrameGetsOn` (`Panel_proofs`) | `ComesBack` | `StepsLeft`, the commands, waits and bytes `app_main` has still to send; the panel is idle again after one step of its own and a reset apart nothing adds to them |
| `ReadGetsOn` (`Dht22_proofs`) | `ReadEnds` | `Left`, the loops still to leave; `SomeoneMoves`: as long as there is one, it can be left, it times out, or the line goes on, which it does a bounded number of times |
| `RequestGetsOn` (`HttpServer_proofs`) | `EveryRequestEnds` | `RequestLeft`: bytes to receive, members to store, fields to copy, the chunk to write; `app_main`, which saves too and may put the chip to sleep over it, raises it never (`MainLoopApart`) |
| `WorkRunsOut`, `RestIsOnline` (`AppWifi_proofs`) | `EventuallyOnline`, `LoopGoesOn` | `Work`: each link that may still fail, address that may be lost, call that may be refused and answer that may come late is paid for beforehand, with the events and passes it leads to, so every step that changes anything lowers it; where nothing can move (`CanMove` has the guards of the fair actions) the loop is on line, since of a slow radio it saw every state (`SlowInv`, one event at a time) |
| `PassGetsOn`, `SleepGetsOn` (`Irrigator_proofs`) | `ClosesUnlessErased`, in part | `PassLeft`, the steps to the end of a pass, for intervals that are positive and wrap no switch time (without this `updateSwitchTimes` may not end), and `SleepLeft`, with the passes to the sleep decision, while no station is connected |

Where a recursive function counts (the powers of two, the pointer, the calls of an update) its equation is
not taken for granted: a function that satisfies it is shown to exist, by induction over a set of numbers
(`NatSetInduction`, from the library's `WFMin`, which needs no operator as a parameter), and whatever
`CHOOSE` picks is then shown, the same way, to have the values claimed.

The bounds (`MaxNow`, `MaxPosts` and so on) are parameters of the theorems, so they hold for
every horizon. That the horizon stays below the wrap of a 32-bit clock (2106) is an
assumption (`BoundAssumption`, `FlowAssumption`).

Every safety property the passing runs check, invariant, action property or refinement, is
thereby proved. Only model-checked: liveness (`ClosesUnlessErased`, `EveryRequestEnds`, `EventuallyOnline`,
`LoopGoesOn`, `ReadEnds`, `ComesBack`), since a proof from weak fairness needs `ENABLED`, which is out of the prover's
reach, and then an induction over the measure. `ClosesUnlessErased` also needs an argument over several
passes, sleeps and starts, of which `SleepGetsOn` (with `VaultImplementsIrrigator`: what the vault adds to a
save is a stutter of `Irrigator`) shows that each decision to sleep is reached, not how many of them it takes.
What the four violation runs refute is only model-checked too. No module has a recursive operator; recursive
functions there are.

## 5. Not modelled

Most of the repository's lines are not the program's own: of 58,800 some 55,000 are the vendored
mDNS, spdlog with fmt, and fonts and icons written as arrays. The firmware's own code has about
3,600 lines. Of that is left out:

* The vault of a device that was never provisioned: nothing in the repository writes a
  first configuration, and `app_main` would index an empty list (as in `BootLoop`).
* Several ports: the firmware wires one and indexes `portList[0]`. `runPortCheck` would return the
  last port's result, `getNextPortTriggerTime` the minimum.
* An interval of 0, which keeps `updateSwitchTimes` in its loop for ever.
* The quantity in flash: a restart sets `BootQuantity` (3 litres, a TODO in `vault.cpp:41`).
* `b_portEnabled` (never cleared) and `duration` (never used).
* The sleep time in microseconds, a product of 32 bits: the duration is at most 3600 s, and
  3600 times a million is below 2^32.
* NVS functions other than the two kinds the vault uses; their bodies are the same.
* Rotation, slanted lines, circles, `HDirInit`, `Display`, `SetFrameMemory`, `Sleep` of the
  e-paper driver: no caller. The fonts, which are data: `Font` is a constant.
* What a panel makes of the column and the row that `LDirInit` asks for beyond its glass: the
  window is a parameter of `Panel` (2.8).
* The DHT22's start signal and its pauses, and the `cnt` of errors it logs.
* The HTTP GET handlers: they read files and the clock and leave no state.
* `dht20`, `i2c_comm`, `clockTime`, `mqtt.c`: nothing calls them.
* Third-party code, as far as it is not one of the external actions named above.

## 6. Plan

1. Done: `PortSupervisor`, `Irrigator`, `Meter`, `FlowMeter`, `AppWifi`, `Display`, `HttpServer`.
2. Done: `Vault` (the two keys of a save, errors, erasure), `Irrigation` and its refinement,
   `Dht22`, `Paint`, `Canvas` and `Panel`, the wait for the time in `AppWifi`.
3. Done: proofs of every safety property, for every module, and the measures behind
   the liveness properties.
4. Left: `PortSupervisor` for a list of ports, should one be wired.

## 7. Running

    tlc -workers 2 -config schedule.cfg MCIrrigator
    tlc -workers 2 -config vault.cfg MCVault
    tlc -workers 2 -config http.cfg MCHttpServer
    tlc -workers 2 -config display.cfg MCDisplay
    tlc -workers 2 -config flow_meter.cfg MCFlowMeter
    tlc -workers 2 -config wifi.cfg MCAppWifi
    tlc -workers 2 -config dht22.cfg MCDht22
    tlc -workers 2 -config panel.cfg MCPanel
    tlapm Irrigator_proofs.tla

`schedule.cfg`, `off_condition.cfg`, `slot_again.cfg` and `lost_config.cfg` belong to `MCIrrigator`,
`dropped_post.cfg` to `MCHttpServer`; the other proofs are run like the last line. `PROJECT.json` lists every run with its
properties, what each definition models, and the hazards the properties are for.
