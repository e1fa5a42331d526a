# RustEMS in TLA+

RustEMS is an engine-management firmware in Rust (`src/stm32`, on the hardware-independent
`src/engine-core`), with a host protocol, RDP (`src/device-api`), a host client (`src/client`, `src/cli`),
an older TunerStudio protocol (`src/protocol`), a simulator (`src/sim`) and a code generator
(`src/codegen`). This directory holds TLA+ models of it, the TLC configurations that check them, and proofs
of the properties that should hold for every engine and configuration.

Paths below are relative to the repository; `main.rs` is `src/stm32/src/main.rs` unless said otherwise, and
paths without `src/` are in `src/engine-core/src`.

## 1. Inventory

### How the firmware runs

All tasks of the firmware share **one cooperative executor**: a task runs until it awaits. There are
three kinds of tasks:

* `control_loop` (main.rs 470): samples sensors, drives actuators about every 10 ms, drains the queue of
  crank edges, fires coils and injectors, drains the queue of cam edges, yields. It awaits only in
  `sleep_us`, while a coil charges or an injector is open, and in `yield_now` at the end of a turn.
* `comms_task` (286): reads the UART, hands each frame to `RdpServer::handle` or to the older protocol's
  handler, carries out the actions it returns (publish the configuration, save, reboot), writes the reply;
  when the line is quiet for 10 ms it sends one telemetry frame or one event.
* `crank_exti_task`, `cam_exti_task`, `can_task` (`src/hal-*`): turn pin edges and frames into queue entries.

They share the static `CONFIG` with `CONFIG_EPOCH` (comms to control), `OUTPUTS` (control to comms) and
the queues. Client and firmware share a serial line and nothing else.

### Components

| Component | State | Operations | What makes it correct | Module |
|---|---|---|---|---|
| Configuration staging (`comms/rdp.rs`, main.rs) | RAM copy, saved copy, `dirty`, `CONFIG`, epoch, the loop's copy | ParamSet, TableSetCell, TableSetAxis, Save, Discard, Reset, Reboot, `refresh_config` | flags tell the truth; the loop runs on what the server holds; nothing forbidden reaches a running engine | `RdpConfig` |
| Parameter registry (`params.rs`, `config.rs`) | the configuration | reads and writes by catalog id | a write is read back at its place alone; catalogs and arrays agree | `Catalog`, `Tables` |
| Trigger decoder (`trigger/`) | intervals, tooth count, sync, phase, rpm | `process` per edge, `reset` | in sync means the count is that of the wheel; sync is kept, and regained | `MissingTooth`, `Trigger`, `TriggerAids` |
| Control loop (main.rs, edge queues) | decoder, `cycle_injected`, `dfco_active`, sequential flag | crank edge, cam edge, a sleep ends | no cylinder fuelled twice or never; a cut lasts a cycle; no edge lost | `CrankLoop` |
| Fuel (`fuel/`) | cut, closed loop, trims, wall film, tapers | `update` per cycle | cuts are earned, corrections rest, the asked mass arrives | `Fuelling`, `FuelPath` |
| Actuators, outputs, protection | pump, idle, boost, fans, PID loops, conditions | `update` per pass or tooth | limits and hysteresis hold, loops start clean | `LoopOutputs`, `Regulators` |
| Throttle, heater; ignition cuts, knock, traction | fault counters, timers, retard | `update` | hardware is protected, torque returns slowly | `EngineGuards`, `TorqueCuts` |
| Sensors, ADC | filters | one snapshot per pass | readings are the mean they should be | `Readings` |
| Start/stop, shutdown; bootloader; gearbox | small timed machines | commands, `update` | no way round a delay | `KeyControl`, `Bootloader`, `Gearbox` |
| Storage | list of entries | write, read, erase, clear | it is a map | `Storage` ⊑ `StorageMap` |
| Link (`src/device-api`: COBS, CRC, frames, defrag) | reassembly buffer | bytes, frames | resynchronises; whole messages or none | `Cobs`, `Link` |
| Messages (`message.rs`, `cbor.rs`) | - | encode, decode | answers fit and are not mistaken | `Messages` |
| Telemetry | slots, due times; client layouts, queue | Subscribe, Unsubscribe, poll | decoded as packed; no stream starves | `Telemetry` |
| Overrides | six slots with expiry | set, clear, look | fail-safe | `Overrides` ⊑ `OverridePromise` |
| Faults, events | 16 records, 8 events | raise, resolve, clear | a host can follow | `Faults` |
| TunerStudio protocol | a page | chunked reads and writes | what is read and written is the page | `TunePage`, `Link` |
| CAN | two queues | `can_task`, OBD-II, dashboards | order kept, answers follow queries | `CanBus` |
| Codegen | defines, open structs | lines read, layouts written | fields keep apart and in order | `Codegen` |
| Carburettor loop, CLI, engine model of the simulator | | | | none |

`PROJECT.json` lists all components with what is modelled of each.

### What is hard

* Edges arrive **only during sleeps**, cam edges are looked at after all queued crank edges, and the
  comms task replaces the configuration while a coil charges.
* The decoder must tell the gap from noise, lost edges, acceleration and pauses, with two intervals of
  history.
* Controllers are called from two places with two notions of time: teeth, and passes in whole milliseconds.
* Frames, answers and events cross on the line; the line loses bytes; clients give up and come back.
* Remembered values are used after what they describe has changed: `engine_running`, `is_sequential`, the
  places of fault records, timers of a controller that was left and entered again.
* Bounded queues and lists; wrapping millisecond clocks.

The hazards, each at its line, with the properties that watch it, are in `PROJECT.json`.

## 2. Modules

### Configuration: RdpConfig, Catalog, Tables

`RdpConfig` has all the copies: `ram`, `flash`, `dirty` of the server, `published` and `epoch` of the
statics, `cfg` and `lastEpoch` of the loop. `inbox` and `host` carry one request, for the client has one
outstanding. `handle` and the publication, with no await between them, are one action; the reply is a later
one. The loop's turn is split at its awaits: `RefreshConfig`, pulses, `BeginFiring`/`EndFiring`, `Yield`.

`Catalog` has every parameter and table of the catalogs, the arrays behind them, and each read and write of
`params.rs`: what a host was told to be set is what it reads back, there and nowhere else. `Tables` looks at
one table from the engine's side: `FindBin`, `Lerp` and the interpolations in exact integers, on axes that
partial writes have left in any order.

### Engine position: MissingTooth, Trigger, TriggerAids

`MissingTooth` is the decoder as operators on a record, one branch of `process` per operator. `Trigger`
puts it on a wheel: each tooth takes one of a set of `Periods`, the gap `ExpectedGapRatio` times as long;
edges are lost, spurious ones come early, the engine pauses. `noise` counts disturbances up to a bound,
`quiet` the turns since the last. `TriggerAids` has the 36-2-2-2 decoder, the noise filter, the instant
speed and the mode selector, one of them per behaviour.

The simulator's wheel and the decoder's tests give as many normal edges between two gap edges as there
are teeth. A real wheel gives one fewer: that is `trigger_physical`.

### Control loop: CrankLoop, Fuelling, FuelPath, LoopOutputs, Readings

`CrankLoop` is the consumer of the edge queue. `Speeds` gives how many edges can arrive during one sleep
or yield; `CrankEdge` and `CamEdge` happen only then. A tooth is one action up to its first sleep
(`ReferenceTooth`, `PlainTooth`, `SlowTooth`, `BadTooth`) and leaves the coils and injectors to drive in
`jobs`; `FinishJob` ends one sleep. `CamThenYield` drains the cam queue. `fuel`, `batched`, `lost` are history.

`Fuelling` is what a reference tooth decides from cycle to cycle, with its two clocks: time between teeth,
and the length of the last pass. It fills in what `CrankLoop` leaves to choice (`Decelerations`).
`FuelPath` follows the mass from the air to the injector: film on the wall, pulse corrections, taper after
cranking, pause after a cut. `LoopOutputs` has pump, fan, idle, boost and limp mode with their two callers.
`Readings` follows one channel from the converter to the filter, exactly (values times a power of 20).

### Controllers on their own

`KeyControl` (start/stop and shutdown), `Gearbox`, `EngineGuards` (electronic throttle, lambda heater),
`TorqueCuts` (overdwell, limiter, launch, soft cut, sparks, knock, traction), `Regulators` (VVT, boost and
auxiliary PID, fans, mapped PWM), `Bootloader`. Some have no caller in the firmware yet: they are driven as
their tests do, one operation at a time with any reading. History variables count what properties are about.

### Host and device: Cobs, Link, Messages, Telemetry, Faults, Overrides, TunePage, CanBus

`Cobs` encodes byte by byte as the loop of `encode` does. `Link` has frames in pieces, fragments,
reassembly and the two receive loops on a line that damages bytes, under an application that gives up.
`Messages` has every call with the fields and greatest sizes of its bodies, against every buffer on the
way, and what each answer or refusal decodes as. `Telemetry`: slots, due times as time left, layouts,
`PollsOn` for the firmware (one frame per wake-up) or the simulator (all that are due). `Faults`: store,
event queue, server, line, client and a host that follows. `Overrides` implements `OverridePromise`, with
`left` mapped to the distance on a wrapping clock between now and expiry. `TunePage`: chunked access,
checksums and image comparison. `CanBus`: `can_task` against a loop that answers, sends or counts.

### Storage, Codegen

`Storage` is the list of entries, `StorageMap` the map that the trait promises, `Map` the refinement.
`Codegen` reads lines in any order, nested, unfinished or closed too often, and computes both layouts.

### Modules of the runs

`MCRdpConfig`, `MCTrigger`, `MCTelemetry`, `MCCrankLoop` give constants that a cfg cannot hold.
`MCControllers` and `MCServices` explore fifteen and eight of the modules side by side: `part` chooses one,
whose next-state relation runs while the others stay at their initial state, so that the states are the
*sum* of the parts' states. A property of a part is stated there as the instance's formula.

## 3. Runs and bounds

| Run | What is checked | Bounds | Why they are enough |
|---|---|---|---|
| `rdp_config` | `CleanMeansSaved`, `FlashCrcMatches`, `ControlInSync`, `DecoderMatchesConfig`, `ControlInRange`, `OnlyDiscardMovesStoppedOnly`, `EditsReachControl`, `RequestsAnswered` | two scalars (one stopped-only), one cell, an axis of two, epoch to 4 | an edit, its undoing and another edit fit in four epochs; each property relates at most two copies at a time |
| `trigger` | `CleanSyncIsAligned`, `SyncMaintained` (undisturbed), `MisalignmentEnds`, `SyncRegained` (after noise), `FullSyncIsFresh` | 8 teeth with one missing, two periods, two disturbances | more than six teeth, so the second noise check counts; two disturbances reach a wrong lock and a second one during recovery |
| `telemetry` | `DecodedAsPacked`, `KnownStreamsAreActive`, `RateRespected`, `EveryStreamServed`, `RequestsAnswered` | two streams, two layouts, two intervals, sequence numbers modulo 2, one message in the link beside the one that blocks its sender | an id is used again with another layout while frames of its earlier use are under way |
| `crank` | `FuelIsBounded`, `CutLasts`, `QueueSuffices`, `PhaseIsTrue`, `LoopYields` | 16 teeth, four cylinders, queue of 8, one or two edges per sleep | eight sleeps at a reference tooth fill the queue exactly at one edge per sleep (the queue is `Roomy` and the cam tooth clear) and overflow it at two |
| `controllers` | one property or more of each of 15 modules; `OverridesFailSafe` is the refinement of `OverridePromise` | timers of 2 to 5 steps, wheels and counters of 3 to 8, a clock of 16; readings from one side of every threshold to the other | every timer can run out, be interrupted one step before, and be started again; thresholds are met from both sides; the clock wraps during an override |
| `services` | one property or more of each of 8 modules; `StorageIsAMap` is the refinement of `StorageMap` | three faults, of which two fit, and one queued event; three requests, one damaged byte, three sequence numbers; catalogs of 0, 8 and 9 entries with real buffer sizes; three keys for two slots; tables of three; pages of three bytes; two writes to the whole catalog; five lines of configuration | every list overflows, every number of pages occurs (none, full, one over), an answer is late while the next is awaited |

Within `controllers`, `TimesAreKept` joins `KeyControl`, `Bootloader`, `FuelPath` and the pause of `Fuelling`, and
`GuardsHold` joins `EngineGuards`, `TorqueCuts`, `TriggerAids`, `Regulators`, `CanBus` and what `Readings` says of
conversions and of the span of a reading; that a reading is the mean it should be is `ReadingIsTheMean`. Within `services`,
`EditsActAsMeant` joins `Tables`, `TunePage`, `Catalog` and `Codegen`. The named conjuncts stand, explained,
in the modules.

In the firmware the edge queue holds 63 edges (`heapless::spsc::Queue<_, 64>` keeps one slot free) and a
wheel has 36 or 60 teeth; what counts is the ratio of the two to the sleeps of a cycle. `Roomy` says how much
is enough: for four cylinders and one edge per sleep 8 places and 12 edges between gaps, for two edges 25 and
29, for three 42 and 46, so a wheel of 36 teeth is safe up to two and one of 60 up to three.

Every property is broken by a mutant of the code it is about; `PROJECT.json` names them.

## 4. Disagreements between code and texts

Each quotes a line of the repository in `PROJECT.json`. Six have a run that refutes the text:

| Run | What it shows |
|---|---|
| `trigger_physical` | on a real missing-tooth wheel every second gap is an error |
| `crank_starved` | with a cam sensor, cylinders whose window lies before the cam pulse never get fuel: the sync point drops full sync, and the stale sequential flag suppresses batch injection |
| `link_resync` | the firmware's receiver does not recover at the next zero byte: it takes the frame for the older protocol's |
| `pump_runs_on` | passes shorter than a millisecond never advance the pump's shutdown timer |
| `refusals_misread` | a refused Ping, ConfigSave or ClearFaults is taken for data |
| `table_transposed` | a volumetric efficiency acts at the exchanged speed and pressure |

Others are reproduced with a cfg that is kept here (`tlc -config <cfg> <module>`):

| Cfg, module | Property | What it shows |
|---|---|---|
| `RdpConfigDiscard`, `MCRdpConfig` | `StoppedOnlyWhileStopped` | Discard moves a stopped-only parameter while the engine runs |
| the same, changed as its first line says | `EngineStopNoticed` | after a stall `engine_running` stays true |
| `TriggerRpm`, `MCTrigger` | `RpmFromNormalTooth` | the edge after the gap computes rpm from the gap |
| `TelemetryStale`, `MCTelemetry` | `FramesFitSubscription` | frames of a dropped stream come out as frames of the next one with its id |
| the same, changed as its first line says | `EveryStreamServed` | on the firmware a fast stream in a low slot starves the others |

With `CrankLoop.cfg`, `FiringOrder <- Six` and the invariant `NoPanic`: engines of more than four cylinders
panic at the first reference tooth. With `Controllers.cfg` and `Lapses = {1, 2}`, `OverridesFailSafe`: if the
simulator's clock wraps past the planned look, overrides stay until the clock has come round.

With the constants of `Controllers.cfg` or `Services.cfg`, and the property named:
`LoopOutputs!IdleKnowsEngine` (idle control goes to Stopped between two reference teeth),
`Regulators!AcFanIsCalm` (the fan with air conditioning changes at every update between 80 and 85 °C),
`Readings!AbsentIsNone` (channels that the board does not read are reported as 0 V), `CanBus!MaskIsTrue` (each bit of the OBD-II
mask is one too low), `CanBus!AnswerLeaves` under `FairSpec` (frames wait until one is received),
`Codegen!ArithmeticIsRight` (2*3+4 is 14), `Codegen!LayoutsAgree` (header and INI offsets differ),
`Catalog!ClampedToDescriptor`.

Read off the code, and visible in the models: write chunks of the older protocol of 256 bytes and more are
taken for RDP; wall wetting is given the time of a pass, not since the last injection; `CanManager` drops
what it counts; a Haltech frame carries a voltage as lambda; the 36-2-2-2 decoder takes a tooth for 20
degrees; the bootloader never enters Programming. Also seen, with no text against them: the reply to Reboot
is never written; `ConfigSave` writes no flash; TableSetAxis accepts axes that are not increasing; the
decoder treats a turn of the wheel as a whole 720-degree cycle; a wheel of four teeth with four missing is
a legal configuration; a narrow-band sensor is read with the opposite sign of a wide-band one; struct fields
nested in another struct are dropped by the generator.

## 5. Fairness

* `RdpConfig`: the tasks of the executor get their turn: strong fairness for the comms task's steps, which
  are possible only while the control loop waits, weak for `RefreshConfig` and `EndFiring`, strong for
  `Yield`, which crank pulses may delay. `CrankLoop`'s `LoopYields` justifies the latter as long as the
  sleeps of a cycle let in fewer edges than a cycle has. None for the host, the engine or edits.
* `Telemetry`: weak fairness for the wake-up, for sending and for the client's reads, strong for the two
  requests, which can be taken only when the device is between frames. On the firmware the wake-up needs
  the host to pause for 10 ms; a host that never pauses gets no telemetry.
* `CrankLoop`: weak fairness for the loop only; `TurningSpec`, with an engine that turns, serves only to
  show that cylinders starve nevertheless.
* `LoopOutputs`: weak fairness for the pass, which the loop makes as long as it runs, for `PumpStops`.
* `CanBus`: weak fairness for the steps of `can_task` that can go on; none for frames that arrive.
* `Trigger`: recovery is a bound in turns, not a liveness property. All other modules are checked for
  safety and refinement only.

## 6. Proofs

| Module | Theorems | Argument |
|---|---|---|
| `RdpConfigProofs` | `TypeCorrect`, `CleanIsSaved`, `FlashCrcIsHonest`, `ControlFollowsServer`, `DecoderIsRebuilt`, `ControlStaysInRange`, `StoppedOnlyGuarded` | the invariant adds to the properties that the published copy is the RAM copy, that no loop epoch runs ahead, and what the pending request may hold |
| `MissingToothProofs` | lemmas on one edge | type of each branch; an error-free count of 0 is a sync point; what an edge does to sync and count (`EdgeOutcome`) |
| `TriggerProofs` | `TypeCorrect`, `SyncIsAligned`, `SyncIsKept`, `FullSyncNeedsCam` | alignment is inductive only together with the interval the decoder remembers (`History`) |
| | `WrongSyncEnds`, `SyncComesBack` | after noise: what the decoder remembers is true of the wheel since the noise (`Memory`); a wrong sync meets the gap, or runs out of teeth, within a turn (`WrongSync`); out of sync, the next gap is recognised (`NoSync`, `Ready`) |
| `TelemetryProofs` | `TypeCorrect`, `FramesAreDecodedAsPacked`, `ClientKnowsActiveStreams`, `RateIsRespected` | each frame in the link was packed with the layout that will be in force when it is read: the client's own, or that of the reply behind which it comes |
| `CrankLoopProofs` | `TypeCorrect`, `FuelBounded`, `CutIsKept`, `FewCylindersDoNotPanic` | an injection still in `jobs` counts as given (`FuelInv`, `CutInv`); a reference tooth has no sequential work, for its sync point is not in full sync |
| | `QueueHolds`, `PhaseIsFound` | what waits, what the sleeps on their way let in and what the injections still to give may add are bounded together (`Fits`); the queue holds the edges of consecutive positions (`Matched`), of which the decoder has seen the one before (`Memory`); the cam pulse waits only in a yield (`Cam`) |
| `ControllersProofs` | `OverridesKeepPromise`, `OverridesKeepPromiseAlways` | the refinement of `OverridePromise`, step by step, on a clock that wraps: the next look is at most a step ahead, and an override ends within the longest timeout or ended since the latest look (`NextLook`, `SlotsNear`) |
| | `FuelTypes`, `CutEarned`, `NothingLearnt` | the cut's clock is the time since the conditions were met (`CutInv`); what is left of the pause and what has gone by make a whole pause (`PauseInv`) |
| | `ShiftsAreWhole`, `TimesKept`, `PumpKeepsRunning`, `ConditionsKept` | each timer and the history it is compared with add up to the whole delay, the pause of the closed loop (`PauseInv`) included; the slots are what the search found, then nothing |
| `GuardsProofs` | `GuardsKept` | all of `GuardsHold`, from the next seven |
| | `ThrottleAndHeaterGuard`, `CutsAreHeld` | while no fault is latched the controller has counted what the history has (`ThrottleInv`), and the heater no more time than has gone by (`HeaterInv`); a torque cut given back is never more than what was owed (`KnockInv`, `TractionInv`) |
| | `AidsCount` | out of sync or not, the count is that of the edges (`GmInv`); filter and selector have counted as many like samples and cycles as there were (`FilterInv`, `ModeInv`); the ring holds the last four speeds, the newest before the index (`RingInv`), and mean and variance do not depend on where it begins |
| | `RegulatorsStandWell` | a loop has learnt since it was closed, and nothing at its first update (`PidInv`); the edited map stays in range (`MapInv`), so what is interpolated in it does |
| | `FramesInOrder` | what was accepted is what was sent, then what waits; query numbers increase along the line and along the answers, and rounds are whole or the latest (`CanInv`) |
| | `ConversionsSound` | arithmetic: quotients rounded down are monotone (`Over`), cases by the middle of each range |
| | `ReadingStaysBetween` | any bound of all samples is a bound of the reading (`ReadingInv`): a weighted mean of two values rounded down stays above a whole bound of both |
| | `FramesComeBack` | whatever code the open block will get, decoding what is written so far gives the input so far and expects the rest of the block (`CobsInv`); each full block has used up `MaxCode - 1` bytes, which bounds the length |
| `ServicesProofs` | `StorageKeepsPromise` | the refinement of `StorageMap`, step by step: each key has one entry, so overwriting, appending and removing an entry of the list change its map at one key (`StoreInv`, `MapOfReplaced`, `MapOfAppended`, `MapOfRemoved`) |
| | `AnswersAreOwn`, `AnswersAreOwnUntilTheWrap` | everything on the line belongs to a request made so far, and an answer carries that request's sequence number (`LineInv`); two requests less than a round apart differ in it (`OneNumberEach`) |
| | `DamageStaysContained` | each way of the line is a stream in which frames lie between ends (`Lies`): a request or answer is still good if its frame lies whole in it. A damage takes at most two frames (`ItemLost`, `ItemInserted`, `ItemChanged`), or one and leaves an end open, to which the next frame will be joined; a write broken off leaves an end open; what is taken from the front is answered or was not good (`ItemsTaken`, `DamageInv`) |
| | `HostIsToldOfFaults` | the last word about a fault, in the order queue, line, client, says whether it is active; where there is none, the host's list or the answer under way does (`Follows`) |
| | `ClearIsMeant` | places change only with a clear, and that uses up the answer they were read from (`PlacesInv`); the places of the faults to keep make exactly the mask of them (`PlaceIsOnto`) |
| | `PageKept` | `PageIsAsWritten`, the page's part of `EditsActAsMeant`: what a call has read or written so far is a beginning of what it asks for, and the chunk on the line is the next one (`CallInv`, `WireInv`) |

`ControllersProofs` and `GuardsProofs` prove about `PartsSpec`, what the run checks: the parts share no variable, so a step of
any of them is a step of a given part or leaves it alone (`PartsAreApart`). Each part names what it needs of
its constants `Parameters` (whole times, limits in order, a pass shorter than the pause, at least two codes); `MCControllers`
states them of its instance as `PartsAssumption`, which TLC evaluates. `OverridesKeepPromise` has
`[][~Missed]_vars` as a premise: no pass comes after a wrap of the clock with the look planned before it. The
code does not exclude it, and the promise is broken then (section 4); a loop that passes at every count of the
clock (`Lapses = {1}`, `OverridesKeepPromiseAlways`) never does it.

`QueueSuffices` and `PhaseIsTrue` have premises that the proofs made precise (`Roomy`, `CamIsClear`). A queue as
long as the sleeps of a reference tooth let in edges does not do when a sleep may let in two: an injection takes
one edge from the queue and lets in two, and the gap edge comes before the queue has been emptied
(`2 * Len(FiringOrder) * speed <= QueueCap => ~lost` is violated with two cylinders and a queue of 8). A cam tooth
just before the half or at the end of the wheel gets the wrong phase, for the edges of one more yield are decoded
before the pulse is looked at. Both hold at constant speed, which the model assumes throughout.

`TriggerProofs` assumes the simulator's wheel (`SimulatorWheel`: `NormalEdges = PresentTeeth`), without which
sync is not kept, and a steady speed range in which a gap looks like a gap and a tooth does not
(`SteadyAssumption`); `SyncComesBack` moreover two teeth. `TelemetryProofs` needs `None` to be no layout and
no interval longer than the longest. The other assumptions are the types of the constants, distinct cylinders
in the firing order, and subsets for the environment's choices.

`ServicesProofs`, too, proves about what the run checks, `PartsSpec` of `MCServices`, which states what it needs
of its constants as `LineAssumption`, `StoreAssumption` and `PageAssumption`. `AnswersAreOwn` has `[]Timely` as a premise: no
answer comes `SeqNumbers` requests late. There are 65535 of them, and the line reorders nothing, so an
answer that late means that many requests given up while the device had not answered the first; the client
does not exclude it and would take the answer for its own. Up to `MaxRequests = SeqNumbers`, which is what the
run has, the premise always holds (`AnswersAreOwnUntilTheWrap`).

Only model-checked: all liveness properties (fairness is out of the prover's reach); `ReadingIsTheMean`, a sum with
powers over all samples, which needs an induction over data (that a reading stays between its samples is proved);
`CallsAreServed`; `EditsActAsMeant` of `Tables`, `Catalog` and `Codegen`.

## 7. Not modelled, and why

* **Floating point.** Sums, tables and filters are modelled in exact integers, so rounding is not. The
  thermistor formula, ignition timing as a function of maps, the laws of idle control and of the throttle
  motor, and the simulator's engine model are f32 functions without state that unit tests reach.
* **Wrap of 32-bit millisecond clocks** in telemetry (every 49.7 days): described at its hazard; `Telemetry`
  keeps time as time left. `Overrides` has its wrapping clock.
* **The carburettor loop** (`control_loop_carb`): the structure of the fuel-injection loop without injectors.
* **Bench tests and calibration**: one pending slot that only the simulator takes, and arithmetic.
* **Alpha-N and flex fuel, `engine_cycle`'s queries, `check_stall`, falling edges**: no caller in the firmware.
* **Text and bytes**: generated files, names and units, the layout within CAN frames, hashes, the command
  line, register access. CRCs find every error by assumption.

Worth doing next: the other conjuncts of `EditsActAsMeant` as theorems; the carburettor loop
as a second instance of `CrankLoop`; `CrankLoop` with `Fuelling` in place of its free choice.
