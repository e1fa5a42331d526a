--------------------------- MODULE MCControllers ---------------------------
(***************************************************************************)
(* Fifteen parts of the program that share no state, explored one by one:  *)
(* a behaviour runs one of them and leaves the others as they began, so    *)
(* that the states are the sum of the parts' states and not their product. *)
(* The overrides are the part that this module extends.                    *)
(***************************************************************************)
EXTENDS Overrides

CONSTANTS
    MaxCode, MaxInput,                                                  \* Cobs
    Delay, Pause, Duration, Gaps, Steps, Gain, MaxIntegral,             \* Fuelling
    MaxCorrection, MaxTrim, MinSamples, Cells,
    Prime, ShutdownDelay, Lengths, CrankDuty, MaxDuty, Abnormal,        \* LoopOutputs
    CrankTimeout, Grace, RetryDelay, PumpRun, StartTimeout,             \* KeyControl
    Top, Shift,                                                         \* Gearbox
    Count, Timeout, Dry, Climb, MaxStep,                                \* EngineGuards
    MaxDwell, MaxRetard, Rate, LongestStep, Hundred, Turns, MaxSparks,  \* TorqueCuts
    Threshold,
    BootTimeout, MaxFirmware, RollbackEnabled, MaxAttempts, Chunks,     \* Bootloader
    Updates,                    \* values of dt_ms for the last five
    Ports, Pressures, TaperCycles, CrankingFuel, RestTime, RestEnabled, \* FuelPath
    MinPulse, MaxPulse,
    Present, SyncEdge, Intervals, MaxTooth, MinWidth, Stability,        \* TriggerAids
    Required, Speeds,
    MaxError, Bases, Passes, OnTemp, OffTemp, SecondaryOn, AcOn, Temps, \* Regulators
    Wired, Raw, MaxPasses, Volts,                                       \* Readings
    QueueRoom, Fifo, Pids, MaxFrames, MaxRounds, Values                 \* CanBus

VARIABLES
    part,                       \* the part that runs
    input, output, codeIndex, code,
    dfco, loop, cells, accel, cl_correction, ltft_correction, accel_mult, overrun, calm,
    turning, pump, pump_relay, idle, boosting, fan, conditions, limp, seen, quiet, ran,
    start, starter, shut, shut_pump, cranked, pumped, asked,
    current_gear, target_gear, mode, state, shift_timer, begun, since, took,
    etb, driven, heater, apart, astray, tripped, turned,
    coil, limiter, launch, knock, traction, fired, over, launching, knockOwed, slipOwed,
    boot, boot_timer, firmware_size, boot_attempts, waited, received,
    fuel_unit, film, shot, taper, factor, rest, since_start, since_cut,
    aid, gm, filter, ring, injection, edges, cam, steady, teeth, synced,
    pid_unit, pid, fans, axis, map, learnt, kick, fresh, clt,
    channel, smoothed, samples, present,
    wire, task, tx, rx, rx_count, rounds, arrived, bus, accepted, handled

cobsVars == <<input, output, codeIndex, code>>
fuellingVars ==
    <<dfco, loop, cells, accel, cl_correction, ltft_correction, accel_mult, overrun, calm>>
outputsVars ==
    <<turning, pump, pump_relay, idle, boosting, fan, conditions, limp, seen, quiet, ran>>
keyVars == <<start, starter, shut, shut_pump, cranked, pumped, asked>>
gearVars == <<current_gear, target_gear, mode, state, shift_timer, begun, since, took>>
guardVars == <<etb, driven, heater, apart, astray, tripped, turned>>
cutVars ==
    <<coil, limiter, launch, knock, traction, fired, over, launching, knockOwed, slipOwed>>
bootVars == <<boot, boot_timer, firmware_size, boot_attempts, waited, received>>
pathVars == <<fuel_unit, film, shot, taper, factor, rest, since_start, since_cut>>
aidVars == <<aid, gm, filter, ring, injection, edges, cam, steady, teeth, synced>>
pidVars == <<pid_unit, pid, fans, axis, map, learnt, kick, fresh, clt>>
readingVars == <<channel, smoothed, samples, present>>
canVars == <<wire, task, tx, rx, rx_count, rounds, arrived, bus, accepted, handled>>

C == INSTANCE Cobs
F == INSTANCE Fuelling WITH quiet <- calm
L == INSTANCE LoopOutputs WITH slots <- conditions
K == INSTANCE KeyControl WITH pump <- shut_pump, Lapses <- Updates
G == INSTANCE Gearbox WITH Lapses <- Updates
E == INSTANCE EngineGuards WITH Lapses <- Updates
T == INSTANCE TorqueCuts WITH Lapses <- Updates
B == INSTANCE Bootloader WITH state <- boot, Lapses <- Updates
P == INSTANCE FuelPath WITH unit <- fuel_unit, ran <- since_start, calm <- since_cut
A == INSTANCE TriggerAids
R == INSTANCE Regulators WITH unit <- pid_unit, Steps <- Passes
D == INSTANCE Readings
N == INSTANCE CanBus

ASSUME PartsAssumption ==
    /\ F!Parameters /\ L!Parameters /\ K!Parameters /\ G!Parameters /\ B!Parameters /\ P!Parameters
    /\ C!Parameters /\ E!Parameters /\ T!Parameters /\ A!Parameters /\ R!Parameters /\ D!Parameters
    /\ N!Parameters

PartsInit ==
    /\ part \in {"overrides", "cobs", "fuelling", "outputs", "key", "gearbox", "throttle", "heater",
                "cuts", "boot", "path", "aids", "pid",
                "readings", "can"}
    /\ Init /\ (part # "overrides" => now = 0)
    /\ C!Init /\ F!Init /\ L!Init /\ K!Init /\ G!Init /\ E!Init /\ T!Init /\ B!Init
    /\ P!Init /\ (part # "path" => fuel_unit = "film")
    /\ A!Init /\ (part # "aids" => aid = "gm")
    /\ R!Init /\ (part # "pid" => pid_unit = "vvt")
    /\ D!Init /\ (part # "readings" => channel = "Clt")
    /\ N!Init

RunOverrides ==
    /\ part = "overrides" /\ Next
    /\ UNCHANGED <<part, cobsVars, fuellingVars, outputsVars, keyVars, gearVars, guardVars,
                   cutVars, bootVars, pathVars, aidVars, pidVars, readingVars, canVars>>
RunCobs ==
    /\ part = "cobs" /\ C!Next
    /\ UNCHANGED <<part, vars, fuellingVars, outputsVars, keyVars, gearVars, guardVars,
                   cutVars, bootVars, pathVars, aidVars, pidVars, readingVars, canVars>>
RunFuelling ==
    /\ part = "fuelling" /\ F!Next
    /\ UNCHANGED <<part, vars, cobsVars, outputsVars, keyVars, gearVars, guardVars,
                   cutVars, bootVars, pathVars, aidVars, pidVars, readingVars, canVars>>
RunOutputs ==
    /\ part = "outputs" /\ L!Next
    /\ UNCHANGED <<part, vars, cobsVars, fuellingVars, keyVars, gearVars, guardVars,
                   cutVars, bootVars, pathVars, aidVars, pidVars, readingVars, canVars>>
RunKey ==
    /\ part = "key" /\ K!Next
    /\ UNCHANGED <<part, vars, cobsVars, fuellingVars, outputsVars, gearVars, guardVars,
                   cutVars, bootVars, pathVars, aidVars, pidVars, readingVars, canVars>>
RunGearbox ==
    /\ part = "gearbox" /\ G!Next
    /\ UNCHANGED <<part, vars, cobsVars, fuellingVars, outputsVars, keyVars, guardVars,
                   cutVars, bootVars, pathVars, aidVars, pidVars, readingVars, canVars>>
\* The throttle and the heater, which share nothing either, are two parts.
RunGuards ==
    /\ part \in {"throttle", "heater"} /\ E!Next
    /\ part = "throttle" => UNCHANGED E!heaterVars
    /\ part = "heater" => UNCHANGED E!etbVars
    /\ UNCHANGED <<part, vars, cobsVars, fuellingVars, outputsVars, keyVars, gearVars,
                   cutVars, bootVars, pathVars, aidVars, pidVars, readingVars, canVars>>
RunCuts ==
    /\ part = "cuts" /\ T!Next
    /\ UNCHANGED <<part, vars, cobsVars, fuellingVars, outputsVars, keyVars, gearVars,
                   guardVars, bootVars, pathVars, aidVars, pidVars, readingVars, canVars>>
RunBoot ==
    /\ part = "boot" /\ B!Next
    /\ UNCHANGED <<part, vars, cobsVars, fuellingVars, outputsVars, keyVars, gearVars,
                   guardVars, cutVars, pathVars, aidVars, pidVars, readingVars, canVars>>
RunFuelPath ==
    /\ part = "path" /\ P!Next
    /\ UNCHANGED <<part, vars, cobsVars, fuellingVars, outputsVars, keyVars, gearVars,
                   guardVars, cutVars, bootVars, aidVars, pidVars, readingVars, canVars>>
RunTriggerAids ==
    /\ part = "aids" /\ A!Next
    /\ UNCHANGED <<part, vars, cobsVars, fuellingVars, outputsVars, keyVars, gearVars,
                   guardVars, cutVars, bootVars, pathVars, pidVars, readingVars, canVars>>
RunRegulators ==
    /\ part = "pid" /\ R!Next
    /\ UNCHANGED <<part, vars, cobsVars, fuellingVars, outputsVars, keyVars, gearVars,
                   guardVars, cutVars, bootVars, pathVars, aidVars, readingVars, canVars>>
RunReadings ==
    /\ part = "readings" /\ D!Next
    /\ UNCHANGED <<part, vars, cobsVars, fuellingVars, outputsVars, keyVars, gearVars, guardVars,
                   cutVars, bootVars, pathVars, aidVars, pidVars, canVars>>
RunCanBus ==
    /\ part = "can" /\ N!Next
    /\ UNCHANGED <<part, vars, cobsVars, fuellingVars, outputsVars, keyVars, gearVars, guardVars,
                   cutVars, bootVars, pathVars, aidVars, pidVars, readingVars>>

PartsNext ==
    \/ RunOverrides \/ RunCobs \/ RunFuelling \/ RunOutputs \/ RunKey \/ RunGearbox
    \/ RunGuards \/ RunCuts \/ RunBoot \/ RunFuelPath \/ RunTriggerAids \/ RunRegulators
    \/ RunReadings \/ RunCanBus

allVars == <<part, vars, cobsVars, fuellingVars, outputsVars, keyVars, gearVars, guardVars,
             cutVars, bootVars, pathVars, aidVars, pidVars, readingVars, canVars>>

PartsSpec == PartsInit /\ [][PartsNext]_allVars

----------------------------------------------------------------------------
(* The properties, each stated and explained in the module of its part.    *)

\* COBS: what is decoded is what was encoded (device-api/src/cobs.rs).
RoundTrip == C!RoundTrip
\* Fuel cut is earned anew each time (DfcoController::update).
CutIsEarned == F!CutIsEarned
\* A cycle with the fuel cut leaves the closed loop alone (control_loop).
CutTeachesNothing == F!CutTeachesNothing
\* The pump outlasts short pauses of the engine (FuelPumpController).
PumpOutlastsPauses == L!PumpOutlastsPauses
\* The limp mode is that of the latest readings (ProtectionMonitor).
ConditionsAreCurrent == L!ConditionsAreCurrent
\* Starter and pump keep their times (start_stop.rs, shutdown.rs), and so does the bootloader,
\* which counts the bytes of one update only (bootloader.rs); the enrichment after a start, the
\* rest of the closed loop and the film on the walls are paid out in full (fuel/mod.rs,
\* wall_wetting.rs), and the closed loop rests for its pause after each cut (control_loop).
TimesAreKept == K!TimesAreKept /\ B!UpdatesAreOrderly /\ P!FuelIsAsMeant /\ F!PauseIsKept
\* A shift of the gearbox is not hurried or redirected (tcu.rs).
ShiftIsWhole == G!ShiftIsWhole
\* Conversions of readings and of fields of frames, which no state takes part in.
ConversionsHold == D!ConversionsHold /\ N!FieldsAreTrue
\* A filtered reading is the mean it should be (IirFilter::update in sensors/mod.rs).
ReadingIsTheMean == part = "readings" => D!ReadingIsTheMean
\* Throttle and heater protect what they drive (etb.rs, heater.rs), what cuts torque holds and
\* gives back as it should (ignition/mod.rs, knock/mod.rs, traction.rs), what helps the trigger
\* decoder counts what it was given (missing_tooth.rs), and loops that close start afresh (vvt.rs,
\* boost.rs, pwm.rs, outputs/mod.rs); a reading stays among its samples (sensors/mod.rs), and
\* frames leave in order, answers after their queries (can, and can.rs of the boards).
GuardsHold ==
    /\ E!GuardsHold /\ T!CutsHold /\ A!TriggerAidsHold /\ R!RegulatorsHold
    /\ part = "readings" => D!ReadingIsBetween
    /\ part = "can" => N!CanHolds
    /\ ConversionsHold
=============================================================================
