----------------------------- MODULE KeyControl -----------------------------
(***************************************************************************)
(* The start/stop and the shutdown controller (engine-core/src/            *)
(* start_stop.rs, shutdown.rs), side by side on one engine.  No firmware   *)
(* calls them yet: they are driven here as their tests do, with a request  *)
(* or an update at a time and any readings.                                *)
(***************************************************************************)
EXTENDS Naturals

CONSTANTS
    CrankTimeout,   \* StartConfig.crank_timeout_ms
    Grace,          \* the second for which an engine at rest is cranked
    RetryDelay,     \* StartConfig.retry_delay_ms
    PumpRun,        \* ShutdownConfig.fuel_pump_run_ms
    StartTimeout,   \* ShutdownConfig.start_timeout_ms
    Lapses,         \* values of dt_ms
    None

\* Engine speeds as the thresholds part them: 50 rpm, stop_rpm_threshold (also min_running_rpm)
\* and start_rpm_threshold.
Speed == {"rest", "slow", "coasting", "running"}
Stopping == {"rest", "slow"}

VARIABLES
    start,      \* StartStopController: state, timer (crank_timer_ms), reason, retry
    starter,    \* what its latest update returned
    shut,       \* ShutdownController: state, timer (fuel_pump_timer_ms), reason, uptime
    pump,       \* what its latest update returned
    \* history
    cranked,    \* time of the updates since the start was asked for
    pumped,     \* time of the updates since the shutdown began
    asked       \* the reason the shutdown began with, since the latest reset

vars == <<start, starter, shut, pump, cranked, pumped, asked>>

\* What the proofs ask of the constants: times are whole.
Parameters ==
    /\ CrankTimeout \in Nat /\ Grace \in Nat /\ RetryDelay \in Nat
    /\ PumpRun \in Nat /\ StartTimeout \in Nat /\ Lapses \subseteq Nat

Least(a, b) == IF a < b THEN a ELSE b
Less(a, b) == IF a < b THEN 0 ELSE a - b    \* saturating_sub

Init ==
    /\ start = [state |-> "Stopped", timer |-> 0, reason |-> None, retry |-> 0] /\ starter = FALSE
    /\ shut = [state |-> "Running", timer |-> 0, reason |-> None, uptime |-> 0] /\ pump = FALSE
    /\ cranked = 0 /\ pumped = 0 /\ asked = None

Cranking == [state |-> "Cranking", timer |-> CrankTimeout, reason |-> None, retry |-> 0]

\* start(): a failed start may be tried again at once.
Start ==
    /\ start.state \in {"Stopped", "StartFailed"} /\ start' = Cranking /\ cranked' = 0
    /\ UNCHANGED <<starter, shut, pump, pumped, asked>>

Stop ==
    /\ start.state = "Running" /\ start' = [start EXCEPT !.state = "Stopping"]
    /\ UNCHANGED <<starter, shut, pump, cranked, pumped, asked>>

ResetStart ==
    /\ start' = [state |-> "Stopped", timer |-> 0, reason |-> None, retry |-> 0]
    /\ UNCHANGED <<starter, shut, pump, cranked, pumped, asked>>

Fail(s, reason) == [s EXCEPT !.state = "StartFailed", !.reason = reason, !.retry = RetryDelay]

\* StartStopController::update; the retry timer of a stopped engine runs only after a failure,
\* which leaves StartFailed by start or reset, and both clear it.
StepStart(rpm, dt) ==
    LET s == [start EXCEPT !.timer = Less(@, dt)] IN
    CASE start.state = "Cranking" ->
            IF rpm = "running" THEN [s EXCEPT !.state = "Running"]
            ELSE IF s.timer = 0 THEN Fail(s, "Timeout")
            ELSE IF rpm = "rest" /\ s.timer < CrankTimeout - Grace THEN Fail(s, "NoRpm")
            ELSE s
      [] start.state \in {"Running", "Stopping"} ->
            IF rpm \in Stopping THEN [start EXCEPT !.state = "Stopped"] ELSE start
      [] start.state = "StartFailed" -> [start EXCEPT !.retry = Less(@, dt)]
      [] start.state = "Stopped" -> start

UpdateStart(rpm, dt) ==
    /\ start' = StepStart(rpm, dt)
    /\ starter' = (start'.state = "Cranking")
    /\ cranked' = Least(cranked + dt, CrankTimeout)
    /\ UNCHANGED <<shut, pump, pumped, asked>>

\* shutdown(reason): only the first one counts.
ShutDown(s, reason) ==
    IF s.state = "Running" THEN [s EXCEPT !.state = "FuelPumpOn", !.reason = reason, !.timer = PumpRun] ELSE s

Shutdown(reason) ==
    /\ shut' = ShutDown(shut, reason)
    /\ asked' = IF shut.state = "Running" THEN reason ELSE asked
    /\ pumped' = IF shut.state = "Running" THEN 0 ELSE pumped
    /\ UNCHANGED <<start, starter, pump, cranked>>

ResetShutdown ==
    /\ shut' = [state |-> "Running", timer |-> 0, reason |-> None, uptime |-> 0] /\ asked' = None
    /\ UNCHANGED <<start, starter, pump, cranked, pumped>>

\* The running engine gives up by itself: a low battery first, then an engine that is not
\* running once the time to start is over, though it may have run before.
Watch(s, rpm, low) ==
    LET battery == IF low THEN ShutDown(s, "LowBattery") ELSE s IN
    IF s.uptime > StartTimeout /\ rpm \in Stopping THEN ShutDown(battery, "Timeout") ELSE battery

\* ShutdownController::update; rpm None: no reading.
StepShutdown(rpm, low, dt) ==
    LET s == [shut EXCEPT !.uptime = Least(@ + dt, StartTimeout + 1)] IN
    CASE s.state = "Running" -> Watch(s, rpm, low)
      [] s.state = "FuelPumpOn" ->
            LET left == Less(s.timer, dt)
            IN [s EXCEPT !.timer = left, !.state = IF left = 0 THEN "Coasting" ELSE @]
      [] s.state = "Coasting" -> IF rpm \in Stopping \cup {None} THEN [s EXCEPT !.state = "Stopped"] ELSE s
      [] s.state = "Stopped" -> s

\* mutant: the pump is on as long as the update began so
UpdateShutdown_Late(rpm, low, dt) ==
    /\ shut' = StepShutdown(rpm, low, dt)
    /\ pump' = (shut.state = "FuelPumpOn")
    /\ asked' = IF shut.state = "Running" THEN shut'.reason ELSE asked
    /\ pumped' = IF shut.state = "Running" THEN 0 ELSE Least(pumped + dt, PumpRun)
    /\ UNCHANGED <<start, starter, cranked>>
UpdateShutdown(rpm, low, dt) ==
    /\ shut' = StepShutdown(rpm, low, dt)
    /\ pump' = (shut.state = "FuelPumpOn" /\ shut'.state = "FuelPumpOn")
    /\ asked' = IF shut.state = "Running" THEN shut'.reason ELSE asked
    /\ pumped' = IF shut.state = "Running" THEN 0 ELSE Least(pumped + dt, PumpRun)
    /\ UNCHANGED <<start, starter, cranked>>

Next ==
    \/ Start \/ Stop \/ ResetStart \/ ResetShutdown
    \/ \E reason \in {"KeyOff", "EmergencyStop"} : Shutdown(reason)
    \/ \E rpm \in Speed, dt \in Lapses : UpdateStart(rpm, dt)
    \/ \E rpm \in Speed \cup {None}, low \in BOOLEAN, dt \in Lapses : UpdateShutdown(rpm, low, dt)

Spec == Init /\ [][Next]_vars

----------------------------------------------------------------------------
(* Properties.                                                             *)

\* Whatever the driver asks for and in whatever order, one attempt to start turns the starter for
\* less than the crank timeout.  (Attempts may follow each other without a pause.)
StarterSpared == starter => cranked < CrankTimeout

\* After a shutdown the pump runs for less than its time and then never again before a reset,
\* whatever else asks for a shutdown meanwhile; the reason that is shown is the first one.
PumpRunsOut == (pump => pumped < PumpRun) /\ shut.reason = asked

\* Neither the starter nor the pump outlasts its time.
TimesAreKept == StarterSpared /\ PumpRunsOut
=============================================================================
