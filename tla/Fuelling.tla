------------------------------ MODULE Fuelling ------------------------------
(***************************************************************************)
(* What the fuel loop (stm32/src/main.rs, control_loop) does once per      *)
(* cycle, at the reference tooth: overrun fuel cut, closed-loop lambda     *)
(* correction, long-term trim and acceleration enrichment                  *)
(* (engine-core/src/fuel).  Two clocks meet here: the cut and the          *)
(* enrichment measure time from tooth to tooth, the closed loop is given   *)
(* the length of the last pass of the loop, once per cycle, and several    *)
(* cycles may have been queued for one pass.                               *)
(*                                                                         *)
(* Corrections are deviations from neutral, in steps; kd is 0, so that the *)
(* previous error and first_update do not matter.  cutoff_restore_rpm is   *)
(* below min_rpm and never decides anything.  Controllers are never reset. *)
(***************************************************************************)
EXTENDS Integers

CONSTANTS
    Delay,          \* DfcoConfig.delay_secs
    Pause,          \* dfco_pause_duration_s
    Duration,       \* AccelEnrichmentConfig.duration_s
    Gaps,           \* times from one cycle to the next
    Steps,          \* values of dt_s, the length of a pass
    Gain,           \* kp times the smallest error outside the deadband
    MaxIntegral,    \* 0.2
    MaxCorrection,  \* max_correction - 1 = 1 - min_correction
    MaxTrim,        \* max_trim - 1 = 1 - min_trim
    MinSamples,     \* LtftConfig.min_samples
    Cells,          \* cells of the long-term trim
    None

VARIABLES
    dfco,       \* DfcoController: active, since (time since the conditions were first met)
    loop,       \* ClosedLoopController: paused, timer, integral, correction
    cells,      \* LtftState.cells: trim, samples
    accel,      \* AccelEnrichmentController: time since the trigger, or None
    cl_correction, ltft_correction, accel_mult,
    \* history
    overrun,    \* time since the first of the latest cycles in a row that met the conditions, or None
    quiet       \* dt_s added up over the cycles from the latest one with fuel cut on

\* What the theorems ask of the constants: times are whole, and a pass of the
\* loop is shorter than the pause after a cut.
Parameters ==
    /\ Delay \in Nat /\ Pause \in Nat /\ Duration \in Nat /\ Gaps \subseteq Nat
    /\ \A dt \in Steps : dt \in Nat /\ dt < Pause
    /\ Gain \in Nat /\ MaxIntegral \in Nat /\ MaxCorrection \in Nat
    /\ MaxTrim \in Nat /\ MinSamples \in Nat
    /\ None \notin Int

vars == <<dfco, loop, cells, accel, cl_correction, ltft_correction, accel_mult, overrun, quiet>>

Least(a, b) == IF a < b THEN a ELSE b
Clamp(x, m) == IF x < -m THEN -m ELSE IF x > m THEN m ELSE x
Sign(x) == Clamp(x, 1)

Init ==
    /\ dfco = [active |-> FALSE, since |-> None]
    /\ loop = [paused |-> FALSE, timer |-> 0, integral |-> 0, correction |-> 0]
    /\ cells = [c \in Cells |-> [trim |-> 0, samples |-> 0]]
    /\ accel = None
    /\ cl_correction = 0 /\ ltft_correction = 0 /\ accel_mult = 0
    /\ overrun = None /\ quiet = Pause

\* Times are kept up to the limit they are compared with.
Later(t, g, limit) == IF t = None THEN None ELSE Least(t + g, limit)

\* mutant: fuel comes back without forgetting when the conditions were first met
UpdateDfco_KeepSince(met, g) ==
    LET since == Later(dfco.since, g, Delay) IN
    IF ~met THEN [active |-> FALSE, since |-> IF dfco.active THEN since ELSE None]
    ELSE IF since = None THEN [active |-> FALSE, since |-> 0]
    ELSE [active |-> dfco.active \/ since >= Delay, since |-> since]
\* DfcoController::update; met: fast, low manifold pressure, throttle closed.
UpdateDfco(met, g) ==
    LET since == Later(dfco.since, g, Delay) IN
    IF ~met THEN [active |-> FALSE, since |-> None]
    ELSE IF since = None THEN [active |-> FALSE, since |-> 0]
    ELSE [active |-> dfco.active \/ since >= Delay, since |-> since]

TriggerPause(l) == [l EXCEPT !.paused = TRUE, !.timer = Pause]

\* The controller once it works: window holds in its range of rpm and temperature; a lambda
\* of -1 .. 1 is in the deadband.
Correct(l, window, lambda, dt) ==
    LET wound == Clamp(l.integral + Sign(lambda) * dt, MaxIntegral) IN
    IF ~window THEN [l EXCEPT !.correction = 0]
    ELSE IF lambda \in -1 .. 1
         THEN LET calm == l.integral - Sign(l.integral) IN [l EXCEPT !.integral = calm, !.correction = calm]
    ELSE [l EXCEPT !.integral = wound, !.correction = Gain * Sign(lambda) + wound]

\* mutant: what is measured during the pause is still learnt
UpdateLoop_LearnPaused(l, window, lambda, dt) ==
    IF l.paused /\ l.timer > dt
    THEN [Correct(l, window, lambda, dt) EXCEPT !.timer = l.timer - dt, !.correction = 0]
    ELSE Correct([l EXCEPT !.paused = FALSE, !.timer = 0], window, lambda, dt)
\* ClosedLoopController::update
UpdateLoop(l, window, lambda, dt) ==
    IF l.paused /\ l.timer > dt
    THEN [l EXCEPT !.timer = l.timer - dt, !.correction = 0]
    ELSE Correct([l EXCEPT !.paused = FALSE, !.timer = 0], window, lambda, dt)

\* LtftState::update: a sensor out of range, a light load or a low speed teaches nothing.
Learn(c, lambda, steady) ==
    IF lambda = None \/ ~steady THEN cells
    ELSE [cells EXCEPT ![c].trim = Clamp(@ + Sign(lambda), MaxTrim),
                       ![c].samples = Least(@ + 1, MinSamples)]
\* LtftState::get_trim
Trim(c) == IF cells'[c].samples >= MinSamples THEN cells'[c].trim ELSE 0

\* AccelEnrichmentController::update; what decays is left out.
Enrich(tipIn, g) ==
    IF tipIn THEN 0
    ELSE IF accel = None \/ accel + g > Duration THEN None
    ELSE accel + g

\* The per-cycle part of control_loop; the closed loop takes a silent sensor for lambda 1.
Cycle(g, dt, met, window, lambda, steady, c, tipIn) ==
    /\ dfco' = UpdateDfco(met, g)
    /\ loop' = UpdateLoop(IF dfco'.active THEN TriggerPause(loop) ELSE loop,
                          window, IF lambda = None THEN 0 ELSE lambda, dt)
    /\ cl_correction' = Clamp(loop'.correction, MaxCorrection)
    /\ cells' = Learn(c, lambda, steady)
    /\ ltft_correction' = Trim(c)
    /\ accel' = Enrich(tipIn, g)
    /\ accel_mult' = IF accel' = None THEN 0 ELSE 1
    /\ overrun' = IF ~met THEN None ELSE IF overrun = None THEN 0 ELSE Later(overrun, g, Delay)
    /\ quiet' = IF dfco'.active THEN Least(dt, Pause) ELSE Least(quiet + dt, Pause)

\* The throttle is closed in overrun, so nothing is tipped in then.
Next ==
    \E g \in Gaps, dt \in Steps, met, window, steady, tipIn \in BOOLEAN, c \in Cells, lambda \in (-2 .. 2) \cup {None} :
        ~(met /\ tipIn) /\ Cycle(g, dt, met, window, lambda, steady, c, tipIn)

Spec == Init /\ [][Next]_vars

----------------------------------------------------------------------------
(* Properties.                                                             *)

TypeOK ==
    /\ dfco \in [active : BOOLEAN, since : 0 .. Delay \cup {None}]
    /\ loop \in [paused : BOOLEAN, timer : 0 .. Pause, integral : -MaxIntegral .. MaxIntegral, correction : Int]
    /\ cells \in [Cells -> [trim : -MaxTrim .. MaxTrim, samples : 0 .. MinSamples]]
    /\ accel \in 0 .. Duration \cup {None} /\ accel_mult \in {0, 1}
    /\ cl_correction \in -MaxCorrection .. MaxCorrection /\ ltft_correction \in -MaxTrim .. MaxTrim
    /\ overrun \in 0 .. Delay \cup {None} /\ quiet \in 0 .. Pause

\* Fuel is cut only after the overrun conditions held at every cycle for the whole delay, however
\* often the driver touches the throttle in between.
CutIsEarned == dfco.active => overrun # None /\ overrun >= Delay

\* After the last cycle with fuel cut, the closed loop corrects nothing until the pause has gone
\* by, in the time it is given (the cycle of the cut counts): the mixture of the cut and of the gas behind it is not corrected.
PauseIsKept == loop.correction # 0 => quiet >= Pause

\* What the sensor reads while no fuel is injected moves neither the integral nor the correction
\* that the first injected cycles will use.
CutTeachesNothing ==
    [][dfco'.active => loop'.integral = loop.integral /\ cl_correction' = 0]_vars
=============================================================================
