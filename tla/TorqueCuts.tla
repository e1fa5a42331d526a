----------------------------- MODULE TorqueCuts -----------------------------
(***************************************************************************)
(* The controllers that take torque away or give it back: overdwell        *)
(* protection, speed limiter, launch control, soft cut and multiple sparks *)
(* (engine-core/src/ignition/mod.rs), knock retard (knock/mod.rs) and      *)
(* traction control (traction.rs).  They share nothing.  A speed is in one *)
(* of three bands of a controller's two thresholds, retard is in steps.    *)
(* No firmware calls these controllers yet.                                *)
(***************************************************************************)
EXTENDS Integers, FiniteSets, FiniteSetsExt

CONSTANTS
    MaxDwell,       \* OverdwellConfig.max_dwell_ms
    MaxRetard,      \* KnockConfig.max_retard, TractionConfig.max_retard_deg
    Rate,           \* recovery_rate, recovery_deg_per_s
    LongestStep,    \* the longest step that traction control counts
    Hundred, Turns, \* the soft cut's percentages, and where its counter wraps
    MaxSparks,      \* MultiSparkConfig.max_sparks
    Threshold,      \* MultiSparkConfig.rpm_threshold
    Lapses          \* time from one update to the next

VARIABLES
    coil,       \* charging, its time since charge_start_us, overdwell_count (0, 1: odd or even)
    limiter,    \* RpmLimiter.active
    launch,     \* LaunchControl: active, retard, fuel_cut
    knock,      \* KnockController.current_retard
    traction,   \* TractionController.current_retard, and the latest spark_cut
    \* history
    fired,      \* coils fired by force (0, 1)
    over,       \* the speed has reached the limit and not been under recovery_rpm since
    launching,  \* launch conditions have all been met at an update, with no release since
    knockOwed, slipOwed     \* retard that no rate of recovery can have given back

coilVars == <<coil, fired>>
limiterVars == <<limiter, over>>
launchVars == <<launch, launching>>
knockVars == <<knock, knockOwed>>
tractionVars == <<traction, slipOwed>>
vars == <<coilVars, limiterVars, launchVars, knockVars, tractionVars>>

\* What the proofs ask of the constants: times, rates and percentages are whole, and there is a
\* spark where some are allowed.
Parameters ==
    /\ MaxDwell \in Nat \ {0} /\ MaxRetard \in Nat /\ Rate \in Nat /\ LongestStep \in Nat
    /\ Hundred \in Nat \ {0} /\ Turns \in Nat /\ MaxSparks \in Nat \ {0} /\ Threshold \in Nat \ {0}
    /\ Lapses \subseteq Nat

AtRest == [active |-> FALSE, retard |-> 0, fuel_cut |-> FALSE]
Uncharged(count) == [charging |-> FALSE, time |-> 0, count |-> count]

Init ==
    /\ coil = Uncharged(0) /\ fired = 0
    /\ limiter = FALSE /\ over = FALSE
    /\ launch = AtRest /\ launching = FALSE
    /\ knock = 0 /\ knockOwed = 0
    /\ traction = [retard |-> 0, spark_cut |-> FALSE] /\ slipOwed = 0

\* start_charge of a coil at rest: of a charging one it would restart the clock
StartCharge == ~coil.charging /\ coil' = [Uncharged(coil.count) EXCEPT !.charging = TRUE] /\ UNCHANGED fired
EndCharge == coil' = Uncharged(coil.count) /\ UNCHANGED fired
\* Time passes to the next check_overdwell.
CheckOverdwell(dt) ==
    /\ coil.charging
    /\ IF coil.time + dt >= MaxDwell
       THEN coil' = Uncharged((coil.count + 1) % 2) /\ fired' = (fired + 1) % 2
       ELSE coil' = [coil EXCEPT !.time = @ + dt] /\ UNCHANGED fired

\* RpmLimiter::update and reset
UpdateLimiter(band) ==
    /\ limiter' = IF limiter THEN band # "low" ELSE band = "high"
    /\ over' = (band = "high" \/ (over /\ band = "middle"))
ResetLimiter == limiter' = FALSE /\ over' = FALSE

Launched(l, band, ready, cuts) ==
    IF l.active /\ band = "low" THEN AtRest
    ELSE IF ~l.active /\ band = "high" /\ ready THEN [active |-> TRUE, retard |-> 1, fuel_cut |-> cuts]
    ELSE l
\* LaunchControl::update; `cuts` is fuel_cut_enabled
UpdateLaunch(band, ready, cuts) ==
    /\ launch' = Launched(launch, band, ready, cuts)
    /\ launching' = (band # "low" /\ (launching \/ (band = "high" /\ ready)))
ResetLaunch == launch' = AtRest /\ launching' = FALSE

\* KnockController::update: `step` is the retard for the intensity, 0 when nothing knocks in the window
UpdateKnock(inRange, step, dt) ==
    /\ knock' = IF ~inRange THEN 0
                ELSE IF step > 0 THEN Min({knock + step, MaxRetard})
                ELSE Max({knock - Rate * dt, 0})
    /\ knockOwed' = IF inRange THEN Max({Min({step, MaxRetard}), knockOwed - Rate * dt}) ELSE 0

\* TractionController::update: `slip` is the demand, 0 with grip, MaxRetard from slip_cut_pct on
UpdateTraction(inRange, slip, dt) ==
    /\ traction' =
          IF ~inRange THEN [retard |-> 0, spark_cut |-> FALSE]
          ELSE [retard |-> IF slip > 0 THEN Max({traction.retard, slip})
                           ELSE Max({traction.retard - Rate * Min({dt, LongestStep}), 0}),
                spark_cut |-> slip = MaxRetard]
    /\ slipOwed' = IF inRange THEN Max({slip, slipOwed - Rate * dt}) ELSE 0

Band == {"low", "middle", "high"}

Next ==
    \/ (StartCharge \/ EndCharge \/ \E dt \in Lapses : CheckOverdwell(dt))
       /\ UNCHANGED <<limiterVars, launchVars, knockVars, tractionVars>>
    \/ (ResetLimiter \/ \E band \in Band : UpdateLimiter(band))
       /\ UNCHANGED <<coilVars, launchVars, knockVars, tractionVars>>
    \/ (ResetLaunch \/ \E band \in Band, ready, cuts \in BOOLEAN : UpdateLaunch(band, ready, cuts))
       /\ UNCHANGED <<coilVars, limiterVars, knockVars, tractionVars>>
    \/ \E inRange \in BOOLEAN, step \in 0 .. MaxRetard + 1, dt \in Lapses :
       UpdateKnock(inRange, step, dt) /\ UNCHANGED <<coilVars, limiterVars, launchVars, tractionVars>>
    \/ \E inRange \in BOOLEAN, slip \in 0 .. MaxRetard, dt \in Lapses :
       UpdateTraction(inRange, slip, dt) /\ UNCHANGED <<coilVars, limiterVars, launchVars, knockVars>>

Spec == Init /\ [][Next]_vars

\* SoftSparkCut::should_cut with the counter after its step
ShouldCut(counter, threshold) == counter % Hundred < threshold

\* MultiSparkController::spark_count; roundf of a fraction rounds half up
SparkCount(rpm) ==
    IF rpm >= Threshold \/ MaxSparks <= 1 THEN 1
    ELSE 1 + (2 * (Threshold - rpm) * (MaxSparks - 1) + Threshold) \div (2 * Threshold)

----------------------------------------------------------------------------
(* Properties.                                                             *)

\* A charging coil is under its longest dwell after every check, and each forced spark counts once.
CoilIsSpared == coil.time < MaxDwell /\ coil.count = fired

\* Limiter and launch control hold from their upper threshold down to the lower one, whatever
\* happens between, and fuel is cut only while a launch lasts.
CutsHaveHysteresis ==
    /\ limiter = over
    /\ launch.active = launching
    /\ launch.fuel_cut => launch.active

\* Torque comes back no faster than the rate of recovery since the worst knock or slip, over any
\* series of updates, and retard and cut stay within their limit.
TorqueReturnsSlowly ==
    /\ knockOwed <= knock /\ knock <= MaxRetard
    /\ slipOwed <= traction.retard /\ traction.retard <= MaxRetard
    /\ traction.spark_cut => traction.retard = MaxRetard

\* Of a hundred sparks in a row the soft cut takes its percentage, except where its counter wraps.
SoftCutKeepsRate ==
    \A n \in 0 .. Turns - Hundred - 1, threshold \in 0 .. Hundred :
        Cardinality({k \in 1 .. Hundred : ShouldCut(n + k, threshold)}) = threshold

\* More speed never means more sparks, and there is at least one and never more than allowed.
SparksFallWithSpeed ==
    \A a, b \in 0 .. Threshold + 1 :
        a <= b => 1 <= SparkCount(b) /\ SparkCount(b) <= SparkCount(a) /\ SparkCount(a) <= MaxSparks

CutsHold == CoilIsSpared /\ CutsHaveHysteresis /\ TorqueReturnsSlowly /\ SoftCutKeepsRate /\ SparksFallWithSpeed
=============================================================================
