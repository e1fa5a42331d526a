----------------------------- MODULE Regulators -----------------------------
(***************************************************************************)
(* Outputs that are regulated: cam phasers (actuators/vvt.rs), wastegate   *)
(* (actuators/boost.rs), auxiliary PID (actuators/pwm.rs), and the fans    *)
(* and the mapped output of outputs/mod.rs, all in engine-core.  The three *)
(* PID loops differ in what they forget and when.  A behaviour drives one  *)
(* unit.  Gains are 1 and duties small whole numbers; temperatures are in  *)
(* steps of 5 degrees.                                                     *)
(***************************************************************************)
EXTENDS Integers, Sequences

CONSTANTS
    MaxIntegral,    \* 50 (vvt), max_correction (boost), 100 (auxiliary)
    MaxDuty,        \* max_duty or max_output; the least is 0
    MaxError,       \* bound: target less measured value
    Bases,          \* bound: duties from the tables
    Steps,          \* bound: dt
    OnTemp, OffTemp, SecondaryOn, AcOn,     \* thresholds of the fans
    Temps           \* bound: temperatures

VARIABLES
    unit,       \* which one runs
    pid,        \* integral, previous (prev_error), first (first_update), duty
    fans,       \* FanController: primary, secondary, and ac with its flag engaged
    axis, map,  \* GenericPwmOutput: one axis, its cells
    \* history
    learnt,     \* what the errors since the loop was closed add up to
    kick,       \* derivative term of the latest update
    fresh,      \* the latest update is the first since the loop was closed
    clt         \* latest temperature, or -1

vars == <<unit, pid, fans, axis, map, learnt, kick, fresh, clt>>
pidVars == <<pid, learnt, kick, fresh>>
fanVars == <<fans, clt>>
mapVars == <<axis, map>>

\* What the proofs ask of the constants: whole numbers, duties that the output can take, and fans
\* that go off below where they go on, the first of them before the second and, with air
\* conditioning, no later than without.
Parameters ==
    /\ MaxIntegral \in Nat /\ MaxDuty \in Nat /\ MaxError \in Nat /\ Bases \subseteq 0 .. MaxDuty /\ Steps \subseteq Nat
    /\ OnTemp \in Int /\ OffTemp \in Int /\ SecondaryOn \in Int /\ AcOn \in Int /\ Temps \subseteq Int
    /\ OffTemp < OnTemp /\ OnTemp <= SecondaryOn /\ AcOn <= OnTemp

\* Bound: what set_axis_a is given, in order or not.
Axes == {<<0, 2, 4>>, <<2, 2, 4>>, <<3, 1, 4>>}

Clamp(x, low, high) == IF x < low THEN low ELSE IF x > high THEN high ELSE x

Init ==
    /\ unit \in {"vvt", "boost", "aux", "fans", "map"}
    /\ pid = [integral |-> 0, previous |-> 0, first |-> TRUE, duty |-> 0]
    /\ fans = [primary |-> FALSE, secondary |-> FALSE, ac |-> FALSE, engaged |-> FALSE]
    /\ axis = <<0, 2, 4>> /\ map = <<0, 0, 0>>
    /\ learnt = 0 /\ kick = 0 /\ fresh = FALSE /\ clt = -1

----------------------------------------------------------------------------
(* PID loops.                                                              *)

Wind(integral, error, dt) == Clamp(integral + error * dt, -MaxIntegral, MaxIntegral)

\* A sample of a closed loop: at the first the integral is empty and there is no derivative.
Sample(error, dt) ==
    LET start == IF pid.first THEN [pid EXCEPT !.integral = 0, !.previous = error, !.first = FALSE] ELSE pid
    IN [start EXCEPT !.integral = Wind(@, error, dt), !.previous = error]
Derivative(error) == IF pid.first THEN 0 ELSE error - pid.previous

\* The update of a closed loop on top of the duty base.
Close(error, dt, base, limit) ==
    LET p == Sample(error, dt)
        correction == Clamp(error + p.integral + Derivative(error), -limit, limit)
    IN /\ pid' = [p EXCEPT !.duty = Clamp(base + correction, 0, MaxDuty)]
       /\ kick' = Derivative(error) /\ fresh' = pid.first
       /\ learnt' = Wind(IF pid.first THEN 0 ELSE learnt, error, dt)

\* VvtController::update: without a measured position the loop runs open, but remembers.
Vvt(mode, error, measured, base, dt) ==
    /\ unit = "vvt"
    /\ CASE mode = "Disabled" ->
              /\ pid' = [integral |-> 0, previous |-> 0, first |-> TRUE, duty |-> 0]
              /\ learnt' = 0 /\ kick' = 0 /\ fresh' = FALSE
         [] mode = "OpenLoop" ->
              /\ pid' = [pid EXCEPT !.integral = 0, !.first = TRUE, !.duty = base]
              /\ learnt' = 0 /\ kick' = 0 /\ fresh' = FALSE
         [] mode = "ClosedLoop" /\ measured -> Close(error, dt, 0, 3 * MaxDuty)
         [] mode = "ClosedLoop" /\ ~measured ->
              pid' = [pid EXCEPT !.duty = base] /\ kick' = 0 /\ fresh' = FALSE /\ UNCHANGED learnt
    /\ UNCHANGED <<unit, fanVars, mapVars>>

\* BoostController::update
Boost(fast, closed, error, base, dt) ==
    /\ unit = "boost"
    /\ IF fast /\ closed THEN Close(error, dt, base, MaxIntegral)
       ELSE /\ pid' = [integral |-> 0, previous |-> 0, first |-> TRUE, duty |-> IF fast THEN base ELSE 0]
            /\ learnt' = 0 /\ kick' = 0 /\ fresh' = FALSE
    /\ UNCHANGED <<unit, fanVars, mapVars>>

\* AuxPidController::update: switched off by set_config, it remembers.
Aux(enabled, error, dt) ==
    /\ unit = "aux"
    /\ IF enabled THEN Close(error, dt, 0, 3 * MaxDuty)
       ELSE pid' = [pid EXCEPT !.duty = 0] /\ kick' = 0 /\ fresh' = FALSE /\ UNCHANGED learnt
    /\ UNCHANGED <<unit, fanVars, mapVars>>

\* reset of each
Reset ==
    /\ unit \in {"vvt", "boost", "aux"}
    /\ pid' = [integral |-> 0, previous |-> 0, first |-> TRUE, duty |-> 0]
    /\ learnt' = 0 /\ kick' = 0 /\ fresh' = FALSE
    /\ UNCHANGED <<unit, fanVars, mapVars>>

----------------------------------------------------------------------------
(* Fans.                                                                   *)

Fan(on, t, onTemp) == IF on THEN t > OffTemp ELSE t >= onTemp

\* FanController::update, DualFanController::update and AcFanController::update
UpdateFans(t, ac) ==
    /\ unit = "fans"
    /\ fans' = [primary |-> Fan(fans.primary, t, OnTemp),
                secondary |-> t >= SecondaryOn /\ Fan(fans.secondary, t, SecondaryOn),
                engaged |-> ac,
                ac |-> Fan(fans.ac, t, IF ac THEN AcOn ELSE OnTemp)]
    /\ clt' = t
    /\ UNCHANGED <<unit, pidVars, mapVars>>

\* TachometerOutput::update, in pulses per minute; 0: no signal
Tacho(rpm, pulsesPerRev) == IF rpm <= 0 THEN 0 ELSE rpm * pulsesPerRev

----------------------------------------------------------------------------
(* GenericPwmOutput, with one axis.                                        *)

\* find_index: cells next to the value and its distance from the first, as a fraction.
FindIndex(value) ==
    LET last == Len(axis)
        found == {i \in 1 .. last - 1 : value >= axis[i] /\ value < axis[i + 1]}
    IN IF value <= axis[1] THEN <<1, 1, 0, 1>>
       ELSE IF value >= axis[last] \/ found = {} THEN <<last, last, 0, 1>>
       ELSE LET i == CHOOSE i \in found : \A j \in found : i <= j
            IN <<i, i + 1, value - axis[i], axis[i + 1] - axis[i]>>
\* update, as a fraction
Duty(value) == LET f == FindIndex(value) IN <<map[f[1]] * f[4] + (map[f[2]] - map[f[1]]) * f[3], f[4]>>

SetValue(i, duty) ==
    /\ unit = "map" /\ map' = [map EXCEPT ![i] = Clamp(duty, 0, MaxDuty)]
    /\ UNCHANGED <<unit, axis, pidVars, fanVars>>
SetAxis(a) == unit = "map" /\ axis' = a /\ UNCHANGED <<unit, map, pidVars, fanVars>>

Next ==
    \/ \E error \in -MaxError .. MaxError, base \in Bases, dt \in Steps, flag \in BOOLEAN :
          \/ \E mode \in {"Disabled", "OpenLoop", "ClosedLoop"} : Vvt(mode, error, flag, base, dt)
          \/ \E fast \in BOOLEAN : Boost(fast, flag, error, base, dt)
          \/ Aux(flag, error, dt)
    \/ Reset
    \/ \E t \in Temps, ac \in BOOLEAN : UpdateFans(t, ac)
    \/ \E i \in 1 .. 3, duty \in Bases \cup {MaxDuty + 1} : SetValue(i, duty)
    \/ \E a \in Axes : SetAxis(a)

Spec == Init /\ [][Next]_vars

----------------------------------------------------------------------------
(* Properties.                                                             *)

\* A loop that closes begins with the error it sees, whatever it held before it opened: no
\* derivative kick and no integral from an earlier spell.
LoopsStartClean ==
    /\ fresh => kick = 0 /\ pid.integral \in {Clamp(pid.previous * dt, -MaxIntegral, MaxIntegral) : dt \in Steps}
    /\ ~pid.first => pid.integral = learnt
    /\ pid.duty \in 0 .. MaxDuty

\* The fans are on where they must be and off where they must be, the second only beside the
\* first, and never later with air conditioning than without.
FansFollow ==
    clt >= 0 =>
        /\ clt >= OnTemp => fans.primary /\ fans.ac
        /\ clt <= OffTemp => ~fans.primary
        /\ fans.secondary <=> clt >= SecondaryOn
        /\ fans.secondary => fans.primary

\* Whatever axis is set, in order or not, a duty lies between the cells.
DutyIsMapped ==
    \A v \in -1 .. 6 :
        LET d == Duty(v) IN
        d[2] > 0 /\ \E i, j \in 1 .. 3 : map[i] * d[2] <= d[1] /\ d[1] <= map[j] * d[2]

\* "Turn-off temperature threshold (°C, hysteresis)" (outputs/mod.rs): a fan does not change while
\* temperature and air conditioning stay as they are.  With the thresholds of default_engine it
\* does, at every update between 80 and 85 °C: its turn-off temperature is above AcOn.
AcFanIsCalm ==
    [][clt' = clt /\ fans'.engaged = fans.engaged => fans'.ac = fans.ac]_fanVars

RegulatorsHold == LoopsStartClean /\ FansFollow /\ DutyIsMapped
=============================================================================
