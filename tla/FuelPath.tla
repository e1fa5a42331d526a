------------------------------ MODULE FuelPath ------------------------------
(***************************************************************************)
(* From air to the injector (engine-core/src/fuel): the mass that          *)
(* compute_injection asks for, the film on the wall of each port           *)
(* (wall_wetting.rs), the pulse; and three controllers beside it that      *)
(* count cycles or time: the taper after cranking, the pause of the closed *)
(* loop after a fuel cut, and the corrections of a pulse.  A behaviour      *)
(* drives one unit.  Masses, times and duties are whole numbers; an        *)
(* exponential is one of a few fractions.                                  *)
(***************************************************************************)
EXTENDS Integers

CONSTANTS
    Ports,              \* num_cylinders: cylinders are 0 .. Ports - 1
    Pressures,          \* bound: manifold pressures
    TaperCycles,        \* CrankingConfig.taper_cycles
    CrankingFuel,       \* cranking_fuel_mg / 10, a multiplier in steps of 1 / TaperCycles
    RestTime,           \* ClosedLoopPauseConfig.pause_duration_s
    RestEnabled,        \* ClosedLoopPauseConfig.enabled
    MinPulse, MaxPulse  \* SmallPulseConfig; min_correction is 2

VARIABLES
    unit,       \* the unit that runs
    film,       \* WallWettingController.film_g of each cylinder
    shot,       \* the latest injection: what was wanted, what reaches the cylinder, pulse, or None
    taper,      \* CrankingTaper: active, cycles
    factor,     \* its latest answer
    rest,       \* ClosedLoopPauseController: since (time since dfco_exit_time_us, or -1), paused
    \* history
    ran,        \* cycles at running speed since the engine started, or -1: it has not
    calm        \* time since fuel came back, -1: fuel is cut, -2: it never was

vars == <<unit, film, shot, taper, factor, rest, ran, calm>>

\* What the proofs ask of the constants: whole numbers, and fuel that cranking does not lower.
Parameters ==
    /\ Ports \in Nat /\ Pressures \subseteq Nat /\ TaperCycles \in Nat \ {0}
    /\ CrankingFuel \in Nat /\ CrankingFuel >= TaperCycles
    /\ RestTime \in Nat /\ RestEnabled \in BOOLEAN
    /\ MinPulse \in Nat /\ MaxPulse \in Nat /\ MinPulse <= MaxPulse

Neutral == TaperCycles      \* multiplier 1
NoShot == [wanted |-> 0, reaches |-> 0, injected |-> 0, pulse |-> 0]
Greatest(a, b) == IF a > b THEN a ELSE b
Least(a, b) == IF a < b THEN a ELSE b

Init ==
    /\ unit \in {"film", "taper", "rest"}
    /\ film = [c \in 0 .. Ports - 1 |-> 0] /\ shot = NoShot
    /\ taper = [active |-> FALSE, cycles |-> 0] /\ factor = Neutral /\ ran = -1
    /\ rest = [since |-> -1, paused |-> FALSE] /\ calm = -2

----------------------------------------------------------------------------
(* Mass, film and pulse.                                                   *)

\* estimate_airmass_g, calculate_airmass_speed_density: proportional to the pressure; hot is the
\* correction for the temperatures.
AirMass(map, hot) == IF hot THEN 2 * map ELSE 4 * map

\* compute_injection: None (a mass of 0) without an rpm or without air; lambda 1 or, richer, 1/2.
RequiredMass(rpmKnown, air, rich) == IF rpmKnown THEN (IF rich THEN 2 * air ELSE air) ELSE 0
Deadtime(vbatt) == CASE vbatt = "low" -> 3 [] vbatt \in {"normal", "unknown"} -> 1

\* x_for_temp and tau_for_temp: half of a shot stays on a cold wall, nothing on a warm one; in
\* time dt a warm film is gone, of a cold one goes a part.
OnWall(cold, mass) == IF cold THEN mass \div 2 ELSE 0
Evaporated(f, cold, dt) == IF ~cold \/ dt = "long" THEN f ELSE f \div 2

\* WallWettingController::compensate
Compensate(f, wanted, cold, dt) ==
    LET gone == Evaporated(f, cold, dt)
        mass == (IF cold THEN 2 ELSE 1) * Greatest(wanted - gone, 0)
    IN [injected |-> mass, film |-> f - gone + OnWall(cold, mass)]

\* An injection of control_loop for cylinder c, MultiCylWallWetting::compensate included, which
\* passes on what is wanted for a cylinder it does not know.
Inject(c, wanted, cold, dt, vbatt) ==
    LET known == c \in DOMAIN film
        done == IF known THEN Compensate(film[c], wanted, cold, dt) ELSE [injected |-> wanted, film |-> 0]
    IN /\ film' = IF known THEN [film EXCEPT ![c] = done.film] ELSE film
       /\ shot' = [wanted |-> wanted, injected |-> done.injected, pulse |-> done.injected + Deadtime(vbatt),
                   reaches |-> done.injected - (IF known THEN done.film - film[c] ELSE 0)]

\* What the cylinder may be asked to get; rich stands for the product of the corrections as well.
Masses ==
    {RequiredMass(known, AirMass(map, hot), rich) :
        known \in BOOLEAN, map \in Pressures, hot \in BOOLEAN, rich \in BOOLEAN} \ {0}

Fuel ==
    /\ unit = "film"
    /\ \E c \in 0 .. Ports, wanted \in Masses, cold \in BOOLEAN, dt \in {"short", "long"}, vbatt \in {"low", "unknown"} :
          Inject(c, wanted, cold, dt, vbatt)
    /\ UNCHANGED <<unit, taper, factor, rest, ran, calm>>

\* reset_all
ResetFilms ==
    /\ unit = "film"
    /\ film' = [c \in DOMAIN film |-> 0]
    /\ UNCHANGED <<unit, shot, taper, factor, rest, ran, calm>>

----------------------------------------------------------------------------
(* The taper after cranking.                                               *)

StartTaper ==
    /\ unit = "taper"
    /\ taper' = [active |-> TRUE, cycles |-> 0] /\ ran' = 0
    /\ UNCHANGED <<unit, film, shot, factor, rest, calm>>

Tapered(cycles) == CrankingFuel - ((CrankingFuel - Neutral) * cycles) \div TaperCycles

\* CrankingTaper::update, once per cycle; final_multiplier is 1.
UpdateTaper(speed) ==
    /\ unit = "taper"
    /\ LET cycles == taper.cycles + 1 IN
       CASE ~taper.active -> factor' = Neutral /\ UNCHANGED taper
         [] taper.active /\ speed = "stopped" ->
                factor' = Neutral /\ taper' = [active |-> FALSE, cycles |-> 0]
         [] taper.active /\ speed = "cranking" -> factor' = CrankingFuel /\ UNCHANGED taper
         [] taper.active /\ speed = "running" ->
                /\ taper' = [active |-> cycles < TaperCycles, cycles |-> cycles]
                /\ factor' = IF cycles < TaperCycles THEN Tapered(cycles) ELSE Neutral
    /\ ran' = CASE speed = "stopped" -> -1 [] speed = "cranking" -> ran
                [] speed = "running" -> IF ran < 0 THEN -1 ELSE Least(ran + 1, TaperCycles)
    /\ UNCHANGED <<unit, film, shot, rest, calm>>

\* CrankingTaper::current_multiplier
CurrentFactor == IF taper.active THEN Tapered(taper.cycles) ELSE Neutral

----------------------------------------------------------------------------
(* The pause after a fuel cut.                                             *)

\* ClosedLoopPauseController::on_dfco_exit (if fuel was cut) and update, gap later.
UpdateRest(cut, gap) ==
    /\ unit = "rest"
    /\ LET exits == calm = -1 /\ ~cut
           since == IF exits /\ RestEnabled THEN 0 ELSE IF rest.since < 0 THEN -1 ELSE Least(rest.since + gap, RestTime + 1)
           over == since < 0 \/ since > RestTime
       IN rest' = IF cut THEN [since |-> since, paused |-> TRUE]
                  ELSE IF ~RestEnabled THEN [since |-> since, paused |-> FALSE]
                  ELSE [since |-> IF over THEN -1 ELSE since, paused |-> ~over]
    /\ calm' = IF cut THEN -1 ELSE IF calm = -1 THEN 0 ELSE IF calm = -2 THEN -2 ELSE Least(calm + gap, RestTime + 1)
    /\ UNCHANGED <<unit, film, shot, taper, factor, ran>>

----------------------------------------------------------------------------
(* Corrections of a pulse.                                                 *)

\* SmallPulseCorrection::correct, in units of 1 / (MaxPulse - MinPulse)
CorrectPulse(p) ==
    LET width == MaxPulse - MinPulse IN
    IF p < MinPulse THEN 2 * p * width ELSE IF p > MaxPulse THEN p * width
    ELSE p * (2 * width - (p - MinPulse))

\* MafFuelCalculator::calculate_air_flow_g_per_s and calculate_fuel_g_per_cyl
AirFlow(volts, least, most) == (IF volts < least THEN least ELSE IF volts > most THEN most ELSE volts) - least
MafFuel(volts, rpm, cylinders) ==
    LET flow == AirFlow(volts, 1, 5) IN IF flow <= 0 \/ rpm <= 0 THEN 0 ELSE (flow * 120) \div (rpm * cylinders)

\* BatchInjectionController::calculate_timing
BatchTiming(enabled, events, base, offset) == IF enabled /\ events # 1 THEN base + offset ELSE base

Next ==
    \/ Fuel \/ ResetFilms \/ StartTaper
    \/ \E speed \in {"stopped", "cranking", "running"} : UpdateTaper(speed)
    \/ \E cut \in BOOLEAN, gap \in 1 .. 2 : UpdateRest(cut, gap)

Spec == Init /\ [][Next]_vars

----------------------------------------------------------------------------
(* Properties.                                                             *)

\* Whatever came before, a cylinder gets what was asked for it, the film of its own port taken
\* into account; it gets more only when the film alone gives more, and then nothing is injected.
WantedFuelArrives ==
    /\ shot.reaches >= shot.wanted
    /\ shot.reaches > shot.wanted => shot.injected = 0

\* After each start the enrichment ends after so many cycles at running speed, dips back to
\* cranking speed included, and not before; it never leaves the range between its two ends.
TaperIsPaidOut ==
    /\ taper.active <=> (ran >= 0 /\ ran < TaperCycles)
    /\ factor \in Neutral .. CrankingFuel /\ CurrentFactor \in Neutral .. CrankingFuel

\* The closed loop pauses through a cut and for the whole time after it, also when the next cut
\* comes within the pause of the one before, and no longer.
RestIsWhole ==
    LET owed == calm = -1 \/ (RestEnabled /\ calm >= 0 /\ calm <= RestTime) IN rest.paused <=> owed

\* A correction for small pulses never shortens a pulse and ends where it should; the mass from
\* the air flow meter falls with speed and is 0 without flow.
CorrectionsAreSound ==
    /\ \A p \in 0 .. MaxPulse + 2 : CorrectPulse(p) >= p * (MaxPulse - MinPulse)
    /\ CorrectPulse(MaxPulse) = MaxPulse * (MaxPulse - MinPulse)
    /\ \A v \in 0 .. 6, r \in 1 .. 3 : MafFuel(v, 10 * r, 4) >= MafFuel(v, 10 * (r + 1), 4) /\ (v <= 1 => MafFuel(v, 10 * r, 4) = 0)
    /\ \A n \in 1 .. 2 : BatchTiming(FALSE, n, 30, 90) = 30 /\ BatchTiming(TRUE, n, 30, 90) \in {30, 120}

FuelIsAsMeant == WantedFuelArrives /\ TaperIsPaidOut /\ RestIsWhole /\ CorrectionsAreSound
=============================================================================
