---------------------------- MODULE EngineGuards ----------------------------
(***************************************************************************)
(* Two controllers that protect hardware by timing: the electronic         *)
(* throttle, which must let go of the plate when its sensors disagree or   *)
(* the plate does not follow (engine-core/src/actuators/etb.rs), and the   *)
(* lambda heater, which must not heat a wet sensor (sensors/heater.rs).    *)
(* The PID terms and the duty for a voltage are left out: a motor is       *)
(* driven or not, and a heater is cold, warm (condensation_volts) or hot.  *)
(* No firmware calls these controllers yet.                                *)
(***************************************************************************)
EXTENDS Naturals

CONSTANTS
    Count,      \* EtbConfig.plausibility_count
    Timeout,    \* EtbConfig.position_timeout_ms
    Dry,        \* HeaterConfig.condensation_ms
    Climb,      \* updates of the ramp up to target_volts
    MaxStep,    \* the longest step that an update counts
    Lapses,     \* values of dt_s, of at least the shortest step that an update counts
    None

VARIABLES
    etb,        \* implausible_samples, error_timer (ms) and fault
    driven,     \* the duty of the latest update may differ from 0
    heater,     \* phase, elapsed (ms) and volts
    \* history
    apart,      \* samples of the two sensors that disagreed since one agreed
    astray,     \* time for which the plate has been off its target
    tripped,    \* apart or astray has been too long since the last clear_fault
    turned      \* time of the updates since the first one of the running engine

etbVars == <<etb, driven, apart, astray, tripped>>
heaterVars == <<heater, turned>>
vars == <<etb, driven, heater, apart, astray, tripped, turned>>

\* What the proofs ask of the constants: a count that a u8 can reach, and whole times.
Parameters ==
    /\ Count \in 1 .. 255 /\ Timeout \in Nat \ {0} /\ Dry \in Nat /\ Climb \in Nat /\ MaxStep \in Nat
    /\ Lapses \subseteq Nat /\ None \notin {"TpsImplausible", "PositionTimeout", "agrees", "differs"}

Least(a, b) == IF a < b THEN a ELSE b
Counted(dt) == Least(dt, MaxStep)

Init ==
    /\ etb = [implausible |-> 0, error_timer |-> 0, fault |-> None] /\ driven = FALSE
    /\ heater = [phase |-> "Off", elapsed |-> 0, volts |-> 0]
    /\ apart = 0 /\ astray = 0 /\ tripped = FALSE /\ turned = 0

\* clear_fault
ClearFault ==
    /\ etb' = [implausible |-> 0, error_timer |-> 0, fault |-> None]
    /\ apart' = 0 /\ astray' = 0 /\ tripped' = FALSE
    /\ UNCHANGED <<driven, heaterVars>>

\* mutant: a sample without a second sensor counts as one that agrees, a fault with it is gone
Compare_Unlatched(e, second) ==
    CASE second = None -> [e EXCEPT !.implausible = 0, !.fault = None]
      [] second = "agrees" -> [e EXCEPT !.implausible = 0]
      [] second = "differs" ->
            LET n == Least(e.implausible + 1, 255)
            IN [e EXCEPT !.implausible = n, !.fault = IF n >= Count THEN "TpsImplausible" ELSE @]
\* Dual-TPS plausibility: the later fault takes the place of an earlier one.
Compare(e, second) ==
    CASE second = None -> e
      [] second = "agrees" -> [e EXCEPT !.implausible = 0]
      [] second = "differs" ->
            LET n == Least(e.implausible + 1, 255)
            IN [e EXCEPT !.implausible = n, !.fault = IF n >= Count THEN "TpsImplausible" ELSE @]

\* The position watchdog stands still while a fault is latched.
Follow(e, off, dt) ==
    IF e.fault # None THEN e
    ELSE IF ~off THEN [e EXCEPT !.error_timer = 0]
    ELSE LET t == e.error_timer + Counted(dt)
         IN [e EXCEPT !.error_timer = t, !.fault = IF t >= Timeout THEN "PositionTimeout" ELSE None]

\* EtbController::update
UpdateThrottle(second, off, dt) ==
    /\ etb' = Follow(Compare(etb, second), off, dt)
    /\ driven' = (etb'.fault = None)
    /\ apart' = IF second = "differs" THEN Least(apart + 1, Count) ELSE IF second = None THEN apart ELSE 0
    /\ astray' = IF off THEN Least(astray + Counted(dt), Timeout) ELSE 0
    /\ tripped' = (tripped \/ apart' = Count \/ astray' = Timeout)
    /\ UNCHANGED heaterVars

Warm == 1
Hot == Warm + Climb

\* HeaterController::update of a running engine; the step that leaves Off does not count.
Heat(h, dt) ==
    LET t == [h EXCEPT !.elapsed = Least(@ + Counted(dt), Dry)] IN
    CASE h.phase = "Off" -> [phase |-> "Condensation", elapsed |-> 0, volts |-> Warm]
      [] h.phase = "Condensation" ->
            [t EXCEPT !.volts = Warm, !.phase = IF t.elapsed >= Dry THEN "Ramp" ELSE @]
      [] h.phase = "Ramp" ->
            [t EXCEPT !.volts = Least(@ + 1, Hot), !.phase = IF t.volts + 1 >= Hot THEN "Hold" ELSE @]
      [] h.phase = "Hold" -> [t EXCEPT !.volts = Hot]

UpdateHeater(engine_running, dt) ==
    /\ heater' = IF engine_running THEN Heat(heater, dt) ELSE [phase |-> "Off", elapsed |-> 0, volts |-> 0]
    /\ turned' = IF engine_running /\ heater.phase # "Off" THEN Least(turned + dt, Dry) ELSE 0
    /\ UNCHANGED etbVars

Next ==
    \/ ClearFault
    \/ \E second \in {"agrees", "differs", None}, off \in BOOLEAN, dt \in Lapses : UpdateThrottle(second, off, dt)
    \/ \E engine_running \in BOOLEAN, dt \in Lapses : UpdateHeater(engine_running, dt)

Spec == Init /\ [][Next]_vars

----------------------------------------------------------------------------
(* Properties.                                                             *)

\* However readings with and without the second sensor, agreeing or not, follow one another, the
\* motor lets go with the sample that makes too many or too long, and stays so until somebody
\* clears the fault; and no other history stops it.
FaultStopsMotor == (etb.fault # None <=> tripped) /\ (driven => ~tripped)

\* The heater is above condensation_volts only when the engine has been turning without a break
\* for the whole of condensation_ms, however often it was stopped and started before.
DryBeforeHot == heater.volts > Warm => turned >= Dry

\* Both controllers protect what they drive.
GuardsHold == FaultStopsMotor /\ DryBeforeHot
=============================================================================
