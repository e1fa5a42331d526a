---------------------------- MODULE LoopOutputs ----------------------------
(***************************************************************************)
(* The relays and valves of the fuel loop (stm32/src/main.rs,              *)
(* control_loop).  Each controller is called from two places: the pass of  *)
(* the loop, every 10 ms at the soonest and with an rpm of 0, and the      *)
(* teeth that the pass then drains, the reference tooth above all.  The    *)
(* pass knows its own length only, in whole milliseconds, and a pass in    *)
(* which nothing is driven lasts less than one.                            *)
(*                                                                         *)
(* Duties and integrals are counted in small steps.  Suspension by the     *)
(* throttle, the boost table and the boost integral (closed loop is never  *)
(* asked for) are left out.                                                *)
(***************************************************************************)
EXTENDS Integers, Sequences, SequencesExt, FiniteSetsExt

CONSTANTS
    Prime,          \* FuelPumpConfig.prime_duration_ms
    ShutdownDelay,  \* FuelPumpConfig.shutdown_delay_ms
    Lengths,        \* dt_ms of a pass: whole milliseconds
    CrankDuty,      \* IdleConfig.cranking_duty
    MaxDuty,        \* IdleConfig.max_duty
    Abnormal        \* bound: how many readings are abnormal at a time

Level == {"Normal", "Warning", "Critical", "Emergency"}    \* LimpModeState, in this order
Condition == {"Overheat", "LowOilPressure", "OverheatIat", "LowBattery"}
Rank(l) == CASE l = "Normal" -> 0 [] l = "Warning" -> 1 [] l = "Critical" -> 2 [] l = "Emergency" -> 3

Speed == {"crank", "idle", "fast"}  \* below cranking_rpm; in reach of idle control; above min_rpm of boost

VARIABLES
    turning,    \* teeth arrive
    pump,       \* FuelPumpController: state, left (remaining_ms), timer
    pump_relay,
    idle,       \* IdleController: state, duty, integral, first
    boosting,   \* the wastegate duty is not 0
    fan,        \* FanController and its relay
    slots,      \* ProtectionMonitor.active_conditions
    limp,       \* ProtectionMonitor.state
    \* history
    seen,       \* the level that each reading of the latest actuator update calls for
    quiet,      \* whole milliseconds of the passes since the latest tooth
    ran         \* a reference tooth was handled since the engine began to turn

vars == <<turning, pump, pump_relay, idle, boosting, fan, slots, limp, seen, quiet, ran>>

\* What the proofs ask of the constants: times and duties are whole.
Parameters ==
    /\ Prime \in Nat /\ ShutdownDelay \in Nat /\ Lengths \subseteq Nat
    /\ CrankDuty \in Nat /\ MaxDuty \in Nat /\ Abnormal \in Nat

NoCondition == "None"
Slots == 5      \* 8 in the code; one more than can be filled
Empty == [i \in 1 .. Slots |-> NoCondition]

\* Key on: the pump is primed before the loop starts.
Init ==
    /\ turning = FALSE
    /\ pump = [state |-> "Priming", left |-> Prime, timer |-> 0] /\ pump_relay = TRUE
    /\ idle = [state |-> "Stopped", duty |-> 0, integral |-> 0, first |-> TRUE]
    /\ boosting = FALSE /\ fan = FALSE
    /\ slots = Empty /\ limp = "Normal"
    /\ seen = [c \in Condition |-> "Normal"] /\ quiet = 0 /\ ran = FALSE

Least(a, b) == IF a < b THEN a ELSE b

Running == [state |-> "Running", left |-> 0, timer |-> 0]
Off == [state |-> "Off", left |-> 0, timer |-> 0]

\* mutant: a turning engine does not restart the delay
UpdatePump_KeepTimer(turns, dt) ==
    CASE pump.state = "Off" -> IF turns THEN Running ELSE Off
      [] pump.state = "Priming" /\ pump.left <= dt -> IF turns THEN Running ELSE Off
      [] pump.state = "Priming" /\ pump.left > dt -> [pump EXCEPT !.left = @ - dt]
      [] pump.state = "Running" /\ turns -> pump
      [] pump.state = "Running" /\ ~turns ->
            IF pump.timer + dt >= ShutdownDelay THEN Off ELSE [pump EXCEPT !.timer = @ + dt]
\* FuelPumpController::update; turns: rpm >= min_rpm.
UpdatePump(turns, dt) ==
    CASE pump.state = "Off" -> IF turns THEN Running ELSE Off
      [] pump.state = "Priming" /\ pump.left <= dt -> IF turns THEN Running ELSE Off
      [] pump.state = "Priming" /\ pump.left > dt -> [pump EXCEPT !.left = @ - dt]
      [] pump.state = "Running" /\ turns -> Running
      [] pump.state = "Running" /\ ~turns ->
            IF pump.timer + dt >= ShutdownDelay THEN Off ELSE [pump EXCEPT !.timer = @ + dt]

\* FanController::update: between off_temp and on_temp it stays as it is.
UpdateFan(clt) == CASE clt = "cold" -> FALSE [] clt = "between" -> fan [] clt = "hot" -> TRUE

\* IdleController::update with a closed throttle; error: target less actual rpm, 0 in the deadband.
UpdateIdle(state, error) ==
    LET i == IF state = idle.state THEN idle
             ELSE [idle EXCEPT !.state = state, !.integral = 0, !.first = TRUE]
        sum == IF i.first THEN 0 ELSE Least(i.integral + error, MaxDuty - error)
        integral == IF sum < -error THEN -error ELSE sum
        duty == error + integral
    IN CASE state = "Stopped" -> [i EXCEPT !.duty = 0]
         [] state = "Cranking" -> [i EXCEPT !.duty = CrankDuty]
         [] state = "Suspended" -> i
         [] state = "Active" /\ error = 0 -> i
         [] state = "Active" /\ error # 0 ->
                [i EXCEPT !.integral = integral, !.first = FALSE,
                          !.duty = IF duty < 0 THEN 0 ELSE Least(duty, MaxDuty)]

\* LimpModeState::max over what was found.
Worst(levels) == CHOOSE l \in levels \cup {"Normal"} : \A k \in levels : Rank(k) <= Rank(l)

\* The conditions that are not normal, in the order of the code: each is written behind those
\* before it.
Found(levels) ==
    LET Add(found, c) == IF levels[c] = "Normal" THEN found ELSE Append(found, c)
    IN Add(Add(Add(Add(<<>>, "Overheat"), "LowOilPressure"), "OverheatIat"), "LowBattery")

\* mutant: the slots behind the last condition keep what they held
UpdateSlots_KeepRest(levels) ==
    [i \in 1 .. Slots |-> IF i <= Len(Found(levels)) THEN Found(levels)[i] ELSE slots[i]]
\* ProtectionMonitor::update: conditions are written from the first slot on, the rest is cleared.
UpdateSlots(levels) ==
    [i \in 1 .. Slots |-> IF i <= Len(Found(levels)) THEN Found(levels)[i] ELSE NoCondition]

\* What readings call for: at most so many are abnormal, and equally so; intake air and the
\* battery know no emergency.
Readings ==
    {[c \in Condition |-> IF c \in a.bad THEN a.level ELSE "Normal"] :
        a \in {x \in [bad : SUBSET Condition, level : Level] :
                /\ Cardinality(x.bad) <= Abnormal
                /\ x.level = "Emergency" => x.bad \subseteq {"Overheat", "LowOilPressure"}}}

\* The actuator updates of a pass of dt ms.
Actuate(dt, levels, clt) ==
    /\ slots' = UpdateSlots(levels)
    /\ limp' = Worst(Range(levels))
    /\ seen' = levels
    /\ pump' = UpdatePump(FALSE, dt)
    /\ pump_relay' = (pump'.state # "Off")
    /\ fan' = UpdateFan(clt)
    /\ idle' = UpdateIdle("Stopped", 0)
    /\ boosting' = FALSE
    /\ quiet' = Least(quiet + dt, ShutdownDelay)
    /\ UNCHANGED <<turning, ran>>

\* A pass that begins less than 10 ms after the latest actuator update.
Skip(dt) ==
    /\ dt > 0
    /\ quiet' = Least(quiet + dt, ShutdownDelay)
    /\ UNCHANGED <<turning, pump, pump_relay, idle, boosting, fan, slots, limp, seen, ran>>

\* A tooth with an rpm above 50.
Tooth ==
    /\ turning
    /\ pump' = UpdatePump(TRUE, 0)
    /\ pump_relay' = (pump_relay \/ pump'.state # "Off")
    /\ quiet' = 0
    /\ UNCHANGED <<turning, idle, boosting, fan, slots, limp, seen, ran>>

\* The reference tooth, in sync.
ReferenceTooth(speed, error) ==
    /\ turning
    /\ pump' = UpdatePump(TRUE, 0)
    /\ pump_relay' = (pump_relay \/ pump'.state # "Off")
    /\ idle' = UpdateIdle(CASE speed = "crank" -> "Cranking" [] speed = "idle" -> "Active"
                            [] speed = "fast" -> "Suspended", error)
    /\ boosting' = (speed = "fast")
    /\ quiet' = 0 /\ ran' = TRUE
    /\ UNCHANGED <<turning, fan, slots, limp, seen>>

Turn == ~turning /\ turning' = TRUE /\ UNCHANGED <<pump, pump_relay, idle, boosting, fan, slots, limp, seen, quiet, ran>>
Stall ==
    /\ turning /\ turning' = FALSE /\ ran' = FALSE
    /\ UNCHANGED <<pump, pump_relay, idle, boosting, fan, slots, limp, seen, quiet>>

Pass == \E dt \in Lengths, levels \in Readings, clt \in {"cold", "between", "hot"} : Actuate(dt, levels, clt)

Next ==
    \/ Pass \/ Tooth \/ Turn \/ Stall
    \/ \E dt \in Lengths : Skip(dt)
    \/ \E speed \in Speed, error \in -1 .. 1 : ReferenceTooth(speed, error)

Spec == Init /\ [][Next]_vars

\* The task of the loop is polled again and again, and 10 ms go by again and again.
FairSpec == Spec /\ WF_vars(Pass)

----------------------------------------------------------------------------
(* Properties.                                                             *)

\* A pump that runs is switched off only when no tooth has come for the shutdown delay: neither a
\* pass between two teeth nor many of them in a row, each a little late, stops it.  (A pump that
\* is still primed goes off at the end of its time even if the engine turns, until the next tooth.)
PumpOutlastsPauses ==
    [][pump.state = "Running" /\ pump'.state = "Off" => quiet' >= ShutdownDelay]_vars

\* The conditions in the slots are those of the latest readings, each once and from the first slot
\* on, whatever was found before; the limp state is normal exactly when there are none.
ConditionsAreCurrent ==
    /\ {slots[i] : i \in 1 .. Slots} \ {NoCondition} = {c \in Condition : seen[c] # "Normal"}
    /\ \A i, j \in 1 .. Slots : i < j /\ slots[j] # NoCondition => slots[i] \notin {slots[j], NoCondition}
    /\ limp = "Normal" <=> slots = Empty

\* "RPM threshold below which pump is turned off (safety)" (outputs/mod.rs:23): when the engine
\* has stalled and stays still, its pump goes off in the end.
PumpStops == pump.state = "Running" /\ ~turning ~> turning \/ ~pump_relay

\* "Engine stopped" (actuators/idle.rs:90) is the state of idle control when the engine has
\* stopped, not between two reference teeth of an engine that turns.
IdleKnowsEngine == turning /\ ran => idle.state # "Stopped"
=============================================================================
