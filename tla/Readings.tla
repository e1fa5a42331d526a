------------------------------ MODULE Readings ------------------------------
(***************************************************************************)
(* How readings are made (engine-core/src/sensors, the ADC drivers and the *)
(* snapshot at the head of the control loop): one channel at a time, from  *)
(* the raw value by volts and a conversion into a filter.  A filtered      *)
(* value is kept times Scale, which makes the filter's fractions exact for *)
(* MaxPasses passes; readings are in tenths of their unit, voltages in mV, *)
(* lambda in thousandths.  The thermistor formula, which nothing in the    *)
(* firmware uses, is left out; its divider is here.                        *)
(***************************************************************************)
EXTENDS Integers, Sequences, SequencesExt, FiniteSetsExt

CONSTANTS
    None,
    Wired,      \* channels the board's driver reads; it answers 0 for the others
    Raw,        \* what the converter may deliver, 0 .. 4095
    MaxPasses,  \* bound
    Volts       \* mV at which conversions are compared

VARIABLES
    channel,    \* the channel followed
    smoothed,   \* IirFilter: value and initialized
    samples,    \* history: what the filter was fed
    present     \* history: the value read in the last pass, None before

vars == <<channel, smoothed, samples, present>>

\* IirFilter::new in control_loop: alpha in twentieths
Alpha == [Clt |-> 2, Iat |-> 2, Map |-> 4, Tps |-> 6, OilPressure |-> 1, FuelLevel |-> 1]
Channel == DOMAIN Alpha \cup {"Vbatt", "Lambda1"}
Scale == 20 ^ MaxPasses

\* What the proofs ask of the constants: whole numbers, of which None is not one.
Parameters == Raw \subseteq Nat /\ MaxPasses \in Nat /\ Scale \in Nat /\ Volts \subseteq Int /\ None \notin Int

Init ==
    /\ channel \in Channel
    /\ smoothed = [value |-> 0, initialized |-> FALSE]
    /\ samples = <<>> /\ present = None

----------------------------------------------------------------------------
(* Conversions.                                                            *)

AdcToVolts(raw) == (raw * 3300) \div 4096
Within(v, low, high) == Min({Max({v, low}), high})

\* A quotient rounded down, whichever way the sensor's line runs.
Over(x, span) == IF span > 0 THEN x \div span ELSE (-x) \div (-span)

\* LambdaSensor::voltage_to_lambda
Wideband(lean, rich, v) ==
    LET stoich == (lean + rich) \div 2
        lambda == IF v <= stoich THEN IF stoich = lean THEN 1000 ELSE 2000 - Over((v - lean) * 1000, stoich - lean)
                  ELSE IF rich = stoich THEN 1000 ELSE 1000 - Over((v - stoich) * 500, rich - stoich)
    IN IF v \in 0 .. 5000 THEN Within(lambda, 500, 2000) ELSE None
Narrowband(v) ==
    IF v \notin 0 .. 1000 THEN None ELSE IF v < 450 THEN 900 ELSE IF v > 550 THEN 1100 ELSE 1000

\* MafSensor, FuelLevelSensor, OilPressureSensor: a share of the range of volts; LinearSensor: any line.
Share(low, high, full, v) == IF v < low \/ v > high THEN None ELSE ((v - low) * full) \div (high - low)
Linear(v1, out1, v2, out2, low, high, v) ==
    LET out == out1 + Over((out2 - out1) * (v - v1), v2 - v1) IN IF out < low \/ out > high THEN None ELSE out

\* voltage_to_resistance
Resistance(v, supply, bias) == IF v <= 0 \/ v >= supply THEN None ELSE (bias * v) \div (supply - v)

----------------------------------------------------------------------------
(* The pass of the control loop.                                           *)

\* AdcInput::read_raw of the boards
ReadRaw(c, raw) == IF c \in Wired THEN raw ELSE 0

\* What the loop makes of the volts.
Converted(c, mv) ==
    CASE c = "Map"               -> mv \div 2
      [] c \in {"Clt", "Iat"}    -> mv - 500
      [] c = "Tps"               -> Within(mv \div 5, 0, 1000)
      [] c = "OilPressure"       -> (mv * 14) \div 10
      [] c = "FuelLevel"         -> Within((mv * 10) \div 33, 0, 1000)
      [] c = "Vbatt"             -> (mv * 8232) \div 100000
      [] c = "Lambda1"           -> LET lambda == Wideband(0, 5000, mv) IN IF lambda = None THEN 1000 ELSE lambda

\* mutant: alpha taken for the weight of the past.
Update_Swapped(f, alpha, sample) ==
    IF f.initialized THEN [f EXCEPT !.value = ((20 - alpha) * sample * Scale + alpha * f.value) \div 20]
    ELSE [value |-> sample * Scale, initialized |-> TRUE]
\* IirFilter::update
Update(f, alpha, sample) ==
    IF f.initialized THEN [f EXCEPT !.value = (alpha * sample * Scale + (20 - alpha) * f.value) \div 20]
    ELSE [value |-> sample * Scale, initialized |-> TRUE]

Pass(raw) ==
    LET sample == Converted(channel, AdcToVolts(ReadRaw(channel, raw)))
        filtered == channel \in DOMAIN Alpha
    IN /\ Len(samples) < MaxPasses
       /\ samples' = Append(samples, sample)
       /\ smoothed' = IF filtered THEN Update(smoothed, Alpha[channel], sample) ELSE smoothed
       /\ present' = IF filtered THEN smoothed'.value ELSE sample * Scale
       /\ UNCHANGED channel

Next == \E raw \in Raw : Pass(raw)

Spec == Init /\ [][Next]_vars

----------------------------------------------------------------------------
(* Properties.                                                             *)

\* A filtered reading is the mean of all readings so far in which each pass counts alpha of what
\* the later ones leave, and the first all the rest: it starts at what is read, and not at zero.
ReadingIsTheMean ==
    (channel \in DOMAIN Alpha /\ samples # <<>>) =>
        LET n == Len(samples)
            weight == [i \in 1 .. n |-> (IF i = 1 THEN 20 ELSE Alpha[channel]) * (20 - Alpha[channel]) ^ (n - i)
                                        * 20 ^ (i - 1) * 20 ^ (MaxPasses - n)]
        IN present = FoldLeft(LAMBDA sum, i : sum + weight[i] * samples[i], 0, [i \in 1 .. n |-> i])

\* The reading stays among those it is made of.
ReadingIsBetween ==
    samples # <<>> => present \in Min({samples[i] : i \in 1 .. Len(samples)}) * Scale
                               .. Max({samples[i] : i \in 1 .. Len(samples)}) * Scale

\* More volts are never less lambda's leanness, nor less of what the others measure, and the ends and
\* the middle of each range are where the sensor's description puts them.
ConversionsAreOrdered ==
    /\ \A a, b \in Volts : a <= b =>
          /\ 0 <= a /\ b <= 5000 => Wideband(0, 5000, b) <= Wideband(0, 5000, a)
          /\ 500 <= a /\ b <= 4500 => Share(500, 4500, 7000, a) <= Share(500, 4500, 7000, b)
          /\ 1 <= a /\ b <= 4999 => Resistance(a, 5000, 2700) <= Resistance(b, 5000, 2700)
    /\ Wideband(0, 5000, 0) = 2000 /\ Wideband(0, 5000, 2500) = 1000 /\ Wideband(0, 5000, 5000) = 500
    /\ Share(500, 4500, 7000, 500) = 0 /\ Share(500, 4500, 7000, 4500) = 7000
    /\ \A a, b \in Volts : a # b =>
          /\ Linear(a, 100, b, 900, 0, 1000, a) = 100 /\ Linear(a, 100, b, 900, 0, 1000, b) = 900

\* Every lambda that is reported is one that a sensor can mean.
LambdaIsPlausible ==
    \A v \in Volts, lean, rich \in {0, 1000, 2500, 5000} :
        LET lambda == Wideband(lean, rich, v) IN lambda = None \/ (500 <= lambda /\ lambda <= 2000)

\* "`None` values indicate sensor failure or absence." (sensors/mod.rs:104)
AbsentIsNone == channel \notin Wired => present = None

ConversionsHold == ConversionsAreOrdered /\ LambdaIsPlausible
=============================================================================
