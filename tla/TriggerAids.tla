----------------------------- MODULE TriggerAids -----------------------------
(***************************************************************************)
(* What stands beside the missing-tooth decoder in                         *)
(* engine-core/src/trigger/missing_tooth.rs: the decoder of the 36-2-2-2   *)
(* wheel, the filter of a noisy sensor, the speed from tooth to tooth and  *)
(* the choice of an injection mode.  A behaviour drives one of them.       *)
(***************************************************************************)
EXTENDS Integers, Sequences

CONSTANTS
    Present,    \* 30 teeth between two sync points
    SyncEdge,   \* GmTriggerConfig.sync_edge: "Rise", "Fall" or "Both"
    Intervals,  \* bound: times between crank edges
    MaxTooth,   \* MAX_TOOTH_DURATION_US
    MinWidth,   \* min_pulse_width_us
    Stability,  \* stability_threshold
    Required,   \* required_cycles
    Speeds      \* bound: speeds of a tooth, in rpm

VARIABLES
    aid,        \* which of the four runs
    gm,         \* GmTriggerDecoder: first, durations (latest first), count, sync, phase
    filter,     \* TriggerNoiseFilter: raw, state, stable, age (time since last_valid_edge_us)
    ring,       \* InstantRpmCalculator: rpm (the ring), idx, smoothed
    injection,  \* SequentialModeSelector: mode, cycles
    \* history
    edges,      \* crank edges since the latest sync point
    cam,        \* a cam edge came since the latest sync point
    steady,     \* samples in a row that were alike: now, and at the latest change of the state
    teeth,      \* speeds of the latest teeth, latest first
    synced      \* cycles in a row in full sync

vars == <<aid, gm, filter, ring, injection, edges, cam, steady, teeth, synced>>
gmVars == <<gm, edges, cam>>
filterVars == <<filter, steady>>
ringVars == <<ring, teeth>>
modeVars == <<injection, synced>>

\* What the proofs ask of the constants: whole numbers, levels that take a sample to change, and
\* a mode that takes more than one cycle to earn.
Parameters ==
    /\ Present \in Nat /\ Intervals \subseteq Nat /\ MaxTooth \in Nat /\ MinWidth \in Nat
    /\ Stability \in Nat \ {0} /\ Required \in Nat \ {0, 1} /\ Speeds \subseteq Nat \ {0}

Least(a, b) == IF a < b THEN a ELSE b

NewDecoder == [first |-> TRUE, durations |-> <<0, 0, 0>>, count |-> 0, sync |-> "Unsynced", phase |-> FALSE]

Init ==
    /\ aid \in {"gm", "filter", "ring", "mode"}
    /\ gm = NewDecoder /\ edges = 0 /\ cam = FALSE
    /\ filter = [raw |-> FALSE, state |-> FALSE, stable |-> 0, age |-> 0] /\ steady = [now |-> 0, change |-> Stability]
    /\ ring = [rpm |-> <<0, 0, 0, 0>>, idx |-> 0, smoothed |-> -1] /\ teeth = <<>>
    /\ injection = [mode |-> "Simultaneous", cycles |-> 0] /\ synced = 0

----------------------------------------------------------------------------
(* GmTriggerDecoder.                                                       *)

\* The latest of three intervals is 2.5 to 3.5 times the one before, that one 1.5 to 3.5 times
\* the first.
IsSyncPoint(d) ==
    /\ d[2] > 0 /\ d[3] > 0
    /\ 2 * d[1] >= 5 * d[2] /\ 2 * d[1] <= 7 * d[2]
    /\ 2 * d[2] >= 3 * d[3] /\ 2 * d[2] <= 7 * d[3]

Considered(rise) == SyncEdge = "Both" \/ rise = (SyncEdge = "Rise")

\* process at a sync point
SyncPoint(d) ==
    IF gm.sync # "Unsynced" /\ gm.count # Present
    THEN [gm EXCEPT !.first = FALSE, !.durations = d, !.sync = "Unsynced", !.count = 0]
    ELSE [gm EXCEPT !.first = FALSE, !.durations = d, !.sync = "CrankSynced", !.count = 0]
\* process at any other tooth
Tooth(d) ==
    IF gm.sync # "Unsynced" /\ gm.count >= Present
    THEN [gm EXCEPT !.first = FALSE, !.durations = d, !.sync = "Unsynced", !.count = 0]
    ELSE [gm EXCEPT !.first = FALSE, !.durations = d, !.count = Least(@ + 1, Present + 1)]

\* A crank edge; an edge of the other direction is counted and timed all the same.
CrankEdge(rise, interval) ==
    /\ aid = "gm"
    /\ LET d == <<IF gm.first THEN 0 ELSE interval, gm.durations[1], gm.durations[2]>> IN
       IF ~gm.first /\ interval > MaxTooth THEN gm' = NewDecoder
       ELSE IF ~Considered(rise) THEN gm' = [gm EXCEPT !.first = FALSE, !.count = Least(@ + 1, Present + 1)]
       ELSE gm' = IF IsSyncPoint(d) THEN SyncPoint(d) ELSE Tooth(d)
    /\ LET lost == gm'.sync = "Unsynced"
           point == ~lost /\ gm'.count = 0 IN
       /\ edges' = IF lost \/ point THEN 0 ELSE Least(edges + 1, Present + 1)
       /\ cam' = (cam /\ ~lost /\ ~point)
    /\ UNCHANGED <<aid, filterVars, ringVars, modeVars>>

\* The phase is that of the half in which the cam edge comes (15 of 30 teeth); late: the crank has
\* been still for longer than MaxTooth.
CamEdge(late) ==
    /\ aid = "gm"
    /\ gm' = IF late /\ ~gm.first THEN NewDecoder
             ELSE IF gm.sync = "CrankSynced"
             THEN [gm EXCEPT !.phase = gm.count > Present \div 2, !.sync = "FullSync"] ELSE gm
    /\ cam' = (gm'.sync # "Unsynced")
    /\ edges' = IF gm'.sync = "Unsynced" THEN 0 ELSE edges
    /\ UNCHANGED <<aid, filterVars, ringVars, modeVars>>

\* CyclePosition::from_phase_and_angle
Stroke(phase, deg) ==
    LET at == IF phase THEN deg + 360 ELSE deg
    IN CASE at <= 180 -> "Intake" [] at > 180 /\ at <= 360 -> "Compression"
         [] at > 360 /\ at <= 540 -> "Power" [] at > 540 -> "Exhaust"
\* absolute_angle_deg, the share of a turn that a tooth stands for in degrees
AbsoluteAngle(perTooth) ==
    gm.count * perTooth + (IF gm.sync = "FullSync" /\ gm.phase THEN 360 ELSE 0)

----------------------------------------------------------------------------
(* TriggerNoiseFilter::process, a sample later by gap.                     *)

Filtered(f, raw) == [f EXCEPT !.raw = raw, !.stable = 0]

Sample(raw, gap) ==
    /\ aid = "filter"
    /\ LET f == [filter EXCEPT !.age = Least(@ + gap, MinWidth)]
           stable == Least(f.stable + 1, Stability)
       IN filter' = IF raw # f.raw THEN Filtered(f, raw)
                    ELSE IF stable >= Stability /\ raw # f.state /\ f.age >= MinWidth
                    THEN [f EXCEPT !.stable = stable, !.state = raw, !.age = 0]
                    ELSE [f EXCEPT !.stable = stable]
    /\ LET now == IF raw = filter.raw THEN Least(steady.now + 1, Stability) ELSE 0
       IN steady' = [now |-> now, change |-> IF filter'.state # filter.state THEN now ELSE steady.change]
    /\ UNCHANGED <<aid, gmVars, ringVars, modeVars>>

----------------------------------------------------------------------------
(* InstantRpmCalculator::update; an rpm of 0 stands for a tooth that took no time.*)

Sum4(s) == s[1] + s[2] + s[3] + s[4]
Update(rpm) ==
    /\ aid = "ring"
    /\ IF rpm = 0 THEN UNCHANGED ringVars
       ELSE /\ ring' = LET now == [ring.rpm EXCEPT ![ring.idx + 1] = rpm]
                       IN [rpm |-> now, idx |-> (ring.idx + 1) % 4, smoothed |-> Sum4(now)]
            /\ teeth' = SubSeq(<<rpm>> \o teeth, 1, Least(Len(teeth) + 1, 4))
    /\ UNCHANGED <<aid, gmVars, filterVars, modeVars>>
Latest == ring.rpm[((ring.idx + 3) % 4) + 1]
\* variance: of the teeth seen, about the average of four, times 16
Square(x, sum) == (4 * x - sum) * (4 * x - sum)
Squares == Sum4([i \in 1 .. 4 |-> IF ring.rpm[i] > 0 THEN Square(ring.rpm[i], ring.smoothed) ELSE 0])

----------------------------------------------------------------------------
(* SequentialModeSelector::update                                          *)

Select(full) ==
    /\ aid = "mode"
    /\ LET cycles == Least(injection.cycles + 1, Required) IN
       injection' = IF ~full THEN [mode |-> "Simultaneous", cycles |-> 0]
                    ELSE [cycles |-> cycles,
                          mode |-> IF cycles >= Required THEN "Sequential"
                                   ELSE IF cycles >= Required \div 2 THEN "Grouped" ELSE injection.mode]
    /\ synced' = IF full THEN Least(synced + 1, Required) ELSE 0
    /\ UNCHANGED <<aid, gmVars, filterVars, ringVars>>

Next ==
    \/ \E rise \in BOOLEAN, interval \in Intervals : CrankEdge(rise, interval)
    \/ \E late \in BOOLEAN : CamEdge(late)
    \/ \E raw \in BOOLEAN, gap \in 1 .. 2 : Sample(raw, gap)
    \/ \E rpm \in Speeds \cup {0} : Update(rpm)
    \/ \E full \in BOOLEAN : Select(full)

Spec == Init /\ [][Next]_vars

----------------------------------------------------------------------------
(* Properties.                                                             *)

\* In sync the decoder of the 36-2-2-2 wheel knows how many edges have come since its sync point,
\* full sync has been earned by a cam edge since then, and the stroke is that of the angle.
PositionIsCounted ==
    /\ gm.sync # "Unsynced" => gm.count = edges
    /\ gm.sync = "FullSync" => cam
    /\ Stroke(gm.sync = "FullSync" /\ gm.phase, gm.count * 20) = Stroke(FALSE, AbsoluteAngle(20))

\* The filtered level follows the sensor after so many further samples were alike and not before,
\* whatever chatter there is; a level that the sensor has left stays only for want of those, or
\* because the change before is too recent.
FilterIsSteady ==
    /\ steady.change >= Stability
    /\ filter.state # filter.raw => steady.now < Stability \/ filter.age < MinWidth

\* The smoothed speed is that of the latest four teeth, wherever the ring stands.
RingHoldsLatest ==
    Len(teeth) = 4 =>
        /\ ring.smoothed = Sum4(teeth) /\ Latest = teeth[1]
        /\ Squares = Sum4([i \in 1 .. 4 |-> Square(teeth[i], Sum4(teeth))])

\* Sequential injection is earned by so many cycles in a row in full sync, and one cycle without
\* takes it away.
ModeIsEarned ==
    /\ injection.mode = "Sequential" <=> synced >= Required
    /\ injection.mode = "Grouped" => synced >= Required \div 2
    /\ injection.mode = "Simultaneous" => synced < Required \div 2

TriggerAidsHold == PositionIsCounted /\ FilterIsSteady /\ RingHoldsLatest /\ ModeIsEarned
=============================================================================
