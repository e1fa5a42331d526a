---------------------------- MODULE MissingTooth ----------------------------
(***************************************************************************)
(* MissingToothDecoder (engine-core/src/trigger/missing_tooth.rs) as       *)
(* operators: a decoder is a record, and processing an edge maps a decoder *)
(* to the next one and an error, or None.                                  *)
(*                                                                         *)
(* Time enters as `elapsed`, now_us minus prev_timestamp_us: the decoder   *)
(* never looks at an absolute time.  The firmware feeds only rising edges  *)
(* and sync_edge is Rise, so the edge filter lets everything through.      *)
(* Angles and cycle_position follow from count, sync and phase; an rpm is  *)
(* the tooth interval it is computed from (0: no estimate).  Ratios are    *)
(* compared exactly, f32 rounding is left out.  cam_tooth_count is written *)
(* and never read.                                                         *)
(***************************************************************************)
EXTENDS Integers, Sequences

CONSTANTS
    TotalTeeth, MissingTeeth,   \* MissingToothConfig
    MaxTooth,                   \* MAX_TOOTH_DURATION_US
    CounterMax,                 \* sync_counter saturates here (u32::MAX)
    None

ASSUME WheelAssumption ==
    /\ TotalTeeth \in Nat \ {0} /\ MissingTeeth \in Nat \ {0}
    /\ MissingTeeth <= TotalTeeth
ASSUME DecoderAssumption ==
    /\ MaxTooth \in Nat \ {0} /\ CounterMax \in Nat
    /\ None \notin {"TooFewTeeth", "TooManyTeeth", "EngineStalled"}

SyncStates == {"Unsynced", "CrankSynced", "FullSync"}
TriggerErrors == {"TooFewTeeth", "TooManyTeeth", "EngineStalled"}

\* dur[1] is the latest tooth interval, dur[2] the one before.
Decoder == [first : BOOLEAN, dur : Nat \X Nat, count : Nat, sync : SyncStates,
            cycles : 0 .. CounterMax, rpm : Nat, phase : BOOLEAN]

NewDecoder == [first |-> TRUE, dur |-> <<0, 0>>, count |-> 0, sync |-> "Unsynced",
               cycles |-> 0, rpm |-> 0, phase |-> FALSE]

\* reset leaves only the timestamp behind, which first_event masks.
Reset(d) == NewDecoder

PresentTeeth == TotalTeeth - MissingTeeth
ExpectedGapRatio == MissingTeeth + 1

Synced(d) == d.sync # "Unsynced"

\* The gap ratio test, both sides doubled: |latest/before - expected| <= 1/2, and < 1/2 on a
\* wheel of more than six teeth (the "secondary noise rejection").
IsGap(latest, before) ==
    /\ before # 0
    /\ 2 * latest >= (2 * ExpectedGapRatio - 1) * before
    /\ 2 * latest <= (2 * ExpectedGapRatio + 1) * before
    /\ TotalTeeth > 6 =>
        /\ 2 * latest # (2 * ExpectedGapRatio - 1) * before
        /\ 2 * latest # (2 * ExpectedGapRatio + 1) * before

TimedOut(d, elapsed) == ~d.first /\ elapsed > MaxTooth

Ok(d) == [dec |-> d, err |-> None]
Fail(d, e) == [dec |-> d, err |-> e]
LoseSync(d, e) == Fail([d EXCEPT !.sync = "Unsynced", !.count = 0], e)

Saturating(n) == IF n < CounterMax THEN n + 1 ELSE n

\* A synchronisation point: the count since the last one must be that of the wheel.
SyncPoint_KeepFull(d) ==
    IF Synced(d) /\ d.count < PresentTeeth THEN LoseSync(d, "TooFewTeeth")
    ELSE IF Synced(d) /\ d.count > PresentTeeth THEN LoseSync(d, "TooManyTeeth")
    ELSE Ok([d EXCEPT !.sync = IF Synced(d) THEN d.sync ELSE "CrankSynced", !.count = 0])
SyncPoint_NoCountReset(d) ==
    Ok([d EXCEPT !.sync = "CrankSynced"])
SyncPoint_EarlyGapIsTooth(d) ==
    IF Synced(d) /\ d.count < PresentTeeth THEN Ok([d EXCEPT !.count = d.count + 1])
    ELSE IF Synced(d) /\ d.count > PresentTeeth THEN LoseSync(d, "TooManyTeeth")
    ELSE Ok([d EXCEPT !.sync = "CrankSynced", !.count = 0])
SyncPoint(d) ==
    IF Synced(d) /\ d.count < PresentTeeth THEN LoseSync(d, "TooFewTeeth")
    ELSE IF Synced(d) /\ d.count > PresentTeeth THEN LoseSync(d, "TooManyTeeth")
    ELSE Ok([d EXCEPT !.sync = "CrankSynced", !.count = 0,
                      !.cycles = IF Synced(d) THEN Saturating(d.cycles) ELSE 0])

\* Any other tooth; the rpm estimate takes the interval before the latest one.
NormalTooth_OffByOne(d) ==
    IF Synced(d) /\ d.count >= PresentTeeth - 1 THEN LoseSync(d, "TooManyTeeth")
    ELSE Ok([d EXCEPT !.count = d.count + 1,
                      !.rpm = IF d.dur[2] > 0 THEN d.dur[2] ELSE d.rpm])
NormalTooth(d) ==
    IF Synced(d) /\ d.count >= PresentTeeth THEN LoseSync(d, "TooManyTeeth")
    ELSE Ok([d EXCEPT !.count = d.count + 1,
                      !.rpm = IF d.dur[2] > 0 THEN d.dur[2] ELSE d.rpm])

\* process(CrankRise, now)
ProcessCrank(d, elapsed) ==
    IF TimedOut(d, elapsed) THEN Fail(Reset(d), "EngineStalled")
    ELSE LET duration == IF d.first THEN 0 ELSE elapsed
             seen == [d EXCEPT !.first = FALSE, !.dur = <<duration, d.dur[1]>>]
         IN IF IsGap(duration, d.dur[1]) THEN SyncPoint(seen) ELSE NormalTooth(seen)

\* process(CamRise, now): the first cam pulse after a sync point settles the phase.
ProcessCam(d, elapsed) ==
    IF TimedOut(d, elapsed) THEN Fail(Reset(d), "EngineStalled")
    ELSE IF d.sync = "CrankSynced"
         THEN Ok([d EXCEPT !.phase = d.count > PresentTeeth \div 2, !.sync = "FullSync"])
         ELSE Ok(d)
=============================================================================
