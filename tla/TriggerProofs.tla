--------------------------- MODULE TriggerProofs ---------------------------
(***************************************************************************)
(* On a wheel that gives PresentTeeth edges between two gap edges, sync is *)
(* right and is kept, for every wheel size and every steady speed range.   *)
(***************************************************************************)
EXTENDS Trigger, MissingToothProofs

\* The wheel of the simulator and of the decoder's tests.
SimulatorWheel == NormalEdges = PresentTeeth

\* A spurious edge comes before the next tooth, so time never runs backwards.
CarryOK == carry \in Nat \/ \E g \in Glitches : carry >= -g

\* What the decoder remembers on an undisturbed wheel: nothing yet, or the interval before the
\* tooth the wheel is at.  Without the interval the alignment alone is not inductive.
History ==
    decoder.dur[1] # 0 =>
        decoder.dur[1] \in (IF pos = 0 THEN {GapTime(p) : p \in Periods} ELSE Periods)

CleanInv ==
    noise = 0 =>
        /\ carry = 0
        /\ History
        /\ decoder.first => decoder.dur[1] = 0
        /\ Synced(decoder) => decoder.dur[1] # 0 /\ Aligned
        /\ decoder.sync = "FullSync" => cammed

Inv == TypeOK /\ CarryOK /\ CleanInv

----------------------------------------------------------------------------
(* The decoder keeps its type.                                             *)

LEMMA GapTimes ==
    ASSUME NEW p \in Periods
    PROVE  GapTime(p) \in Nat /\ GapTime(p) >= p /\ p \in Nat \ {0}
<1>1. p \in Nat \ {0} /\ ExpectedGapRatio \in Nat \ {0}
  BY EnvironmentAssumption, WheelAssumption DEF ExpectedGapRatio
<1>2. \A r, q \in Nat \ {0} : r * q \in Nat /\ r * q >= q
  OBVIOUS
<1> QED BY <1>1, <1>2 DEF GapTime

LEMMA FeedType ==
    ASSUME decoder \in Decoder, NEW elapsed \in Nat, Feed(elapsed)
    PROVE  decoder' \in Decoder /\ err' \in TriggerErrors \cup {None}
BY ProcessCrankType, NewDecoderType DEF Feed, Reset

----------------------------------------------------------------------------
(* One undisturbed tooth.                                                  *)

LEMMA CleanTooth ==
    ASSUME SimulatorWheel, TypeOK, CleanInv, noise = 0, NEW p \in Periods,
           Feed(carry + Interval(p)), Advance
    PROVE  /\ decoder'.dur[1] # 0 => decoder'.dur[1] = Interval(p)
           /\ ~decoder'.first
           /\ Synced(decoder)' => decoder'.dur[1] # 0 /\ decoder'.count = pos'
           /\ decoder'.sync = "FullSync" => cammed'
           /\ Synced(decoder) => Synced(decoder)'
<1> DEFINE t == IF decoder.first THEN 0 ELSE Interval(p)
           d == Seen(decoder, t)
<1>1. /\ carry = 0 /\ Interval(p) \in Nat \ {0} /\ ~TimedOut(decoder, Interval(p))
      /\ decoder \in Decoder /\ pos \in 0 .. NormalEdges /\ NormalEdges \in Nat \ {0}
  <2>1. carry = 0 /\ decoder \in Decoder /\ pos \in 0 .. NormalEdges /\ NormalEdges \in Nat \ {0}
    BY EnvironmentAssumption DEF CleanInv, TypeOK
  <2>2. GapTime(p) \in Nat \ {0} /\ p \in Nat \ {0}
    BY GapTimes
  <2>3. ~(p > MaxTooth) /\ ~(GapTime(p) > MaxTooth)
    BY <2>2, SteadyAssumption, DecoderAssumption
  <2> QED BY <2>1, <2>2, <2>3 DEF TimedOut, Interval
<1>2. d \in Decoder /\ t \in Nat
  BY <1>1, SeenType
<1>3. d.sync = decoder.sync /\ d.count = decoder.count /\ ~d.first /\ d.dur = <<t, decoder.dur[1]>>
  BY <1>1 DEF Seen, Decoder
<1>4. ProcessCrank(decoder, carry + Interval(p)) =
        IF IsGap(t, decoder.dur[1]) THEN SyncPoint(d) ELSE NormalTooth(d)
  <2>1. carry + Interval(p) = Interval(p)
    BY <1>1
  <2> QED BY <1>1, <2>1 DEF ProcessCrank, Seen
<1>5. CASE IsGap(t, decoder.dur[1])
  <2>1. decoder.dur[1] # 0 /\ ~decoder.first /\ t = Interval(p)
    BY <1>5 DEF IsGap, CleanInv
  <2>2. pos = NormalEdges
    <3> SUFFICES ASSUME pos # NormalEdges PROVE FALSE
      OBVIOUS
    <3>1. t = p
      BY <2>1 DEF Interval
    <3>2. (\E q \in Periods : decoder.dur[1] = GapTime(q)) \/ decoder.dur[1] \in Periods
      BY <2>1 DEF CleanInv, History
    <3> QED BY <1>5, <3>1, <3>2, SteadyAssumption
  <2>3. Synced(decoder) => decoder.count = PresentTeeth
    BY <2>2 DEF CleanInv, Aligned, SimulatorWheel
  <2>4. SyncPoint(d) = Ok([d EXCEPT !.sync = "CrankSynced", !.count = 0,
                              !.cycles = IF Synced(d) THEN Saturating(d.cycles) ELSE 0])
    BY <1>1, <1>3, <2>3, WheelAssumption DEF SyncPoint, Synced, PresentTeeth
  <2>5. decoder' = [d EXCEPT !.sync = "CrankSynced", !.count = 0,
                              !.cycles = IF Synced(d) THEN Saturating(d.cycles) ELSE 0]
    BY <1>4, <1>5, <2>4 DEF Feed, Ok
  <2>6. /\ decoder'.sync = "CrankSynced" /\ decoder'.count = 0 /\ ~decoder'.first
        /\ decoder'.dur[1] = t
    BY <1>2, <1>3, <2>5 DEF Decoder
  <2>7. pos' = 0
    BY <2>2 DEF Advance
  <2> QED BY <1>1, <2>1, <2>6, <2>7 DEF Synced
<1>6. CASE ~IsGap(t, decoder.dur[1])
  <2>1. Synced(decoder) => pos # NormalEdges
    <3> SUFFICES ASSUME Synced(decoder), pos = NormalEdges PROVE FALSE
      OBVIOUS
    <3>1. decoder.dur[1] # 0 /\ ~decoder.first
      BY DEF CleanInv
    <3>2. decoder.dur[1] \in Periods
      BY <1>1, <3>1 DEF CleanInv, History
    <3>3. t = GapTime(p)
      BY <3>1 DEF Interval
    <3> QED BY <1>6, <3>2, <3>3, SteadyAssumption
  <2>2. ~(Synced(d) /\ d.count >= PresentTeeth)
    BY <1>1, <1>3, <2>1, WheelAssumption DEF CleanInv, Aligned, Synced, SimulatorWheel, PresentTeeth
  <2>3. decoder' = [d EXCEPT !.count = d.count + 1,
                             !.rpm = IF d.dur[2] > 0 THEN d.dur[2] ELSE d.rpm]
    BY <1>4, <1>6, <2>2 DEF Feed, NormalTooth, Ok
  <2>4. /\ decoder'.sync = decoder.sync /\ decoder'.count = decoder.count + 1
        /\ ~decoder'.first /\ decoder'.dur[1] = t
    BY <1>2, <1>3, <2>3 DEF Decoder
  <2>5. Synced(decoder) => /\ ~decoder.first /\ decoder.count = pos
                           /\ pos' = pos + 1 /\ cammed' = cammed
    BY <2>1, <1>1 DEF CleanInv, Aligned, Advance, TypeOK
  <2>6. decoder.sync = "FullSync" => Synced(decoder) /\ cammed
    BY DEF CleanInv, Synced
  <2> QED BY <1>1, <2>4, <2>5, <2>6 DEF Synced
<1> QED BY <1>5, <1>6

----------------------------------------------------------------------------
LEMMA InitInv == Init => Inv
<1> SUFFICES ASSUME Init PROVE Inv
  OBVIOUS
<1>1. decoder \in Decoder /\ err = None /\ pos \in 0 .. NormalEdges /\ cammed = FALSE
  BY NewDecoderType DEF Init
<1>2. carry = 0 /\ noise = 0 /\ quiet = 0
  BY DEF Init
<1>3. 0 \in 0 .. MaxNoise /\ 0 \in 0 .. QuietCap
  BY EnvironmentAssumption DEF QuietCap, Turn
<1>4. TypeOK
  <2>1. cammed \in BOOLEAN /\ err \in TriggerErrors \cup {None}
    BY <1>1
  <2>2. carry \in Int /\ noise \in 0 .. MaxNoise /\ quiet \in 0 .. QuietCap
    BY <1>2, <1>3
  <2> QED BY <1>1, <2>1, <2>2, Zenon DEF TypeOK
<1>5. CarryOK /\ CleanInv
  BY DEF Init, CarryOK, CleanInv, History, NewDecoder, Synced
<1> QED BY <1>4, <1>5 DEF Inv

\* Time never runs backwards: the interval the decoder sees at a tooth is a natural number.
LEMMA ElapsedIsNat ==
    ASSUME TypeOK, CarryOK, NEW p \in Periods
    PROVE  carry + Interval(p) \in Nat
<1>1. Interval(p) \in Nat /\ Interval(p) >= p /\ p \in Nat
  BY GapTimes DEF Interval
<1>2. \A g \in Glitches : g \in Nat /\ g < p
  BY EnvironmentAssumption
<1> QED BY <1>1, <1>2 DEF CarryOK, TypeOK

\* The types are kept on any wheel.
LEMMA StepType ==
    ASSUME TypeOK, CarryOK, [Next]_vars
    PROVE  TypeOK' /\ CarryOK'
<1>a. /\ NormalEdges \in Nat \ {0} /\ QuietCap \in Nat /\ 0 \in 0 .. QuietCap
      /\ MaxNoise \in Nat /\ noise \in 0 .. MaxNoise /\ carry \in Int
  BY EnvironmentAssumption DEF QuietCap, Turn, TypeOK
<1>b. ASSUME Advance PROVE pos' \in 0 .. NormalEdges /\ cammed' \in BOOLEAN
  BY <1>a, <1>b DEF Advance, TypeOK
<1>d. ASSUME Disturbed PROVE noise' \in 0 .. MaxNoise /\ quiet' \in 0 .. QuietCap
  BY <1>a, <1>d DEF Disturbed
<1>1. CASE Tooth
  <2>1. PICK p \in Periods : Feed(carry + Interval(p))
    BY <1>1 DEF Tooth
  <2>2. decoder' \in Decoder /\ err' \in TriggerErrors \cup {None}
    BY <2>1, ElapsedIsNat, FeedType DEF TypeOK
  <2>3. quiet' \in 0 .. QuietCap
    BY <1>1, <1>a DEF Tooth, TypeOK
  <2> QED BY <1>1, <1>a, <1>b, <2>2, <2>3 DEF Tooth, TypeOK, CarryOK
<1>2. CASE CamPulse
  <2> DEFINE e == IF carry > 0 THEN carry ELSE 0
  <2>1. e \in Nat
    BY <1>a
  <2>2. decoder' \in Decoder /\ err' \in TriggerErrors \cup {None}
    BY <1>2, <2>1, ProcessCamType DEF CamPulse, TypeOK
  <2> QED BY <1>2, <2>2 DEF CamPulse, TypeOK, CarryOK
<1>3. CASE LostEdge
  <2>1. carry' \in Nat
    BY <1>3, ElapsedIsNat DEF LostEdge
  <2> QED BY <1>3, <1>b, <1>d, <2>1 DEF LostEdge, TypeOK, CarryOK
<1>4. CASE Glitch
  <2>1. PICK g \in Glitches : carry + g > 0 /\ Feed(carry + g) /\ carry' = -g
    BY <1>4 DEF Glitch
  <2>2. g \in Nat
    BY EnvironmentAssumption
  <2>3. carry + g \in Nat
    BY <1>a, <2>1, <2>2
  <2>4. decoder' \in Decoder /\ err' \in TriggerErrors \cup {None}
    BY <2>1, <2>3, FeedType DEF TypeOK
  <2>5. carry' \in Int /\ carry' >= -g
    BY <2>1, <2>2
  <2> QED BY <1>4, <1>d, <2>4, <2>5 DEF Glitch, TypeOK, CarryOK
<1>5. CASE Pause
  <2>1. PICK s \in Pauses : carry' = carry + s
    BY <1>5 DEF Pause
  <2>2. s \in Nat
    BY EnvironmentAssumption
  <2>3. carry' \in Int /\ carry' >= carry
    BY <1>a, <2>1, <2>2
  <2>4. CarryOK'
    <3>1. \A g \in Glitches : g \in Nat
      BY EnvironmentAssumption
    <3> QED BY <1>a, <2>3, <3>1 DEF CarryOK
  <2> QED BY <1>5, <1>d, <2>3, <2>4 DEF Pause, TypeOK
<1>6. CASE UNCHANGED vars
  BY <1>6 DEF vars, wheel, TypeOK, CarryOK
<1> QED BY <1>1, <1>2, <1>3, <1>4, <1>5, <1>6 DEF Next

\* Nothing undisturbed goes wrong on the simulator's wheel.
LEMMA StepClean ==
    ASSUME SimulatorWheel, Inv, [Next]_vars
    PROVE  CleanInv' /\ (noise' = 0 /\ Synced(decoder) => Synced(decoder'))
<1>a. /\ NormalEdges \in Nat \ {0} /\ TypeOK /\ CleanInv
      /\ noise \in Nat /\ carry \in Int /\ pos \in 0 .. NormalEdges
  BY EnvironmentAssumption DEF Inv, TypeOK
<1>d. ASSUME Disturbed PROVE noise' # 0
  BY <1>a, <1>d DEF Disturbed
<1>1. CASE noise = 0 /\ Tooth
  <2>1. PICK p \in Periods : Feed(carry + Interval(p))
    BY <1>1 DEF Tooth
  <2>2. /\ decoder'.dur[1] # 0 => decoder'.dur[1] = Interval(p)
        /\ ~decoder'.first
        /\ Synced(decoder)' => decoder'.dur[1] # 0 /\ decoder'.count = pos'
        /\ decoder'.sync = "FullSync" => cammed'
        /\ Synced(decoder) => Synced(decoder)'
    BY <1>1, <1>a, <2>1, CleanTooth DEF Tooth
  <2>3. History'
    <3>1. CASE pos = NormalEdges
      BY <3>1, <2>2, <1>1 DEF History, Interval, Tooth, Advance
    <3>2. CASE pos # NormalEdges
      <4>1. pos' # 0
        BY <1>a, <3>2, <1>1 DEF Tooth, Advance
      <4> QED BY <3>2, <4>1, <2>2 DEF History, Interval
    <3> QED BY <3>1, <3>2
  <2>4. CleanInv'
    BY <1>1, <2>2, <2>3 DEF CleanInv, Tooth, Aligned
  <2> QED BY <2>2, <2>4 DEF Synced
<1>2. CASE noise = 0 /\ CamPulse
  <2> DEFINE e == IF carry > 0 THEN carry ELSE 0
  <2>1. ~TimedOut(decoder, e)
    BY <1>2, <1>a, DecoderAssumption DEF CleanInv, TimedOut
  <2>2. \/ decoder' = decoder /\ decoder.sync # "CrankSynced"
        \/ /\ decoder.sync = "CrankSynced"
           /\ decoder' = [decoder EXCEPT !.phase = (decoder.count > PresentTeeth \div 2),
                                         !.sync = "FullSync"]
    BY <1>2, <2>1 DEF CamPulse, ProcessCam, Ok
  <2>3. /\ decoder'.dur = decoder.dur /\ decoder'.first = decoder.first
        /\ decoder'.count = decoder.count /\ (Synced(decoder') <=> Synced(decoder))
    BY <1>a, <2>2 DEF Decoder, TypeOK, Synced
  <2>4. CleanInv'
    BY <1>2, <1>a, <2>3 DEF CamPulse, CleanInv, History, Synced, Aligned
  <2> QED BY <2>3, <2>4
<1>3. CASE noise # 0 /\ (Tooth \/ CamPulse)
  BY <1>3 DEF Tooth, CamPulse, CleanInv
<1>4. CASE LostEdge \/ Glitch \/ Pause
  <2>1. noise' # 0
    BY <1>4, <1>d DEF LostEdge, Glitch, Pause
  <2> QED BY <2>1 DEF CleanInv
<1>5. CASE UNCHANGED vars
  <2>1. /\ decoder' = decoder /\ pos' = pos /\ cammed' = cammed
        /\ carry' = carry /\ noise' = noise
    BY <1>5 DEF vars, wheel
  <2> QED BY <1>a, <2>1 DEF CleanInv, History, Synced, Aligned
<1> QED BY <1>1, <1>2, <1>3, <1>4, <1>5 DEF Next

\* On the simulator's wheel the strengthened invariant holds throughout.
THEOREM InvHolds == ASSUME SimulatorWheel PROVE Spec => []Inv
<1>1. Init => Inv
  BY InitInv
<1>2. Inv /\ [Next]_vars => Inv'
  BY StepType, StepClean DEF Inv
<1> QED BY <1>1, <1>2, PTL DEF Spec

\* The decoder is a decoder and every counter is in its range, whatever the wheel suffers.
THEOREM TypeCorrect == Spec => []TypeOK
<1>1. Init => TypeOK /\ CarryOK
  BY InitInv DEF Inv
<1>2. (TypeOK /\ CarryOK) /\ [Next]_vars => (TypeOK /\ CarryOK)'
  BY StepType
<1> QED BY <1>1, <1>2, PTL DEF Spec

\* An undisturbed decoder that claims sync counts the teeth since the gap.
THEOREM SyncIsAligned == ASSUME SimulatorWheel PROVE Spec => []CleanSyncIsAligned
<1>1. Inv => CleanSyncIsAligned
  BY DEF Inv, CleanInv, CleanSyncIsAligned
<1> QED BY <1>1, InvHolds, PTL

\* An undisturbed decoder never loses sync.
THEOREM SyncIsKept == ASSUME SimulatorWheel PROVE Spec => SyncMaintained
<1>1. Inv /\ [Next]_vars => [noise' = 0 /\ Synced(decoder) => Synced(decoder')]_vars
  BY StepClean
<1> QED BY <1>1, InvHolds, PTL DEF Spec, SyncMaintained

\* Full sync rests on a cam pulse of the same turn.
THEOREM FullSyncNeedsCam == ASSUME SimulatorWheel PROVE Spec => []FullSyncIsFresh
<1>1. Inv => FullSyncIsFresh
  BY DEF Inv, CleanInv, FullSyncIsFresh
<1> QED BY <1>1, InvHolds, PTL

----------------------------------------------------------------------------
(* Recovery: what undisturbed edges make of any decoder.                   *)

\* Whatever has happened, a decoder in sync has an interval to compare with, and the last edge it
\* saw is the last tooth unless something disturbed the wheel since.
Memory ==
    /\ decoder.first => decoder.dur[1] = 0 /\ ~Synced(decoder)
    /\ Synced(decoder) => decoder.dur[1] # 0 /\ decoder.count <= PresentTeeth
    /\ carry # 0 => quiet = 0
    /\ quiet # 0 => History

\* A wrong sync is younger than the latest gap edge; if it was born with that edge, it counts too much.
WrongSync ==
    quiet # 0 /\ Synced(decoder) /\ ~Aligned =>
        quiet <= pos \/ (quiet = pos + 1 /\ decoder.count > pos)

\* The decoder will have an interval to compare the next gap with.
Ready == IF decoder.first THEN pos + 2 <= NormalEdges
         ELSE decoder.dur[1] # 0 \/ pos + 1 <= NormalEdges

\* Without sync at most one gap edge has gone by; after that one the next will be seen.
NoSync ==
    quiet # 0 /\ ~Synced(decoder) =>
        quiet <= pos + 1 \/ (quiet <= pos + 1 + Turn /\ Ready)

LEMMA TimesArePositive ==
    ASSUME TypeOK, CarryOK, NEW p \in Periods
    PROVE  carry + Interval(p) \in Nat \ {0}
<1>1. Interval(p) \in Nat /\ Interval(p) >= p /\ p \in Nat \ {0}
  BY GapTimes DEF Interval
<1>2. \A g \in Glitches : g \in Nat /\ g < p
  BY EnvironmentAssumption
<1> QED BY <1>1, <1>2 DEF CarryOK, TypeOK

\* An edge at any time: sync needs an interval.
LEMMA FeedMemory ==
    ASSUME TypeOK, Memory, NEW elapsed \in Nat \ {0}, Feed(elapsed)
    PROVE  /\ decoder'.first => decoder'.dur[1] = 0 /\ ~Synced(decoder')
           /\ Synced(decoder') => decoder'.dur[1] # 0 /\ decoder'.count <= PresentTeeth
           /\ decoder'.dur[1] # 0 => decoder'.dur[1] = elapsed
<1> DEFINE r == ProcessCrank(decoder, elapsed)
           t == IF decoder.first THEN 0 ELSE elapsed
<1>1. decoder \in Decoder /\ decoder.count \in Nat /\ PresentTeeth \in Nat
  BY WheelAssumption DEF TypeOK, Decoder, PresentTeeth
<1>2. decoder' = IF r.err = None THEN r.dec ELSE NewDecoder
  BY DEF Feed, Reset
<1>3. CASE r.err # None
  BY <1>2, <1>3 DEF NewDecoder, Synced
<1>4. CASE r.err = None
  <2>1. ~TimedOut(decoder, elapsed)
    BY <1>4, DecoderAssumption DEF ProcessCrank, Fail
  <2> HIDE DEF r, t
  <2>2. decoder' = r.dec
    BY <1>2, <1>4
  <2>3. CASE IsGap(t, decoder.dur[1])
    <3>1. decoder.dur[1] # 0
      BY <2>3 DEF IsGap
    <3>2. t = elapsed
      BY <3>1 DEF Memory, t
    <3>3. r.dec.count = 0 /\ ~r.dec.first /\ r.dec.dur[1] = t
      BY <1>1, <1>4, <2>1, <2>3, EdgeOutcome DEF r, t
    <3> QED BY <1>1, <2>2, <3>2, <3>3
  <2>4. CASE ~IsGap(t, decoder.dur[1])
    <3>1. /\ r.dec.sync = decoder.sync /\ r.dec.count = decoder.count + 1
          /\ ~r.dec.first /\ r.dec.dur[1] = t
          /\ ~(Synced(decoder) /\ decoder.count >= PresentTeeth)
      BY <1>1, <1>4, <2>1, <2>4, EdgeOutcome DEF r, t
    <3>2. Synced(decoder) => t = elapsed
      BY DEF Memory, t
    <3>3. t = 0 \/ t = elapsed
      BY DEF t
    <3> QED BY <1>1, <2>2, <3>1, <3>2, <3>3 DEF Synced
  <2> QED BY <2>3, <2>4
<1> QED BY <1>3, <1>4

\* An undisturbed edge after an undisturbed edge: the gap, and nothing else, is taken for a gap.
LEMMA QuietTooth ==
    ASSUME SimulatorWheel, TypeOK, Memory, quiet # 0, NEW p \in Periods, Feed(carry + Interval(p))
    PROVE  /\ pos = NormalEdges /\ decoder.dur[1] # 0 =>
                IF Synced(decoder) /\ decoder.count # PresentTeeth THEN decoder' = NewDecoder
                ELSE Synced(decoder') /\ decoder'.count = 0
           /\ pos # NormalEdges \/ decoder.dur[1] = 0 =>
                IF Synced(decoder) /\ decoder.count >= PresentTeeth THEN decoder' = NewDecoder
                ELSE /\ decoder'.sync = decoder.sync /\ decoder'.count = decoder.count + 1
                     /\ ~decoder'.first
                     /\ ~decoder.first => decoder'.dur[1] # 0
<1> DEFINE e == Interval(p)
           r == ProcessCrank(decoder, e)
           t == IF decoder.first THEN 0 ELSE e
<1>1. decoder \in Decoder /\ pos \in 0 .. NormalEdges /\ NormalEdges \in Nat \ {0}
  BY EnvironmentAssumption DEF TypeOK
<1>2. e \in Nat \ {0} /\ ~TimedOut(decoder, e)
  <2>1. GapTime(p) \in Nat \ {0} /\ p \in Nat \ {0}
    BY GapTimes
  <2>2. ~(p > MaxTooth) /\ ~(GapTime(p) > MaxTooth)
    BY <2>1, SteadyAssumption, DecoderAssumption
  <2> QED BY <2>1, <2>2 DEF TimedOut, Interval
<1>3. decoder' = IF r.err = None THEN r.dec ELSE NewDecoder
  <2>1. carry = 0
    BY DEF Memory
  <2>2. carry + Interval(p) = e
    BY <1>2, <2>1
  <2> QED BY <2>2 DEF Feed, Reset
<1>4. IsGap(t, decoder.dur[1]) <=> pos = NormalEdges /\ decoder.dur[1] # 0
  <2>1. CASE decoder.dur[1] = 0
    BY <2>1 DEF IsGap
  <2>2. CASE decoder.dur[1] # 0
    <3>1. t = e
      BY <2>2 DEF Memory
    <3>2. CASE pos = NormalEdges
      <4>1. decoder.dur[1] \in Periods /\ e = GapTime(p)
        BY <1>1, <2>2, <3>2 DEF Memory, History, Interval
      <4> QED BY <2>2, <3>1, <3>2, <4>1, SteadyAssumption
    <3>3. CASE pos # NormalEdges
      <4>1. e = p /\ (decoder.dur[1] \in Periods \/ \E q \in Periods : decoder.dur[1] = GapTime(q))
        BY <2>2, <3>3 DEF Memory, History, Interval
      <4> QED BY <3>1, <3>3, <4>1, SteadyAssumption
    <3> QED BY <3>2, <3>3
  <2> QED BY <2>1, <2>2
<1> HIDE DEF e, t, r
<1>5. CASE IsGap(t, decoder.dur[1])
  <2>1. CASE Synced(decoder) /\ decoder.count # PresentTeeth
    BY <1>1, <1>2, <1>3, <1>4, <1>5, <2>1, EdgeOutcome DEF r, t
  <2>2. CASE ~(Synced(decoder) /\ decoder.count # PresentTeeth)
    <3>1. r.err = None /\ r.dec.sync = "CrankSynced" /\ r.dec.count = 0
      BY <1>1, <1>2, <1>5, <2>2, EdgeOutcome DEF r, t
    <3> QED BY <1>3, <1>4, <1>5, <2>2, <3>1 DEF Synced
  <2> QED BY <2>1, <2>2
<1>6. CASE ~IsGap(t, decoder.dur[1])
  <2>1. CASE Synced(decoder) /\ decoder.count >= PresentTeeth
    BY <1>1, <1>2, <1>3, <1>4, <1>6, <2>1, EdgeOutcome DEF r, t
  <2>2. CASE ~(Synced(decoder) /\ decoder.count >= PresentTeeth)
    <3>1. /\ r.err = None /\ r.dec.sync = decoder.sync /\ r.dec.count = decoder.count + 1
          /\ ~r.dec.first /\ r.dec.dur[1] = t
      BY <1>1, <1>2, <1>6, <2>2, EdgeOutcome DEF r, t
    <3> QED BY <1>2, <1>3, <1>4, <1>6, <2>2, <3>1 DEF t
  <2> QED BY <2>1, <2>2
<1> QED BY <1>5, <1>6

LEMMA CamMemory ==
    ASSUME TypeOK, CamPulse
    PROVE  \/ decoder' = NewDecoder /\ carry > 0
           \/ /\ decoder'.dur = decoder.dur /\ decoder'.first = decoder.first
              /\ decoder'.count = decoder.count /\ (Synced(decoder') <=> Synced(decoder))
<1> DEFINE e == IF carry > 0 THEN carry ELSE 0
<1>1. CASE TimedOut(decoder, e)
  BY <1>1, DecoderAssumption DEF CamPulse, ProcessCam, Fail, Reset, TimedOut, TypeOK
<1>2. CASE ~TimedOut(decoder, e)
  <2>1. \/ decoder' = decoder
        \/ /\ decoder.sync = "CrankSynced"
           /\ decoder' = [decoder EXCEPT !.phase = (decoder.count > PresentTeeth \div 2),
                                         !.sync = "FullSync"]
    BY <1>2 DEF CamPulse, ProcessCam, Ok
  <2> QED BY <2>1 DEF Decoder, TypeOK, Synced
<1> QED BY <1>1, <1>2

LEMMA MemoryInit == Init => Memory /\ WrongSync /\ NoSync
BY DEF Init, Memory, WrongSync, NoSync, NewDecoder, Synced

LEMMA MemoryStep ==
    ASSUME TypeOK, CarryOK, Memory, [Next]_vars
    PROVE  Memory'
<1>a. carry \in Int /\ NormalEdges \in Nat \ {0} /\ pos \in 0 .. NormalEdges
  BY EnvironmentAssumption DEF TypeOK
<1>d. ASSUME Disturbed PROVE quiet' = 0
  BY <1>d DEF Disturbed
<1>1. CASE Tooth
  <2>1. PICK p \in Periods : Feed(carry + Interval(p))
    BY <1>1 DEF Tooth
  <2>2. /\ decoder'.first => decoder'.dur[1] = 0 /\ ~Synced(decoder')
        /\ Synced(decoder') => decoder'.dur[1] # 0 /\ decoder'.count <= PresentTeeth
        /\ decoder'.dur[1] # 0 => decoder'.dur[1] = carry + Interval(p)
    BY <2>1, TimesArePositive, FeedMemory
  <2>3. carry' = 0 /\ (quiet' # 0 => carry = 0)
    BY <1>1 DEF Tooth
  <2>4. quiet' # 0 => History'
    <3> SUFFICES ASSUME carry = 0
                 PROVE  History'
      BY <2>3
    <3>1. Interval(p) \in Nat
      BY GapTimes DEF Interval
    <3>2. decoder'.dur[1] # 0 => decoder'.dur[1] = Interval(p)
      BY <2>2, <3>1
    <3>3. Interval(p) \in IF pos' = 0 THEN {GapTime(q) : q \in Periods} ELSE Periods
      BY <1>1, <1>a DEF Tooth, Advance, Interval
    <3> QED BY <3>2, <3>3 DEF History
  <2> QED BY <2>2, <2>3, <2>4, Zenon DEF Memory, Synced
<1>2. CASE CamPulse
  <2>1. UNCHANGED <<pos, carry, quiet>>
    BY <1>2 DEF CamPulse
  <2>2. CASE decoder' = NewDecoder
    BY <2>1, <2>2 DEF Memory, NewDecoder, Synced, History
  <2>3. CASE decoder' # NewDecoder
    BY <1>2, <2>1, <2>3, CamMemory DEF Memory, Synced, History
  <2> QED BY <2>2, <2>3
<1>3. CASE LostEdge \/ Pause
  BY <1>3, <1>d DEF LostEdge, Pause, Memory, Synced, History
<1>4. CASE Glitch
  <2>1. PICK g \in Glitches : carry + g > 0 /\ Feed(carry + g)
    BY <1>4 DEF Glitch
  <2>2. carry + g \in Nat \ {0}
    BY <1>a, <2>1, EnvironmentAssumption
  <2>3. /\ decoder'.first => decoder'.dur[1] = 0 /\ ~Synced(decoder')
        /\ Synced(decoder') => decoder'.dur[1] # 0 /\ decoder'.count <= PresentTeeth
    BY <2>1, <2>2, FeedMemory
  <2> QED BY <1>4, <1>d, <2>3 DEF Glitch, Memory, Synced
<1>5. CASE UNCHANGED vars
  BY <1>5 DEF vars, wheel, Memory, Synced, History
<1> QED BY <1>1, <1>2, <1>3, <1>4, <1>5 DEF Next

\* The counters of an undisturbed tooth.
LEMMA QuietCount ==
    ASSUME TypeOK, Tooth, quiet' # 0
    PROVE  /\ carry = 0
           /\ quiet' = quiet + 1 \/ (quiet' = quiet /\ quiet = QuietCap)
           /\ pos' = IF pos = NormalEdges THEN 0 ELSE pos + 1
<1>1. QuietCap \in Nat /\ quiet \in 0 .. QuietCap
  BY EnvironmentAssumption DEF QuietCap, Turn, TypeOK
<1> QED BY <1>1 DEF Tooth, Advance

LEMMA WrongSyncStep ==
    ASSUME SimulatorWheel, TypeOK, CarryOK, Memory, WrongSync, [Next]_vars
    PROVE  WrongSync'
<1>a. /\ NormalEdges \in Nat \ {0} /\ pos \in 0 .. NormalEdges /\ quiet \in Nat
      /\ PresentTeeth = NormalEdges /\ decoder.count \in Nat /\ decoder.dur[1] \in Nat
      /\ QuietCap = 2 * NormalEdges + 3
  BY EnvironmentAssumption DEF TypeOK, SimulatorWheel, Decoder, QuietCap, Turn
<1>d. ASSUME Disturbed PROVE quiet' = 0
  BY <1>d DEF Disturbed
<1>1. CASE Tooth
  <2> SUFFICES ASSUME quiet' # 0, Synced(decoder'), decoder'.count # pos'
               PROVE  quiet' <= pos' \/ (quiet' = pos' + 1 /\ decoder'.count > pos')
    BY DEF WrongSync, Aligned, Synced
  <2>1. PICK p \in Periods : Feed(carry + Interval(p))
    BY <1>1 DEF Tooth
  <2>2. /\ quiet' = quiet + 1 \/ (quiet' = quiet /\ quiet = QuietCap)
        /\ pos' = IF pos = NormalEdges THEN 0 ELSE pos + 1
    BY <1>1, QuietCount
  <2>3. decoder' # NewDecoder
    BY DEF Synced, NewDecoder
  <2>4. CASE quiet = 0
    <3>1. quiet' = 1 /\ pos' \in 0 .. NormalEdges
      BY <1>a, <2>2, <2>4
    <3>2. decoder'.count \in Nat
      BY <1>1, StepType DEF TypeOK, Decoder, Next
    <3> QED BY <1>a, <3>1, <3>2
  <2>5. CASE quiet # 0 /\ pos = NormalEdges /\ decoder.dur[1] # 0
    BY <1>a, <2>1, <2>2, <2>3, <2>5, QuietTooth
  <2>6. CASE quiet # 0 /\ (pos # NormalEdges \/ decoder.dur[1] = 0)
    <3>1. /\ decoder'.sync = decoder.sync /\ decoder'.count = decoder.count + 1
          /\ ~(Synced(decoder) /\ decoder.count >= PresentTeeth)
      BY <2>1, <2>3, <2>6, QuietTooth
    <3>2. Synced(decoder) /\ decoder.dur[1] # 0 /\ pos # NormalEdges /\ decoder.count < NormalEdges
      BY <1>a, <2>6, <3>1 DEF Synced, Memory
    <3>3. quiet <= pos \/ (quiet = pos + 1 /\ decoder.count > pos)
      BY <1>a, <2>2, <2>6, <3>1, <3>2 DEF WrongSync, Aligned
    <3> QED BY <1>a, <2>2, <3>1, <3>2, <3>3
  <2> QED BY <2>4, <2>5, <2>6
<1>2. CASE CamPulse
  <2>1. UNCHANGED <<pos, carry, quiet>>
    BY <1>2 DEF CamPulse
  <2>2. CASE decoder' = NewDecoder
    BY <2>2 DEF WrongSync, NewDecoder, Synced
  <2>3. CASE decoder' # NewDecoder
    BY <1>2, <2>1, <2>3, CamMemory DEF WrongSync, Synced, Aligned
  <2> QED BY <2>2, <2>3
<1>3. CASE LostEdge \/ Pause \/ Glitch
  BY <1>3, <1>d DEF LostEdge, Pause, Glitch, WrongSync
<1>4. CASE UNCHANGED vars
  BY <1>4 DEF vars, wheel, WrongSync, Synced, Aligned
<1> QED BY <1>1, <1>2, <1>3, <1>4 DEF Next

LEMMA NoSyncStep ==
    ASSUME SimulatorWheel, NormalEdges > 1, TypeOK, CarryOK, Memory, WrongSync, NoSync, [Next]_vars
    PROVE  NoSync'
<1>a. /\ NormalEdges \in Nat \ {0} /\ pos \in 0 .. NormalEdges /\ quiet \in Nat
      /\ PresentTeeth = NormalEdges /\ decoder.count \in Nat /\ decoder.dur[1] \in Nat
      /\ QuietCap = 2 * NormalEdges + 3 /\ Turn = NormalEdges + 1
  BY EnvironmentAssumption DEF TypeOK, SimulatorWheel, Decoder, QuietCap, Turn
<1>d. ASSUME Disturbed PROVE quiet' = 0
  BY <1>d DEF Disturbed
<1>n. NewDecoder.first /\ ~Synced(NewDecoder)
  BY DEF NewDecoder, Synced
<1>1. CASE Tooth
  <2> SUFFICES ASSUME quiet' # 0, ~Synced(decoder')
               PROVE  quiet' <= pos' + 1 \/ (quiet' <= pos' + 1 + Turn /\ Ready')
    BY DEF NoSync, Synced, Turn
  <2>1. PICK p \in Periods : Feed(carry + Interval(p))
    BY <1>1 DEF Tooth
  <2>2. /\ quiet' = quiet + 1 \/ (quiet' = quiet /\ quiet = QuietCap)
        /\ pos' = IF pos = NormalEdges THEN 0 ELSE pos + 1
    BY <1>1, QuietCount
  <2>3. CASE quiet = 0
    BY <1>a, <2>2, <2>3
  <2>4. CASE quiet # 0 /\ Synced(decoder)
    <3>1. decoder' = NewDecoder
      BY <2>1, <2>4, QuietTooth DEF Synced
    <3>2. decoder'.first
      BY <1>n, <3>1
    <3>3. decoder.dur[1] # 0 /\ decoder.count <= NormalEdges
      BY <1>a, <2>4 DEF Memory
    <3>4. ~Aligned
      <4>1. CASE pos = NormalEdges
        BY <1>a, <2>1, <2>4, <3>2, <3>3, <4>1, QuietTooth DEF Aligned
      <4>2. CASE pos # NormalEdges
        BY <1>a, <2>1, <2>4, <3>2, <3>3, <4>2, QuietTooth DEF Aligned
      <4> QED BY <4>1, <4>2
    <3>5. quiet <= pos \/ (quiet = pos + 1 /\ decoder.count > pos)
      BY <2>4, <3>4 DEF WrongSync
    <3> QED BY <1>a, <2>2, <3>2, <3>3, <3>5 DEF Ready
  <2>5. CASE quiet # 0 /\ ~Synced(decoder)
    <3>1. pos # NormalEdges \/ decoder.dur[1] = 0
      BY <2>1, <2>5, QuietTooth
    <3>2. ~decoder'.first /\ (~decoder.first => decoder'.dur[1] # 0)
      BY <2>1, <2>5, <3>1, QuietTooth
    <3>3. decoder.first => decoder.dur[1] = 0
      BY DEF Memory
    <3>4. quiet <= pos + 1 \/ (quiet <= pos + 1 + Turn /\ Ready)
      BY <2>5 DEF NoSync
    <3> QED BY <1>a, <2>2, <3>1, <3>2, <3>3, <3>4 DEF Ready
  <2> QED BY <2>3, <2>4, <2>5
<1>2. CASE CamPulse
  <2>1. UNCHANGED <<pos, carry, quiet>>
    BY <1>2 DEF CamPulse
  <2>2. CASE quiet = 0
    BY <2>1, <2>2 DEF NoSync
  <2>3. CASE quiet # 0
    <3>1. carry = 0
      BY <2>3 DEF Memory
    <3> QED BY <1>2, <2>1, <3>1, CamMemory DEF NoSync, Synced, Ready, Turn
  <2> QED BY <2>2, <2>3
<1>3. CASE LostEdge \/ Pause \/ Glitch
  BY <1>3, <1>d DEF LostEdge, Pause, Glitch, NoSync
<1>4. CASE UNCHANGED vars
  BY <1>4 DEF vars, wheel, NoSync, Synced, Ready, Turn
<1> QED BY <1>1, <1>2, <1>3, <1>4 DEF Next

\* Whatever disturbed the wheel, a sync found at the wrong place does not survive a whole turn.
THEOREM WrongSyncEnds == ASSUME SimulatorWheel PROVE Spec => []MisalignmentEnds
<1> DEFINE I == TypeOK /\ CarryOK /\ Memory /\ WrongSync
<1>1. Init => I
  BY InitInv, MemoryInit DEF Inv
<1>2. I /\ [Next]_vars => I'
  BY StepType, MemoryStep, WrongSyncStep
<1>3. I => MisalignmentEnds
  <2> SUFFICES ASSUME I, quiet >= Turn, Synced(decoder), ~Aligned
               PROVE  FALSE
    BY DEF MisalignmentEnds
  <2>1. /\ pos \in 0 .. NormalEdges /\ NormalEdges \in Nat \ {0} /\ quiet \in Nat
        /\ PresentTeeth = NormalEdges
    BY EnvironmentAssumption DEF TypeOK, SimulatorWheel
  <2>2. quiet >= NormalEdges + 1
    BY DEF Turn
  <2>3. quiet <= pos \/ (quiet = pos + 1 /\ decoder.count > pos)
    BY <2>1, <2>2 DEF WrongSync
  <2>4. decoder.count <= NormalEdges /\ decoder.count \in Nat
    BY <2>1 DEF Memory, TypeOK, Decoder
  <2> QED BY <2>1, <2>2, <2>3, <2>4
<1> QED BY <1>1, <1>2, <1>3, PTL DEF Spec

\* Two undisturbed turns and one edge bring any decoder back into sync (process after an error and
\* its reset).  The argument wants a tooth between the first edge after a reset and the next gap, so a
\* wheel of a single tooth is left out.
THEOREM SyncComesBack ==
    ASSUME SimulatorWheel, PresentTeeth > 1
    PROVE  Spec => []SyncRegained
<1> DEFINE I == TypeOK /\ CarryOK /\ Memory /\ WrongSync /\ NoSync
<1>n. NormalEdges > 1
  BY DEF SimulatorWheel
<1>1. Init => I
  BY InitInv, MemoryInit DEF Inv
<1>2. I /\ [Next]_vars => I'
  BY <1>n, StepType, MemoryStep, WrongSyncStep, NoSyncStep
<1>3. I => SyncRegained
  <2> SUFFICES ASSUME I, quiet >= QuietCap
               PROVE  Synced(decoder) /\ Aligned
    BY DEF SyncRegained
  <2>1. /\ pos \in 0 .. NormalEdges /\ NormalEdges \in Nat \ {0} /\ quiet \in Nat
        /\ PresentTeeth = NormalEdges
    BY EnvironmentAssumption DEF TypeOK, SimulatorWheel
  <2>2. quiet >= 2 * NormalEdges + 3 /\ Turn = NormalEdges + 1
    BY <2>1 DEF QuietCap, Turn
  <2>3. Synced(decoder)
    BY <2>1, <2>2 DEF NoSync
  <2> QED BY <2>1, <2>2, <2>3 DEF WrongSync
<1> QED BY <1>1, <1>2, <1>3, PTL DEF Spec
=============================================================================
