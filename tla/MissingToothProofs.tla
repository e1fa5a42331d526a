------------------------- MODULE MissingToothProofs -------------------------
(***************************************************************************)
(* What an edge can do to a decoder, whatever the edge: lemmas that the    *)
(* proofs about every user of the decoder rest on.                         *)
(***************************************************************************)
EXTENDS MissingTooth, TLAPS

LEMMA NewDecoderType == NewDecoder \in Decoder
BY DecoderAssumption DEF NewDecoder, Decoder, SyncStates

LEMMA SyncPointType ==
    ASSUME NEW d \in Decoder
    PROVE  SyncPoint(d).dec \in Decoder /\ SyncPoint(d).err \in TriggerErrors \cup {None}
<1>1. Saturating(d.cycles) \in 0 .. CounterMax /\ 0 \in 0 .. CounterMax
  BY DecoderAssumption DEF Saturating, Decoder
<1> QED BY <1>1 DEF SyncPoint, LoseSync, Fail, Ok, Decoder, SyncStates, TriggerErrors

LEMMA NormalToothType ==
    ASSUME NEW d \in Decoder
    PROVE  NormalTooth(d).dec \in Decoder /\ NormalTooth(d).err \in TriggerErrors \cup {None}
<1>1. d.dur[2] \in Nat /\ d.rpm \in Nat /\ d.count + 1 \in Nat
  BY DEF Decoder
<1> QED BY <1>1 DEF NormalTooth, LoseSync, Fail, Ok, Decoder, SyncStates, TriggerErrors

\* The decoder as it looks at an edge: history shifted, nothing decided.
Seen(d, duration) == [d EXCEPT !.first = FALSE, !.dur = <<duration, d.dur[1]>>]

LEMMA SeenType ==
    ASSUME NEW d \in Decoder, NEW t \in Nat
    PROVE  Seen(d, t) \in Decoder
BY DEF Seen, Decoder

LEMMA ProcessCrankType ==
    ASSUME NEW d \in Decoder, NEW elapsed \in Nat
    PROVE  /\ ProcessCrank(d, elapsed).dec \in Decoder
           /\ ProcessCrank(d, elapsed).err \in TriggerErrors \cup {None}
<1>1. CASE TimedOut(d, elapsed)
  BY <1>1, NewDecoderType DEF ProcessCrank, Fail, Reset, TriggerErrors
<1>2. CASE ~TimedOut(d, elapsed)
  <2> DEFINE t == IF d.first THEN 0 ELSE elapsed
  <2>1. t \in Nat
    OBVIOUS
  <2>2. Seen(d, t) \in Decoder
    BY <2>1, SeenType
  <2>3. ProcessCrank(d, elapsed) =
          IF IsGap(t, d.dur[1]) THEN SyncPoint(Seen(d, t)) ELSE NormalTooth(Seen(d, t))
    BY <1>2 DEF ProcessCrank, Seen
  <2> QED BY <2>2, <2>3, SyncPointType, NormalToothType
<1> QED BY <1>1, <1>2

LEMMA ProcessCamType ==
    ASSUME NEW d \in Decoder, NEW elapsed \in Nat
    PROVE  /\ ProcessCam(d, elapsed).dec \in Decoder
           /\ ProcessCam(d, elapsed).err \in TriggerErrors \cup {None}
<1>1. (d.count > PresentTeeth \div 2) \in BOOLEAN
  OBVIOUS
<1>2. [d EXCEPT !.phase = (d.count > PresentTeeth \div 2), !.sync = "FullSync"] \in Decoder
  BY <1>1 DEF Decoder, SyncStates
<1> QED BY <1>2, NewDecoderType DEF ProcessCam, Fail, Ok, Reset, TriggerErrors

\* A synchronisation point that is no error leaves the decoder in crank sync only; the tooth count
\* is 0 at no other tooth.
LEMMA SyncPointSync ==
    ASSUME NEW d \in Decoder, NEW elapsed \in Nat,
           ProcessCrank(d, elapsed).err = None, ProcessCrank(d, elapsed).dec.count = 0
    PROVE  ProcessCrank(d, elapsed).dec.sync = "CrankSynced"
<1> DEFINE t == IF d.first THEN 0 ELSE elapsed
           s == Seen(d, t)
<1>1. None \notin TriggerErrors
  BY DecoderAssumption DEF TriggerErrors
<1>2. ~TimedOut(d, elapsed)
  BY <1>1 DEF ProcessCrank, Fail, TriggerErrors
<1>3. s \in Decoder
  BY SeenType
<1>4. ProcessCrank(d, elapsed) = IF IsGap(t, d.dur[1]) THEN SyncPoint(s) ELSE NormalTooth(s)
  BY <1>2 DEF ProcessCrank, Seen
<1>5. CASE IsGap(t, d.dur[1])
  BY <1>1, <1>3, <1>4, <1>5 DEF SyncPoint, LoseSync, Fail, Ok, Decoder, TriggerErrors
<1>6. CASE ~IsGap(t, d.dur[1])
  <2>1. s.count \in Nat
    BY <1>3 DEF Decoder
  <2>2. NormalTooth(s).err = None => NormalTooth(s).dec.count = s.count + 1
    BY <1>1, <1>3 DEF NormalTooth, LoseSync, Fail, Ok, Decoder, TriggerErrors
  <2> QED BY <1>4, <1>6, <2>1, <2>2
<1> QED BY <1>5, <1>6

\* What an edge in time does, an error being followed by a reset in every caller: a gap restarts the
\* count, if it comes when it is due or the decoder is not in sync, any other tooth adds to it.
LEMMA EdgeOutcome ==
    ASSUME NEW d \in Decoder, NEW elapsed \in Nat, ~TimedOut(d, elapsed)
    PROVE  LET t == IF d.first THEN 0 ELSE elapsed
               r == ProcessCrank(d, elapsed)
           IN /\ IsGap(t, d.dur[1]) /\ Synced(d) /\ d.count # PresentTeeth => r.err # None
              /\ IsGap(t, d.dur[1]) /\ ~(Synced(d) /\ d.count # PresentTeeth) =>
                    /\ r.err = None /\ r.dec.sync = "CrankSynced" /\ r.dec.count = 0
                    /\ ~r.dec.first /\ r.dec.dur[1] = t /\ r.dec.phase = d.phase
              /\ ~IsGap(t, d.dur[1]) /\ Synced(d) /\ d.count >= PresentTeeth => r.err # None
              /\ ~IsGap(t, d.dur[1]) /\ ~(Synced(d) /\ d.count >= PresentTeeth) =>
                    /\ r.err = None /\ r.dec.sync = d.sync /\ r.dec.count = d.count + 1
                    /\ ~r.dec.first /\ r.dec.dur[1] = t /\ r.dec.phase = d.phase
<1> DEFINE t == IF d.first THEN 0 ELSE elapsed
           s == Seen(d, t)
           r == ProcessCrank(d, elapsed)
<1>1. None \notin TriggerErrors /\ PresentTeeth \in Int /\ d.count \in Nat
  BY DecoderAssumption, WheelAssumption DEF TriggerErrors, PresentTeeth, Decoder
<1>2. s \in Decoder /\ t \in Nat
  BY SeenType
<1>3. /\ s.sync = d.sync /\ s.count = d.count /\ ~s.first /\ s.dur[1] = t /\ s.phase = d.phase
  BY DEF Seen, Decoder
<1>4. r = IF IsGap(t, d.dur[1]) THEN SyncPoint(s) ELSE NormalTooth(s)
  BY DEF ProcessCrank, Seen
<1> HIDE DEF s, t, r
<1>5. ASSUME IsGap(t, d.dur[1]), Synced(d), d.count # PresentTeeth
      PROVE  r.err # None
  BY <1>1, <1>3, <1>4, <1>5 DEF SyncPoint, LoseSync, Fail, TriggerErrors, Synced
<1>6. ASSUME IsGap(t, d.dur[1]), ~(Synced(d) /\ d.count # PresentTeeth)
      PROVE  /\ r.err = None /\ r.dec.sync = "CrankSynced" /\ r.dec.count = 0
             /\ ~r.dec.first /\ r.dec.dur[1] = t /\ r.dec.phase = d.phase
  <2> DEFINE n == [s EXCEPT !.sync = "CrankSynced", !.count = 0,
                            !.cycles = IF Synced(s) THEN Saturating(s.cycles) ELSE 0]
  <2>1. SyncPoint(s) = Ok(n)
    BY <1>1, <1>3, <1>6 DEF SyncPoint, Synced
  <2>2. /\ n.sync = "CrankSynced" /\ n.count = 0 /\ n.first = s.first /\ n.dur = s.dur
        /\ n.phase = s.phase
    BY <1>2 DEF Decoder
  <2> HIDE DEF n
  <2> QED BY <1>3, <1>4, <1>6, <2>1, <2>2 DEF Ok
<1>7. ASSUME ~IsGap(t, d.dur[1]), Synced(d), d.count >= PresentTeeth
      PROVE  r.err # None
  BY <1>1, <1>3, <1>4, <1>7 DEF NormalTooth, LoseSync, Fail, TriggerErrors, Synced
<1>8. ASSUME ~IsGap(t, d.dur[1]), ~(Synced(d) /\ d.count >= PresentTeeth)
      PROVE  /\ r.err = None /\ r.dec.sync = d.sync /\ r.dec.count = d.count + 1
             /\ ~r.dec.first /\ r.dec.dur[1] = t /\ r.dec.phase = d.phase
  <2> DEFINE n == [s EXCEPT !.count = s.count + 1,
                            !.rpm = IF s.dur[2] > 0 THEN s.dur[2] ELSE s.rpm]
  <2>1. NormalTooth(s) = Ok(n)
    BY <1>3, <1>8 DEF NormalTooth, Synced
  <2>2. /\ n.sync = s.sync /\ n.count = s.count + 1 /\ n.first = s.first /\ n.dur = s.dur
        /\ n.phase = s.phase
    BY <1>2 DEF Decoder
  <2> HIDE DEF n
  <2> QED BY <1>3, <1>4, <1>8, <2>1, <2>2 DEF Ok
<1> QED BY <1>5, <1>6, <1>7, <1>8 DEF t, r
=============================================================================
