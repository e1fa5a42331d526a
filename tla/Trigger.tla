------------------------------ MODULE Trigger ------------------------------
(***************************************************************************)
(* The decoder on a wheel: edges reach it one by one, in order, as the     *)
(* tests, the simulator and a control loop that keeps up feed them.  After *)
(* an error the loop resets the decoder (stm32/src/main.rs).               *)
(*                                                                         *)
(* The wheel is the environment.  Between two gap edges it gives           *)
(* NormalEdges edges; the time of one tooth is any of Periods, anew for    *)
(* every edge, and the gap takes MissingTeeth + 1 of them.  Up to MaxNoise *)
(* disturbances happen: an edge is lost, a spurious one appears, the       *)
(* engine pauses.                                                          *)
(***************************************************************************)
EXTENDS MissingTooth

CONSTANTS
    NormalEdges,    \* edges between two gap edges
    Periods,        \* possible durations of one tooth
    Glitches,       \* how long after a tooth a spurious edge may come
    Pauses,         \* how long the engine may stand still
    CamTooth,       \* the cam pulse follows this tooth
    MaxNoise        \* bound on disturbances

GapTime(p) == ExpectedGapRatio * p

ASSUME EnvironmentAssumption ==
    /\ NormalEdges \in Nat \ {0} /\ CamTooth \in 0 .. NormalEdges
    /\ Periods \subseteq Nat \ {0} /\ Periods # {}
    /\ Pauses \subseteq Nat \ {0} /\ MaxNoise \in Nat
    /\ \A g \in Glitches : g \in Nat \ {0} /\ \A p \in Periods : g < p
\* The speed is steady enough for the gap test: that is what the wheel owes the decoder.
ASSUME SteadyAssumption ==
    \A p, q \in Periods :
        /\ IsGap(GapTime(p), q) /\ ~IsGap(p, q) /\ ~IsGap(p, GapTime(q))
        /\ GapTime(p) <= MaxTooth /\ p <= MaxTooth

VARIABLES
    decoder,    \* the decoder
    err,        \* error returned for the last edge, or None
    pos,        \* edges since the last gap edge
    cammed,     \* the cam tooth of this turn has given its pulse
    carry,      \* time from the last edge processed to the last tooth (negative after a glitch)
    noise,      \* disturbances so far
    quiet       \* undisturbed edges since the last disturbance, up to QuietCap

wheel == <<pos, cammed, carry, noise, quiet>>
vars == <<decoder, err, wheel>>

Turn == NormalEdges + 1
QuietCap == 2 * Turn + 1

Init ==
    /\ decoder = NewDecoder /\ err = None
    /\ pos \in 0 .. NormalEdges /\ cammed = FALSE
    /\ carry = 0 /\ noise = 0 /\ quiet = 0

\* One pass of the drain loop: process, and reset on an error.
Feed(elapsed) ==
    LET r == ProcessCrank(decoder, elapsed)
    IN /\ decoder' = IF r.err = None THEN r.dec ELSE Reset(r.dec)
       /\ err' = r.err

\* The wheel turns by one edge.
Interval(p) == IF pos = NormalEdges THEN GapTime(p) ELSE p
Advance ==
    /\ pos' = IF pos = NormalEdges THEN 0 ELSE pos + 1
    /\ cammed' = (cammed /\ pos # NormalEdges)

Tooth ==
    /\ \E p \in Periods : Feed(carry + Interval(p))
    /\ Advance
    /\ carry' = 0
    /\ quiet' = IF carry # 0 THEN 0 ELSE IF quiet < QuietCap THEN quiet + 1 ELSE quiet
    /\ UNCHANGED noise

CamPulse ==
    /\ pos = CamTooth /\ ~cammed
    /\ cammed' = TRUE
    /\ LET r == ProcessCam(decoder, IF carry > 0 THEN carry ELSE 0)
       IN decoder' = r.dec /\ err' = r.err
    /\ UNCHANGED <<pos, carry, noise, quiet>>

Disturbed == noise < MaxNoise /\ noise' = noise + 1 /\ quiet' = 0

LostEdge ==
    /\ Disturbed
    /\ \E p \in Periods : carry' = carry + Interval(p)
    /\ Advance
    /\ UNCHANGED <<decoder, err>>

Glitch ==
    /\ Disturbed
    /\ \E g \in Glitches : carry + g > 0 /\ Feed(carry + g) /\ carry' = -g
    /\ UNCHANGED <<pos, cammed>>

Pause ==
    /\ Disturbed
    /\ \E s \in Pauses : carry' = carry + s
    /\ UNCHANGED <<decoder, err, pos, cammed>>

Next == Tooth \/ CamPulse \/ LostEdge \/ Glitch \/ Pause

Spec == Init /\ [][Next]_vars

----------------------------------------------------------------------------
(* Properties.                                                             *)

TypeOK ==
    /\ decoder \in Decoder /\ err \in TriggerErrors \cup {None}
    /\ pos \in 0 .. NormalEdges /\ cammed \in BOOLEAN
    /\ carry \in Int /\ noise \in 0 .. MaxNoise /\ quiet \in 0 .. QuietCap

Aligned == decoder.count = pos

\* As long as nothing disturbs the wheel, a decoder that claims sync counts the very teeth that
\* have passed since the gap, whatever tooth it was switched on at and however the speed varies.
CleanSyncIsAligned == noise = 0 /\ Synced(decoder) => Aligned

\* Sync, once reached, is kept on an undisturbed wheel (test trigger_12_1_sync_and_angle: "Gap
\* again - should maintain sync").
SyncMaintained == [][noise' = 0 /\ Synced(decoder) => Synced(decoder')]_vars

\* A sync found at the wrong place never survives a whole undisturbed turn.
MisalignmentEnds == quiet >= Turn /\ Synced(decoder) => Aligned

\* After any disturbance two undisturbed turns and one edge are enough to be in sync, rightly so.
SyncRegained == quiet >= QuietCap => Synced(decoder) /\ Aligned

\* Full sync rests on a cam pulse of this very turn on an undisturbed wheel: the sync point takes it
\* back, and the phase of an earlier turn is never trusted again.
FullSyncIsFresh == noise = 0 /\ decoder.sync = "FullSync" => cammed

(* What comments say and the code does not do.                             *)

\* Field rpm, "Running RPM estimate based on last normal tooth interval": never on the gap.
RpmFromNormalTooth == noise = 0 => decoder.rpm \in Periods \cup {0}
=============================================================================
