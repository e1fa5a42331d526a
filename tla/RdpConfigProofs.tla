-------------------------- MODULE RdpConfigProofs --------------------------
(***************************************************************************)
(* Proofs about RdpConfig for every catalog, every set of requests and any *)
(* checksum.  The invariants the runs check are not inductive by           *)
(* themselves: the configuration the control loop picks up is the server's *)
(* only because every Config request republishes it (PublishedIsRam), a    *)
(* new epoch is one the loop has not seen only because its own never runs  *)
(* ahead, and range checks cover the copies that may be discarded to.      *)
(***************************************************************************)
EXTENDS RdpConfig, WellFoundedInduction, TLAPS

\* The copy in CONFIG is the server's RAM copy whenever the executor switches tasks.
PublishedIsRam == shared = ram

\* A request in the UART was sent with an epoch to spare, by a host that waits for its answer, and
\* no second one is sent while the answer is on its way.
PendingRequest ==
    /\ inbox # None => epoch < MaxEpoch /\ host = "waiting" /\ inbox \in Requests
    /\ outbox # None => inbox = None /\ host = "waiting"

Inv ==
    /\ TypeOK
    /\ CleanMeansSaved
    /\ FlashCrcMatches
    /\ PublishedIsRam
    /\ lastEpoch <= epoch
    /\ ControlInSync
    /\ DecoderMatchesConfig
    /\ ScalarsInRange(ram) /\ ScalarsInRange(flash) /\ ScalarsInRange(cfg)
    /\ PendingRequest

----------------------------------------------------------------------------
(* The helpers keep configurations whole and in range.                     *)

\* set_param stores an integer, and one inside the range it was checked against.
LEMMA CoerceInRange ==
    ASSUME NEW p, NEW v \in Int, InRange(v)
    PROVE  Coerce(p, v) \in Int /\ InRange(Coerce(p, v))
BY NumberAssumption DEF Coerce, InRange

\* A non-empty set of naturals has a least element.
LEMMA LeastNat ==
    ASSUME NEW T, T \subseteq Nat, T # {}
    PROVE  \E x \in T : \A y \in T : x <= y
<1> DEFINE R == OpToRel(<, Nat)
<1>1. \E x \in T : \A y \in T : ~(<<y, x>> \in R)
  <2>1. IsWellFoundedOn(R, Nat)
    BY NatLessThanWellFounded
  <2> HIDE DEF R
  <2> QED BY <2>1, WFMin, Zenon
<1>2. \A x, y \in Nat : ~(<<y, x>> \in R) => x <= y
  BY DEF OpToRel
<1> QED BY <1>1, <1>2

\* The last of a non-empty set of entry positions is one of them.
LEMMA LastOfIsMember ==
    ASSUME NEW es \in Seq(Entries), NEW p, AcceptedFor(p, es) # {}
    PROVE  LastOf(AcceptedFor(p, es)) \in AcceptedFor(p, es)
<1> DEFINE S == AcceptedFor(p, es)
           T == {Len(es) - k : k \in S}
<1>1. S \subseteq 1 .. Len(es) /\ Len(es) \in Nat
  BY DEF AcceptedFor
<1>2. PICK x \in T : \A y \in T : x <= y
  <2>1. T \subseteq Nat /\ T # {}
    BY <1>1
  <2> QED BY <2>1, LeastNat, Zenon
<1>3. \E k \in S : \A j \in S : j <= k
  <2>1. PICK k \in S : x = Len(es) - k
    BY <1>2
  <2>2. ASSUME NEW j \in S PROVE j <= k
    <3>1. Len(es) - j \in T
      OBVIOUS
    <3>2. x <= Len(es) - j
      BY <1>2, <3>1
    <3> QED BY <1>1, <2>1, <3>2
  <2> QED BY <2>2
<1> QED BY <1>3 DEF LastOf

\* A ParamSet request leaves a whole configuration, in range if it was in range before.
LEMMA ApplyEntriesKeeps ==
    ASSUME NEW c \in Config, NEW es \in Seq(Entries)
    PROVE  /\ ApplyEntries(c, es) \in Config
           /\ ScalarsInRange(c) => ScalarsInRange(ApplyEntries(c, es))
<1> DEFINE np == [p \in Params |->
                    IF AcceptedFor(p, es) = {} THEN c.par[p]
                    ELSE Coerce(p, es[LastOf(AcceptedFor(p, es))].value)]
<1>1. ASSUME NEW p \in Params, AcceptedFor(p, es) # {}
      PROVE  np[p] \in Int /\ InRange(np[p])
  <2> DEFINE k == LastOf(AcceptedFor(p, es))
  <2>1. k \in AcceptedFor(p, es)
    BY <1>1, LastOfIsMember
  <2>2. k \in DOMAIN es /\ ParamSetCode(es[k]) = "Ok"
    BY <2>1 DEF AcceptedFor
  <2>3. es[k] \in Entries
    BY <2>2
  <2>4. es[k].value \in Int /\ InRange(es[k].value)
    BY <2>2, <2>3 DEF ParamSetCode, Entries
  <2>5. np[p] = Coerce(p, es[k].value)
    BY <1>1
  <2> QED BY <2>4, <2>5, CoerceInRange
<1>2. \A p \in Params : np[p] \in Int /\ (InRange(c.par[p]) => InRange(np[p]))
  BY <1>1 DEF Config
<1>3. ApplyEntries(c, es) = [c EXCEPT !.par = np]
  BY DEF ApplyEntries
<1>4. np \in [Params -> Int]
  BY <1>2
<1> HIDE DEF np
<1> QED BY <1>2, <1>3, <1>4 DEF Config, ScalarsInRange

\* table_write_axis leaves an axis of the same length.
LEMMA WriteAxisKeeps ==
    ASSUME NEW axis \in [1 .. AxisLen -> Int], NEW vs \in Seq(Int)
    PROVE  WriteAxis(axis, vs) \in [1 .. AxisLen -> Int]
BY NumberAssumption DEF WriteAxis

\* The wheel geometry of a whole configuration is a whole geometry.
LEMMA GeometryType ==
    ASSUME NEW c \in Config
    PROVE  GeometryOf(c) \in [Geometry -> Int]
BY ParamAssumption DEF GeometryOf, Config

----------------------------------------------------------------------------
(* The invariant is inductive.                                             *)

\* A Config handler that stages a whole, in-range configuration and keeps dirty and the checksum
\* honest keeps the invariant: the publication that ends it restores the rest.
LEMMA HandlerKeepsInv ==
    ASSUME Inv, inbox # None, NEW reply,
           PublishAndReply(reply),
           ram' \in Config, ScalarsInRange(ram)',
           flash' \in Config, ScalarsInRange(flash)',
           dirty' \in BOOLEAN, CleanMeansSaved', FlashCrcMatches'
    PROVE  Inv'
<1> USE EpochAssumption DEF Inv, PublishAndReply, control
<1>1. TypeOK'
  BY DEF TypeOK, PendingRequest
<1>2. PublishedIsRam' /\ PendingRequest'
  BY DEF PublishedIsRam, PendingRequest
<1>3. (lastEpoch <= epoch)' /\ ControlInSync'
  BY DEF TypeOK, ControlInSync
<1>4. DecoderMatchesConfig' /\ ScalarsInRange(cfg)'
  BY DEF DecoderMatchesConfig, GeometryOf, ScalarsInRange, InRange
<1> QED BY <1>1, <1>2, <1>3, <1>4

\* Every handler of the comms task keeps the invariant.
LEMMA CommsKeepsInv == Inv /\ CommsStep => Inv'
<1> SUFFICES ASSUME Inv, CommsStep PROVE Inv'
  OBVIOUS
<1>0. /\ ram \in Config /\ flash \in Config /\ ScalarsInRange(ram) /\ ScalarsInRange(flash)
      /\ dirty \in BOOLEAN /\ CleanMeansSaved /\ FlashCrcMatches
      /\ inbox # None => inbox \in Requests
  BY DEF Inv, TypeOK, PendingRequest
<1>1. CASE ParamSet
  <2>1. inbox.entries \in Seq(Entries)
    BY <1>0, <1>1 DEF ParamSet, Serving, Requests
  <2>2. ram' \in Config /\ ScalarsInRange(ram)'
    <3>1. ram' = ApplyEntries(ram, inbox.entries)
      BY <1>1 DEF ParamSet
    <3>2. ApplyEntries(ram, inbox.entries) \in Config /\ ScalarsInRange(ApplyEntries(ram, inbox.entries))
      BY <1>0, <2>1, ApplyEntriesKeeps
    <3> QED BY <3>1, <3>2 DEF ScalarsInRange, InRange
  <2>3. flash' \in Config /\ ScalarsInRange(flash)' /\ dirty' \in BOOLEAN /\ FlashCrcMatches'
    BY <1>0, <1>1 DEF ParamSet, ScalarsInRange, InRange, FlashCrcMatches
  <2>4. CleanMeansSaved'
    <3>1. SUFFICES ASSUME ~dirty' PROVE ram' = flash'
      BY DEF CleanMeansSaved
    <3>2. \A k \in DOMAIN inbox.entries : ParamSetCode(inbox.entries[k]) # "Ok"
      BY <1>1, <3>1 DEF ParamSet
    <3>3. \A p \in Params : AcceptedFor(p, inbox.entries) = {}
      BY <3>2 DEF AcceptedFor
    <3>4. ApplyEntries(ram, inbox.entries) = [ram EXCEPT !.par = [p \in Params |-> ram.par[p]]]
      BY <3>3 DEF ApplyEntries
    <3>5. ApplyEntries(ram, inbox.entries) = ram
      BY <1>0, <3>4 DEF Config
    <3>6. ram = flash
      BY <1>0, <1>1, <3>1 DEF ParamSet, CleanMeansSaved
    <3> QED BY <1>1, <3>5, <3>6 DEF ParamSet
  <2> QED BY <1>1, <2>2, <2>3, <2>4, HandlerKeepsInv DEF ParamSet, Serving
<1>2. CASE TableSetCell
  <2> USE DEF TableSetCell
  <2>1. ram' \in Config /\ ScalarsInRange(ram)'
    BY <1>0, <1>2 DEF Config, ScalarsInRange, Serving, Requests, InRange
  <2>2. flash' \in Config /\ ScalarsInRange(flash)' /\ dirty' \in BOOLEAN /\ FlashCrcMatches'
    BY <1>0, <1>2 DEF ScalarsInRange, InRange, FlashCrcMatches
  <2>3. CleanMeansSaved'
    BY <1>0, <1>2 DEF CleanMeansSaved
  <2>4. \E r : PublishAndReply(r)
    BY <1>2
  <2> QED BY <1>2, <2>1, <2>2, <2>3, <2>4, HandlerKeepsInv DEF Serving
<1>3. CASE TableSetAxis
  <2> USE DEF TableSetAxis
  <2>1. inbox.values \in Seq(Int)
    BY <1>0, <1>3 DEF Serving, Requests
  <2>2. WriteAxis(ram.axis, inbox.values) \in [1 .. AxisLen -> Int]
    BY <1>0, <2>1, WriteAxisKeeps DEF Config
  <2>3. ram' \in Config /\ ScalarsInRange(ram)'
    BY <1>0, <1>3, <2>2 DEF Config, ScalarsInRange, InRange
  <2>4. flash' \in Config /\ ScalarsInRange(flash)' /\ dirty' \in BOOLEAN /\ FlashCrcMatches'
    BY <1>0, <1>3 DEF ScalarsInRange, InRange, FlashCrcMatches
  <2>5. CleanMeansSaved'
    BY <1>0, <1>3 DEF CleanMeansSaved
  <2>6. \E r : PublishAndReply(r)
    BY <1>3
  <2> QED BY <1>3, <2>3, <2>4, <2>5, <2>6, HandlerKeepsInv DEF Serving
<1>4. CASE ConfigSave
  <2>1. /\ ram' \in Config /\ ScalarsInRange(ram)' /\ flash' \in Config /\ ScalarsInRange(flash)'
        /\ dirty' \in BOOLEAN /\ FlashCrcMatches' /\ CleanMeansSaved'
    BY <1>0, <1>4 DEF ConfigSave, ScalarsInRange, InRange, FlashCrcMatches, CleanMeansSaved
  <2> QED BY <1>4, <2>1, HandlerKeepsInv DEF ConfigSave, Serving
<1>5. CASE ConfigDiscard
  <2>1. /\ ram' \in Config /\ ScalarsInRange(ram)' /\ flash' \in Config /\ ScalarsInRange(flash)'
        /\ dirty' \in BOOLEAN /\ FlashCrcMatches' /\ CleanMeansSaved'
    BY <1>0, <1>5 DEF ConfigDiscard, ScalarsInRange, InRange, FlashCrcMatches, CleanMeansSaved
  <2> QED BY <1>5, <2>1, HandlerKeepsInv DEF ConfigDiscard, Serving
<1>6. CASE ConfigResetDefaults
  <2> USE DEF ConfigResetDefaults
  <2>1. ScalarsInRange(Defaults)
    BY DefaultsAssumption DEF ScalarsInRange, InRange
  <2>2. ram' \in Config /\ ScalarsInRange(ram)'
    BY <1>0, <1>6, <2>1, DefaultsAssumption DEF ScalarsInRange, InRange
  <2>3. flash' \in Config /\ ScalarsInRange(flash)' /\ dirty' \in BOOLEAN /\ FlashCrcMatches'
    BY <1>0, <1>6 DEF ScalarsInRange, InRange, FlashCrcMatches
  <2>4. CleanMeansSaved'
    BY <1>0, <1>6 DEF CleanMeansSaved
  <2>5. \E r : PublishAndReply(r)
    BY <1>6
  <2> QED BY <1>6, <2>2, <2>3, <2>4, <2>5, HandlerKeepsInv DEF Serving
<1>7. CASE ConfigStatus
  <2>1. /\ ram' \in Config /\ ScalarsInRange(ram)' /\ flash' \in Config /\ ScalarsInRange(flash)'
        /\ dirty' \in BOOLEAN /\ FlashCrcMatches' /\ CleanMeansSaved'
    BY <1>0, <1>7 DEF ConfigStatus, staging, ScalarsInRange, InRange, FlashCrcMatches, CleanMeansSaved
  <2> QED BY <1>7, <2>1, HandlerKeepsInv DEF ConfigStatus, Serving
<1>8. CASE ConfigOther
  <2>1. /\ ram' \in Config /\ ScalarsInRange(ram)' /\ flash' \in Config /\ ScalarsInRange(flash)'
        /\ dirty' \in BOOLEAN /\ FlashCrcMatches' /\ CleanMeansSaved'
    BY <1>0, <1>8 DEF ConfigOther, staging, ScalarsInRange, InRange, FlashCrcMatches, CleanMeansSaved
  <2> QED BY <1>8, <2>1, HandlerKeepsInv DEF ConfigOther, Serving
<1>9. CASE Reboot
  <2>1. TypeOK' /\ (lastEpoch <= epoch)' /\ PendingRequest'
    <3>1. GeometryOf(Defaults) \in [Geometry -> Int]
      BY GeometryType, DefaultsAssumption
    <3>2. (ram \in Config)' /\ (flash \in Config)' /\ (shared \in Config)' /\ (cfg \in Config)'
      BY <1>9, DefaultsAssumption DEF Reboot
    <3>3. epoch' = 1 /\ lastEpoch' = 1 /\ 1 \in 1 .. MaxEpoch
      BY <1>9, EpochAssumption DEF Reboot
    <3>4. dirty' \in BOOLEAN /\ pubRunning' \in BOOLEAN /\ turning' \in BOOLEAN
      BY <1>9 DEF Reboot, Inv, TypeOK
    <3>5. ctl' = "top" /\ host' \in {"idle", "waiting"} /\ inbox' = None /\ outbox' = None
      BY <1>9 DEF Reboot, Inv, TypeOK
    <3>6. decoder' = GeometryOf(Defaults)
      BY <1>9 DEF Reboot
    <3> QED BY <3>1, <3>2, <3>3, <3>4, <3>5, <3>6 DEF TypeOK, PendingRequest
  <2>2. CleanMeansSaved' /\ FlashCrcMatches' /\ PublishedIsRam' /\ ControlInSync' /\ DecoderMatchesConfig'
    BY <1>9 DEF Reboot, CleanMeansSaved, FlashCrcMatches, PublishedIsRam, ControlInSync,
                DecoderMatchesConfig, GeometryOf
  <2>3. ScalarsInRange(ram)' /\ ScalarsInRange(flash)' /\ ScalarsInRange(cfg)'
    BY <1>9, DefaultsAssumption DEF Reboot, ScalarsInRange, InRange
  <2> QED BY <2>1, <2>2, <2>3 DEF Inv
<1> QED BY <1>1, <1>2, <1>3, <1>4, <1>5, <1>6, <1>7, <1>8, <1>9 DEF CommsStep

\* Every step of the control loop keeps the invariant; only RefreshConfig moves its copy.
LEMMA ControlKeepsInv == Inv /\ ControlStep => Inv'
<1> SUFFICES ASSUME Inv, ControlStep PROVE Inv'
  OBVIOUS
<1>1. CASE RefreshConfig
  <2> USE <1>1 DEF RefreshConfig, staging, published, link
  <2>1. PublishedIsRam' /\ CleanMeansSaved' /\ FlashCrcMatches' /\ PendingRequest'
    BY DEF Inv, PublishedIsRam, CleanMeansSaved, FlashCrcMatches, PendingRequest
  <2>2. ScalarsInRange(ram)' /\ ScalarsInRange(flash)' /\ ScalarsInRange(cfg)'
    BY DEF Inv, PublishedIsRam, ScalarsInRange, InRange
  <2>3. (lastEpoch <= epoch)' /\ ControlInSync'
    BY DEF Inv, PublishedIsRam, ControlInSync, TypeOK
  <2>4. DecoderMatchesConfig'
    BY DEF Inv, DecoderMatchesConfig, GeometryOf
  <2>5. TypeOK'
    BY ParamAssumption DEF Inv, TypeOK, GeometryOf, Config
  <2> QED BY <2>1, <2>2, <2>3, <2>4, <2>5 DEF Inv
<1>2. CASE CrankPulse \/ StartFiring \/ EndFiring \/ Yield
  <2>1. /\ UNCHANGED <<staging, published, cfg, lastEpoch, decoder, turning, link>>
        /\ ctl' \in {"top", "drain", "fire"} /\ pubRunning' \in BOOLEAN
    BY <1>2 DEF CrankPulse, StartFiring, EndFiring, Yield, Inv, TypeOK, control
  <2> QED BY <2>1
      DEF staging, published, link, Inv, TypeOK, CleanMeansSaved, FlashCrcMatches, PublishedIsRam, ControlInSync,
          DecoderMatchesConfig, GeometryOf, ScalarsInRange, InRange, PendingRequest
<1> QED BY <1>1, <1>2 DEF ControlStep

\* The engine and the host keep the invariant; a request is only sent with an epoch to spare.
LEMMA EnvironmentKeepsInv == Inv /\ Environment => Inv'
<1> SUFFICES ASSUME Inv, Environment PROVE Inv'
  OBVIOUS
<1>1. UNCHANGED <<staging, published, control>> /\ turning' \in BOOLEAN
  BY DEF Environment, EngineStarts, EngineStops, HostSend, ReplyDelivered, Inv, TypeOK
<1>2. /\ inbox' \in HostRequests \cup {None} /\ host' \in {"idle", "waiting"} /\ PendingRequest'
  <2>1. CASE EngineStarts \/ EngineStops
    BY <2>1 DEF EngineStarts, EngineStops, link, Inv, TypeOK, PendingRequest, published
  <2>2. CASE HostSend
    BY <2>2, RequestAssumption DEF HostSend, Inv, TypeOK, PendingRequest, published
  <2>3. CASE ReplyDelivered
    BY <2>3 DEF ReplyDelivered, Inv, TypeOK, PendingRequest, published
  <2> QED BY <2>1, <2>2, <2>3 DEF Environment
<1> QED BY <1>1, <1>2
    DEF staging, published, control, Inv, TypeOK, CleanMeansSaved, FlashCrcMatches, PublishedIsRam,
        ControlInSync, DecoderMatchesConfig, GeometryOf, ScalarsInRange, InRange

\* The power-on state satisfies the invariant.
LEMMA InitInv == Init => Inv
<1> SUFFICES ASSUME Init PROVE Inv
  OBVIOUS
<1>1. TypeOK /\ PendingRequest /\ lastEpoch <= epoch
  <2>1. ram \in Config /\ flash \in Config /\ shared \in Config /\ cfg \in Config
    BY DefaultsAssumption DEF Init
  <2>2. decoder \in [Geometry -> Int]
    BY DefaultsAssumption, GeometryType DEF Init
  <2>3. epoch \in 1 .. MaxEpoch /\ lastEpoch \in 1 .. MaxEpoch /\ lastEpoch <= epoch
    BY EpochAssumption DEF Init
  <2>4. dirty \in BOOLEAN /\ pubRunning \in BOOLEAN /\ turning \in BOOLEAN
    BY DEF Init
  <2>5. ctl \in {"top", "drain", "fire"} /\ host \in {"idle", "waiting"} /\ inbox \in HostRequests \cup {None}
    BY DEF Init
  <2>6. PendingRequest
    BY DEF Init, PendingRequest
  <2> QED BY <2>1, <2>2, <2>3, <2>4, <2>5, <2>6 DEF TypeOK
<1>2. ScalarsInRange(Defaults)
  BY DefaultsAssumption DEF ScalarsInRange, InRange
<1> QED BY <1>1, <1>2
    DEF Init, Inv, CleanMeansSaved, FlashCrcMatches, PublishedIsRam, ControlInSync, DecoderMatchesConfig

\* Every step, stuttering included, keeps the invariant.
LEMMA NextInv == Inv /\ [Next]_vars => Inv'
<1>1. ASSUME Inv, UNCHANGED vars PROVE Inv'
  BY <1>1 DEF vars, staging, published, control, link, Inv, TypeOK, CleanMeansSaved, FlashCrcMatches,
      PublishedIsRam, ControlInSync, DecoderMatchesConfig, GeometryOf, ScalarsInRange, InRange, PendingRequest
<1> QED BY <1>1, CommsKeepsInv, ControlKeepsInv, EnvironmentKeepsInv DEF Next

\* The inductive invariant holds in every reachable state.
THEOREM InvHolds == Spec => []Inv
BY InitInv, NextInv, PTL DEF Spec

----------------------------------------------------------------------------
\* Types are kept, for every catalog and every set of requests.
THEOREM TypeCorrect == Spec => []TypeOK
<1>1. Inv => TypeOK
  BY DEF Inv
<1> QED BY <1>1, InvHolds, PTL

\* A server that reports no unsaved edits holds the saved configuration (rdp.rs, dirty).
THEOREM CleanIsSaved == Spec => []CleanMeansSaved
<1>1. Inv => CleanMeansSaved
  BY DEF Inv
<1> QED BY <1>1, InvHolds, PTL

\* The checksum reported for flash is that of the saved configuration, for any checksum function.
THEOREM FlashCrcIsHonest == Spec => []FlashCrcMatches
<1>1. Inv => FlashCrcMatches
  BY DEF Inv
<1> QED BY <1>1, InvHolds, PTL

\* A control loop that has seen the latest epoch runs on the server's configuration (refresh_config).
THEOREM ControlFollowsServer == Spec => []ControlInSync
<1>1. Inv => ControlInSync
  BY DEF Inv
<1> QED BY <1>1, InvHolds, PTL

\* The decoder the control loop uses was built for the wheel it is configured for.
THEOREM DecoderIsRebuilt == Spec => []DecoderMatchesConfig
<1>1. Inv => DecoderMatchesConfig
  BY DEF Inv
<1> QED BY <1>1, InvHolds, PTL

\* No scalar or cell outside its descriptor's range reaches the control loop.
THEOREM ControlStaysInRange == Spec => []ControlInRange
<1>1. Inv => ControlInRange
  BY DEF Inv, ControlInRange
<1> QED BY <1>1, InvHolds, PTL

\* A step that may not touch the stopped-only parameters leaves them alone (apply_param_set, Busy).
LEMMA StepLeavesStoppedOnly ==
    ASSUME Inv, [Next]_vars, pubRunning, ~ConfigDiscard, ~Reboot, NEW p \in StoppedOnly
    PROVE  ram'.par[p] = ram.par[p]
<1>0. p \in Params /\ ram \in Config
  BY ParamAssumption DEF Inv, TypeOK
<1>1. CASE ParamSet
  <2>1. inbox.entries \in Seq(Entries)
    BY <1>1 DEF ParamSet, Serving, Requests, Inv, PendingRequest
  <2>2. AcceptedFor(p, inbox.entries) = {}
    BY <1>0, <2>1 DEF AcceptedFor, ParamSetCode
  <2>3. ApplyEntries(ram, inbox.entries).par[p] = ram.par[p]
    BY <1>0, <2>2 DEF ApplyEntries, Config
  <2> QED BY <1>1, <2>3 DEF ParamSet
<1>2. CASE TableSetCell
  BY <1>0, <1>2 DEF TableSetCell, Config
<1>3. CASE TableSetAxis
  BY <1>0, <1>3 DEF TableSetAxis, Config
<1>4. CASE ConfigSave \/ ConfigResetDefaults \/ ConfigStatus \/ ConfigOther
  BY <1>4 DEF ConfigSave, ConfigResetDefaults, ConfigStatus, ConfigOther, staging
<1>5. CASE ControlStep \/ Environment \/ UNCHANGED vars
  BY <1>5 DEF ControlStep, RefreshConfig, CrankPulse, StartFiring, EndFiring, Yield, Environment,
      EngineStarts, EngineStops, HostSend, ReplyDelivered, vars, staging
<1> QED BY <1>1, <1>2, <1>3, <1>4, <1>5 DEF Next, CommsStep

\* While the server takes the engine to be running, only ConfigDiscard and a reset of the processor
\* move a parameter flagged PFLAG_ENGINE_STOPPED_ONLY.
THEOREM StoppedOnlyGuarded == Spec => OnlyDiscardMovesStoppedOnly
<1>1. Inv /\ [Next]_vars =>
        [pubRunning /\ ~ConfigDiscard /\ ~Reboot => \A p \in StoppedOnly : ram'.par[p] = ram.par[p]]_vars
  BY StepLeavesStoppedOnly
<1> QED BY <1>1, InvHolds, PTL DEF Spec, OnlyDiscardMovesStoppedOnly
=============================================================================
