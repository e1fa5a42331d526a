----------------------------- MODULE CrankLoop -----------------------------
(***************************************************************************)
(* The control loop of the firmware (stm32/src/main.rs) as a consumer of   *)
(* crank and cam edges: it drains the queue the EXTI tasks fill, decodes   *)
(* each edge, and at the reference tooth charges and fires every coil and, *)
(* out of sequential mode, opens every injector.  In sequential mode       *)
(* (engine-core/src/engine_cycle) it opens an injector once per cycle in   *)
(* the window of its cylinder.  Each charge and each opening is a sleep.   *)
(*                                                                         *)
(* All tasks share one cooperative executor: edges enter the queues only   *)
(* while the loop sleeps or yields.  Cam edges are looked at when the      *)
(* crank queue is empty.                                                   *)
(*                                                                         *)
(* The wheel turns once per engine cycle (engine_cycle_deg = 720, as       *)
(* hal-sim generates it) at a constant speed above 50 rpm.  What matters   *)
(* of the speed is how many edges a sleep lets in, at most; the amounts of *)
(* fuel and the dwell are left out, and compute_ignition and               *)
(* compute_injection are taken to return Some.  The sensors and the        *)
(* actuators the same loop drives are left out.                            *)
(***************************************************************************)
EXTENDS MissingTooth

CONSTANTS
    NormalEdges,    \* edges between two gap edges
    Period,         \* time of one tooth
    CamTooth,       \* the cam pulse follows this edge; None without a cam sensor
    FiringOrder,    \* cfg.firing_order
    Lead,           \* injection_start_deg
    QueueCap,       \* edges the crank queue holds
    Speeds,         \* engine speeds: edges that can arrive during one sleep or yield
    Decelerations,  \* answers dfco.update may give
    SparkCuts       \* answers rpm_limiter.update may give

Cylinders == {FiringOrder[i] : i \in DOMAIN FiringOrder}

ASSUME LoopAssumption ==
    /\ NormalEdges \in Nat \ {0} /\ Period \in Nat \ {0} /\ QueueCap \in Nat \ {0}
    /\ CamTooth \in 0 .. NormalEdges \cup {None} /\ Speeds \subseteq Nat
    /\ FiringOrder \in Seq(Nat) /\ FiringOrder # <<>>
    /\ \A i, j \in DOMAIN FiringOrder : FiringOrder[i] = FiringOrder[j] => i = j
    /\ Lead \in Nat /\ 720 % TotalTeeth = 0 /\ 720 % Len(FiringOrder) = 0
    /\ Decelerations \subseteq BOOLEAN /\ SparkCuts \subseteq BOOLEAN

VARIABLES
    speed,      \* the speed of the engine
    pos,        \* the wheel: edges since the last gap edge
    cammed,     \* the wheel: the cam has given its pulse since the last gap edge
    carry,      \* time from the last edge in the queue to the last edge (edges may be dropped)
    crankQ,     \* CRANK_QUEUE: for each edge the time since the one before it in the queue
    camQ,       \* CAM_QUEUE is not empty
    budget,     \* edges that may still arrive before the loop gets the processor back
    decoder,
    seqActive,  \* SequentialInjection.sequential_active
    injected,   \* cycle_injected: cylinders the sequential path has served
    dfcoActive, \* dfco_active
    jobs,       \* coils and injectors to drive for this tooth; the loop sleeps in the first
    yielding,   \* the loop is inside yield_now
    fuel,       \* injections of each cylinder since the last reference tooth (history)
    batched,    \* the last reference tooth injected in batch (history)
    lost        \* an edge has been dropped (history)

wheel == <<speed, pos, cammed, carry>>
queues == <<crankQ, camQ>>
loop == <<decoder, seqActive, injected, dfcoActive, jobs, yielding>>
history == <<fuel, batched, lost>>
vars == <<wheel, queues, budget, loop, history>>

Init ==
    /\ speed \in Speeds
    /\ pos \in 0 .. NormalEdges /\ cammed = FALSE /\ carry = 0
    /\ crankQ = <<>> /\ camQ = FALSE /\ budget = 0
    /\ decoder = NewDecoder /\ seqActive = FALSE /\ injected = {} /\ dfcoActive = FALSE
    /\ jobs = <<>> /\ yielding = FALSE
    /\ fuel = [c \in Cylinders |-> 0] /\ batched = FALSE /\ lost = FALSE

----------------------------------------------------------------------------
(* The wheel and the EXTI tasks.                                           *)

Panicked == jobs # <<>> /\ Head(jobs).do = "panic"
Ready == jobs = <<>> /\ ~yielding
Asleep == ~Ready /\ ~Panicked

Turn(p) == IF p = NormalEdges THEN 0 ELSE p + 1
EdgeTime(p) == IF p = NormalEdges THEN ExpectedGapRatio * Period ELSE Period

\* crank_exti_task: a full queue drops the edge.
CrankEdge ==
    /\ Asleep /\ budget > 0
    /\ pos = CamTooth => cammed
    /\ pos' = Turn(pos) /\ cammed' = (cammed /\ pos # NormalEdges)
    /\ IF Len(crankQ) < QueueCap
       THEN crankQ' = Append(crankQ, carry + EdgeTime(pos)) /\ carry' = 0 /\ UNCHANGED lost
       ELSE UNCHANGED crankQ /\ carry' = carry + EdgeTime(pos) /\ lost' = TRUE
    /\ budget' = budget - 1
    /\ UNCHANGED <<speed, camQ, loop, fuel, batched>>

CamEdge ==
    /\ Asleep /\ budget > 0
    /\ pos = CamTooth /\ ~cammed
    /\ cammed' = TRUE /\ camQ' = TRUE
    /\ UNCHANGED <<speed, pos, carry, crankQ, budget, loop, history>>

----------------------------------------------------------------------------
(* Sequential injection.                                                   *)

Angle(d) == (d.count * (720 \div TotalTeeth) + (IF d.sync = "FullSync" /\ d.phase THEN 360 ELSE 0)) % 720

Place(c) == CHOOSE i \in DOMAIN FiringOrder : FiringOrder[i] = c
TdcOffset(c) == (Place(c) - 1) * (720 \div Len(FiringOrder))
InWindow(c, angle) ==
    LET start == TdcOffset(c)
        end == (start + 180) % 720
    IN IF start > end THEN angle >= start \/ angle < end ELSE angle >= start /\ angle < end

\* SequentialInjection::update returns the first of these.
Scheduled(d) ==
    IF d.sync # "FullSync" THEN {}
    ELSE LET open == {c \in Cylinders : InWindow(c, (Angle(d) + Lead) % 720)}
         IN {c \in open : \A o \in open : c <= o}

----------------------------------------------------------------------------
(* One tooth.                                                              *)

Result == ProcessCrank(decoder, Head(crankQ))
Draining == Ready /\ crankQ # <<>>

Sleep(work) == jobs' = work /\ budget' = IF work = <<>> THEN 0 ELSE speed

\* tdc_angles_from_firing_order keeps this many angles.
TdcAngles == 4

\* The work at the reference tooth, cylinder by cylinder; looking up an angle that was not kept
\* panics, and panic_probe halts the processor.
JobsOf(actions) ==
    LET driven == IF Len(FiringOrder) < TdcAngles THEN Len(FiringOrder) ELSE TdcAngles
    IN [i \in 1 .. driven * Len(actions) |->
          [do |-> actions[1 + ((i - 1) % Len(actions))], cyl |-> FiringOrder[1 + ((i - 1) \div Len(actions))]]]
       \o (IF Len(FiringOrder) > TdcAngles
           THEN <<[do |-> "panic", cyl |-> FiringOrder[TdcAngles + 1]]>> ELSE <<>>)
ReferenceJobs_TwoPulses(cut, batch) == JobsOf(<<"fire", "inject", "inject">>)
ReferenceJobs(cut, batch) ==
    JobsOf((IF cut THEN <<>> ELSE <<"fire">>) \o (IF batch THEN <<"inject">> ELSE <<>>))

\* The cylinders the sequential path serves at this tooth.
ToServe_Again(d, served, cut) == IF cut THEN {} ELSE Scheduled(d)
ToServe_IgnoreCut(d, served, cut) == Scheduled(d) \ served
ToServe(d, served, cut) == IF cut THEN {} ELSE Scheduled(d) \ served
SequentialJobs(cs) == IF cs = {} THEN <<>> ELSE <<[do |-> "inject", cyl |-> CHOOSE c \in cs : TRUE]>>

\* A sync point at which the engine speed is known: the updates of a cycle, ignition, batch
\* injection if the tooth before was not in sequential mode, then the sequential path.
ReferenceTooth ==
    /\ Draining /\ Result.err = None
    /\ Result.dec.count = 0 /\ Synced(Result.dec) /\ Result.dec.rpm # 0
    /\ decoder' = Result.dec
    /\ dfcoActive' \in Decelerations
    /\ batched' = (~seqActive /\ ~dfcoActive')
    /\ injected' = ToServe(decoder', {}, dfcoActive')
    /\ \E cut \in SparkCuts : Sleep(ReferenceJobs(cut, batched') \o SequentialJobs(injected'))
    /\ seqActive' = (decoder'.sync = "FullSync")
    /\ fuel' = [c \in Cylinders |-> 0]
    /\ crankQ' = Tail(crankQ)
    /\ UNCHANGED <<wheel, camQ, yielding, lost>>

\* Any other tooth with a known speed.
PlainTooth ==
    /\ Draining /\ Result.err = None
    /\ Result.dec.count # 0 /\ Result.dec.rpm # 0
    /\ decoder' = Result.dec
    /\ LET serve == ToServe(decoder', injected, dfcoActive)
       IN injected' = injected \cup serve /\ Sleep(SequentialJobs(serve))
    /\ seqActive' = (decoder'.sync = "FullSync")
    /\ crankQ' = Tail(crankQ)
    /\ UNCHANGED <<wheel, camQ, dfcoActive, yielding, history>>

\* No estimate of the speed yet: the rest of the pass is skipped.
SlowTooth ==
    /\ Draining /\ Result.err = None /\ Result.dec.rpm = 0
    /\ decoder' = Result.dec
    /\ IF decoder'.count = 0
       THEN injected' = {} /\ fuel' = [c \in Cylinders |-> 0] /\ batched' = FALSE
       ELSE UNCHANGED <<injected, fuel, batched>>
    /\ crankQ' = Tail(crankQ)
    /\ UNCHANGED <<wheel, camQ, budget, seqActive, dfcoActive, jobs, yielding, lost>>

\* A trigger error resets the decoder and nothing else.
BadTooth ==
    /\ Draining /\ Result.err # None
    /\ decoder' = Reset(Result.dec)
    /\ crankQ' = Tail(crankQ)
    /\ UNCHANGED <<wheel, camQ, budget, seqActive, injected, dfcoActive, jobs, yielding, history>>

\* A sleep ends: the coil fires or the injector closes.
FinishJob ==
    /\ jobs # <<>> /\ ~Panicked
    /\ LET job == Head(jobs)
       IN fuel' = IF job.do = "inject" THEN [fuel EXCEPT ![job.cyl] = @ + 1] ELSE fuel
    /\ Sleep(Tail(jobs))
    /\ UNCHANGED <<wheel, queues, decoder, seqActive, injected, dfcoActive, yielding, batched, lost>>

\* The crank queue is empty: drain the cam queue, then yield.
CamThenYield_CamStays ==
    /\ Ready /\ crankQ = <<>>
    /\ decoder' = IF camQ THEN ProcessCam(decoder, 0).dec ELSE decoder
    /\ yielding' = TRUE /\ budget' = speed
    /\ UNCHANGED <<wheel, queues, seqActive, injected, dfcoActive, jobs, history>>
CamThenYield_AfterCam ==
    /\ Ready /\ crankQ = <<>>
    /\ decoder' = IF camQ THEN ProcessCam(decoder, 0).dec ELSE decoder
    /\ camQ' = FALSE
    /\ yielding' = camQ /\ budget' = IF camQ THEN speed ELSE 0
    /\ UNCHANGED <<wheel, crankQ, seqActive, injected, dfcoActive, jobs, history>>
CamThenYield ==
    /\ Ready /\ crankQ = <<>>
    /\ decoder' = IF camQ THEN ProcessCam(decoder, 0).dec ELSE decoder
    /\ camQ' = FALSE
    /\ yielding' = TRUE /\ budget' = speed
    /\ UNCHANGED <<wheel, crankQ, seqActive, injected, dfcoActive, jobs, history>>

Resume ==
    /\ yielding
    /\ yielding' = FALSE /\ budget' = 0
    /\ UNCHANGED <<wheel, queues, decoder, seqActive, injected, dfcoActive, jobs, history>>

LoopStep ==
    ReferenceTooth \/ PlainTooth \/ SlowTooth \/ BadTooth \/ FinishJob \/ CamThenYield \/ Resume

Next == CrankEdge \/ CamEdge \/ LoopStep

Spec == Init /\ [][Next]_vars

\* The loop runs whenever it is ready.  Only EveryCylinderFuelled needs an engine that turns.
FairSpec == Spec /\ WF_vars(LoopStep)
TurningSpec == FairSpec /\ SF_vars(CrankEdge) /\ SF_vars(CamEdge)

----------------------------------------------------------------------------
(* Properties.                                                             *)

TypeOK ==
    /\ pos \in 0 .. NormalEdges /\ cammed \in BOOLEAN /\ carry \in Nat
    /\ crankQ \in Seq(Nat) /\ Len(crankQ) <= QueueCap /\ camQ \in BOOLEAN
    /\ speed \in Speeds /\ budget \in 0 .. speed
    /\ decoder \in Decoder /\ seqActive \in BOOLEAN /\ dfcoActive \in BOOLEAN
    /\ injected \subseteq Cylinders
    /\ jobs \in Seq([do : {"fire", "inject", "panic"}, cyl : Cylinders])
    /\ yielding \in BOOLEAN
    /\ fuel \in [Cylinders -> Nat] /\ batched \in BOOLEAN /\ lost \in BOOLEAN

\* In one cycle a cylinder gets at most the batch injection and one sequential injection, whatever
\* edges are lost and wherever the cam pulse falls.
FuelIsBounded ==
    \A c \in Cylinders :
        fuel[c] <= (IF batched THEN 1 ELSE 0) + (IF c \in injected THEN 1 ELSE 0)

\* A fuel cut decided at the reference tooth lasts for the whole cycle, in both modes.
CutLasts == dfcoActive => \A c \in Cylinders : fuel[c] = 0

\* The edges that may come while all coils and injectors of a reference tooth are driven one after the
\* other; that may wait at the gap edge (the rest of a yield, and what an injection before it lets in
\* beside the edge it follows); and that may wait at all.
Busy == 2 * Len(FiringOrder) * speed
Waiting == (Len(FiringOrder) + 1) * (speed - 1)
Peak == Waiting + Busy + Len(FiringOrder) * (speed - 1)

\* The queue holds them all, and is empty again before the next gap edge enters it.
Roomy == Peak <= QueueCap /\ Waiting + Busy + Len(FiringOrder) * speed <= NormalEdges

\* The cam tooth comes after the edges let in by a reference tooth, and what one yield may let in
\* after it takes the count neither past the half of the wheel nor past the gap edge.
CamIsClear ==
    /\ CamTooth # None
    /\ Waiting + Busy < CamTooth /\ CamTooth + speed <= NormalEdges
    /\ CamTooth > PresentTeeth \div 2 \/ CamTooth + speed <= PresentTeeth \div 2

\* No edge is dropped, wherever the windows of the cylinders lie, as long as the queue is roomy: it
\* is emptied one edge at a time, while each injection may let in several.
QueueSuffices == Roomy => ~lost

\* The phase is that of the tooth the cam pulse came after, although the pulse is looked at after
\* all queued crank edges.
PhaseIsTrue ==
    Roomy /\ CamIsClear /\ decoder.sync = "FullSync"
        => decoder.phase = (CamTooth > PresentTeeth \div 2)

\* The drain loop ends again and again although edges arrive during its sleeps, so cam pulses,
\* configuration updates and the other tasks get their turn, as long as the at most three sleeps
\* per cylinder let in fewer edges than a cycle has.
LoopYields == []<>(yielding \/ speed > NormalEdges \div (3 * Len(FiringOrder)))

(* What comments say and the code does not do.                             *)

\* Injection is either sequential or "Batch injection (when not in sequential mode)": an engine that
\* turns without a fuel cut has every cylinder injected again and again.
EveryCylinderFuelled == \A c \in Cylinders : []<>(jobs # <<>> /\ Head(jobs) = [do |-> "inject", cyl |-> c])
\* tdc_angles_from_firing_order "Returns the TDC angles ... for each cylinder, given the firing
\* order", so looking up the angle of a cylinder of the firing order never panics.
NoPanic == ~Panicked
=============================================================================
